---- MODULE Planar ----
(***************************************************************************)
(* Planar poses, as racing_bringup's support node corrects and composes     *)
(* them: [x, y, yaw], on a grid, with yaw in quarter turns.                 *)
(***************************************************************************)
EXTENDS Integers

Cos(yaw) == CASE yaw % 4 = 0 -> 1 [] yaw % 4 = 2 -> -1 [] OTHER -> 0

Sin(yaw) == CASE yaw % 4 = 1 -> 1 [] yaw % 4 = 3 -> -1 [] OTHER -> 0

Planar(x, y, yaw) == [x |-> x, y |-> y, yaw |-> yaw % 4]

\* _planar_compose: first * second
PlanarCompose(first, second) ==
    Planar(first.x + Cos(first.yaw) * second.x - Sin(first.yaw) * second.y,
           first.y + Sin(first.yaw) * second.x + Cos(first.yaw) * second.y,
           first.yaw + second.yaw)

\* _planar_correction: map -> odom, of which (map -> odom) * deadReckoning is
\* the truth
PlanarCorrection(truth, deadReckoning) ==
    LET yaw == truth.yaw - deadReckoning.yaw
    IN Planar(truth.x - (Cos(yaw) * deadReckoning.x
                         - Sin(yaw) * deadReckoning.y),
              truth.y - (Sin(yaw) * deadReckoning.x
                         + Cos(yaw) * deadReckoning.y),
              yaw)

====
