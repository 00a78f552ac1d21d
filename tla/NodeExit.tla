---- MODULE NodeExit ----
(***************************************************************************)
(* How a Python node ends: main, let_rclpy_own_sigint and                   *)
(* spin_until_shutdown, which racing_sim_gym_jax, racing_bringup's support  *)
(* node and racing_evaluation each have a copy of.  Its exit code is what   *)
(* the launch, and the test that started it, go by.                         *)
(*                                                                          *)
(* Abstractions: rclpy and CPython are external: rclpy's handler wakes a    *)
(* thread that shuts the context down and passes the signal on to the       *)
(* handler that was there before it; CPython's default one raises           *)
(* KeyboardInterrupt at the next bytecode, which inside one of rclpy's C    *)
(* calls comes out as a RuntimeError.                                       *)
(***************************************************************************)
EXTENDS Integers

VARIABLES
    at,            \* "main", "init", "construct", "spin", "call", "except",
                   \* "finally" or "ended"
    handler,       \* Python's SIGINT handler: "default" or "noop"
    context,       \* "none", "ok" or "down"
    waking,        \* rclpy's handler has run, its shutdown has not
    due,           \* a KeyboardInterrupt is due at the next bytecode
    raised,        \* what spin raised: "none", "stop", "interrupt", "error"
    code,          \* the exit code; -1 before
    signalled,     \* history: where the one SIGINT found the node
    faulted        \* history: a callback raised while the context was up

exitVars ==
    <<at, handler, context, waking, due, raised, code, signalled,
      faulted>>

ExitInit ==
    /\ at = "main"
    /\ handler = "default"
    /\ context = "none"
    /\ waking = FALSE
    /\ due = FALSE
    /\ raised = "none"
    /\ code = -1
    /\ signalled = "never"
    /\ faulted = FALSE

----------------------------------------------------------------------------

\* SIGINT.  Before rclpy.init has installed its handler Python's is alone: the
\* default ends the process, the other one ignores the signal.
Sigint ==
    /\ signalled = "never" /\ at # "ended"
    /\ signalled' = at
    /\ waking' = (context = "ok")
    /\ IF handler = "default" /\ context = "none"
       THEN at' = "ended" /\ code' = 1 /\ UNCHANGED due
       ELSE /\ due' = (handler = "default")
            /\ UNCHANGED <<at, code>>
    /\ UNCHANGED <<handler, context, raised, faulted>>

\* rclpy's signal thread
ShutDown ==
    /\ waking
    /\ waking' = FALSE
    /\ context' = "down"
    /\ UNCHANGED <<at, handler, due, raised, code, signalled, faulted>>

----------------------------------------------------------------------------

\* Mutant of OwnSigint: Python's default handler stays.
MutantOwnSigint ==
    /\ at = "main"
    /\ at' = "init"
    /\ UNCHANGED <<handler, context, waking, due, raised, code,
                   signalled, faulted>>

\* let_rclpy_own_sigint
OwnSigint ==
    /\ at = "main"
    /\ at' = "init"
    /\ handler' = "noop"
    /\ UNCHANGED <<context, waking, due, raised, code, signalled,
                   faulted>>

\* main: rclpy.init
InitContext ==
    /\ at = "init"
    /\ at' = "construct"
    /\ context' = "ok"
    /\ UNCHANGED <<handler, waking, due, raised, code, signalled,
                   faulted>>

\* main: the node, outside of the try: a bad parameter, or a context that is
\* down by then, is an exit code of 1.
Construct ==
    /\ at = "construct"
    /\ \/ context = "ok" /\ at' = "spin" /\ UNCHANGED code
       \/ at' = "ended" /\ code' = 1
    /\ UNCHANGED <<handler, context, waking, due, raised, signalled,
                   faulted>>

\* rclpy.spin: into a C call that takes a message, and out of it.
EnterCall ==
    /\ at = "spin" /\ context = "ok" /\ ~due
    /\ at' = "call"
    /\ UNCHANGED <<handler, context, waking, due, raised, code,
                   signalled, faulted>>

LeaveCall ==
    /\ at = "call" /\ ~due
    /\ at' = "spin"
    /\ UNCHANGED <<handler, context, waking, due, raised, code,
                   signalled, faulted>>

\* What spin raises: of the signal, by where it was; of a context that is down;
\* of a callback's own fault, and of one that used a context that went down.
SpinRaises(what) ==
    /\ \/ what = "interrupt" /\ at = "spin" /\ due
       \/ what = "error" /\ at = "call"
       \/ what = "stop" /\ at = "spin" /\ context = "down" /\ ~due
    /\ at' = "except"
    /\ raised' = what
    /\ faulted' = (what = "error" /\ ~due /\ context = "ok")
    /\ due' = FALSE
    /\ UNCHANGED <<handler, context, waking, code, signalled>>

\* spin_until_shutdown: a stop is clean, and so is whatever is raised once the
\* context is down.
SpinUntilShutdown ==
    /\ at = "except"
    /\ at' = "finally"
    /\ code' = IF raised = "error" /\ context = "ok" THEN 1 ELSE 0
    /\ UNCHANGED <<handler, context, waking, due, raised, signalled,
                   faulted>>

\* main: finally
CleanUp ==
    /\ at = "finally"
    /\ at' = "ended"
    /\ context' = "down"
    /\ UNCHANGED <<handler, waking, due, raised, code, signalled,
                   faulted>>

ExitNext ==
    \/ Sigint \/ ShutDown
    \/ OwnSigint \/ InitContext \/ Construct
    \/ EnterCall \/ LeaveCall
    \/ \E what \in {"interrupt", "error", "stop"} : SpinRaises(what)
    \/ SpinUntilShutdown \/ CleanUp

ExitSpec == ExitInit /\ [][ExitNext]_exitVars

----------------------------------------------------------------------------

\* A node that is stopped while it spins ends with 0, wherever the signal finds
\* it, and one that fails with nobody stopping it never does: its exit code is
\* not read as a physics failure, nor a fault as a run that went well
\* (SIMJAX-1110, BRINGUP-1070, EVAL-1050).
CleanExit ==
    at = "ended" =>
        /\ signalled \in {"spin", "call"} /\ ~faulted => code = 0
        /\ faulted /\ signalled = "never" => code = 1

====
