---- MODULE RacelineRun ----
(***************************************************************************)
(* `python -m raceline` (raceline/__main__.py, optimize.py, tum.py) run     *)
(* again and again into one folder of config/racelines: the solver it calls *)
(* as a process of its own, the files it leaves, and what a launch then     *)
(* takes of them (racing_bringup's _optimized_raceline).                    *)
(*                                                                          *)
(* Abstractions: an input file is the number of times it was edited; a line *)
(* is what LineVerifier tells apart and what it was computed from; a run    *)
(* may be killed, interrupted or fail to write at any step; runs do not     *)
(* overlap (raceline/README.md, "do not run two at once").                  *)
(***************************************************************************)
EXTENDS Integers, LineVerifier

CONSTANTS
    Shapes,       \* what is wrong with the lines the solver finds: [faults, nan]
    Arguments,    \* the command lines: [optimizer, passes, reference, truth,
                  \* timed]; `reference` is --reference, NoReference without
    NoReference,
    MaxRuns,      \* bound on the runs
    MaxEdits      \* bound on the edits of the input files

Optimizers == {"tum_mincurv_iqp", "tum_mintime"}
DefaultPasses == [tum_mincurv_iqp |-> 2, tum_mintime |-> 1]

ASSUME RacelineAssumption ==
    /\ NoReference \notin {"reference", "tum_mincurv_iqp"}
    /\ Shapes \subseteq [faults : SUBSET Checks, nan : SUBSET Columns]
    /\ Arguments \subseteq
          [optimizer : Optimizers, passes : Int,
           reference : {NoReference, "reference", "tum_mincurv_iqp"},
           truth : BOOLEAN, timed : BOOLEAN]

\* The files a run reads: the track or map, the vehicle's yaml, its two tables.
Inputs == {"source", "vehicle", "tables"}

VARIABLES
    edition,      \* per input file, how often it was edited
    files,        \* the folder: a csv and a sidecar each, and reference/
    runs,         \* how many runs were started
    pc, args,     \* of the run
    read,         \* per input, the edition the run has read
    tables,       \* the edition of the tables that was handed to the solver
    stage, pass,  \* of the solver: which optimizer, how many passes are left
    line, seed,   \* the line found last; what the minimum-time solve began from
    scratch,      \* ref.csv in the run's temporary directory
    solvers,      \* solver processes alive
    \* history
    edited,       \* the inputs edited since the run began
    halfway,      \* files whose last run ended among its writes
    interrupted   \* a run was killed or interrupted while a solver ran

inputVars == <<edition, edited>>
argVars == <<args, runs>>
solveVars == <<tables, stage, pass, line, seed, scratch>>
racelineVars ==
    <<edition, files, runs, pc, args, read, tables, stage, pass, line, seed,
      scratch, solvers, edited, halfway, interrupted>>

\* What a csv file is known by: its line's run and stage, and whether it has
\* the nine decimals of the file or the solver's own.
Name(run, stg, digits) == [run |-> run, stage |-> stg, digits |-> digits]
NoName == Name(0, "none", "all")
NoLine == [name |-> NoName, faults |-> {}, nan |-> {}, seed |-> NoName,
           given |-> [i \in Inputs |-> 0], solved |-> 0, truth |-> FALSE]

\* write_raceline_csv, then load_raceline_csv
Rounded(l) == [l EXCEPT !.name.digits = "nine"]

Unfaulted == [faults |-> {}, nan |-> {}]

NoFile == [state |-> "none", line |-> NoLine]
Torn == [state |-> "torn", line |-> NoLine]
Csv(l) == [state |-> "whole", line |-> Rounded(l)]

NoSidecar == [state |-> "none", line |-> NoName, reference |-> NoName,
              inputs |-> [i \in Inputs |-> 0], edited |-> {}]

\* Where a run writes what belongs to its optimizer.
Empty == [csv |-> [o \in Optimizers |-> NoFile],
          sidecar |-> [o \in Optimizers |-> NoSidecar],
          reference |-> NoFile]

RacelineInit ==
    /\ edition = [i \in Inputs |-> 0] /\ edited = {}
    /\ files = Empty
    /\ runs = 0 /\ pc = "ended" /\ args \in Arguments
    /\ read = edition /\ tables = 0 /\ stage = "none" /\ pass = 0
    /\ line = NoLine /\ seed = NoLine /\ scratch = NoFile
    /\ solvers = 0 /\ halfway = {} /\ interrupted = FALSE

Live == pc # "ended"
Writing == {"csv", "csv rows", "reference", "reference rows", "sidecar",
            "sidecar text"}

----------------------------------------------------------------------------

(***************************************************************************)
(* The beginning and the end of main.                                      *)
(***************************************************************************)

Start(a) ==
    /\ ~Live
    /\ runs < MaxRuns
    /\ args' = a
    /\ runs' = runs + 1
    /\ pc' = "vehicle"
    /\ edited' = {}
    /\ UNCHANGED <<edition, files, read, solveVars, solvers, halfway,
                   interrupted>>

\* main is left, by a return or an exception: what it knew is gone, and
\* scratch is cleaned up.
End ==
    /\ pc' = "ended"
    /\ read' = [i \in Inputs |-> 0] /\ tables' = 0
    /\ stage' = "none" /\ pass' = 0
    /\ line' = NoLine /\ seed' = NoLine /\ scratch' = NoFile

\* The run ends here with nothing written.
Fail ==
    /\ End
    /\ UNCHANGED <<inputVars, files, argVars, solvers, halfway, interrupted>>

\* The command line is refused, by argparse or by main.
Usage ==
    /\ pc = "vehicle"
    /\ Fail

Read(next, what) ==
    /\ pc' = next
    /\ read' = [i \in Inputs |-> IF i \in what THEN edition[i] ELSE read[i]]
    /\ UNCHANGED <<inputVars, files, argVars, solveVars, solvers, halfway,
                   interrupted>>

\* load_vehicle, which reads the tables too.  A file it refuses ends the run as
\* Usage does.
LoadVehicle ==
    /\ pc = "vehicle"
    /\ args.reference # NoReference => args.optimizer = "tum_mintime"
    /\ Read("track", {"vehicle", "tables"})

\* _input_map or load_track, and the ground truth, each of which may be
\* refused, as are passes that make no sense.
LoadTrack ==
    /\ pc = "track"
    /\ \/ /\ \/ args.optimizer = "tum_mincurv_iqp" /\ args.passes >= 1
             \/ args.optimizer = "tum_mintime"
                  /\ args.passes = DefaultPasses["tum_mintime"]
          /\ Read("reference in", {"source"})
       \/ Fail

----------------------------------------------------------------------------

(***************************************************************************)
(* mintime_chain and _tum_mincurv_iqp.                                     *)
(***************************************************************************)

\* mintime_chain: what the minimum-time solve begins from is read from the
\* file, whoever wrote it.
SeedFrom(file) == file.line

\* Which optimizer comes first; with --reference, the second at once.  A file
\* that is not there or cut within a row ends the run; cut between two rows it
\* is read as it is.
ChooseStage ==
    /\ pc = "reference in"
    /\ LET first == args.optimizer = "tum_mincurv_iqp"
                       \/ args.reference = NoReference
           handed == IF args.reference = "reference" THEN files.reference
                     ELSE files.csv["tum_mincurv_iqp"]
       IN \/ /\ first \/ handed.state # "none"
             /\ stage' = IF first THEN "tum_mincurv_iqp" ELSE "tum_mintime"
             /\ pass' = IF args.optimizer = "tum_mincurv_iqp" THEN args.passes
                        ELSE DefaultPasses[stage']
             /\ seed' = IF first THEN NoLine ELSE SeedFrom(handed)
             /\ pc' = "inputs"
             /\ UNCHANGED <<inputVars, files, argVars, read, tables, line,
                            scratch, solvers, halfway, interrupted>>
          \/ ~first /\ handed.state # "whole" /\ Fail

\* write_tum_inputs: the tables are copied; or they are gone, or the tyres or
\* the dynamics are refused.
WriteInputs ==
    /\ pc = "inputs"
    /\ \/ /\ tables' = edition["tables"]
          /\ pc' = "solve"
          /\ UNCHANGED <<inputVars, files, argVars, read, stage, pass, line,
                         seed, scratch, solvers, halfway, interrupted>>
       \/ Fail

\* _tum_env_call: a process group of its own
CallSolver ==
    /\ pc = "solve"
    /\ pc' = "solving"
    /\ solvers' = solvers + 1
    /\ UNCHANGED <<inputVars, files, argVars, read, solveVars, halfway,
                   interrupted>>

\* The line the solver returns is the next pass's centerline, the reference,
\* or the run's; what is wrong with a reference is not asked.
Solved(shape) ==
    /\ pc = "solving"
    /\ stage = args.optimizer \/ shape = Unfaulted
    /\ solvers' = solvers - 1
    /\ pass' = pass - 1
    /\ line' = [name |-> Name(runs, stage, "all"), faults |-> shape.faults,
                nan |-> shape.nan, seed |-> seed.name, given |-> read,
                solved |-> tables, truth |-> args.truth]
    /\ pc' = IF pass > 1 THEN "solve"
             ELSE IF stage = args.optimizer THEN "verify" ELSE "seed"
    /\ UNCHANGED <<inputVars, files, argVars, read, tables, stage, seed, scratch,
                   halfway, interrupted>>

\* The reference is written to scratch and read back.
ReadBack ==
    /\ pc = "seed"
    /\ scratch' = Csv(line)
    /\ seed' = SeedFrom(Csv(line))
    /\ stage' = "tum_mintime"
    /\ pass' = DefaultPasses["tum_mintime"]
    /\ pc' = "inputs"
    /\ UNCHANGED <<inputVars, files, argVars, read, tables, line, solvers,
                   halfway, interrupted>>

\* It exits with an error, or did not converge (MintimeFailed).
SolverFails ==
    /\ pc = "solving"
    /\ End
    /\ solvers' = solvers - 1
    /\ UNCHANGED <<inputVars, files, argVars, halfway, interrupted>>

\* Mutant of Timed: the passes that make the reference are not timed.
MutantTimed == args.timed /\ stage = args.optimizer

\* --timeout holds for every call of the solver.
Timed == args.timed

\* Mutant of AfterKill: only `uv run` is killed, not its group.
MutantAfterKill(alive) == alive

\* os.killpg
AfterKill(alive) == alive - 1

\* --timeout
Timeout ==
    /\ pc = "solving"
    /\ Timed
    /\ End
    /\ solvers' = AfterKill(solvers)
    /\ UNCHANGED <<inputVars, files, argVars, halfway, interrupted>>

----------------------------------------------------------------------------

(***************************************************************************)
(* _verify_and_write.                                                      *)
(***************************************************************************)

\* The plots are drawn before the verdict is looked at; they may fail.
Verify ==
    /\ pc = "verify"
    /\ \/ Fail
       \/ ~Verified(line, args.truth) /\ Fail
       \/ /\ Verified(line, args.truth)
          /\ pc' = "csv"
          /\ UNCHANGED <<inputVars, files, argVars, read, solveVars, solvers,
                         halfway, interrupted>>

\* One write: a file is opened, which empties it, or its text reaches it.
Write(from, next, written) ==
    /\ pc = from
    /\ pc' = next
    /\ files' = written
    /\ UNCHANGED <<inputVars, argVars, read, solveVars, solvers, halfway,
                   interrupted>>

OpenCsv ==
    Write("csv", "csv rows", [files EXCEPT !.csv[args.optimizer] = Torn])

CopiesReference ==
    args.optimizer = "tum_mintime" /\ args.reference = NoReference

WriteCsv ==
    Write("csv rows", IF CopiesReference THEN "reference" ELSE "sidecar",
          [files EXCEPT !.csv[args.optimizer] = Csv(line)])

OpenReference ==
    Write("reference", "reference rows", [files EXCEPT !.reference = Torn])

\* shutil.copyfile of the scratch reference
CopyReference ==
    Write("reference rows", "sidecar", [files EXCEPT !.reference = scratch])

\* _mintime_parameters: the file whose hash is recorded
RecordedReference ==
    CASE args.optimizer = "tum_mincurv_iqp" -> NoName
      [] args.reference = "tum_mincurv_iqp" ->
             files.csv["tum_mincurv_iqp"].line.name
      [] OTHER -> files.reference.line.name

\* _provenance: every input is hashed now.
Provenance ==
    [state |-> "whole", line |-> Rounded(line).name,
     reference |-> RecordedReference, inputs |-> edition, edited |-> edited]

\* Mutant of SidecarText: one that is there is kept.
MutantSidecarText(old) == IF old.state = "none" THEN Provenance ELSE old

SidecarText(old) == Provenance

\* The inputs are hashed, and the sidecar is opened.
OpenSidecar ==
    Write("sidecar", "sidecar text",
          [files EXCEPT !.sidecar[args.optimizer] =
              [SidecarText(@) EXCEPT !.state = "torn"]])

WriteSidecar ==
    /\ pc = "sidecar text"
    /\ files' = [files EXCEPT !.sidecar[args.optimizer].state = "whole"]
    /\ End
    /\ halfway' = halfway \ {args.optimizer}
    /\ UNCHANGED <<inputVars, argVars, solvers, interrupted>>

\* A write fails, or a file to be hashed is gone.
WriteFails ==
    /\ pc \in Writing
    /\ End
    /\ halfway' = IF pc = "csv" THEN halfway ELSE halfway \cup {args.optimizer}
    /\ UNCHANGED <<inputVars, files, argVars, solvers, interrupted>>

----------------------------------------------------------------------------

(***************************************************************************)
(* Around the run.                                                         *)
(***************************************************************************)

\* Ctrl-C, a kill or a power cut of the container's shell: the solver is in
\* another session and goes on.
Interrupt ==
    /\ Live
    /\ End
    /\ halfway' = IF pc \in Writing \ {"csv"} THEN halfway \cup {args.optimizer}
                  ELSE halfway
    /\ interrupted' = (interrupted \/ pc = "solving")
    /\ UNCHANGED <<inputVars, files, argVars, solvers>>

\* A solver nobody waits for ends.
OrphanEnds ==
    /\ solvers > (IF pc = "solving" THEN 1 ELSE 0)
    /\ solvers' = solvers - 1
    /\ UNCHANGED <<inputVars, files, argVars, pc, read, solveVars, halfway,
                   interrupted>>

EditInput(i) ==
    /\ edition["source"] + edition["vehicle"] + edition["tables"] < MaxEdits
    /\ Live
    /\ edition' = [edition EXCEPT ![i] = @ + 1]
    /\ edited' = edited \cup {i}
    /\ UNCHANGED <<files, argVars, pc, read, solveVars, solvers, halfway,
                   interrupted>>

\* What main does by itself, and what the solver answers.
Step ==
    \/ Usage \/ LoadVehicle \/ LoadTrack \/ ChooseStage \/ WriteInputs
    \/ CallSolver \/ ReadBack \/ Verify
    \/ OpenCsv \/ WriteCsv \/ OpenReference \/ CopyReference
    \/ OpenSidecar \/ WriteSidecar \/ WriteFails

RacelineNext ==
    \/ \E a \in Arguments : Start(a)
    \/ Step \/ Timeout
    \/ SolverFails \/ \E shape \in Shapes : Solved(shape)
    \/ Interrupt \/ OrphanEnds
    \/ \E i \in Inputs : EditInput(i)

\* The run's own steps go on and its timer fires; a solver may hang.
RacelineFairness == WF_racelineVars(Step) /\ WF_racelineVars(Timeout)

RacelineSpec ==
    RacelineInit /\ [][RacelineNext]_racelineVars /\ RacelineFairness

----------------------------------------------------------------------------

(***************************************************************************)
(* Properties                                                              *)
(***************************************************************************)

\* A csv that is there as a whole holds a line that is at fault with nothing
\* (with the ground truth, only if one was given) and whose path is all
\* numbers, whatever was killed before; a NaN in another column hides the
\* faults of that column (raceline/verify.py, "the runner refuses to write a
\* line that has any"; __main__.py, exit codes 2 and 3).
PublishedLineIsSound ==
    \A o \in Optimizers :
        LET l == files.csv[o].line
        IN files.csv[o].state = "whole" =>
              /\ "xy" \notin l.nan
              /\ l.nan = {} =>
                    l.faults \subseteq IF l.truth THEN {} ELSE {"ground_truth"}

\* The run is between the first and the last of its writes for o.
AmongWrites(o) == pc \in Writing \ {"csv"} /\ args.optimizer = o

\* Unless the last run that wrote o's files ended among its writes, the csv
\* and the sidecar are of one line; the sidecar records, of every input not
\* edited during the run, the edition the line was solved and judged by; and
\* the reference it records is, digit for digit, the one the solve began
\* from (_provenance; mintime_chain, "always read back from disk").
SidecarIsOfItsLine ==
    \A o \in Optimizers \ halfway :
        LET l == files.csv[o].line
            doc == files.sidecar[o]
        IN ~AmongWrites(o) =>
              /\ files.csv[o].state = doc.state
              /\ doc.state = "whole" =>
                    /\ doc.line = l.name
                    /\ \A i \in Inputs \ doc.edited : doc.inputs[i] = l.given[i]
                    /\ "tables" \notin doc.edited =>
                          doc.inputs["tables"] = l.solved
                    /\ doc.reference = l.seed

\* The solver is never at work twice, unless a run was interrupted while it
\* was: it writes into its own package (raceline/README.md, "do not run two at
\* once"; tum.py, "the whole process group is killed").
OneSolver == interrupted \/ solvers <= 1

\* What others read is in order: the line, the sidecar that says what it came
\* of, and the solver's package, which two solvers would write into at once.
LeftInOrder == PublishedLineIsSound /\ SidecarIsOfItsLine /\ OneSolver

\* A run with --timeout ends, whatever the solver does (tum.py, _tum_env_call).
TimedRunEnds == (Live /\ args.timed) ~> ~Live

====
