------------------------------ MODULE BacktestRuns ------------------------------
(***************************************************************************)
(* A backtest: BacktestRunManager starts a child process, follows it, and  *)
(* imports the result it leaves in a file.  Requests stop, delete and      *)
(* import it again meanwhile; either process may end at any time, and the  *)
(* server recovers what a restart interrupted.                             *)
(***************************************************************************)
EXTENDS Naturals

CONSTANT BacktestCrashes  \* bound: restarts of the server

ASSUME BacktestCrashesAssumption == BacktestCrashes \in Nat

Requests == {"stop", "delete", "reimport"}
Ongoing == {"preparing", "running"}
Ended == {"completed", "stopped"}

VARIABLES
  run,       \* BacktestRun.status; gone once the row is destroyed
  pidSaved,  \* childPid is in the row
  rows,      \* what is imported of it: nothing, or the status it belongs to
  child,     \* the process: its phase, killed or ended on its own is exited
  asked,     \* stopRequested of its engine
  file,      \* result.json
  outcome,   \* the status that the result stands for
  creator, shown,     \* createAndStart; the status of its copy of the row
  managed, stopping,  \* the entry in runs, its mark
  finalizer, request, recovery, \* where finalizeRun, the requests, the recovery are
  loose,     \* history: why the rows and the status may differ
  backtestCrashes

childVars == <<child, asked, file, outcome>>
manager == <<creator, shown, managed, stopping>>
backtestVars == <<run, pidSaved, rows, childVars, manager, finalizer, request, recovery,
                  loose, backtestCrashes>>

\* The process has started, HTTP is served and the recovery is still to come.
BacktestInit ==
  /\ run = "none" /\ pidSaved = FALSE /\ rows = "none"
  /\ child = "none" /\ asked = FALSE /\ file = "none" /\ outcome = "none"
  /\ creator = "idle" /\ shown = "none" /\ managed = FALSE /\ stopping = FALSE
  /\ finalizer = "idle" /\ request = [r \in Requests |-> "idle"]
  /\ recovery = "wait" /\ loose = {} /\ backtestCrashes = 0

\* An UPDATE by id: nothing is written once the row is destroyed.
Write(s) == run' = IF run = "gone" THEN "gone" ELSE s

Asked(r, pc) == request[r] = pc
AskTo(r, pc) == request' = [request EXCEPT ![r] = pc]

-----------------------------------------------------------------------------
(* createAndStart and the progress *)

CreateRun ==
  /\ run = "none" /\ run' = "preparing" /\ creator' = "made" /\ shown' = "preparing"
  /\ UNCHANGED <<pidSaved, rows, childVars, managed, stopping, finalizer, request,
                 recovery, loose, backtestCrashes>>

\* A child that could not be started reports an error and never an exit.
SpawnChild ==
  /\ creator = "made" /\ creator' = "spawned"
  /\ child' \in {"setup", "lost"} /\ managed' = TRUE
  /\ UNCHANGED <<run, pidSaved, rows, asked, file, outcome, shown, stopping, finalizer,
                 request, recovery, loose, backtestCrashes>>

SpawnFails ==
  /\ creator = "made" /\ creator' = "idle" /\ Write("failed")
  /\ UNCHANGED <<pidSaved, rows, childVars, shown, managed, stopping, finalizer, request,
                 recovery, loose, backtestCrashes>>

SpawnSaved ==
  /\ creator = "spawned" /\ creator' = "idle" /\ Write("running") /\ shown' = "running"
  /\ pidSaved' = (child # "lost")
  /\ UNCHANGED <<rows, childVars, managed, stopping, finalizer, request, recovery, loose,
                 backtestCrashes>>

PhaseStatus ==
  CASE child = "fetch" -> "preparing" [] child \in {"replay", "export"} -> "running"
    [] OTHER -> shown

\* The copy of the row writes its status where it differs from its own.
PollProgress ==
  /\ managed /\ creator = "idle" /\ child # "exited" /\ PhaseStatus # shown
  /\ Write(PhaseStatus) /\ shown' = PhaseStatus
  /\ UNCHANGED <<pidSaved, rows, childVars, creator, managed, stopping, finalizer,
                 request, recovery, loose, backtestCrashes>>

-----------------------------------------------------------------------------
(* The child *)

ChildStep == UNCHANGED <<run, pidSaved, rows, manager, finalizer, request, recovery,
                         loose, backtestCrashes>>

Advance ==
  \/ child = "setup" /\ child' = "fetch"
  \/ child = "fetch" /\ child' = "replay"

\* The replay ends at its last minute, or at the next one after a stop; the
\* result says which.
Export ==
  /\ child = "replay" /\ child' = "export" /\ file' = "part"
  /\ outcome' = IF asked THEN "stopped" ELSE "completed"
  /\ ChildStep /\ UNCHANGED asked

Exported ==
  /\ child = "export" /\ child' = "exited" /\ file' = "whole"
  /\ ChildStep /\ UNCHANGED <<asked, outcome>>

ChildRuns == Advance /\ ChildStep /\ UNCHANGED <<asked, file, outcome>>

ChildFails ==
  /\ child \in {"setup", "fetch", "replay", "export"} /\ child' = "exited"
  /\ ChildStep /\ UNCHANGED <<asked, file, outcome>>

-----------------------------------------------------------------------------
(* The end of the child *)

\* The UPDATE of SpawnSaved was sent in the same turn as the process.
OnExit ==
  /\ child = "exited" /\ managed /\ creator # "spawned"
  /\ managed' = FALSE /\ finalizer' = "find"
  /\ UNCHANGED <<run, pidSaved, rows, childVars, creator, shown, stopping, request,
                 recovery, loose, backtestCrashes>>

FinalizeStep == UNCHANGED <<pidSaved, childVars, manager, request, recovery, loose,
                            backtestCrashes>>

\* Mutant: the row is not looked for.
FoundRunAny == IF file = "whole" THEN "import" ELSE "fail"

\* Where finalizeRun goes with the row and the file it finds; a part of a
\* result does not parse.
FoundRun ==
  IF run = "gone" THEN "over" ELSE IF file = "whole" THEN "import" ELSE "fail"

\* Or the query throws, and finalizeRun with it.
FindRun ==
  /\ finalizer = "find" /\ finalizer' \in {FoundRun, "over"}
  /\ FinalizeStep /\ UNCHANGED <<run, rows>>

\* importResult is one transaction, which first deletes what was imported.
ImportResult ==
  /\ finalizer = "import"
  /\ \/ finalizer' = "save" /\ rows' = outcome
     \/ finalizer' = "fail" /\ UNCHANGED rows
  /\ FinalizeStep /\ UNCHANGED run

\* The status cannot be written: the catch block tries failed.
SaveThrows ==
  /\ finalizer = "save" /\ finalizer' = "fail" /\ loose' = loose \cup {"unsaved"}
  /\ UNCHANGED <<run, pidSaved, rows, childVars, manager, request, recovery,
                 backtestCrashes>>

SaveResult ==
  /\ finalizer \in {"save", "fail"} /\ finalizer' = "over"
  /\ Write(IF finalizer = "save" THEN outcome ELSE "failed")
  /\ FinalizeStep /\ UNCHANGED rows

-----------------------------------------------------------------------------
(* Requests *)

\* The SIGTERM of stopRun: the engine's handler is there once it is set up.
Terminate ==
  IF managed /\ ~stopping
  THEN /\ stopping' = TRUE
       /\ CASE child = "setup" -> child' = "exited" /\ UNCHANGED asked
            [] child \in {"fetch", "replay", "export"} -> asked' = TRUE /\ UNCHANGED child
            [] OTHER -> UNCHANGED <<child, asked>>
  ELSE UNCHANGED <<stopping, child, asked>>

\* Who comes second waits for the end without a limit.
StopPc == IF stopping THEN "await" ELSE "wait"

\* The entry of the run is read after the row.
StopFound ==
  /\ Asked("stop", "idle") /\ run \in Ongoing /\ AskTo("stop", "found")
  /\ UNCHANGED <<run, pidSaved, rows, childVars, manager, finalizer, recovery, loose,
                 backtestCrashes>>

StopRun ==
  /\ Asked("stop", "found") /\ AskTo("stop", IF managed THEN StopPc ELSE "idle")
  /\ Terminate
  /\ UNCHANGED <<run, pidSaved, rows, file, outcome, creator, shown, managed, finalizer,
                 recovery, loose, backtestCrashes>>

\* stopRun returns with the end of finalizeRun, or after a minute: killed is
\* true of a child that got SIGTERM, so that no SIGKILL follows.
StopReturns(r) ==
  /\ Asked(r, "wait") \/ (Asked(r, "await") /\ finalizer = "over")
  /\ AskTo(r, IF r = "stop" THEN "idle" ELSE "data")
  /\ UNCHANGED <<run, pidSaved, rows, childVars, manager, finalizer, recovery, loose,
                 backtestCrashes>>

DeleteRun ==
  /\ Asked("delete", "idle") /\ run \notin {"none", "gone"}
  /\ AskTo("delete", IF managed THEN StopPc ELSE "data") /\ Terminate
  /\ UNCHANGED <<run, pidSaved, rows, file, outcome, creator, shown, managed, finalizer,
                 recovery, loose, backtestCrashes>>

DeleteData ==
  /\ Asked("delete", "data") /\ AskTo("delete", "row") /\ rows' = "none"
  /\ UNCHANGED <<run, pidSaved, childVars, manager, finalizer, recovery, loose,
                 backtestCrashes>>

\* An import that has begun, or ended since the data was deleted, outlives it.
DestroyRun ==
  /\ Asked("delete", "row") /\ AskTo("delete", "files") /\ run' = "gone"
  /\ loose' = IF rows # "none" \/ finalizer = "import" \/ Asked("reimport", "import")
              THEN loose \cup {"overlap"} ELSE loose
  /\ UNCHANGED <<pidSaved, rows, childVars, manager, finalizer, recovery, backtestCrashes>>

\* A child that still runs makes the directory again.
RemoveFiles ==
  /\ Asked("delete", "files") /\ AskTo("delete", "done") /\ file' = "none"
  /\ UNCHANGED <<run, pidSaved, rows, child, asked, outcome, manager, finalizer, recovery,
                 loose, backtestCrashes>>

Reimport ==
  /\ Asked("reimport", "idle") /\ run \notin {"none", "gone"} /\ file = "whole"
  /\ AskTo("reimport", "import")
  /\ UNCHANGED <<run, pidSaved, rows, childVars, manager, finalizer, recovery, loose,
                 backtestCrashes>>

\* The status stays as it is.
Reimported ==
  /\ Asked("reimport", "import") /\ AskTo("reimport", "idle") /\ rows' = outcome
  /\ loose' = IF run \in Ended THEN loose ELSE loose \cup {"reimport"}
  /\ UNCHANGED <<run, pidSaved, childVars, manager, finalizer, recovery, backtestCrashes>>

-----------------------------------------------------------------------------
(* A restart of the server *)

\* The child may go on alone.
ServerCrash ==
  /\ backtestCrashes < BacktestCrashes /\ backtestCrashes' = backtestCrashes + 1
  /\ child' \in {child} \cup (IF child \in {"none", "lost"} THEN {} ELSE {"exited"})
  /\ creator' = "idle" /\ managed' = FALSE /\ stopping' = FALSE /\ shown' = "none"
  /\ finalizer' = "idle" /\ request' = [r \in Requests |-> "idle"] /\ recovery' = "wait"
  /\ loose' = IF finalizer = "save" \/ Asked("delete", "row")
              THEN loose \cup {"cut"} ELSE loose
  /\ UNCHANGED <<run, pidSaved, rows, asked, file, outcome>>

Recovery(from, to) == recovery = from /\ recovery' = to
RecoveryStep == UNCHANGED <<rows, asked, file, outcome, manager, finalizer, request,
                            backtestCrashes>>

\* recoverInterruptedRuns does not ask whether this process started the run.
RecoverFind ==
  /\ Recovery("wait", IF run \notin Ongoing THEN "done"
                      ELSE IF pidSaved THEN "kill" ELSE "mark")
  /\ RecoveryStep /\ UNCHANGED <<run, pidSaved, child, loose>>

RecoverKill ==
  /\ Recovery("kill", "mark") /\ child' = "exited"
  /\ RecoveryStep /\ UNCHANGED <<run, pidSaved, loose>>

RecoverMark ==
  /\ Recovery("mark", "done") /\ Write("failed")
  /\ loose' = IF run \in Ended THEN loose \cup {"recovery"} ELSE loose
  /\ RecoveryStep /\ UNCHANGED <<pidSaved, child>>

-----------------------------------------------------------------------------

BacktestNext ==
  \/ CreateRun \/ SpawnChild \/ SpawnFails \/ SpawnSaved \/ PollProgress
  \/ ChildRuns \/ Export \/ Exported \/ ChildFails
  \/ OnExit \/ FindRun \/ ImportResult \/ SaveThrows \/ SaveResult
  \/ StopFound \/ StopRun \/ DeleteRun \/ DeleteData \/ DestroyRun \/ RemoveFiles
  \/ \E r \in {"stop", "delete"} : StopReturns(r)
  \/ Reimport \/ Reimported
  \/ ServerCrash \/ RecoverFind \/ RecoverKill \/ RecoverMark

BacktestSpec == BacktestInit /\ [][BacktestNext]_backtestVars

-----------------------------------------------------------------------------
(* Properties *)

\* Every variable has the values the code can give it.
BacktestTypeOK ==
  /\ run \in Ongoing \cup Ended \cup {"none", "failed", "gone"}
  /\ rows \in {"none"} \cup Ended /\ outcome \in {"none"} \cup Ended
  /\ child \in {"none", "setup", "lost", "fetch", "replay", "export", "exited"}
  /\ file \in {"none", "part", "whole"}
  /\ creator \in {"idle", "made", "spawned"} /\ shown \in {"none"} \cup Ongoing
  /\ pidSaved \in BOOLEAN /\ asked \in BOOLEAN /\ managed \in BOOLEAN /\ stopping \in BOOLEAN
  /\ finalizer \in {"idle", "find", "import", "save", "fail", "over"}
  /\ request \in [Requests -> {"idle", "found", "wait", "await", "data", "row", "files",
                               "done", "import"}]
  /\ recovery \in {"wait", "kill", "mark", "done"}
  /\ loose \subseteq {"overlap", "reimport", "cut", "recovery", "unsaved"}
  /\ backtestCrashes \in 0..BacktestCrashes

\* The orders imported of a run are those of its status, and none are left of
\* a run that failed or was deleted; unless it was deleted under an import,
\* imported again after a failure, caught by a restart or a failing write between two
\* writes, or ended while the recovery took it for interrupted.
RowsAccounted ==
  loose = {} =>
    /\ run \in Ended => rows = run \/ Asked("delete", "row")
    /\ rows # "none" => rows = run \/ finalizer = "save"

=============================================================================
