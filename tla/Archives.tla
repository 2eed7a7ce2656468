------------------------------ MODULE Archives ------------------------------
(***************************************************************************)
(* Creating and extracting archives (filesystem/archives.rs with           *)
(* commands/archive.rs).  A bundled worker writes into a staging folder    *)
(* beside the target and a second worker publishes the result with one     *)
(* rename that replaces nothing; the application kills the worker that     *)
(* runs when the operation is cancelled.  Publication is the commit point: *)
(* what the answer says must agree with whether the rename took place.     *)
(***************************************************************************)
EXTENDS Naturals, FiniteSets

CONSTANTS
  Jobs,       \* archive operations, all towards one target name
  MaxFaults,  \* workers that fail and cleanups that fail
  None

ArchiveAssumption ==
  /\ MaxFaults \in Nat /\ "foreign" \notin Jobs
  /\ None \notin Jobs \cup {"foreign", "version", "work", "publish", "renamed", "done", "failed",
                           "killed", "ok", "ECANCELLED", "EARCHIVE_WORKER", "EARCHIVE_CLEANUP"}

VARIABLES
  job,     \* each operation: step, action, its staging folder and its output, answer
  worker,  \* the child of each operation: the step it runs, or None
  known,   \* operations the commands know: at most one is accepted at a time
  flags,   \* operations whose flag is set
  target,  \* who made what has the target name: a job, "foreign" or None
  faults

vars == <<job, worker, known, flags, target, faults>>

Steps == {"new", "version", "stage", "work", "publish", "cleanup", "finish", "emit", "over"}

\* What the worker leaves in the staging folder, which is itself the output
\* of an extraction.
Outputs == {"absent", "partial", "whole"}

Init ==
  /\ job = [j \in Jobs |-> [step |-> "new", action |-> "create", dir |-> FALSE,
                            output |-> "absent", answer |-> None]]
  /\ worker = [j \in Jobs |-> None]
  /\ known = {} /\ flags = {} /\ target = None /\ faults = 0

Put(j, r) == job' = [job EXCEPT ![j] = r]
Run(j, w) == worker' = [worker EXCEPT ![j] = w]
Fault == faults < MaxFaults /\ faults' = faults + 1

-----------------------------------------------------------------------------
(* The commands.                                                           *)

Start(j) ==
  /\ job[j].step = "new" /\ known = {}
  /\ known' = {j}
  /\ \E a \in {"create", "extract"} :
       Put(j, [job[j] EXCEPT !.step = "version", !.action = a])
  /\ UNCHANGED <<worker, flags, target, faults>>

Cancel(j) ==
  /\ j \in known \ flags
  /\ flags' = flags \cup {j}
  /\ UNCHANGED <<job, worker, known, target, faults>>

\* Another program makes something of the target name.
Foreign ==
  /\ target = None /\ target' = "foreign"
  /\ UNCHANGED <<job, worker, known, flags, faults>>

-----------------------------------------------------------------------------
(* The workers.  Each holds the step it was started for.                   *)

WorkerSteps == {"version", "work", "publish"}

Spawn(j) ==
  /\ job[j].step \in WorkerSteps /\ worker[j] = None /\ j \notin flags
  /\ Run(j, job[j].step)
  /\ IF job[j].step = "work" THEN Put(j, [job[j] EXCEPT !.output = "partial"])
                             ELSE UNCHANGED job
  /\ UNCHANGED <<known, flags, target, faults>>

Ended(w) == w \in {"done", "failed", "killed"}

\* The rename takes the output, and with an extraction the staging folder.
RenameReplaces(j) ==  \* mutant: a plain rename
  /\ worker[j] = "publish"
  /\ target' = j
  /\ Put(j, [job[j] EXCEPT !.output = "absent", !.dir = job[j].action = "create"])

Rename(j) ==
  /\ worker[j] = "publish" /\ target = None
  /\ target' = j
  /\ Put(j, [job[j] EXCEPT !.output = "absent", !.dir = job[j].action = "create"])

\* The rename is one call of the system and the worker's exit another: the
\* application may kill it between the two.
WorkerRuns(j) ==
  \/ /\ worker[j] = "version" /\ Run(j, "done")
     /\ UNCHANGED <<job, target, faults>>
  \/ /\ worker[j] = "work" /\ Run(j, "done")
     /\ Put(j, [job[j] EXCEPT !.output = "whole"])
     /\ UNCHANGED <<target, faults>>
  \/ Rename(j) /\ Run(j, "renamed") /\ UNCHANGED faults
  \/ /\ worker[j] = "publish" /\ target # None /\ Run(j, "failed")
     /\ UNCHANGED <<job, target, faults>>
  \/ worker[j] = "renamed" /\ Run(j, "done") /\ UNCHANGED <<job, target, faults>>
  \/ worker[j] \in {"version", "work", "publish"} /\ Fault /\ Run(j, "failed")
     /\ UNCHANGED <<job, target>>

WorkerActs(j) == WorkerRuns(j) /\ UNCHANGED <<known, flags>>

\* run_worker kills a child whose operation was cancelled.
Kill(j) ==
  /\ worker[j] # None /\ ~Ended(worker[j]) /\ j \in flags
  /\ Run(j, "killed")
  /\ UNCHANGED <<job, known, flags, target, faults>>

\* How run_worker returns: "ok", or the error, ECANCELLED whenever the flag
\* is set by then.
Returned(j) ==
  IF worker[j] = None THEN "ECANCELLED"
  ELSE IF j \in flags THEN "ECANCELLED"
  ELSE IF worker[j] = "done" THEN "ok" ELSE "EARCHIVE_WORKER"

CanReturn(j) ==
  \/ worker[j] = None /\ j \in flags
  \/ worker[j] # None /\ Ended(worker[j])

-----------------------------------------------------------------------------
(* perform.                                                                *)

Version(j) ==
  /\ job[j].step = "version" /\ CanReturn(j)
  /\ IF Returned(j) = "ok" THEN Put(j, [job[j] EXCEPT !.step = "stage"])
     ELSE Put(j, [job[j] EXCEPT !.step = "finish", !.answer = Returned(j)])
  /\ Run(j, None) /\ UNCHANGED <<known, flags, target, faults>>

\* The staging folder of an extraction is the output.
Stage(j) ==
  /\ job[j].step = "stage"
  /\ Put(j, [job[j] EXCEPT !.step = "work", !.dir = TRUE])
  /\ UNCHANGED <<worker, known, flags, target, faults>>

Work(j) ==
  /\ job[j].step = "work" /\ CanReturn(j)
  /\ IF Returned(j) = "ok" THEN Put(j, [job[j] EXCEPT !.step = "publish"])
     ELSE Put(j, [job[j] EXCEPT !.step = "cleanup", !.answer = Returned(j)])
  /\ Run(j, None) /\ UNCHANGED <<known, flags, target, faults>>

PublishTrusts(j) ==  \* mutant: the error of the worker is taken at its word
  /\ job[j].step = "publish" /\ CanReturn(j)
  /\ Put(j, [job[j] EXCEPT !.step = "cleanup", !.answer = Returned(j)])
  /\ Run(j, None) /\ UNCHANGED <<known, flags, target, faults>>

\* An error of the publishing worker counts only while the output is there.
Publish(j) ==
  /\ job[j].step = "publish" /\ CanReturn(j)
  /\ LET gone == job[j].output = "absent"
     IN Put(j, [job[j] EXCEPT !.step = "cleanup",
                              !.answer = IF gone THEN "ok" ELSE Returned(j)])
  /\ Run(j, None) /\ UNCHANGED <<known, flags, target, faults>>

CleanupOnFailure(j) ==  \* mutant: a cancelled operation leaves at once
  /\ job[j].step = "cleanup"
  /\ IF job[j].answer = "ECANCELLED" THEN Put(j, [job[j] EXCEPT !.step = "finish"])
     ELSE Put(j, [job[j] EXCEPT !.step = "finish", !.dir = FALSE, !.output = "absent"])
  /\ UNCHANGED <<worker, known, flags, target, faults>>

\* The folder is removed whatever happened; a removal that fails is the
\* answer, even after the publication.
Cleanup(j) ==
  /\ job[j].step = "cleanup"
  /\ \/ /\ Put(j, [job[j] EXCEPT !.step = "finish", !.dir = FALSE, !.output = "absent"])
        /\ UNCHANGED faults
     \/ /\ job[j].dir /\ Fault
        /\ Put(j, [job[j] EXCEPT !.step = "finish", !.answer = "EARCHIVE_CLEANUP"])
  /\ UNCHANGED <<worker, known, flags, target>>

\* The operation is forgotten before its answer is emitted.
Finish(j) ==
  /\ job[j].step = "finish"
  /\ known' = known \ {j}
  /\ Put(j, [job[j] EXCEPT !.step = "emit"])
  /\ UNCHANGED <<worker, flags, target, faults>>

Emit(j) ==
  /\ job[j].step = "emit"
  /\ Put(j, [job[j] EXCEPT !.step = "over"])
  /\ UNCHANGED <<worker, known, flags, target, faults>>

Perform(j) ==
  Version(j) \/ Stage(j) \/ Work(j) \/ Publish(j) \/ Cleanup(j) \/ Finish(j) \/ Emit(j)

Next ==
  \/ Foreign
  \/ \E j \in Jobs : Start(j) \/ Cancel(j) \/ Spawn(j) \/ WorkerActs(j) \/ Kill(j) \/ Perform(j)

Spec == Init /\ [][Next]_vars

TypeOK ==
  /\ known \subseteq Jobs /\ flags \subseteq Jobs /\ target \in Jobs \cup {"foreign", None}
  /\ \A j \in Jobs : job[j].step \in Steps /\ job[j].output \in Outputs

(* The answer agrees with the rename, whichever way the kill, the exit of  *)
(* the worker and the cancellation fall: success exactly for the job whose *)
(* result has the target name, except that EARCHIVE_CLEANUP may follow it. *)
AnswerIsTrue ==
  \A j \in Jobs : job[j].step \in {"finish", "emit", "over"} =>
    /\ job[j].answer = "ok" => target = j
    /\ target = j => job[j].answer \in {"ok", "EARCHIVE_CLEANUP"}

(* What has the target name is never half written, and what another        *)
(* program put there is never replaced.                                    *)
NeverReplaced == [][target # None => target' = target]_vars

(* An operation that has answered has left no staging folder behind, and   *)
(* no worker that still writes, unless it says so.                         *)
NothingLeft ==
  \A j \in Jobs : job[j].step \in {"emit", "over"} =>
    worker[j] = None /\ (job[j].dir => job[j].answer = "EARCHIVE_CLEANUP")

Fairness ==
  \A j \in Jobs :
    WF_vars(Spawn(j)) /\ WF_vars(WorkerActs(j)) /\ WF_vars(Kill(j)) /\ WF_vars(Perform(j))

(* Every operation that was accepted answers.                              *)
JobsAnswer == \A j \in Jobs : []<>(job[j].step \in {"new", "over"})
=============================================================================
