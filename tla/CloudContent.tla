---------------------------- MODULE CloudContent ----------------------------
(***************************************************************************)
(* Making the content of a cloud file local before it is opened            *)
(* (content.rs, filesystem/availability.rs, availability/onedrive.rs).     *)
(* `prepare` looks at a file, asks the system for a download and registers *)
(* an operation, which the window polls with `status` until the file is    *)
(* ready, has failed or has been quiet for too long.  On macOS the system  *)
(* downloads by itself, or one coordinated read per path does it in a      *)
(* thread; on Windows every operation owns a hydration that ends with it.  *)
(***************************************************************************)
EXTENDS Naturals, FiniteSets

CONSTANTS
  Ops,        \* preparations ("prepare") and openings ("open") of a file
  Openings,   \* those of Ops that are openings (require_content_ready)
  Files,
  Systems,    \* subset of {"macos", "windows"}
  Sizes,      \* of files, in units of progress
  Mixes,      \* [ops, sizes] that occur together: operations and sizes of files
  Stall,      \* ticks of the watchdog: 5 minutes in the code
  MaxFaults   \* downloads that fail or stop, and evictions

CloudAssumption ==
  /\ IsFiniteSet(Ops) /\ Openings \subseteq Ops /\ Systems \subseteq {"macos", "windows"}
  /\ Sizes \subseteq Nat \ {0} /\ Mixes \subseteq [ops : SUBSET Ops, sizes : SUBSET Sizes]
  /\ Stall \in Nat \ {0} /\ MaxFaults \in Nat

VARIABLES
  os,
  file,         \* each file: its size, bytes here, whether the system fetches it, its error
  coordinator,  \* each path: none, active, failed
  threads,      \* coordinated reads that run, per path
  hydration,    \* each operation on Windows: none, pending, done, failed
  operations,   \* the manager's map
  op,           \* each operation: its file, stage, what it read and what it saw;
                \* ghosts: ticks since its file grew, now and when it was read
  faults

vars == <<os, file, coordinator, threads, hydration, operations, op, faults>>

Stages == {"new", "judge", "request", "waiting", "polled", "looked", "hydrating",
           "ready", "failed", "stalled", "cancelled", "lost"}
Over   == {"ready", "failed", "stalled", "cancelled", "lost"}

Init ==
  /\ os \in Systems
  /\ file \in {f \in [Files -> [size : Sizes, bytes : {0} \cup Sizes, ubiquitous : BOOLEAN,
                               fetching : {FALSE}, error : {FALSE}, evicted : {FALSE}]] :
                 \A x \in Files : f[x].bytes \in {0, f[x].size}}
  /\ coordinator = [f \in Files |-> "none"] /\ threads = [f \in Files |-> 0]
  /\ hydration = [o \in Ops |-> "none"]
  /\ operations = {}
  /\ op \in {[o \in Ops |-> [file |-> target[o], stage |-> "new", read |-> 0,
                             held |-> FALSE, seen |-> 0, idle |-> 0,
                             quiet |-> 0, was |-> 0]]
             : target \in [Ops -> Files]}
  /\ faults = 0

Of(o)      == file[op[o].file]
Partial(f) == file[f].bytes < file[f].size
Move(o, stage) == op' = [op EXCEPT ![o].stage = stage]

-----------------------------------------------------------------------------
(* The system: downloads, their ends and evictions.                        *)

Downloads(f) ==
  \/ file[f].fetching \/ coordinator[f] = "active"
  \/ \E o \in Ops : op[o].file = f /\ hydration[o] = "pending"

Transfer(f) ==
  /\ Downloads(f) /\ Partial(f)
  /\ file' = [file EXCEPT ![f].bytes = @ + 1,
                          ![f].fetching = @ /\ file[f].bytes + 1 < file[f].size]
  /\ op' = [o \in Ops |-> [op[o] EXCEPT !.quiet = IF op[o].file = f THEN 0 ELSE @]]
  /\ UNCHANGED <<os, coordinator, threads, hydration, operations, faults>>

\* It stops with an error, or silently; or a local file is evicted.
Fault(f) ==
  /\ faults < MaxFaults /\ faults' = faults + 1
  /\ \/ /\ file[f].fetching
        /\ \E told \in BOOLEAN :
             file' = [file EXCEPT ![f].fetching = FALSE, ![f].error = told]
     \/ /\ ~Partial(f)
        /\ file' = [file EXCEPT ![f].bytes = 0, ![f].evicted = TRUE]
  /\ UNCHANGED <<os, coordinator, threads, hydration, operations, op>>

HydrationEnds(o) ==
  /\ hydration[o] = "pending"
  /\ \/ /\ ~Partial(op[o].file)
        /\ hydration' = [hydration EXCEPT ![o] = "done"] /\ UNCHANGED faults
     \/ /\ faults < MaxFaults /\ faults' = faults + 1
        /\ hydration' = [hydration EXCEPT ![o] = "failed"]
  /\ UNCHANGED <<os, file, coordinator, threads, operations, op>>

\* The thread of start_coordinated_download: an error of the coordinator is
\* no failure when the bytes are here all the same.
CoordinatorEnds(f) ==
  /\ threads[f] > 0
  /\ threads' = [threads EXCEPT ![f] = @ - 1]
  /\ \/ /\ ~Partial(f)
        /\ coordinator' = [coordinator EXCEPT ![f] = "none"] /\ UNCHANGED faults
     \/ /\ Partial(f) /\ faults < MaxFaults /\ faults' = faults + 1
        /\ coordinator' = [coordinator EXCEPT ![f] = "failed"]
  /\ UNCHANGED <<os, file, hydration, operations, op>>

-----------------------------------------------------------------------------
(* inspect, while preparing: the metadata `read` is older than the state   *)
(* of the coordinator, whose failure is handed over by the look at it.     *)

\* classify_metadata and macos::inspect: `keys` says whether the daemon told
\* of the download; a dataless file is known as such without it.
Classify(o, keys) ==
  LET f      == op[o].file
      local  == op[o].read = Of(o).size
      active == coordinator[f] = "active"
      broken == coordinator[f] = "failed"
      plain  == ~file[f].ubiquitous /\ local
  IN CASE active \/ (~plain /\ keys /\ file[f].fetching)            -> "materializing"
       [] plain /\ broken                                           -> "failed"
       [] plain \/ (local /\ keys)                                  -> "ready"
       [] broken \/ (keys /\ file[f].error) \/ (local /\ ~keys)     -> "failed"
       [] OTHER                                                     -> "absent"

MacSees(o) == {Classify(o, keys) : keys \in BOOLEAN}

\* inspect_preparing: what is not a partial placeholder is read like any file.
WindowsSees(o) == {IF op[o].read = Of(o).size THEN "ready" ELSE "absent"}

Sees(o) == IF os = "macos" THEN MacSees(o) ELSE WindowsSees(o)

FailureTaken(o) ==
  coordinator' = IF os = "macos" /\ coordinator[op[o].file] = "failed"
                 THEN [coordinator EXCEPT ![op[o].file] = "none"]
                 ELSE coordinator

Reads(o, stage) ==
  op' = [op EXCEPT ![o].stage = stage, ![o].read = Of(o).bytes, ![o].was = op[o].quiet]

\* The metadata are read before the state of the coordinator and the keys.
ReadsMetadata(o) ==
  /\ op[o].stage = "polled"
  /\ Reads(o, "looked")
  /\ UNCHANGED <<os, file, coordinator, threads, hydration, operations, faults>>

-----------------------------------------------------------------------------
(* prepare and require_content_ready                                       *)

\* The bound of a behaviour: who has begun, or begins, on files of which size.
May(o) ==
  \E m \in Mixes : \A x \in Ops :
    op[x].stage # "new" \/ x = o => x \in m.ops /\ Of(x).size \in m.sizes

Prepare(o) ==
  /\ op[o].stage = "new" /\ May(o)
  /\ Reads(o, "judge")
  /\ UNCHANGED <<os, file, coordinator, threads, hydration, operations, faults>>

RequestAgain(f) ==  \* mutant: the state of the path is not looked at
  /\ coordinator' = [coordinator EXCEPT ![f] = "active"]
  /\ threads' = [threads EXCEPT ![f] = @ + 1]
  /\ UNCHANGED file

\* request_download: the system fetches, or a coordinated read is started
\* unless the path has one.
RequestDownload(f) ==
  \/ /\ file' = [file EXCEPT ![f].fetching = Partial(f), ![f].error = FALSE]
     /\ UNCHANGED <<coordinator, threads>>
  \/ /\ UNCHANGED file
     /\ IF coordinator[f] = "active" THEN UNCHANGED <<coordinator, threads>>
        ELSE /\ coordinator' = [coordinator EXCEPT ![f] = "active"]
             /\ threads' = [threads EXCEPT ![f] = @ + 1]

Registered(o) ==
  IF o \in Openings
  THEN /\ Move(o, IF os = "windows" THEN "hydrating" ELSE "failed")
       /\ UNCHANGED operations
  ELSE /\ op' = [op EXCEPT ![o].stage = "waiting", ![o].seen = op[o].read, ![o].idle = 0]
       /\ operations' = operations \cup {o}

\* prepare_once: what the inspection found decides; nothing is asked for a
\* file that is under way already.
Judges(o) ==
  /\ op[o].stage = "judge"
  /\ \E seen \in Sees(o) :
       \/ /\ seen \in {"ready", "failed"}
          /\ Move(o, seen) /\ FailureTaken(o)
          /\ UNCHANGED <<file, threads, hydration, operations>>
       \/ /\ seen = "materializing"
          /\ IF o \in Openings THEN Move(o, "failed") /\ UNCHANGED operations
             ELSE Registered(o)
          /\ FailureTaken(o)
          /\ UNCHANGED <<file, threads, hydration>>
       \/ /\ seen = "absent"
          /\ Move(o, "request") /\ FailureTaken(o)
          /\ UNCHANGED <<file, threads, hydration, operations>>
  /\ UNCHANGED <<os, faults>>

\* Whatever happened to the file since the look at it.
Requests(o) ==
  /\ op[o].stage = "request"
  /\ Registered(o)
  /\ IF os = "windows"
     THEN /\ hydration' = [hydration EXCEPT ![o] = "pending"]
          /\ UNCHANGED <<file, coordinator, threads>>
     ELSE RequestDownload(op[o].file) /\ UNCHANGED hydration
  /\ UNCHANGED <<os, faults>>

\* An opening waits for its own hydration and looks once more.
Hydrated(o) ==
  /\ op[o].stage = "hydrating" /\ hydration[o] # "pending"
  /\ Move(o, IF hydration[o] = "done" /\ ~Partial(op[o].file) THEN "ready" ELSE "failed")
  /\ hydration' = [hydration EXCEPT ![o] = "none"]
  /\ UNCHANGED <<os, file, coordinator, threads, operations, faults>>

-----------------------------------------------------------------------------
(* status and cancel                                                       *)

\* The map lets go of the operation: a pending hydration is cancelled and
\* drained with it, unless a poll still holds it.
Removed(o) ==
  /\ operations' = operations \ {o}
  /\ hydration' = [hydration EXCEPT ![o] = "none"]

Poll(o) ==
  /\ op[o].stage = "waiting"
  /\ IF o \notin operations
     THEN Move(o, "lost") /\ UNCHANGED <<operations, hydration>>
     ELSE IF hydration[o] = "failed"
     THEN Move(o, "failed") /\ Removed(o)
     ELSE /\ op' = [op EXCEPT ![o].stage = "polled", ![o].held = hydration[o] = "pending"]
          /\ UNCHANGED <<operations, hydration>>
  /\ UNCHANGED <<os, file, coordinator, threads, faults>>

NoWatchdog(o) ==  \* mutant: every poll counts as activity
  /\ op' = [op EXCEPT ![o].stage = "waiting", ![o].seen = op[o].read, ![o].idle = 0]
  /\ UNCHANGED <<operations, hydration>>

StallsAnyway(o) ==  \* mutant: growth is recorded but does not restart the clock
  /\ IF op[o].idle >= Stall THEN Move(o, "stalled") /\ Removed(o)
     ELSE /\ op' = [op EXCEPT ![o].stage = "waiting", ![o].seen = op[o].read]
          /\ UNCHANGED <<operations, hydration>>

\* Growth since the last poll restarts the watchdog.
Watched(o) ==
  IF op[o].read > op[o].seen
  THEN /\ op' = [op EXCEPT ![o].stage = "waiting", ![o].seen = op[o].read, ![o].idle = 0]
       /\ UNCHANGED <<operations, hydration>>
  ELSE IF op[o].idle >= Stall
  THEN Move(o, "stalled") /\ Removed(o)
  ELSE Move(o, "waiting") /\ UNCHANGED <<operations, hydration>>

Answer(o) ==
  /\ op[o].stage = "looked"
  /\ \E seen \in Sees(o) :
       \/ /\ seen = "failed"
          /\ Move(o, "failed") /\ Removed(o)
       \/ /\ seen = "ready"
          /\ IF op[o].held
             THEN /\ Move(o, IF o \in operations THEN "waiting" ELSE "lost")
                  /\ UNCHANGED <<operations, hydration>>
             ELSE Move(o, "ready") /\ Removed(o)
       \/ /\ seen \in {"materializing", "absent"}
          /\ IF o \in operations THEN Watched(o)
             ELSE Move(o, "lost") /\ UNCHANGED <<operations, hydration>>
  /\ FailureTaken(o)
  /\ UNCHANGED <<os, file, threads, faults>>

CancelForgets(o) ==  \* mutant: the hydration outlives its operation
  /\ o \in operations
  /\ operations' = operations \ {o}
  /\ op' = [op EXCEPT ![o].stage = IF @ = "waiting" THEN "cancelled" ELSE @]
  /\ UNCHANGED <<os, file, coordinator, threads, hydration, faults>>

\* cancel, at any time: also while a poll looks at the file.
Cancel(o) ==
  /\ o \in operations
  /\ Removed(o)
  /\ op' = [op EXCEPT ![o].stage = IF @ = "waiting" THEN "cancelled" ELSE @]
  /\ UNCHANGED <<os, file, coordinator, threads, faults>>

\* Time passes; a look at a file is short against a tick.
Tick(o) ==
  /\ o \in operations /\ op[o].stage = "waiting" /\ op[o].idle < Stall
  /\ op' = [op EXCEPT ![o].idle = @ + 1,
                      ![o].quiet = IF @ < Stall THEN @ + 1 ELSE Stall]
  /\ UNCHANGED <<os, file, coordinator, threads, hydration, operations, faults>>

-----------------------------------------------------------------------------
Step(o) == ReadsMetadata(o) \/ Judges(o) \/ Requests(o) \/ Hydrated(o) \/ Poll(o) \/ Answer(o)

Next ==
  \/ \E o \in Ops : Prepare(o) \/ Step(o) \/ Cancel(o) \/ Tick(o) \/ HydrationEnds(o)
  \/ \E f \in Files : Transfer(f) \/ Fault(f) \/ CoordinatorEnds(f)

Spec == Init /\ [][Next]_vars

TypeOK ==
  /\ os \in Systems /\ operations \subseteq Ops \ Openings
  /\ \A f \in Files : file[f].bytes \in 0..file[f].size /\ threads[f] \in 0..Cardinality(Ops)
                      /\ coordinator[f] \in {"none", "active", "failed"}
  /\ \A o \in Ops : op[o].stage \in Stages /\ op[o].idle \in 0..Stall
                    /\ hydration[o] \in {"none", "pending", "done", "failed"}

(* A file that keeps growing is never given up: an operation is stalled    *)
(* only if its file had not grown for the whole interval when it was last  *)
(* looked at.  (A file that is evicted meanwhile starts below what was     *)
(* seen, and its growth is not noticed.)                                   *)
StalledOnlyWhenQuiet ==
  \A o \in Ops : op[o].stage = "stalled" /\ ~Of(o).evicted => op[o].was >= Stall

(* One coordinated read per path, and the map says whether it runs: a      *)
(* second one would end the state of the first.                            *)
CoordinatedOnce ==
  \A f \in Files : threads[f] = IF coordinator[f] = "active" THEN 1 ELSE 0

(* A hydration that nobody waits for has been cancelled: it is pending     *)
(* only for an operation of the map or an opening that waits.              *)
HydrationOwned ==
  \A o \in Ops : hydration[o] = "pending" => o \in operations \/ op[o].stage = "hydrating"

(* The window polls, time passes and the system ends what it started.      *)
Fairness ==
  /\ \A o \in Ops : WF_vars(Step(o)) /\ SF_vars(Tick(o)) /\ WF_vars(HydrationEnds(o))
  /\ \A f \in Files : WF_vars(Transfer(f)) /\ WF_vars(CoordinatorEnds(f))

(* Every preparation ends: ready, failed, cancelled or, when the download  *)
(* has silently stopped or its failure was told to another operation on    *)
(* the same file, by the watchdog.                                         *)
PreparationsEnd ==
  \A o \in Ops : []<>(op[o].stage \in Over \cup {"new"})
=============================================================================
