---------------------------- MODULE ShellObjects ----------------------------
(***************************************************************************)
(* What Explorer talks to on Windows (shell_integration/windows.rs): the   *)
(* thread that owns the clipboard object and runs the jobs of the commands,*)
(* the data object with the formats it offers, and the streams that hand   *)
(* out the content of a remote file in pieces, at the places the client    *)
(* seeks to.                                                               *)
(***************************************************************************)
EXTENDS Integers, FiniteSets, Sequences

CONSTANTS
  Calls,      \* calls of on_shell
  Hangs,      \* the calls whose job waits for a program that does not answer
  Size,       \* bytes of the remote file
  Short,      \* the longest seek that skips bytes: 16 MiB
  MaxFaults,  \* errors of the server
  None

ObjectAssumption ==
  /\ IsFiniteSet(Calls) /\ Hangs \subseteq Calls
  /\ Size \in Nat /\ Short \in Nat /\ MaxFaults \in Nat
  /\ None \notin Int \cup Calls \cup {"thread"}

VARIABLES
  call,      \* the step of each call
  queue,     \* jobs that were pushed
  holder,    \* who holds the lock of the queue: a call, "thread" or None
  posted,    \* messages for the thread
  running,   \* the job that runs, or None
  entries,   \* the tree of the selection: "unset", "known" or "failed"
  reader,    \* where the open download stands, or None
  position,  \* where the client believes it is
  served,    \* the place whose bytes the last read returned
  broken,    \* whether a read or a seek has failed since the download was opened
  faults

thread == <<call, queue, holder, posted, running>>
stream == <<reader, position, served, broken>>
vars == <<thread, entries, stream, faults>>

Init ==
  /\ call = [c \in Calls |-> "new"] /\ queue = <<>> /\ holder = None /\ posted = 0
  /\ running = None
  /\ entries = "unset"
  /\ reader = None /\ position = 0 /\ served = None /\ broken = FALSE /\ faults = 0

Fault == faults < MaxFaults /\ faults' = faults + 1
Step(c, s) == call' = [call EXCEPT ![c] = s]

-----------------------------------------------------------------------------
(* on_shell and the loop of the thread.  The lock of the queue is held     *)
(* while a job runs: the temporary of `while let` lives that long.         *)

Push(c) ==
  /\ call[c] = "new" /\ holder = None
  /\ queue' = Append(queue, c) /\ Step(c, "pushed")
  /\ UNCHANGED <<holder, posted, running, entries, stream, faults>>

\* The message follows also when the job has run with those before it.
PostMessage(c) ==
  /\ call[c] \in {"pushed", "ran"} /\ posted' = posted + 1
  /\ Step(c, IF call[c] = "ran" THEN "done" ELSE "waiting")
  /\ UNCHANGED <<queue, holder, running, entries, stream, faults>>

TimesOut(c) ==
  /\ call[c] = "waiting" /\ Step(c, "unanswered")
  /\ UNCHANGED <<queue, holder, posted, running, entries, stream, faults>>

PopOne ==  \* mutant: one job for each message, and none for those before it
  /\ holder = None /\ posted > 0
  /\ posted' = 0
  /\ IF queue = <<>> THEN UNCHANGED <<queue, holder, running>>
     ELSE /\ running' = Head(queue) /\ queue' = Tail(queue) /\ holder' = "thread"
  /\ UNCHANGED <<call, entries, stream, faults>>

\* One message runs every job that is queued.
Pop ==
  /\ holder = None /\ posted > 0
  /\ IF queue = <<>> THEN posted' = posted - 1 /\ UNCHANGED <<queue, holder, running>>
     ELSE /\ running' = Head(queue) /\ queue' = Tail(queue) /\ holder' = "thread"
          /\ UNCHANGED posted
  /\ UNCHANGED <<call, entries, stream, faults>>

\* The answer of a job whose caller has given up is dropped.
JobEnds ==
  /\ running # None /\ running \notin Hangs
  /\ IF call[running] = "unanswered" THEN UNCHANGED call
     ELSE Step(running, IF call[running] = "pushed" THEN "ran" ELSE "done")
  /\ running' = None /\ holder' = None
  /\ UNCHANGED <<queue, posted, entries, stream, faults>>

-----------------------------------------------------------------------------
(* The data object of a selection with remote items.                       *)

\* Every request for the list of files or for a content needs the tree; it
\* is walked once, and an error is kept as well.
GetData ==
  /\ entries = "unset"
  /\ \/ entries' = "known" /\ UNCHANGED faults
     \/ entries' = "failed" /\ Fault
  /\ UNCHANGED <<thread, stream>>

-----------------------------------------------------------------------------
(* A stream.                                                               *)

Ahead(n) == IF reader + n < Size THEN reader + n ELSE Size

\* reader(): a download is opened anew, and skips to the position.
Open ==
  /\ entries = "known" /\ reader = None
  /\ \/ reader' = (IF position < Size THEN position ELSE Size) /\ UNCHANGED faults
     \/ Fault /\ UNCHANGED reader
  /\ UNCHANGED <<thread, entries, position, served, broken>>

\* A read that fails has consumed what it had until then; the download stays
\* open, and the position where it was.
Read(n) ==
  /\ reader # None
  /\ \/ /\ served' = reader /\ reader' = Ahead(n)
        /\ position' = position + (Ahead(n) - reader)
        /\ UNCHANGED <<broken, faults>>
     \/ /\ Fault /\ broken' = TRUE
        /\ \E m \in 0..n : reader' = Ahead(m)
        /\ UNCHANGED <<position, served>>
  /\ UNCHANGED <<thread, entries>>

SeekOn(p) ==  \* mutant: any seek goes on with the open download
  /\ entries = "known" /\ position' = p
  /\ UNCHANGED <<thread, entries, reader, served, broken, faults>>

\* A short seek forward reads over the bytes; any other opens the download
\* anew at the next read.
Seek(p) ==
  /\ entries = "known" /\ p # position
  /\ LET skips == p > position /\ reader # None /\ p - position <= Short
     IN \/ /\ reader' = IF skips THEN Ahead(p - position) ELSE None
           /\ position' = p /\ broken' = (broken /\ skips)
           /\ UNCHANGED faults
        \/ /\ skips /\ Fault /\ broken' = TRUE
           /\ \E m \in 0..(p - position) : reader' = Ahead(m)
           /\ UNCHANGED position
  /\ UNCHANGED <<thread, entries, served>>

ThreadStep == Pop \/ JobEnds

Next ==
  \/ \E c \in Calls : Push(c) \/ PostMessage(c) \/ TimesOut(c)
  \/ ThreadStep
  \/ GetData \/ Open \/ (\E n \in 1..2 : Read(n)) \/ (\E p \in 0..(Size + 1) : Seek(p))

Spec == Init /\ [][Next]_vars

TypeOK ==
  /\ holder \in {"thread", None} /\ posted \in 0..Cardinality(Calls)
  /\ position \in Nat /\ reader \in 0..Size \cup {None}

(* The bytes that a read returns are those of the place the client is at,  *)
(* across any seeks and failed openings, except from a read or a skip that *)
(* failed on until a seek opens the download anew: the failure has moved   *)
(* the download and not the position.                                      *)
Placed == reader # None => reader = IF position < Size THEN position ELSE Size
InStep == ~broken => Placed

(* Does not hold: Read reports STG_E_READFAULT with the download and the   *)
(* position apart (windows.rs:321-333), and a read that follows returns    *)
(* bytes of another place.                                                 *)
InStepAfterErrors == Placed

(* A job runs under the lock and after its caller pushed it; the queue     *)
(* holds no job twice, so a job runs once.                                 *)
RunsOnce ==
  /\ running # None => holder = "thread" /\ call[running] # "new"
  /\ \A i, j \in 1..Len(queue) : queue[i] = queue[j] => i = j
  /\ running # None => \A i \in 1..Len(queue) : queue[i] # running

Fairness ==
  /\ WF_vars(ThreadStep)
  /\ \A c \in Calls : WF_vars(Push(c)) /\ WF_vars(PostMessage(c)) /\ WF_vars(TimesOut(c))

(* A call answers, by its job or by its limit of 60 s: as long as no job   *)
(* hangs, since a caller waits for the lock without a limit.               *)
Returned(c) == call[c] \in {"done", "unanswered"}
CallsReturn == \A c \in Calls : []<>Returned(c)
JobsRun == \A c \in Calls : []<>(\A i \in 1..Len(queue) : queue[i] # c)
=============================================================================
