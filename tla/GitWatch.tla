------------------------------ MODULE GitWatch ------------------------------
(***************************************************************************)
(* Live monitoring of a repository: the registry of the window             *)
(* (src/api/gitWatch.js), the native registry of watch threads and the     *)
(* loop of such a thread (git.rs).  The thread keeps one watch for each    *)
(* directory it found, tells the window after each look and, every 30 s,   *)
(* sets its watches up anew: events of the system come through a channel   *)
(* with room for one, so that anything, also an error, may be lost.        *)
(***************************************************************************)
EXTENDS Naturals, Sequences

CONSTANTS
  Panels,      \* viewers of the repository
  Directories, Root,  \* its directories, and the one that is always there
  MaxThreads,  \* watch threads that may be created
  MaxQueue,    \* requests of the window that wait
  MaxChanges,  \* changes of the repository
  MaxFaults    \* what upsets the watches: errors of the system's watcher or of its
               \* creation, refused requests, new directories

GitAssumption ==
  /\ Root \in Directories /\ MaxThreads \in Nat \ {0} /\ MaxQueue \in Nat \ {0}
  /\ MaxChanges \in Nat /\ MaxFaults \in Nat

Threads == 1..MaxThreads

VARIABLES
  consumers, requests, timer,  \* window: viewers, requests in order, a refresh that is due
  unseen,    \* ghost: the repository has changed since the window looked at it
  record,    \* native: the thread of the repository, 0 when there is none
  caller,    \* native: whether a watch command waits, with the lock, for its thread
  refused,   \* ghost: the last watch command of the window was answered by an error
  thread,    \* each thread: see Fresh
  dirs,      \* the directories that exist
  changes, faults

window == <<consumers, requests, timer>>
vars == <<window, unseen, record, caller, refused, thread, dirs, changes, faults>>

\* `dirty` is the wake flag of the record too; `watched` is what the thread believes,
\* `live` what the system watches.
Fresh == [pc |-> "none", stopped |-> FALSE, dirty |-> TRUE,
          desired |-> {}, watched |-> {}, live |-> {}, channel |-> "empty"]
Over == [Fresh EXCEPT !.pc = "over", !.stopped = TRUE]

Init ==
  /\ consumers = {} /\ requests = <<>> /\ timer = FALSE /\ unseen = FALSE
  /\ record = 0 /\ caller = FALSE /\ refused = FALSE
  /\ thread = [t \in Threads |-> Fresh]
  /\ dirs = {Root} /\ changes = 0 /\ faults = 0

Put(t, r) == thread' = [thread EXCEPT ![t] = r]
Fault == faults < MaxFaults /\ faults' = faults + 1

-----------------------------------------------------------------------------
(* The window.                                                             *)

Subscribe(p) ==
  /\ p \notin consumers /\ Len(requests) < MaxQueue
  /\ consumers' = consumers \cup {p}
  /\ requests' = IF consumers = {} THEN Append(requests, "watch") ELSE requests
  /\ unseen' = IF consumers = {} THEN FALSE ELSE unseen
  /\ UNCHANGED <<timer, record, caller, refused, thread, dirs, changes, faults>>

Unsubscribe(p) ==
  /\ p \in consumers /\ Len(requests) < MaxQueue
  /\ consumers' = consumers \ {p}
  /\ IF consumers = {p}
     THEN requests' = Append(requests, "unwatch") /\ timer' = FALSE
     ELSE UNCHANGED <<requests, timer>>
  /\ UNCHANGED <<unseen, record, caller, refused, thread, dirs, changes, faults>>

\* The window is focused again.
Focus ==
  /\ consumers # {} /\ Len(requests) < MaxQueue /\ ~timer
  /\ requests' = Append(requests, "watch") /\ timer' = TRUE
  /\ UNCHANGED <<consumers, unseen, record, caller, refused, thread, dirs, changes, faults>>

\* An event or an answer: the viewers are told 120 ms later.
Answered == timer' = (timer \/ consumers # {})

\* The viewers ask for the status of the repository.
Refresh ==
  /\ timer /\ timer' = FALSE /\ unseen' = FALSE
  /\ UNCHANGED <<consumers, requests, record, caller, refused, thread, dirs, changes, faults>>

-----------------------------------------------------------------------------
(* GitWatches: the lock of the records is held until the thread has looked *)
(* at the repository once, or ten seconds have passed.                     *)

Running == {t \in Threads : thread[t].pc \notin {"none", "over"}}
Unused == {t \in Threads : thread[t].pc = "none"}

HasMonitor == record \in {t \in Threads : ~thread[t].stopped}

\* The monitor there is looks again; else a thread is started, and the
\* command waits for it.
Watch ==
  /\ requests # <<>> /\ Head(requests) = "watch" /\ ~caller
  /\ requests' = Tail(requests) /\ refused' = FALSE
  /\ \/ /\ HasMonitor
        /\ Put(record, [thread[record] EXCEPT !.dirty = TRUE])
        /\ Answered /\ UNCHANGED <<record, caller>>
     \/ /\ ~HasMonitor
        /\ \E t \in Unused :
             /\ \A u \in Unused : t <= u
             /\ record' = t /\ caller' = TRUE
             /\ Put(t, [Fresh EXCEPT !.pc = "create"])
        /\ UNCHANGED timer
  /\ UNCHANGED <<consumers, unseen, dirs, changes, faults>>

\* The repository cannot be opened, or sixteen others have their threads: by
\* then the record of a thread that has ended is removed.  The viewers are told.
Refuse ==
  /\ requests # <<>> /\ Head(requests) = "watch" /\ ~caller /\ Fault
  /\ requests' = Tail(requests) /\ refused' = TRUE
  /\ Answered
  /\ \/ UNCHANGED record
     \/ ~HasMonitor /\ record' = 0
  /\ UNCHANGED <<consumers, unseen, caller, thread, dirs, changes>>

WatchReturns ==
  /\ caller /\ caller' = FALSE
  /\ Answered
  /\ UNCHANGED <<consumers, requests, unseen, record, refused, thread, dirs, changes, faults>>

Unwatch ==
  /\ requests # <<>> /\ Head(requests) = "unwatch" /\ ~caller
  /\ requests' = Tail(requests) /\ record' = 0
  /\ IF record = 0 THEN UNCHANGED thread
     ELSE Put(record, [thread[record] EXCEPT !.stopped = TRUE])
  /\ UNCHANGED <<consumers, timer, unseen, caller, refused, dirs, changes, faults>>

-----------------------------------------------------------------------------
(* monitor.                                                                *)

outside == <<consumers, requests, unseen, record, caller, refused, dirs, changes>>

Create(t) ==
  /\ thread[t].pc = "create"
  /\ \/ Put(t, [thread[t] EXCEPT !.pc = "loop"]) /\ UNCHANGED <<timer, faults>>
     \/ Fault /\ Answered /\ Put(t, Over)
  /\ UNCHANGED outside

Ends(t) ==
  /\ thread[t].pc = "loop" /\ thread[t].stopped
  /\ Put(t, Over)
  /\ UNCHANGED <<outside, timer, faults>>

\* Bursts are collected for 180 ms, which later events do not extend; then watch_paths
\* walks the repository.
Looks(t) ==
  /\ thread[t].pc = "loop" /\ ~thread[t].stopped /\ thread[t].dirty
  /\ Put(t, [thread[t] EXCEPT !.pc = "register", !.dirty = FALSE, !.desired = dirs])
  /\ UNCHANGED <<outside, timer, faults>>

\* The watches follow what it found.
Register(t) ==
  /\ thread[t].pc = "register"
  /\ LET r == thread[t]
         added == r.desired \ r.watched
     IN Put(t, [r EXCEPT !.pc = "loop", !.watched = r.desired, !.desired = {},
                         !.live = (r.live \cap r.desired) \cup added])
  /\ Answered
  /\ UNCHANGED <<outside, faults>>

\* An error drops every watch, and so does `late`, that thirty seconds have passed: the
\* next look sets them up again.
Wakes(t, late) ==
  /\ thread[t].pc = "loop"
  /\ LET r == thread[t]
         failed == r.channel = "error"
         again == failed \/ late
     IN /\ r.channel # "empty" \/ late
        /\ Put(t, [r EXCEPT !.channel = "empty", !.dirty = TRUE,
                            !.watched = IF again THEN {} ELSE @,
                            !.live = IF again THEN {} ELSE @])
        /\ IF failed THEN Answered ELSE UNCHANGED timer
  /\ UNCHANGED <<outside, faults>>

Receive(t) == Wakes(t, FALSE)

RecoverOnlyLooks(t) ==  \* mutant: the watches stay as they are believed to be
  /\ thread[t].pc = "loop"
  /\ Put(t, [thread[t] EXCEPT !.dirty = TRUE])
  /\ UNCHANGED <<outside, timer, faults>>

Recover(t) == Wakes(t, TRUE)

-----------------------------------------------------------------------------
(* The system: try_send drops what finds the channel full.                 *)

Sends(t, d, what) ==
  IF d \in thread[t].live /\ thread[t].channel = "empty"
  THEN [thread[t] EXCEPT !.channel = what] ELSE thread[t]

Change(d) ==
  /\ changes < MaxChanges /\ changes' = changes + 1 /\ d \in dirs
  /\ unseen' = (consumers # {})
  /\ thread' = [t \in Threads |-> Sends(t, d, "change")]
  /\ \/ UNCHANGED <<dirs, faults>>
     \/ d = Root /\ Fault /\ \E e \in Directories \ dirs : dirs' = dirs \cup {e}
  /\ UNCHANGED <<window, record, caller, refused>>

WatcherFails(t) ==
  /\ t \in Running /\ thread[t].live # {} /\ Fault
  /\ Put(t, [thread[t] EXCEPT !.live = {},
               !.channel = IF @ = "empty" THEN "error" ELSE @])
  /\ UNCHANGED <<outside, timer>>

Monitor(t) == Create(t) \/ Ends(t) \/ Looks(t) \/ Register(t) \/ Receive(t) \/ Recover(t)

Next ==
  \/ \E p \in Panels : Subscribe(p) \/ Unsubscribe(p)
  \/ Focus \/ Refresh \/ Watch \/ Refuse \/ WatchReturns \/ Unwatch
  \/ \E t \in Threads : Monitor(t) \/ WatcherFails(t)
  \/ \E d \in Directories : Change(d)

Spec == Init /\ [][Next]_vars

TypeOK ==
  /\ consumers \subseteq Panels /\ record \in 0..MaxThreads /\ Root \in dirs
  /\ \A t \in Threads : thread[t].live \subseteq thread[t].watched
                        /\ thread[t].channel \in {"empty", "change", "error"}

(* A repository has one thread that goes on watching, the one of its       *)
(* record: a thread whose record is gone has been told to stop.            *)
OneMonitor == \A t \in Running : ~thread[t].stopped => t = record

(* Once the requests are through, the repository has a record exactly      *)
(* while somebody views it, unless the last request to watch was answered  *)
(* by an error, of which the viewers were told.                            *)
RecordIffShown ==
  requests = <<>> =>
    /\ record # 0 => consumers # {}
    /\ consumers # {} => record # 0 \/ refused

\* What a thread does by itself.
Own(t) == Create(t) \/ Register(t) \/ Ends(t) \/ Looks(t)

(* Threads and timers run, ten and thirty seconds pass.                    *)
Fairness ==
  /\ WF_vars(Refresh) /\ WF_vars(Watch)
  /\ WF_vars(WatchReturns) /\ WF_vars(Unwatch)
  /\ \A t \in Threads : WF_vars(Own(t))
  /\ SF_vars(\E t \in Threads : Recover(t))

\* Nothing watches the repository: no thread is left in the bound, its
\* watcher could not be created, or the request was refused.
Unwatched ==
  \/ Unused = {} \/ record \in {t \in Threads : thread[t].stopped}
  \/ record = 0 /\ refused

(* A change of a repository that somebody views is seen, also one that no  *)
(* watch told of, unless nothing watches the repository.                   *)
ChangeSeen == []<>(~unseen \/ consumers = {} \/ Unwatched)

(* Whatever the system's watcher lost, even the error itself, every        *)
(* directory is watched again.                                             *)
Watched == \A t \in Threads : record # t \/ thread[t].stopped \/ thread[t].live = dirs
WatchedAgain == []<>Watched
=============================================================================
