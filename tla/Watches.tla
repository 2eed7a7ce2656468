------------------------------- MODULE Watches -------------------------------
(***************************************************************************)
(* Watching the folders that a window shows: the registry of the window    *)
(* (src/api/directoryWatch.js) asks for one subscription per path however  *)
(* many panels show it, and the native registry (filesystem/watch.rs)      *)
(* shares one notify watcher between the paths of one physical folder.     *)
(* A watcher that fails is removed from the registry, by the path of its   *)
(* folder, in a thread of its own; a request to watch that fails leaves    *)
(* nothing behind but a line in the log.                                   *)
(***************************************************************************)
EXTENDS Naturals, Sequences

CONSTANTS
  Panels,      \* panels and trees of the window
  Paths,       \* logical paths of one physical folder
  MaxQueue,    \* requests of a path that wait (the window has no limit)
  MaxWatchers, \* watchers that may be created
  MaxFaults    \* failures of watchers and of requests to watch

WatchAssumption ==
  /\ MaxWatchers \in Nat \ {0} /\ MaxQueue \in Nat /\ MaxFaults \in Nat

VARIABLES
  consumers,  \* window: the panels that show each path
  requests,   \* window: watch and unwatch requests of each path, in order
  timer,      \* window: each path's timer: "off", "running" or "due"
  record,     \* native: the watcher of the folder, 0 when there is none
  watched,    \* native: paths in the record
  callbacks,  \* native: callbacks of watchers that wait for the lock: "change", "error"
  removers,   \* native: threads that remove the record after a failure
  events,     \* paths with an event under way to the window
  created, faults,
  missed,     \* ghost: panels whose folder changed under the watcher, not yet listed again
  lost        \* ghost: why a path is not watched: its request was "refused", or its
              \* record was "removed" behind a failure; else "no"

vars == <<consumers, requests, timer, record, watched, callbacks, removers,
          events, created, faults, missed, lost>>

Init ==
  /\ consumers = [l \in Paths |-> {}] /\ requests = [l \in Paths |-> <<>>]
  /\ timer = [l \in Paths |-> "off"] /\ record = 0 /\ watched = {}
  /\ callbacks = {} /\ removers = 0 /\ events = {} /\ created = 0 /\ faults = 0
  /\ missed = {} /\ lost = [l \in Paths |-> "no"]

Fault == faults < MaxFaults /\ faults' = faults + 1

-----------------------------------------------------------------------------
(* The registry of the window.                                             *)

\* The first panel on a path asks for the subscription.
Subscribe(l, p) ==
  /\ p \notin UNION {consumers[m] : m \in Paths} /\ Len(requests[l]) < MaxQueue
  /\ created < MaxWatchers
  /\ requests' = IF consumers[l] # {} THEN requests
                 ELSE [requests EXCEPT ![l] = Append(@, "watch")]
  /\ consumers' = [consumers EXCEPT ![l] = @ \cup {p}]
  /\ UNCHANGED <<timer, record, watched, callbacks, removers, events, created,
                 faults, missed, lost>>

\* The last one takes its timer with it.
Unsubscribe(l, p) ==
  /\ p \in consumers[l] /\ Len(requests[l]) < MaxQueue
  /\ consumers' = [consumers EXCEPT ![l] = @ \ {p}]
  /\ IF consumers[l] = {p}
     THEN /\ timer' = [timer EXCEPT ![l] = "off"]
          /\ requests' = [requests EXCEPT ![l] = Append(@, "unwatch")]
     ELSE UNCHANGED <<timer, requests>>
  /\ missed' = missed \ {p}
  /\ UNCHANGED <<record, watched, callbacks, removers, events, created, faults, lost>>

\* scheduleRefresh: an event starts the timer again, also one that runs or is
\* due; an event of a path nobody shows is dropped.
EventArrives(l) ==
  /\ l \in events /\ events' = events \ {l}
  /\ timer' = IF consumers[l] = {} THEN timer ELSE [timer EXCEPT ![l] = "running"]
  /\ UNCHANGED <<consumers, requests, record, watched, callbacks, removers,
                 created, faults, missed, lost>>

\* 100 ms have passed since the last event.
Elapse(l) ==
  /\ timer[l] = "running" /\ timer' = [timer EXCEPT ![l] = "due"]
  /\ UNCHANGED <<consumers, requests, record, watched, callbacks, removers,
                 events, created, faults, missed, lost>>

\* The panels list the folder again.
Refresh(l) ==
  /\ timer[l] = "due" /\ timer' = [timer EXCEPT ![l] = "off"]
  /\ missed' = missed \ consumers[l]
  /\ UNCHANGED <<consumers, requests, record, watched, callbacks, removers,
                 events, created, faults, lost>>

-----------------------------------------------------------------------------
(* The native registry: commands of one path arrive one after another, and *)
(* each holds the lock of the map.                                         *)

\* The folder is gone, or no folder, or the system has no watch left: the
\* window logs the error, and nobody asks again.
Watch(l) ==
  /\ requests[l] # <<>> /\ Head(requests[l]) = "watch"
  /\ requests' = [requests EXCEPT ![l] = Tail(@)]
  /\ \/ /\ watched' = watched \cup {l}
        /\ IF record # 0 THEN UNCHANGED <<record, created>>
           ELSE created' = created + 1 /\ record' = created + 1
        /\ lost' = [lost EXCEPT ![l] = "no"]
        /\ UNCHANGED faults
     \/ /\ Fault /\ lost' = [lost EXCEPT ![l] = "refused"]
        /\ UNCHANGED <<record, watched, created>>
  /\ UNCHANGED <<consumers, timer, callbacks, removers, events, missed>>

DropRecord(l) ==  \* mutant: the record goes with any of its paths
  watched' = {} /\ record' = 0

\* unwatch: the record goes with its last path.
Leave(l) ==
  /\ watched' = watched \ {l}
  /\ record' = IF watched \subseteq {l} THEN 0 ELSE record

\* A path that the record does not hold leaves it as it is.
Unwatch(l) ==
  /\ requests[l] # <<>> /\ Head(requests[l]) = "unwatch"
  /\ requests' = [requests EXCEPT ![l] = Tail(@)]
  /\ Leave(l)
  /\ lost' = [lost EXCEPT ![l] = "no"]
  /\ UNCHANGED <<consumers, timer, callbacks, removers, events, created, faults, missed>>

\* The system calls the watcher back: a change, or an error of the watcher
\* or of the metadata of its folder.  Changes have no limit.  A callback looks
\* the record up by the path of the folder: whose it was does not matter.
Change ==
  /\ record # 0
  /\ missed' = missed \cup UNION {consumers[l] : l \in {m \in watched : requests[m] = <<>>}}
  /\ callbacks' = callbacks \cup {"change"}
  /\ UNCHANGED <<consumers, requests, timer, record, watched, removers, events,
                 created, faults, lost>>

Fail ==
  /\ record # 0 /\ Fault
  /\ callbacks' = callbacks \cup {"error"}
  /\ UNCHANGED <<consumers, requests, timer, record, watched, removers, events,
                 created, missed, lost>>

\* The paths that the record has now are told.
Emits ==
  events' = events \cup watched

Callback(c) ==
  /\ c \in callbacks /\ callbacks' = callbacks \ {c}
  /\ Emits
  /\ removers' = IF c = "error" THEN removers + 1 ELSE removers
  /\ UNCHANGED <<consumers, requests, timer, record, watched, created, faults,
                 missed, lost>>

\* Whatever record the path has by now is removed.
Remove ==
  /\ removers > 0 /\ removers' = removers - 1
  /\ record' = 0 /\ watched' = {}
  /\ lost' = [l \in Paths |-> IF l \in watched THEN "removed" ELSE lost[l]]
  /\ UNCHANGED <<consumers, requests, timer, callbacks, events, created, faults, missed>>

-----------------------------------------------------------------------------
Next ==
  \/ \E l \in Paths : \/ \E p \in Panels : Subscribe(l, p) \/ Unsubscribe(l, p)
                      \/ EventArrives(l) \/ Elapse(l) \/ Refresh(l)
                      \/ Watch(l) \/ Unwatch(l)
  \/ \E c \in callbacks : Callback(c)
  \/ Change \/ Fail \/ Remove

Spec == Init /\ [][Next]_vars

TypeOK ==
  /\ consumers \in [Paths -> SUBSET Panels] /\ record \in Nat /\ created \in Nat
  /\ watched \subseteq Paths /\ removers \in Nat
  /\ timer \in [Paths -> {"off", "running", "due"}]
  /\ \A l \in Paths : requests[l] \in Seq({"watch", "unwatch"})

(* Once the requests of a path are through, the native registry holds it   *)
(* exactly while some panel shows it, whatever the other paths of the      *)
(* folder ask for, unless its own request to watch was refused or a        *)
(* watcher of the folder failed and the record was removed; and there is   *)
(* one watcher exactly while the registry holds a path.                    *)
WatchedIffShown ==
  /\ \A l \in Paths : requests[l] = <<>> =>
       /\ l \in watched => consumers[l] # {}
       /\ consumers[l] # {} => l \in watched \/ lost[l] # "no"
  /\ (record # 0) <=> (watched # {})

(* docs/media-content.md: "Shared directory watching keeps one native      *)
(* subscription while either panel consumes it": a path that is shown is   *)
(* watched.  Not so: nobody repeats a request that was refused, nor one    *)
(* whose watcher failed, and the thread that removes a failed watcher may  *)
(* remove its successor.                                                   *)
KeptWhileShown ==
  \A l \in Paths : consumers[l] # {} /\ requests[l] = <<>> => l \in watched

(* The window's timers, the requests and the threads run.                  *)
Fairness ==
  /\ \A l \in Paths : WF_vars(EventArrives(l)) /\ WF_vars(Elapse(l)) /\ WF_vars(Refresh(l))
  /\ \A l \in Paths : WF_vars(Watch(l)) /\ WF_vars(Unwatch(l))
  /\ WF_vars(\E c \in callbacks : Callback(c)) /\ WF_vars(Remove)

\* A panel whose folder is not watched, by a refusal or a failure.
Unwatched(p) == \E l \in Paths : p \in consumers[l] /\ lost[l] # "no"

(* A change of a folder that is watched reaches every panel that shows it, *)
(* or the panel leaves, unless its watch is lost or the changes never      *)
(* stop: an event starts the timer of 100 ms again, so that a stream of    *)
(* them puts the refresh off for as long as it lasts.                      *)
ChangeSeen ==
  (\A p \in Panels : []<>(p \notin missed \/ Unwatched(p))) \/ []<><<Change>>_vars

(* Not so without the stream's end.                                        *)
ChangeSeenSoon == \A p \in Panels : []<>(p \notin missed \/ Unwatched(p))
=============================================================================
