------------------------------ MODULE Thumbnails ------------------------------
(***************************************************************************)
(* Frames for the seek bar (media/thumbnail.rs).  One request at a time    *)
(* holds `worker` and runs the FFmpeg sidecar up to three times; others    *)
(* are told "busy".  A second lock guards what is cancelled: the request   *)
(* that is active with its flag, a short memory of cancelled ids (a cancel *)
(* may overtake its request), and the player session that owns the frames, *)
(* whose end cancels the active request and empties the cache of sources.  *)
(***************************************************************************)
EXTENDS Naturals, Sequences

CONSTANTS
  Requests,   \* ids of requests, each used once
  Owners,     \* player sessions
  Files,      \* local videos
  MaxSources, \* sources that are remembered: 8 in the code
  Memory,     \* cancelled ids that are remembered: 32 in the code
  None

ThumbnailAssumption ==
  /\ MaxSources \in Nat \ {0} /\ Memory \in Nat \ {0}
  /\ None \notin Requests \cup Owners

VARIABLES
  worker,     \* the request, or the owner that cancels, that holds the lock
  active,     \* the request whose flag a cancel sets
  flags,      \* requests whose flag is set
  cancelled,  \* ids that were cancelled, oldest first
  owner,      \* the session that owns the frames
  child,      \* the request whose decoder runs
  sources,    \* files whose header is known
  binary,     \* the sidecar was found and has the pinned version
  req,        \* each request: its file, stage and outcome
  session,    \* each player session: new, started, cancelling, ended
  doomed      \* ghost: requests cancelled before they were judged, unless
              \* that was forgotten before they were active

vars == <<worker, active, flags, cancelled, owner, child, sources, binary,
          req, session, doomed>>

Stages == {"new", "locked", "prepared", "child", "judge", "answered"}

Init ==
  /\ worker = None /\ active = None /\ flags = {} /\ cancelled = <<>>
  /\ owner = None /\ child = None /\ sources = <<>> /\ binary = FALSE
  /\ req \in {[r \in Requests |-> [file |-> f[r], stage |-> "new", run |-> "none",
                                   outcome |-> "none"]] : f \in [Requests -> Files]}
  /\ session = [o \in Owners |-> "new"]
  /\ doomed = {}

-----------------------------------------------------------------------------
(* Cancelling.                                                             *)

\* Two operators of SequencesExt: with all of it, and what it extends, every
\* obligation of the proofs about this module carries that library.
Contains(s, e) == \E i \in 1..Len(s) : s[i] = e
RemoveAt(s, i) == SubSeq(s, 1, i - 1) \o SubSeq(s, i + 1, Len(s))

Forgets(id) == ~Contains(cancelled, id) /\ Len(cancelled) = Memory

Remember(id) ==
  IF Contains(cancelled, id) THEN cancelled
  ELSE Append(IF Forgets(id) THEN Tail(cancelled) ELSE cancelled, id)

Dooms(id) ==
  doomed' = {r \in doomed \cup {id} :
               /\ req[r].stage = "answered" => r \in doomed
               /\ Forgets(id) /\ r = Head(cancelled) => req[r].stage \notin {"new", "locked"}}

MarksActiveOnly(id) ==  \* mutant: a cancel that overtakes its request is lost
  /\ flags' = flags \cup ({id} \cap {active})
  /\ UNCHANGED cancelled
  /\ Dooms(id)

\* Cancellation::cancel: the flag if the request is active, and the memory.
Marks(id) ==
  /\ flags' = flags \cup ({id} \cap {active})
  /\ cancelled' = Remember(id)
  /\ Dooms(id)

CancelRequest(id) ==
  /\ id \notin doomed
  /\ Marks(id)
  /\ UNCHANGED <<worker, active, owner, child, sources, binary, req, session>>

\* start: the player session is registered, unless its open was cancelled.
Start(o) ==
  /\ session[o] = "new"
  /\ session' = [session EXCEPT ![o] = "started"]
  /\ owner' = o
  /\ UNCHANGED <<worker, active, flags, cancelled, child, sources, binary, req, doomed>>

ClearSourcesUnlocked(o) ==  \* mutant: the end of the decoder is not awaited
  /\ session[o] = "cancelling"
  /\ sources' = <<>>
  /\ session' = [session EXCEPT ![o] = "ended"]
  /\ UNCHANGED <<worker, active, flags, cancelled, owner, child, binary, req, doomed>>

\* cancel(owner) and shutdown: the active request is cancelled ...
CancelOwner(o) ==
  /\ session[o] \in {"new", "started"}
  /\ IF owner # o
     THEN /\ session' = [session EXCEPT ![o] = "ended"]
          /\ UNCHANGED <<owner, flags, cancelled, doomed>>
     ELSE /\ session' = [session EXCEPT ![o] = "cancelling"]
          /\ owner' = None
          /\ IF active = None THEN UNCHANGED <<flags, cancelled, doomed>>
             ELSE Marks(active)
  /\ UNCHANGED <<worker, active, child, sources, binary, req>>

\* ... and when the lock is free, its decoder has been reaped.

ClearSources(o) ==
  /\ session[o] = "cancelling" /\ worker = None
  /\ sources' = <<>>
  /\ session' = [session EXCEPT ![o] = "ended"]
  /\ UNCHANGED <<worker, active, flags, cancelled, owner, child, binary, req, doomed>>

-----------------------------------------------------------------------------
(* generate                                                                *)

\* The guards are dropped: ActiveRequest first, then the worker.
Answer(r, outcome) ==
  /\ req' = [req EXCEPT ![r].stage = "answered", ![r].outcome = outcome]
  /\ active' = IF active = r THEN None ELSE active
  /\ worker' = IF worker = r THEN None ELSE worker

\* try_lock: nobody waits for the worker.
Generate(r) ==
  /\ req[r].stage = "new"
  /\ IF worker # None
     THEN Answer(r, "busy")
     ELSE /\ worker' = r
          /\ req' = [req EXCEPT ![r].stage = "locked"]
          /\ UNCHANGED active
  /\ UNCHANGED <<flags, cancelled, owner, child, sources, binary, session, doomed>>

Register(r) ==
  /\ req[r].stage = "locked"
  /\ IF Contains(cancelled, r)
     THEN Answer(r, "cancelled")
     ELSE /\ active' = r
          /\ req' = [req EXCEPT ![r].stage = "prepared"]
          /\ UNCHANGED worker
  /\ UNCHANGED <<flags, cancelled, owner, child, sources, binary, session, doomed>>

\* What the sidecar is run for next: its version, the header, the frame.
NextRun(r) ==
  CASE ~binary                              -> "version"
    [] ~Contains(sources, req[r].file)      -> "probe"
    [] OTHER                                -> "frame"

\* The path or the sidecar is missing, or the source is HDR of a kind that
\* is not shown.
Refuse(r) ==
  /\ req[r].stage = "prepared"
  /\ Answer(r, "unavailable")
  /\ UNCHANGED <<flags, cancelled, owner, child, sources, binary, session, doomed>>

\* run_cancelled: nothing is started for a request that is cancelled.
RunChild(r) ==
  /\ req[r].stage = "prepared"
  /\ IF r \in flags
     THEN Answer(r, "error") /\ UNCHANGED child
     ELSE /\ child' = r
          /\ req' = [req EXCEPT ![r].stage = "child", ![r].run = NextRun(r)]
          /\ UNCHANGED <<active, worker>>
  /\ UNCHANGED <<flags, cancelled, owner, sources, binary, session, doomed>>

\* The decoder is killed and reaped at a cancel, or after 12 s.
KillChild(r) ==
  /\ req[r].stage = "child"
  /\ child' = None
  /\ Answer(r, "error")
  /\ UNCHANGED <<flags, cancelled, owner, sources, binary, session, doomed>>

\* The file becomes the newest, wherever it was: it is there once at most.
Others(f) ==
  IF Contains(sources, f)
  THEN RemoveAt(sources, CHOOSE i \in 1..Len(sources) : sources[i] = f)
  ELSE sources

Probed(f) ==
  Append(IF Len(Others(f)) = MaxSources THEN Tail(Others(f)) ELSE Others(f), f)

\* It ends by itself, before the flag is looked at.
ChildEnds(r) ==
  /\ req[r].stage = "child"
  /\ child' = None
  /\ \/ /\ req[r].run = "frame"
        /\ req' = [req EXCEPT ![r].stage = "judge"]
        /\ UNCHANGED <<active, worker, sources, binary>>
     \/ /\ req[r].run = "version"
        /\ binary' = TRUE
        /\ req' = [req EXCEPT ![r].stage = "prepared"]
        /\ UNCHANGED <<active, worker, sources>>
     \/ /\ req[r].run = "probe"
        /\ sources' = Probed(req[r].file)
        /\ req' = [req EXCEPT ![r].stage = "prepared"]
        /\ UNCHANGED <<active, worker, binary>>
     \/ /\ req[r].run \in {"version", "probe"}
        /\ Answer(r, "unavailable")
        /\ UNCHANGED <<sources, binary>>
  /\ UNCHANGED <<flags, cancelled, owner, session, doomed>>

\* The flag is looked at once more, then the frame: its colours and its end.
Judge(r) ==
  /\ req[r].stage = "judge"
  /\ IF r \in flags THEN Answer(r, "cancelled")
     ELSE \E outcome \in {"ready", "unavailable"} : Answer(r, outcome)
  /\ UNCHANGED <<flags, cancelled, owner, child, sources, binary, session, doomed>>

Step(r) ==
  Register(r) \/ Refuse(r) \/ RunChild(r) \/ KillChild(r) \/ ChildEnds(r) \/ Judge(r)

Next ==
  \/ \E r \in Requests : CancelRequest(r) \/ Generate(r) \/ Step(r)
  \/ \E o \in Owners : Start(o) \/ CancelOwner(o) \/ ClearSources(o)

Spec == Init /\ [][Next]_vars

-----------------------------------------------------------------------------
TypeOK ==
  /\ worker \in Requests \cup {None} /\ active \in Requests \cup {None}
  /\ child \in Requests \cup {None} /\ owner \in Owners \cup {None}
  /\ flags \subseteq Requests /\ cancelled \in Seq(Requests)
  /\ sources \in Seq(Files) /\ binary \in BOOLEAN
  /\ req \in [Requests -> [file : Files, stage : Stages,
                           run : {"none", "version", "probe", "frame"},
                           outcome : {"none", "busy", "cancelled", "error", "unavailable",
                                      "ready"}]]
  /\ session \in [Owners -> {"new", "started", "cancelling", "ended"}]
  /\ doomed \subseteq Requests

(* A request that is cancelled before its frame is judged yields no frame, *)
(* whether the cancel came before the request, between two runs of the     *)
(* sidecar or during one, and whoever cancelled; unless so many cancels    *)
(* came before the request that this one was forgotten.                    *)
CancelledYieldsNothing ==
  \A r \in doomed : req[r].outcome # "ready"

(* One decoder runs at a time, for the request that holds the worker, and  *)
(* a request that has been answered leaves none behind.                    *)
OneDecoder ==
  child # None => worker = child /\ active = child /\ req[child].stage = "child"

(* When the end of a player session returns, no decoder runs for a request *)
(* that it cancelled, and what was known of its files is forgotten: the    *)
(* files may be removed or the application may exit.                       *)
EndReaps ==
  [][\A o \in Owners :
       session[o] = "cancelling" /\ session'[o] = "ended"
         => child' \notin flags /\ sources' = <<>>]_vars

(* The thread of a request runs, and its children end or are killed.       *)
Fairness ==
  /\ \A r \in Requests : WF_vars(Step(r))
  /\ \A o \in Owners : WF_vars(ClearSources(o))

(* Every request is answered and every end of a session returns.           *)
RequestsAnswered ==
  /\ \A r \in Requests : []<>(req[r].stage \in {"new", "answered"})
  /\ \A o \in Owners : []<>(session[o] # "cancelling")
=============================================================================
