--------------------------- MODULE PlayerSessions ---------------------------
(***************************************************************************)
(* The sessions of the native player (mpv/player.rs): command threads open,*)
(* play, pause and close sessions, each of which has a control thread with *)
(* a queue of messages.  `running` and `opening` are two maps under locks  *)
(* of their own, `audibility` a lock that an open and a Play hold while    *)
(* they silence the other sessions, and each attempt to open has a         *)
(* cancellation flag of its own.  What a control thread does inside one    *)
(* session is in PlayerControl.                                            *)
(***************************************************************************)
EXTENDS Naturals, Sequences

CONSTANTS
  Callers,   \* threads that run commands of the window
  Sessions,  \* session ids that the window has made up
  Videos,    \* those opened with a picture; the others are audio
  Autoplays, \* whether an open is to play: inputs
  Backends,  \* presentation backends that an open of a video tries in turn
  MaxOpens,  \* bound: attempts to open in a run
  Bounds,    \* bound: how many commands a run has, and how many of its
             \* requests get no answer in time
  None

PlayerAssumption ==
  /\ Videos \subseteq Sessions /\ Autoplays \subseteq BOOLEAN
  /\ Backends \in Nat \ {0} /\ MaxOpens \in Nat
  /\ Bounds \subseteq Nat \X Nat
  /\ None \notin Callers \cup Sessions

VARIABLES
  made,       \* attempts so far
  opening,    \* the attempt that a session is being opened by, or 0
  running,    \* the attempt whose player the session has, or 0
  cancelled,  \* attempts whose flag is set
  audibility, \* who holds the lock
  player,     \* the control thread and the mpv handle of each attempt
  pc, call,   \* the command that each thread runs
  late,       \* requests that got no answer in time
  calls       \* commands so far

vars == <<made, opening, running, cancelled, audibility, player, pc, call, late, calls>>

Attempts == 1..MaxOpens

Idle == [task |-> "none", session |-> None, attempt |-> 0, backend |-> 1,
         others |-> {}, victim |-> 0, answer |-> "none", autoplay |-> FALSE]

NoPlayer == [thread |-> "none", life |-> "closed", queue |-> <<>>,
             load |-> "none", waiter |-> None, autoplay |-> FALSE,
             interrupted |-> FALSE, playing |-> FALSE]

Init ==
  /\ made = 0
  /\ opening = [s \in Sessions |-> 0]
  /\ running = [s \in Sessions |-> 0]
  /\ cancelled = {}
  /\ audibility = None
  /\ player = [a \in Attempts |-> NoPlayer]
  /\ pc = [c \in Callers |-> "idle"]
  /\ call = [c \in Callers |-> Idle]
  /\ late = 0 /\ calls = 0

Goto(c, to) == pc' = [pc EXCEPT ![c] = to]

Starts(c) == pc[c] = "idle" /\ <<calls + 1, late>> \in Bounds /\ calls' = calls + 1

Start(c, task, s, to) ==
  /\ Starts(c)
  /\ call' = [call EXCEPT ![c] = [Idle EXCEPT !.task = task, !.session = s]]
  /\ Goto(c, to)

-----------------------------------------------------------------------------
(* Messages to a control thread and its answers.                           *)

\* A request of `c` to the player of attempt `a`; the thread may be gone.
Send(c, a, kind) ==
  player' = [player EXCEPT ![a].queue = Append(@, [kind |-> kind, from |-> c])]

Answered(c, answer) ==
  IF c = None THEN call ELSE [call EXCEPT ![c].answer = answer]

\* with_running: the player of the session, whatever attempt it is of.
Accepts(a) == player[a].life \in {"ready", "playing", "paused"}
Reachable(s) == running[s] # 0 /\ player[running[s]].thread = "alive"

\* The request of `c` is not answered within 30 s: its answer will go nowhere.
Forgotten(c, p) ==
  [p EXCEPT
     !.queue = [i \in DOMAIN @ |->
                  IF @[i].from = c THEN [@[i] EXCEPT !.from = None] ELSE @[i]],
     !.waiter = IF @ = c THEN None ELSE @]

TimesOut(c) ==
  /\ <<calls, late + 1>> \in Bounds
  /\ pc[c] \in {"pausing", "loading", "waiting"}
  /\ call[c].answer = "none"
  /\ late' = late + 1
  /\ player' = [a \in Attempts |-> Forgotten(c, player[a])]
  /\ call' = [call EXCEPT ![c].answer = "error"]
  /\ UNCHANGED <<made, opening, running, cancelled, audibility, pc, calls>>

-----------------------------------------------------------------------------
(* open                                                                    *)

\* Whether the session may be opened: another attempt of it must have been
\* cancelled, and there is one video at a time.
Opens(s) ==
  /\ opening[s] # 0 => opening[s] \in cancelled
  /\ s \in Videos => \A v \in Videos : opening[v] = 0 /\ running[v] = 0

OpenBegins(c, s, autoplay) ==
  /\ Starts(c)
  /\ made < MaxOpens
  /\ Opens(s)
  /\ made' = made + 1
  /\ opening' = [opening EXCEPT ![s] = made + 1]
  /\ call' = [call EXCEPT ![c] = [Idle EXCEPT
                 !.task = "open", !.session = s, !.attempt = made + 1,
                 !.autoplay = autoplay]]
  /\ Goto(c, "lock")
  /\ UNCHANGED <<running, cancelled, audibility, player, late>>

NoLock(c) ==  \* mutant: Play and open do not exclude each other
  /\ pc[c] = "lock"
  /\ call' = [call EXCEPT
       ![c].others = {s \in Sessions \ {call[c].session} : running[s] # 0}]
  /\ Goto(c, "others")
  /\ UNCHANGED <<made, opening, running, cancelled, audibility, player, late, calls>>

\* pause_others: the sessions that are registered when it starts.
TakeAudibility(c) ==
  /\ pc[c] = "lock"
  /\ audibility = None
  /\ audibility' = c
  /\ call' = [call EXCEPT
       ![c].others = {s \in Sessions \ {call[c].session} : running[s] # 0}]
  /\ Goto(c, "others")
  /\ UNCHANGED <<made, opening, running, cancelled, player, late, calls>>

\* Each of them gets a Pause, if it is still there.
PauseOther(c) ==
  /\ pc[c] = "others"
  /\ \E s \in call[c].others :
       \/ /\ Reachable(s)
          /\ Send(c, running[s], "pause")
          /\ Goto(c, "pausing")
          /\ call' = [call EXCEPT ![c].others = @ \ {s}, ![c].answer = "none"]
       \/ /\ ~Reachable(s)
          /\ call' = [call EXCEPT ![c].others = @ \ {s}]
          /\ UNCHANGED <<player, pc>>
  /\ UNCHANGED <<made, opening, running, cancelled, audibility, late, calls>>

\* The answer of a pause is not looked at.
OtherPaused(c) ==
  /\ pc[c] = "pausing"
  /\ call[c].answer # "none"
  /\ Goto(c, "others")
  /\ UNCHANGED <<made, opening, running, cancelled, audibility, player, call, late, calls>>

OthersPaused(c) ==
  /\ pc[c] = "others"
  /\ call[c].others = {}
  /\ Goto(c, IF call[c].task = "open" THEN "resolve" ELSE "command")
  /\ UNCHANGED <<made, opening, running, cancelled, audibility, player, call, late, calls>>

\* The source is found (or is not), and its stream registered.
Resolve(c) ==
  /\ pc[c] = "resolve"
  /\ \/ call[c].attempt \notin cancelled /\ Goto(c, "create")
     \/ Goto(c, "release")
  /\ UNCHANGED <<made, opening, running, cancelled, audibility, player, call, late, calls>>

LastBackend(c) == call[c].session \notin Videos \/ call[c].backend = Backends

\* After a failure the next backend is tried, unless the open was cancelled.
NextBackend(c) ==
  IF ~LastBackend(c) /\ call[c].attempt \notin cancelled
  THEN /\ Goto(c, "resolve")
       /\ call' = [call EXCEPT ![c].backend = @ + 1]
  ELSE Goto(c, "release") /\ UNCHANGED call

\* ensure_started up to its second lock: surface, handle and renderer are
\* made without a lock, which takes time and may fail.
Create(c) ==
  /\ pc[c] = "create"
  /\ \/ /\ running[call[c].session] = 0
        /\ call[c].attempt \notin cancelled
        /\ Goto(c, "insert") /\ UNCHANGED call
     \/ NextBackend(c)
  /\ UNCHANGED <<made, opening, running, cancelled, audibility, player, late, calls>>

InsertUnchecked(c) ==  \* mutant: no look at the flag under the lock
  LET s == call[c].session
      a == call[c].attempt
  IN /\ pc[c] = "insert"
     /\ player' = [player EXCEPT ![a] =
          [NoPlayer EXCEPT !.thread = "alive", !.life = "opening"]]
     /\ running' = [running EXCEPT ![s] = a]
     /\ Goto(c, "load")
     /\ UNCHANGED <<made, opening, cancelled, audibility, call, late, calls>>

\* The control thread is started and registered under the lock.
Insert(c) ==
  LET s == call[c].session
      a == call[c].attempt
  IN /\ pc[c] = "insert"
     /\ IF a \notin cancelled /\ running[s] = 0
        THEN /\ player' = [player EXCEPT ![a] =
                  [NoPlayer EXCEPT !.thread = "alive", !.life = "opening"]]
             /\ running' = [running EXCEPT ![s] = a]
             /\ Goto(c, "load")
             /\ UNCHANGED call
        ELSE NextBackend(c) /\ UNCHANGED <<player, running>>
     /\ UNCHANGED <<made, opening, cancelled, audibility, late, calls>>

\* The Load goes to the player that the session has now.
Load(c) ==
  LET s == call[c].session
  IN /\ pc[c] = "load"
     /\ Goto(c, "loading")
     /\ IF Reachable(s)
        THEN /\ Send(c, running[s], "load")
             /\ call' = [call EXCEPT ![c].answer = "none"]
        ELSE /\ call' = [call EXCEPT ![c].answer = "error"]
             /\ UNCHANGED player
     /\ UNCHANGED <<made, opening, running, cancelled, audibility, late, calls>>

Loaded(c) ==
  /\ pc[c] = "loading"
  /\ call[c].answer = "ok"
  /\ Goto(c, "release")
  /\ UNCHANGED <<made, opening, running, cancelled, audibility, player, call, late, calls>>

LoadFailedUnlocked(c) ==  \* mutant: the lock is released before the clean-up
  /\ pc[c] = "loading"
  /\ call[c].answer = "error"
  /\ Goto(c, "retire")
  /\ audibility' = IF audibility = c THEN None ELSE audibility
  /\ UNCHANGED <<made, opening, running, cancelled, player, call, late, calls>>

\* The open closes the session whose load failed.
LoadFailed(c) ==
  /\ pc[c] = "loading"
  /\ call[c].answer = "error"
  /\ Goto(c, "retire")
  /\ UNCHANGED <<made, opening, running, cancelled, audibility, player, call, late, calls>>

\* The guards are dropped: first the lock, then the entry of the open, if it
\* is still that of this attempt.
Release(c) ==
  /\ pc[c] = "release"
  /\ audibility' = IF audibility = c THEN None ELSE audibility
  /\ Goto(c, IF call[c].task = "open" THEN "unregister" ELSE "idle")
  /\ call' = [call EXCEPT ![c] = IF @.task = "open" THEN @ ELSE Idle]
  /\ UNCHANGED <<made, opening, running, cancelled, player, late, calls>>

UnregisterAny(c) ==  \* mutant: whoever holds the entry
  /\ pc[c] = "unregister"
  /\ opening' = [opening EXCEPT ![call[c].session] = 0]
  /\ call' = [call EXCEPT ![c] = Idle]
  /\ Goto(c, "idle")
  /\ UNCHANGED <<made, running, cancelled, audibility, player, late, calls>>

Unregister(c) ==
  /\ pc[c] = "unregister"
  /\ opening' = [opening EXCEPT ![call[c].session] =
                   IF @ = call[c].attempt THEN 0 ELSE @]
  /\ call' = [call EXCEPT ![c] = Idle]
  /\ Goto(c, "idle")
  /\ UNCHANGED <<made, running, cancelled, audibility, player, late, calls>>

-----------------------------------------------------------------------------
(* play, pause and close                                                   *)

PlayBegins(c, s) ==
  /\ Start(c, "play", s, "lock")
  /\ UNCHANGED <<made, opening, running, cancelled, audibility, player, late>>

PauseBegins(c, s) ==
  /\ Start(c, "pause", s, "command")
  /\ UNCHANGED <<made, opening, running, cancelled, audibility, player, late>>

\* with_running: a Pause is accepted while the session opens, a Play is not.
Command(c) ==
  LET s == call[c].session
      ok == Reachable(s) /\ (call[c].task = "pause" \/ Accepts(running[s]))
  IN /\ pc[c] = "command"
     /\ IF ok
        THEN /\ Send(c, running[s], call[c].task)
             /\ call' = [call EXCEPT ![c].answer = "none"]
             /\ Goto(c, "waiting")
        ELSE Goto(c, "release") /\ UNCHANGED <<player, call>>
     /\ UNCHANGED <<made, opening, running, cancelled, audibility, late, calls>>

CommandDone(c) ==
  /\ pc[c] = "waiting"
  /\ call[c].answer # "none"
  /\ Goto(c, "release")
  /\ UNCHANGED <<made, opening, running, cancelled, audibility, player, call, late, calls>>

\* close: the flag of the attempt under the one lock, then close_running.
CloseBegins(c, s) ==
  /\ Start(c, "close", s, "retire")
  /\ cancelled' = cancelled \cup ({opening[s]} \ {0})
  /\ UNCHANGED <<made, opening, running, audibility, player, late>>

\* close_all: every flag, then each session that is registered.
CloseAllBegins(c) ==
  /\ Starts(c)
  /\ cancelled' = cancelled \cup ({opening[s] : s \in Sessions} \ {0})
  /\ call' = [call EXCEPT ![c] = [Idle EXCEPT !.task = "close all",
                !.others = {s \in Sessions : running[s] # 0}]]
  /\ Goto(c, "each")
  /\ UNCHANGED <<made, opening, running, audibility, player, late>>

CloseEach(c) ==
  /\ pc[c] = "each"
  /\ \/ \E s \in call[c].others :
          /\ call' = [call EXCEPT ![c].others = @ \ {s}, ![c].session = s]
          /\ cancelled' = cancelled \cup ({opening[s]} \ {0})
          /\ Goto(c, "retire")
     \/ /\ call[c].others = {}
        /\ call' = [call EXCEPT ![c] = Idle]
        /\ Goto(c, "idle")
        /\ UNCHANGED cancelled
  /\ UNCHANGED <<made, opening, running, audibility, player, late, calls>>

\* close_running: the player is taken out of the map, told to end and joined.
AfterClose(c) ==
  CASE call[c].task = "open"      -> NextBackend(c)
    [] call[c].task = "close all" -> Goto(c, "each") /\ UNCHANGED call
    [] OTHER                      -> Goto(c, "release") /\ UNCHANGED call

Retire(c) ==
  LET s == call[c].session
      a == running[s]
  IN /\ pc[c] = "retire"
     /\ IF a = 0
        THEN AfterClose(c) /\ UNCHANGED <<running, cancelled, player>>
        ELSE /\ running' = [running EXCEPT ![s] = 0]
             /\ cancelled' = cancelled \cup {a}
             /\ player' = [player EXCEPT
                  ![a].life = "closing",
                  ![a].queue = Append(@, [kind |-> "shutdown", from |-> None])]
             /\ call' = [call EXCEPT ![c].victim = a]
             /\ Goto(c, "join")
     /\ UNCHANGED <<made, opening, audibility, late, calls>>

Join(c) ==
  /\ pc[c] = "join"
  /\ player[call[c].victim].thread = "ended"
  /\ IF call[c].task = "open" /\ ~LastBackend(c) /\ call[c].attempt \notin cancelled
     THEN /\ Goto(c, "resolve")
          /\ call' = [call EXCEPT ![c].backend = @ + 1, ![c].victim = 0]
     ELSE /\ Goto(c, IF call[c].task = "close all" THEN "each" ELSE "release")
          /\ call' = [call EXCEPT ![c].victim = 0]
  /\ UNCHANGED <<made, opening, running, cancelled, audibility, player, late, calls>>

-----------------------------------------------------------------------------
(* The control thread of attempt a.                                        *)

Alive(a) == player[a].thread = "alive"
Message(a) == Head(player[a].queue)
Takes(a, kind) == Alive(a) /\ player[a].queue # <<>> /\ Message(a).kind = kind

HandleLoad(a) ==
  /\ Takes(a, "load")
  /\ \/ /\ player' = [player EXCEPT
             ![a].queue = Tail(@), ![a].life = "opening", ![a].load = "pending",
             ![a].waiter = Message(a).from,
             ![a].autoplay = ~player[a].interrupted
                             /\ \E c \in Callers : call[c].attempt = a
                                                   /\ call[c].autoplay]
        /\ UNCHANGED call
     \/ /\ player' = [player EXCEPT ![a].queue = Tail(@), ![a].life = "error"]
        /\ call' = Answered(Message(a).from, "error")
  /\ UNCHANGED <<made, opening, running, cancelled, audibility, pc, late, calls>>

HandlePlay(a) ==
  /\ Takes(a, "play")
  /\ player' = [player EXCEPT
       ![a].queue = Tail(@), ![a].life = "playing", ![a].playing = TRUE,
       ![a].interrupted = FALSE]
  /\ call' = Answered(Message(a).from, "ok")
  /\ UNCHANGED <<made, opening, running, cancelled, audibility, pc, late, calls>>

HandlePause(a) ==
  /\ Takes(a, "pause")
  /\ player' = [player EXCEPT
       ![a].queue = Tail(@), ![a].life = "paused", ![a].playing = FALSE,
       ![a].interrupted = TRUE, ![a].autoplay = FALSE]
  /\ call' = Answered(Message(a).from, "ok")
  /\ UNCHANGED <<made, opening, running, cancelled, audibility, pc, late, calls>>

\* FILE_LOADED and finish_load, or a failure that ends the load.
FinishLoad(a) ==
  /\ Alive(a)
  /\ player[a].load = "pending"
  /\ \/ /\ player' = [player EXCEPT
             ![a].load = "done", ![a].playing = player[a].autoplay,
             ![a].life = IF player[a].autoplay THEN "playing" ELSE "paused",
             ![a].waiter = None]
        /\ call' = Answered(player[a].waiter, "ok")
     \/ /\ player' = [player EXCEPT
             ![a].load = "failed", ![a].life = "error", ![a].waiter = None]
        /\ call' = Answered(player[a].waiter, "error")
  /\ UNCHANGED <<made, opening, running, cancelled, audibility, pc, late, calls>>

\* The thread ends, at a Shutdown or because mpv ended: a pending load is
\* answered, the requests still in its queue are answered by their loss.
Abandoned(a) ==
  {player[a].queue[i].from : i \in DOMAIN player[a].queue} \cup {player[a].waiter}

EndsSilently(a) ==  \* mutant: a request that is not handled gets no answer
  /\ player' = [player EXCEPT ![a] = [NoPlayer EXCEPT !.thread = "ended"]]
  /\ UNCHANGED <<made, opening, running, cancelled, audibility, pc, call, late, calls>>

Ends(a) ==
  /\ player' = [player EXCEPT ![a] = [NoPlayer EXCEPT !.thread = "ended"]]
  /\ call' = [c \in Callers |->
       IF c \in Abandoned(a) THEN [call[c] EXCEPT !.answer = "error"] ELSE call[c]]
  /\ UNCHANGED <<made, opening, running, cancelled, audibility, pc, late, calls>>

HandleShutdown(a) == Takes(a, "shutdown") /\ Ends(a)
MpvEnds(a) == Alive(a) /\ Ends(a)

ControlStep(a) ==
  HandleLoad(a) \/ HandlePlay(a) \/ HandlePause(a) \/ HandleShutdown(a)

-----------------------------------------------------------------------------
OpenStep(c) ==
  \/ TakeAudibility(c) \/ PauseOther(c) \/ OtherPaused(c) \/ OthersPaused(c)
  \/ Resolve(c) \/ Create(c) \/ Insert(c) \/ Load(c) \/ Loaded(c)
  \/ LoadFailed(c) \/ Release(c) \/ Unregister(c)

CallStep(c) ==
  OpenStep(c) \/ Command(c) \/ CommandDone(c) \/ CloseEach(c) \/ Retire(c) \/ Join(c)

Next ==
  \/ \E c \in Callers :
       \/ \E s \in Sessions :
            \/ \E autoplay \in Autoplays : OpenBegins(c, s, autoplay)
            \/ PlayBegins(c, s) \/ PauseBegins(c, s) \/ CloseBegins(c, s)
       \/ CloseAllBegins(c)
       \/ CallStep(c)
       \/ TimesOut(c)
  \/ \E a \in Attempts : ControlStep(a) \/ FinishLoad(a) \/ MpvEnds(a)

Spec == Init /\ [][Next]_vars

-----------------------------------------------------------------------------
Messages == [kind : {"load", "play", "pause", "shutdown"},
             from : Callers \cup {None}]

TypeOK ==
  /\ made \in 0..MaxOpens /\ late \in Nat /\ calls \in Nat
  /\ opening \in [Sessions -> 0..MaxOpens]
  /\ running \in [Sessions -> 0..MaxOpens]
  /\ cancelled \subseteq Attempts
  /\ audibility \in Callers \cup {None}
  /\ \A a \in Attempts :
       /\ player[a].thread \in {"none", "alive", "ended"}
       /\ player[a].life \in {"opening", "ready", "playing", "paused",
                              "closing", "error", "closed"}
       /\ player[a].queue \in Seq(Messages)
       /\ player[a].waiter \in Callers \cup {None}

(* At most one session is heard: of the players that play, all but one     *)
(* have been told to pause or to end, whatever commands run at once and    *)
(* whatever answers are late.                                              *)
Heard(a) ==
  /\ player[a].playing
  /\ \A i \in DOMAIN player[a].queue :
       player[a].queue[i].kind \notin {"pause", "shutdown"}

OneHeard == \A a, b \in Attempts : Heard(a) /\ Heard(b) => a = b

(* An open that failed ends only the player that it started itself, though *)
(* it names it by its session and the session may be opened again.         *)
OwnPlayerOnly ==
  \A c \in Callers :
    pc[c] = "retire" /\ call[c].task = "open"
      => running[call[c].session] \in {0, call[c].attempt}

(* A session that was closed stays closed: when the open that a close      *)
(* cancelled and that close have returned, no player of it is registered,  *)
(* and no control thread runs that neither the map nor a close knows of.   *)
AtWork(c, a) == call[c].attempt = a \/ call[c].task \in {"close", "close all"}

ClosedForGood ==
  \A a \in Attempts :
    /\ a \in cancelled /\ (\A c \in Callers : ~AtWork(c, a))
         => \A s \in Sessions : running[s] # a
    /\ player[a].thread = "alive"
         => \/ \E s \in Sessions : running[s] = a
            \/ \E c \in Callers : call[c].victim = a

(* A close reaches every attempt to open that has not been cancelled yet:  *)
(* its entry is there, though an entry is overwritten by the next attempt  *)
(* of the session and taken out by each of them when it returns.           *)
CloseReaches ==
  \A c \in Callers :
    call[c].task = "open" /\ call[c].attempt \notin cancelled
      => opening[call[c].session] = call[c].attempt

(* Threads run, and the 30 s of a request pass.                            *)
Fairness ==
  /\ \A c \in Callers : WF_vars(CallStep(c))
  /\ \A a \in Attempts : WF_vars(ControlStep(a)) /\ WF_vars(FinishLoad(a))

(* Every command returns: no lock, request or join is waited for for ever. *)
CommandsReturn == \A c \in Callers : []<>(pc[c] = "idle")
=============================================================================
