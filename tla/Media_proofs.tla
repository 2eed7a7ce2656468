--------------------------- MODULE Media_proofs -----------------------------
(***************************************************************************)
(* Proofs about the player, its history and views, the thumbnails and the  *)
(* server of media, for every value of their constants, and what follows   *)
(* for Media.  Names of the proofs of a part begin with its instance.      *)
(***************************************************************************)
EXTENDS Media, Sequences, TLAPS

-----------------------------------------------------------------------------
(* Proofs about PlayerSessions for every number of threads, sessions,      *)
(* backends and attempts.                                                  *)
PlayersThreads == {"none", "alive", "ended"}
PlayersLives == {"opening", "ready", "playing", "paused", "closing", "error", "closed"}
PlayersPlayers == [thread : PlayersThreads, life : PlayersLives, queue : Seq(Players!Messages),
            load : {"none", "pending", "done", "failed"},
            waiter : psCallers \cup {None}, autoplay : BOOLEAN,
            interrupted : BOOLEAN, playing : BOOLEAN]
PlayersTasks == {"none", "open", "play", "pause", "close", "close all"}
PlayersCalls == [task : PlayersTasks, session : psSessions \cup {None}, attempt : 0..psMaxOpens,
          backend : Nat, others : SUBSET psSessions, victim : 0..psMaxOpens,
          answer : {"none", "ok", "error"}, autoplay : BOOLEAN]

(* Which command is where.                                                 *)
PlayersSilencing == {"lock", "others", "pausing"}
PlayersOpenOnly  == {"resolve", "create", "insert", "load", "loading", "unregister"}
PlayersEnding    == {"retire", "join"}
PlayersPcs == {"idle", "command", "waiting", "each", "release"}
         \cup PlayersSilencing \cup PlayersOpenOnly \cup PlayersEnding

PlayersTypes ==
  /\ psMade \in 0..psMaxOpens
  /\ psOpening \in [psSessions -> 0..psMaxOpens]
  /\ psRunning \in [psSessions -> 0..psMaxOpens]
  /\ psCancelled \subseteq Players!Attempts
  /\ psAudibility \in psCallers \cup {None}
  /\ psPlayer \in [Players!Attempts -> PlayersPlayers]
  /\ psCall \in [psCallers -> PlayersCalls]
  /\ psPc \in [psCallers -> PlayersPcs]
  /\ psLate \in Nat /\ psCalls \in Nat

PlayersPlaceOf(task) ==
  CASE task = "none"      -> {"idle"}
    [] task = "open"      -> PlayersSilencing \cup PlayersOpenOnly \cup PlayersEnding \cup {"release"}
    [] task = "play"      -> PlayersSilencing \cup {"command", "waiting", "release"}
    [] task = "pause"     -> {"command", "waiting", "release"}
    [] task = "close"     -> PlayersEnding \cup {"release"}
    [] task = "close all" -> PlayersEnding \cup {"each"}

PlayersPlaceOK(c) ==
  LET r == psCall[c]
  IN /\ psPc[c] \in PlayersPlaceOf(r.task)
     /\ r.task \in {"open", "play", "pause", "close"} => r.session \in psSessions
     /\ r.task = "open" => r.attempt \in 1..psMade
     /\ r.task # "open" => r.attempt = 0
     /\ psPc[c] = "retire" => r.session \in psSessions
     /\ r.victim # 0 => psPc[c] = "join"
     /\ psPc[c] = "join" => r.victim \in 1..psMade

(* An open keeps the lock until it has cleaned up after itself.            *)
PlayersLockOK(c) ==
  \/ psPc[c] \in {"others", "pausing"} \cup (PlayersOpenOnly \ {"unregister"})
  \/ psPc[c] \in PlayersEnding /\ psCall[c].task = "open"
  => psAudibility = c

(* The maps name an attempt of a running open under its session only, and  *)
(* what the open has registered is not replaced.                           *)
PlayersMineOK(c) ==
  LET r == psCall[c]
  IN r.task = "open" =>
       /\ \A s \in psSessions : r.attempt \in {psOpening[s], psRunning[s]} => s = r.session
       /\ psPc[c] \in {"load", "loading", "retire"}
            => psRunning[r.session] \in {0, r.attempt}
       /\ r.attempt \notin psCancelled => psOpening[r.session] = r.attempt

PlayersCallerOK(c) == PlayersPlaceOK(c) /\ PlayersLockOK(c) /\ PlayersMineOK(c)

PlayersDistinctOK ==
  \A c, d \in psCallers : c # d /\ psCall[c].task = "open" /\ psCall[d].task = "open"
                          => psCall[c].attempt # psCall[d].attempt

PlayersMapsOK ==
  /\ \A s \in psSessions : psOpening[s] \in 0..psMade /\ psRunning[s] \in 0..psMade
  /\ \A s, t \in psSessions : s # t =>
       /\ psOpening[s] # 0 => psOpening[s] \notin {psOpening[t], psRunning[t]}
       /\ psRunning[s] # 0 => psRunning[s] # psRunning[t]

(* A close is on its way to every player whose attempt is cancelled.       *)
PlayersReaches(c, s) ==
  \/ psPc[c] = "retire" /\ psCall[c].task \in {"close", "close all"} /\ psCall[c].session = s
  \/ psCall[c].task = "close all" /\ s \in psCall[c].others

PlayersReachedOK ==
  \A s \in psSessions : psRunning[s] # 0 /\ psRunning[s] \in psCancelled
                        => \E c \in psCallers : PlayersReaches(c, s)

PlayersKnownOK ==
  \A a \in Players!Attempts : psPlayer[a].thread = "alive" =>
    \/ \E s \in psSessions : psRunning[s] = a
    \/ \E c \in psCallers : psCall[c].victim = a

PlayersIInv ==
  /\ PlayersTypes
  /\ \A c \in psCallers : PlayersCallerOK(c)
  /\ PlayersDistinctOK /\ PlayersMapsOK /\ PlayersReachedOK /\ PlayersKnownOK


-----------------------------------------------------------------------------
LEMMA PlayersInitHolds == ASSUME Players!PlayerAssumption PROVE Players!Init => PlayersIInv
<1> SUFFICES ASSUME Players!Init PROVE PlayersIInv
  OBVIOUS
<1> USE DEF Players!Init
<1>1. PlayersTypes
  <2>1. Players!Idle \in PlayersCalls
    BY DEF Players!Idle, PlayersCalls, PlayersTasks, Players!PlayerAssumption
  <2>2. Players!NoPlayer \in PlayersPlayers
    BY DEF Players!NoPlayer, PlayersPlayers, PlayersThreads, PlayersLives
  <2>3. psCall \in [psCallers -> PlayersCalls] /\ psPlayer \in [Players!Attempts -> PlayersPlayers]
    BY <2>1, <2>2
  <2>4. psPc \in [psCallers -> PlayersPcs]
    BY DEF PlayersPcs
  <2>5. /\ psMade \in 0..psMaxOpens /\ psLate \in Nat /\ psCalls \in Nat
        /\ psOpening \in [psSessions -> 0..psMaxOpens]
        /\ psRunning \in [psSessions -> 0..psMaxOpens]
    BY DEF Players!PlayerAssumption
  <2> QED BY <2>3, <2>4, <2>5 DEF PlayersTypes
<1>2. ASSUME NEW c \in psCallers PROVE PlayersCallerOK(c)
  BY DEF PlayersCallerOK, PlayersPlaceOK, PlayersLockOK, PlayersMineOK, PlayersPlaceOf,
    Players!Idle, PlayersOpenOnly, PlayersEnding
<1>3. PlayersDistinctOK /\ PlayersMapsOK /\ PlayersReachedOK
  BY DEF PlayersDistinctOK, PlayersMapsOK, PlayersReachedOK, Players!Idle
<1>4. PlayersKnownOK
  BY DEF PlayersKnownOK, Players!NoPlayer, Players!Attempts
<1> QED BY <1>1, <1>2, <1>3, <1>4 DEF PlayersIInv

(* Types: the player of an attempt, the record of a command, the rest.     *)
LEMMA PlayersQueueTypes ==
  ASSUME PlayersTypes, NEW a \in Players!Attempts
  PROVE  /\ \A m \in Players!Messages : Append(psPlayer[a].queue, m) \in Seq(Players!Messages)
         /\ psPlayer[a].queue # <<>> =>
              Head(psPlayer[a].queue) \in Players!Messages /\ Tail(psPlayer[a].queue) \in Seq(Players!Messages)
         /\ \A i \in DOMAIN psPlayer[a].queue : psPlayer[a].queue[i] \in Players!Messages
<1>1. psPlayer[a].queue \in Seq(Players!Messages)
  BY DEF PlayersTypes, PlayersPlayers
<1> QED BY <1>1

LEMMA PlayersPlayerTypes ==
  ASSUME PlayersTypes, NEW a \in Players!Attempts
  PROVE  /\ \A k \in {"load", "play", "pause"}, c \in psCallers :
              Players!Send(c, a, k) => psPlayer' \in [Players!Attempts -> PlayersPlayers]
         /\ psPlayer[a].queue # <<>> => Players!Message(a).from \in psCallers \cup {None}
<1>1. psPlayer[a] \in PlayersPlayers /\ psPlayer \in [Players!Attempts -> PlayersPlayers]
  BY DEF PlayersTypes
<1>2. ASSUME NEW k \in {"load", "play", "pause"}, NEW c \in psCallers, Players!Send(c, a, k)
      PROVE  psPlayer' \in [Players!Attempts -> PlayersPlayers]
  <2> DEFINE m == [kind |-> k, from |-> c]
  <2>1. m \in Players!Messages
    BY DEF Players!Messages
  <2>2. Append(psPlayer[a].queue, m) \in Seq(Players!Messages)
    BY <2>1, PlayersQueueTypes
  <2>3. psPlayer' = [psPlayer EXCEPT ![a].queue = Append(psPlayer[a].queue, m)]
    BY <1>2 DEF Players!Send
  <2> HIDE DEF m
  <2> QED BY <1>1, <2>2, <2>3 DEF PlayersPlayers
<1>3. psPlayer[a].queue # <<>> => Players!Message(a).from \in psCallers \cup {None}
  BY PlayersQueueTypes DEF Players!Message, Players!Messages
<1> QED BY <1>2, <1>3

(* A new record of a command.                                              *)
LEMMA PlayersCallRecord ==
  ASSUME psCall \in [psCallers -> PlayersCalls], NEW c \in psCallers,
         NEW r \in PlayersCalls,
         psCall' = [psCall EXCEPT ![c] = r]
  PROVE  psCall' \in [psCallers -> PlayersCalls]
OBVIOUS

LEMMA PlayersCallTypes ==
  ASSUME Players!PlayerAssumption, PlayersTypes, \A c \in psCallers : PlayersPlaceOK(c),
         Players!Next
  PROVE  psCall' \in [psCallers -> PlayersCalls]
<1> DEFINE Good == psCall' \in [psCallers -> PlayersCalls]
<1>0. 0 \in 0..psMaxOpens /\ Players!Idle \in PlayersCalls
  BY DEF Players!Idle, PlayersCalls, PlayersTasks, Players!PlayerAssumption
<1>a. psCall \in [psCallers -> PlayersCalls]
  BY DEF PlayersTypes
<1>1. ASSUME NEW c \in psCallers, NEW s \in psSessions,
             Players!PlayBegins(c, s) \/ Players!PauseBegins(c, s) \/ Players!CloseBegins(c, s)
      PROVE  Good
  <2> DEFINE r(task) == [Players!Idle EXCEPT !.task = task, !.session = s]
  <2>1. \A task \in PlayersTasks : r(task) \in PlayersCalls
    BY <1>0 DEF PlayersCalls, PlayersTasks
  <2>2. \E task \in PlayersTasks : psCall' = [psCall EXCEPT ![c] = r(task)]
    BY <1>1 DEF Players!PlayBegins, Players!PauseBegins, Players!CloseBegins,
      Players!Start, PlayersTasks
  <2> HIDE DEF r
  <2> QED BY <1>a, <2>1, <2>2
<1>2. ASSUME NEW c \in psCallers, NEW s \in psSessions, NEW x \in psAutoplays,
             Players!OpenBegins(c, s, x)
      PROVE  Good
  <2> DEFINE r == [Players!Idle EXCEPT !.task = "open", !.session = s,
                     !.attempt = psMade + 1, !.autoplay = x]
  <2>1. psMade + 1 \in 0..psMaxOpens /\ x \in BOOLEAN
    BY <1>2 DEF Players!OpenBegins, PlayersTypes, Players!PlayerAssumption
  <2>2. r \in PlayersCalls /\ psCall' = [psCall EXCEPT ![c] = r]
    BY <1>0, <1>2, <2>1 DEF Players!OpenBegins, PlayersCalls, PlayersTasks
  <2> HIDE DEF r
  <2> QED BY <1>a, <2>2
<1>3. ASSUME NEW c \in psCallers, Players!CloseAllBegins(c) PROVE Good
  <2> DEFINE r == [Players!Idle EXCEPT !.task = "close all",
                     !.others = {s \in psSessions : psRunning[s] # 0}]
  <2>1. r \in PlayersCalls /\ psCall' = [psCall EXCEPT ![c] = r]
    BY <1>0, <1>3 DEF Players!CloseAllBegins, PlayersCalls, PlayersTasks
  <2> HIDE DEF r
  <2> QED BY <1>a, <2>1
<1>4. ASSUME NEW c \in psCallers,
             Players!TakeAudibility(c) \/ Players!PauseOther(c) \/ Players!Load(c) \/ Players!TimesOut(c) \/ Players!Command(c)
      PROVE  Good
  <2>1. psCall[c] \in PlayersCalls
    BY <1>a
  <2>2. ASSUME NEW set \in SUBSET psSessions, NEW answer \in {"none", "ok", "error"}
        PROVE  [psCall[c] EXCEPT !.others = set, !.answer = answer] \in PlayersCalls
    BY <2>1 DEF PlayersCalls
  <2>3. CASE Players!TakeAudibility(c)
    <3> DEFINE set == {s \in psSessions \ {psCall[c].session} : psRunning[s] # 0}
    <3>1. [psCall[c] EXCEPT !.others = set] \in PlayersCalls
      BY <2>1 DEF PlayersCalls
    <3>2. psCall' = [psCall EXCEPT ![c] = [psCall[c] EXCEPT !.others = set]]
      BY <1>a, <2>3 DEF Players!TakeAudibility
    <3> HIDE DEF set
    <3> QED BY <1>a, <3>1, <3>2
  <2>4. CASE Players!PauseOther(c)
    <3>1. PICK s \in psCall[c].others :
            \/ psCall' = [psCall EXCEPT ![c].others = @ \ {s}, ![c].answer = "none"]
            \/ psCall' = [psCall EXCEPT ![c].others = @ \ {s}]
      BY <2>4 DEF Players!PauseOther
    <3>2. /\ [psCall[c] EXCEPT !.others = @ \ {s}, !.answer = "none"] \in PlayersCalls
          /\ [psCall[c] EXCEPT !.others = @ \ {s}] \in PlayersCalls
      BY <2>1 DEF PlayersCalls
    <3>3. \/ psCall' = [psCall EXCEPT ![c] = [psCall[c] EXCEPT !.others = @ \ {s}, !.answer = "none"]]
          \/ psCall' = [psCall EXCEPT ![c] = [psCall[c] EXCEPT !.others = @ \ {s}]]
      BY <1>a, <3>1
    <3> QED BY <1>a, <3>2, <3>3
  <2>5. CASE Players!Load(c) \/ Players!TimesOut(c) \/ Players!Command(c)
    <3>1. \E x \in {"none", "error"} : psCall' = [psCall EXCEPT ![c].answer = x] \/ psCall' = psCall
      BY <2>5 DEF Players!Load, Players!TimesOut, Players!Command
    <3>2. \A x \in {"none", "error"} : [psCall[c] EXCEPT !.answer = x] \in PlayersCalls
      BY <2>1 DEF PlayersCalls
    <3> QED BY <1>a, <3>1, <3>2
  <2> QED BY <1>4, <2>3, <2>4, <2>5
<1>5. ASSUME NEW c \in psCallers,
             \/ Players!OtherPaused(c) \/ Players!OthersPaused(c) \/ Players!Resolve(c) \/ Players!Loaded(c)
             \/ Players!LoadFailed(c) \/ Players!CommandDone(c)
      PROVE  Good
  BY <1>a, <1>5 DEF Players!OtherPaused, Players!OthersPaused, Players!Resolve,
    Players!Loaded, Players!LoadFailed, Players!CommandDone
<1>6. ASSUME NEW c \in psCallers, Players!Create(c) \/ Players!Insert(c) PROVE Good
  <2>1. [psCall[c] EXCEPT !.backend = @ + 1] \in PlayersCalls
    BY <1>a DEF PlayersCalls
  <2>2. psCall' = psCall \/ psCall' = [psCall EXCEPT ![c] = [psCall[c] EXCEPT !.backend = @ + 1]]
    BY <1>a, <1>6 DEF Players!Create, Players!Insert, Players!NextBackend
  <2> QED BY <1>a, <2>1, <2>2
<1>7. ASSUME NEW c \in psCallers, Players!Release(c) \/ Players!Unregister(c) PROVE Good
  BY <1>0, <1>a, <1>7 DEF Players!Release, Players!Unregister
<1>8. ASSUME NEW c \in psCallers, Players!CloseEach(c) PROVE Good
  <2>1. ASSUME NEW s \in psCall[c].others
        PROVE  [psCall[c] EXCEPT !.others = @ \ {s}, !.session = s] \in PlayersCalls
    BY <1>a DEF PlayersCalls
  <2>2. \/ psCall' = [psCall EXCEPT ![c] = Players!Idle]
        \/ \E s \in psCall[c].others :
             psCall' = [psCall EXCEPT ![c] = [psCall[c] EXCEPT !.others = @ \ {s}, !.session = s]]
    BY <1>a, <1>8 DEF Players!CloseEach
  <2> QED BY <1>0, <1>a, <2>1, <2>2
<1>9. ASSUME NEW c \in psCallers, Players!Retire(c) PROVE Good
  <2>1. psRunning[psCall[c].session] \in 0..psMaxOpens
    BY <1>9 DEF Players!Retire, PlayersPlaceOK, PlayersTypes
  <2>2. /\ [psCall[c] EXCEPT !.backend = @ + 1] \in PlayersCalls
        /\ [psCall[c] EXCEPT !.victim = psRunning[psCall[c].session]] \in PlayersCalls
    BY <1>a, <2>1 DEF PlayersCalls
  <2>3. \/ psCall' = psCall
        \/ psCall' = [psCall EXCEPT ![c] = [psCall[c] EXCEPT !.backend = @ + 1]]
        \/ psCall' = [psCall EXCEPT ![c] = [psCall[c] EXCEPT !.victim = psRunning[psCall[c].session]]]
    BY <1>a, <1>9 DEF Players!Retire, Players!AfterClose, Players!NextBackend
  <2> QED BY <1>a, <2>2, <2>3
<1>10. ASSUME NEW c \in psCallers, Players!Join(c) PROVE Good
  <2>1. [psCall[c] EXCEPT !.victim = 0] \in PlayersCalls
    BY <1>0, <1>a DEF PlayersCalls
  <2>3. [psCall[c] EXCEPT !.backend = @ + 1, !.victim = 0] \in PlayersCalls
    <3> DEFINE r == [psCall[c] EXCEPT !.victim = 0]
               n == psCall[c].backend + 1
    <3>1. r \in PlayersCalls /\ n \in Nat
      BY <1>a, <2>1 DEF PlayersCalls
    <3>2. [r EXCEPT !.backend = n] = [psCall[c] EXCEPT !.backend = @ + 1, !.victim = 0]
      BY <1>a DEF PlayersCalls
    <3> HIDE DEF r, n
    <3>3. [r EXCEPT !.backend = n] \in PlayersCalls
      BY <3>1 DEF PlayersCalls
    <3> QED BY <3>2, <3>3
  <2>2. \/ psCall' = [psCall EXCEPT ![c] = [psCall[c] EXCEPT !.backend = @ + 1, !.victim = 0]]
        \/ psCall' = [psCall EXCEPT ![c] = [psCall[c] EXCEPT !.victim = 0]]
    BY <1>a, <1>10 DEF Players!Join
  <2> QED BY <1>a, <2>1, <2>2, <2>3
<1>11. ASSUME NEW a \in Players!Attempts, NEW c \in psCallers \cup {None},
              NEW x \in {"ok", "error"}, psCall' = Players!Answered(c, x)
       PROVE  Good
  <2>1. c \in psCallers => [psCall[c] EXCEPT !.answer = x] \in PlayersCalls
    BY <1>a DEF PlayersCalls
  <2> QED BY <1>11, <1>a, <2>1 DEF Players!Answered
<1>12. ASSUME NEW a \in Players!Attempts, Players!HandleLoad(a) \/ Players!HandlePlay(a) \/ Players!HandlePause(a)
       PROVE  Good
  <2>1. psPlayer[a].queue # <<>>
    BY <1>12 DEF Players!HandleLoad, Players!HandlePlay, Players!HandlePause,
      Players!Takes
  <2>2. Players!Message(a).from \in psCallers \cup {None}
    BY <2>1, PlayersPlayerTypes
  <2> HIDE DEF Good
  <2>3. psCall' = psCall => Good
    BY <1>a DEF Good
  <2> QED BY <1>11, <1>12, <2>2, <2>3 DEF Players!HandleLoad, Players!HandlePlay,
      Players!HandlePause
<1>13. ASSUME NEW a \in Players!Attempts, Players!FinishLoad(a) PROVE Good
  <2>1. psPlayer[a].waiter \in psCallers \cup {None}
    BY DEF PlayersPlayers, PlayersTypes
  <2> HIDE DEF Good
  <2> QED BY <1>11, <1>13, <2>1 DEF Players!FinishLoad
<1>14. ASSUME NEW a \in Players!Attempts, Players!Ends(a) PROVE Good
  <2>1. \A c \in psCallers : [psCall[c] EXCEPT !.answer = "error"] \in PlayersCalls
    BY <1>a DEF PlayersCalls
  <2> QED BY <1>a, <1>14, <2>1 DEF Players!Ends
<1> HIDE DEF Good
<1>15. ASSUME NEW c \in psCallers, Players!CallStep(c) \/ Players!TimesOut(c) PROVE Good
  BY <1>4, <1>5, <1>6, <1>7, <1>8, <1>9, <1>10, <1>15 DEF Players!CallStep,
    Players!OpenStep
<1>16. ASSUME NEW a \in Players!Attempts, Players!ControlStep(a) \/ Players!FinishLoad(a) \/ Players!MpvEnds(a)
       PROVE  Good
  BY <1>12, <1>13, <1>14, <1>16 DEF Players!ControlStep, Players!HandleShutdown,
    Players!MpvEnds
<1>17. Good
  BY <1>1, <1>2, <1>3, <1>15, <1>16 DEF Players!Next
<1> QED BY <1>17 DEF Good

LEMMA PlayersPcTypes ==
  ASSUME PlayersTypes, Players!Next PROVE psPc' \in [psCallers -> PlayersPcs]
<1> DEFINE Good == psPc' \in [psCallers -> PlayersPcs]
<1>0. psPc \in [psCallers -> PlayersPcs]
  BY DEF PlayersTypes
<1>1. ASSUME NEW c \in psCallers, NEW p \in PlayersPcs, Players!Goto(c, p) PROVE Good
  BY <1>0, <1>1 DEF Players!Goto
<1>2. psPc' = psPc => Good
  BY <1>0
<1> HIDE DEF Good
<1> USE DEF PlayersPcs, PlayersSilencing, PlayersOpenOnly, PlayersEnding
<1>3. ASSUME NEW c \in psCallers, NEW s \in psSessions,
             \/ \E x \in psAutoplays : Players!OpenBegins(c, s, x)
             \/ Players!PlayBegins(c, s) \/ Players!PauseBegins(c, s) \/ Players!CloseBegins(c, s)
      PROVE  Good
  BY <1>1, <1>3 DEF Players!OpenBegins, Players!PlayBegins, Players!PauseBegins,
    Players!CloseBegins, Players!Start
<1>9. ASSUME NEW c \in psCallers, Players!CloseAllBegins(c) PROVE Good
  BY <1>1, <1>9 DEF Players!CloseAllBegins
<1>4. ASSUME NEW c \in psCallers, Players!OpenStep(c) PROVE Good
  BY <1>1, <1>2, <1>4 DEF Players!OpenStep, Players!TakeAudibility, Players!PauseOther,
    Players!OtherPaused, Players!OthersPaused, Players!Resolve, Players!Create,
    Players!Insert, Players!NextBackend, Players!Load, Players!Loaded,
    Players!LoadFailed, Players!Release, Players!Unregister
<1>5. ASSUME NEW c \in psCallers, Players!CallStep(c) PROVE Good
  BY <1>1, <1>4, <1>5 DEF Players!CallStep, Players!Command, Players!CommandDone,
    Players!CloseEach, Players!Retire, Players!AfterClose, Players!NextBackend,
    Players!Join
<1>6. ASSUME NEW c \in psCallers, Players!TimesOut(c) PROVE Good
  BY <1>2, <1>6 DEF Players!TimesOut
<1>7. ASSUME NEW a \in Players!Attempts, Players!ControlStep(a) \/ Players!FinishLoad(a) \/ Players!MpvEnds(a)
      PROVE  Good
  BY <1>2, <1>7 DEF Players!ControlStep, Players!HandleLoad, Players!HandlePlay,
    Players!HandlePause, Players!HandleShutdown, Players!FinishLoad, Players!MpvEnds,
    Players!Ends
<1> HIDE DEF PlayersPcs, PlayersSilencing, PlayersOpenOnly, PlayersEnding
<1>8. Good
  BY <1>3, <1>5, <1>6, <1>7, <1>9 DEF Players!Next
<1> QED BY <1>8 DEF Good

(* The types of the players, and that a control thread starts with Insert  *)
(* only.                                                                   *)
PlayersNewThread == \E c \in psCallers : Players!Insert(c) /\ psPlayer' # psPlayer

LEMMA PlayersPlayersStep ==
  ASSUME Players!PlayerAssumption, PlayersTypes, \A c \in psCallers : PlayersPlaceOK(c),
         Players!Next
  PROVE  /\ psPlayer' \in [Players!Attempts -> PlayersPlayers]
         /\ PlayersNewThread \/ \A a \in Players!Attempts :
              psPlayer'[a].thread = "alive" => psPlayer[a].thread = "alive"
<1> DEFINE Good == /\ psPlayer' \in [Players!Attempts -> PlayersPlayers]
                   /\ PlayersNewThread \/ \A a \in Players!Attempts :
                        psPlayer'[a].thread = "alive" => psPlayer[a].thread = "alive"
<1>0. psPlayer \in [Players!Attempts -> PlayersPlayers]
  BY DEF PlayersTypes
<1>1. ASSUME NEW a \in Players!Attempts, NEW p \in PlayersPlayers,
             psPlayer' = [psPlayer EXCEPT ![a] = p],
             p.thread = "alive" => psPlayer[a].thread = "alive"
      PROVE  Good
  BY <1>0, <1>1
<1>2. psPlayer' = psPlayer => Good
  BY <1>0
<1> HIDE DEF Good
<1>3. ASSUME NEW c \in psCallers, NEW a \in Players!Attempts, NEW k \in {"load", "play", "pause"},
             Players!Send(c, a, k)
      PROVE  Good
  <2>1. psPlayer' \in [Players!Attempts -> PlayersPlayers]
    BY <1>3, PlayersPlayerTypes
  <2>2. \A b \in Players!Attempts : psPlayer'[b].thread = psPlayer[b].thread
    BY <1>0, <1>3 DEF Players!Send, PlayersPlayers
  <2> QED BY <2>1, <2>2 DEF Good
<1>4. \A s \in psSessions : psRunning[s] # 0 => psRunning[s] \in Players!Attempts
  BY DEF PlayersTypes, Players!Attempts, Players!PlayerAssumption
<1>5. ASSUME NEW c \in psCallers, Players!PauseOther(c) PROVE Good
  <2>1. \A s \in psCall[c].others : s \in psSessions
    BY DEF PlayersTypes, PlayersCalls
  <2> QED BY <1>2, <1>3, <1>4, <1>5, <2>1 DEF Players!PauseOther, Players!Reachable
<1>6. ASSUME NEW c \in psCallers, Players!Load(c) PROVE Good
  <2>1. psCall[c].session \in psSessions
    BY <1>6 DEF Players!Load, PlayersPlaceOK, PlayersPlaceOf, PlayersTypes,
      PlayersCalls, PlayersTasks, PlayersSilencing, PlayersEnding
  <2> QED BY <1>2, <1>3, <1>4, <1>6, <2>1 DEF Players!Load, Players!Reachable
<1>7. ASSUME NEW c \in psCallers, Players!Command(c) PROVE Good
  <2>1. psCall[c].task \in {"play", "pause"} /\ psCall[c].session \in psSessions
    BY <1>7 DEF Players!Command, PlayersPlaceOK, PlayersPlaceOf, PlayersTypes,
      PlayersCalls, PlayersTasks, PlayersSilencing, PlayersOpenOnly, PlayersEnding
  <2> QED BY <1>2, <1>3, <1>4, <1>7, <2>1 DEF Players!Command, Players!Reachable
<1>8. ASSUME NEW c \in psCallers, Players!Insert(c) PROVE Good
  <2> DEFINE p == [Players!NoPlayer EXCEPT !.thread = "alive", !.life = "opening"]
  <2>1. p \in PlayersPlayers
    <3>1. <<>> \in Seq(Players!Messages)
      OBVIOUS
    <3> QED BY <3>1 DEF Players!NoPlayer, PlayersPlayers, PlayersThreads, PlayersLives
  <2>2. psPlayer' = psPlayer \/ psPlayer' = [psPlayer EXCEPT ![psCall[c].attempt] = p]
    BY <1>8 DEF Players!Insert
  <2> HIDE DEF p
  <2> QED BY <1>0, <1>8, <2>1, <2>2 DEF Good, PlayersNewThread
<1>9. ASSUME NEW c \in psCallers, Players!Retire(c) PROVE Good
  <2> DEFINE a == psRunning[psCall[c].session]
             m == [kind |-> "shutdown", from |-> None]
             p == [psPlayer[a] EXCEPT !.life = "closing",
                                    !.queue = Append(psPlayer[a].queue, m)]
  <2>1. CASE a = 0
    BY <1>2, <1>9, <2>1 DEF Players!Retire
  <2>2. CASE a # 0
    <3>1. a \in Players!Attempts
      BY <1>4, <1>9, <2>2 DEF Players!Retire, PlayersPlaceOK
    <3>2. m \in Players!Messages
      BY DEF Players!Messages
    <3>3. Append(psPlayer[a].queue, m) \in Seq(Players!Messages) /\ psPlayer[a] \in PlayersPlayers
      BY <1>0, <3>1, <3>2, PlayersQueueTypes
    <3>4. psPlayer' = [psPlayer EXCEPT ![a] = p]
      BY <1>0, <1>9, <2>2, <3>1, <3>3 DEF Players!Retire, PlayersPlayers
    <3>5. p \in PlayersPlayers /\ p.thread = psPlayer[a].thread
      BY <3>3 DEF PlayersPlayers, PlayersLives
    <3> HIDE DEF p, a
    <3> QED BY <1>1, <3>1, <3>4, <3>5
  <2> QED BY <2>1, <2>2
<1>10. ASSUME NEW c \in psCallers, Players!TimesOut(c) PROVE Good
  <2>1. ASSUME NEW a \in Players!Attempts
        PROVE  /\ Players!Forgotten(c, psPlayer[a]) \in PlayersPlayers
               /\ Players!Forgotten(c, psPlayer[a]).thread = psPlayer[a].thread
    <3> DEFINE q == [i \in DOMAIN psPlayer[a].queue |->
                       IF psPlayer[a].queue[i].from = c
                       THEN [psPlayer[a].queue[i] EXCEPT !.from = None]
                       ELSE psPlayer[a].queue[i]]
               w == IF psPlayer[a].waiter = c THEN None ELSE psPlayer[a].waiter
    <3>1. psPlayer[a] \in PlayersPlayers /\ w \in psCallers \cup {None}
      BY <1>0 DEF PlayersPlayers
    <3>2. \A i \in DOMAIN psPlayer[a].queue : q[i] \in Players!Messages
      BY PlayersQueueTypes DEF Players!Messages
    <3>3. q \in Seq(Players!Messages)
      <4>1. PICK n \in Nat : DOMAIN psPlayer[a].queue = 1..n
        BY <3>1 DEF PlayersPlayers
      <4>2. q \in [1..n -> Players!Messages]
        BY <3>2, <4>1
      <4> HIDE DEF q
      <4> QED BY <4>2
    <3>4. Players!Forgotten(c, psPlayer[a]) = [psPlayer[a] EXCEPT !.queue = q, !.waiter = w]
      BY <3>1 DEF Players!Forgotten, PlayersPlayers
    <3> HIDE DEF q, w
    <3> QED BY <3>1, <3>3, <3>4 DEF PlayersPlayers
  <2> QED BY <1>0, <1>10, <2>1 DEF Players!TimesOut, Good
<1>11. ASSUME NEW a \in Players!Attempts, Players!ControlStep(a) \/ Players!FinishLoad(a) \/ Players!MpvEnds(a)
       PROVE  Good
  <2>1. psPlayer[a] \in PlayersPlayers
    BY <1>0
  <2>2. /\ psPlayer[a].queue # <<>> =>
             Tail(psPlayer[a].queue) \in Seq(Players!Messages) /\ Players!Message(a).from \in psCallers \cup {None}
        /\ psPlayer[a].thread = "alive" \/ ~(Players!ControlStep(a) \/ Players!FinishLoad(a) \/ Players!MpvEnds(a))
    BY PlayersQueueTypes, PlayersPlayerTypes DEF Players!ControlStep,
      Players!HandleLoad, Players!HandlePlay, Players!HandlePause,
      Players!HandleShutdown, Players!FinishLoad, Players!MpvEnds, Players!Takes,
      Players!Alive
  <2>3. psPlayer' \in [Players!Attempts -> PlayersPlayers] /\ \A b \in Players!Attempts \ {a} : psPlayer'[b] = psPlayer[b]
    <3>1. CASE Players!HandleLoad(a)
      <4> DEFINE go == ~psPlayer[a].interrupted /\ \E c \in psCallers :
                         psCall[c].attempt = a /\ psCall[c].autoplay
                 p == [psPlayer[a] EXCEPT !.queue = Tail(psPlayer[a].queue),
                         !.life = "opening", !.load = "pending",
                         !.waiter = Players!Message(a).from, !.autoplay = go]
                 q == [psPlayer[a] EXCEPT !.queue = Tail(psPlayer[a].queue), !.life = "error"]
      <4>1. psPlayer[a].queue # <<>>
        BY <3>1 DEF Players!HandleLoad, Players!Takes
      <4>2. go \in BOOLEAN
        BY ZenonT(10)
      <4>3. psPlayer' = [psPlayer EXCEPT ![a] = p] \/ psPlayer' = [psPlayer EXCEPT ![a] = q]
        BY <1>0, <2>1, <3>1, <4>1 DEF Players!HandleLoad, PlayersPlayers
      <4> HIDE DEF go
      <4>4. p \in PlayersPlayers /\ q \in PlayersPlayers
        BY <2>1, <2>2, <4>1, <4>2 DEF PlayersPlayers, PlayersLives
      <4> HIDE DEF p, q
      <4> QED BY <1>0, <4>3, <4>4
    <3>2. CASE Players!HandlePlay(a) \/ Players!HandlePause(a)
      <4> DEFINE p == [psPlayer[a] EXCEPT !.queue = Tail(psPlayer[a].queue),
                         !.life = "playing", !.playing = TRUE, !.interrupted = FALSE]
                 q == [psPlayer[a] EXCEPT !.queue = Tail(psPlayer[a].queue),
                         !.life = "paused", !.playing = FALSE,
                         !.interrupted = TRUE, !.autoplay = FALSE]
      <4>1. psPlayer[a].queue # <<>>
        BY <3>2 DEF Players!HandlePlay, Players!HandlePause, Players!Takes
      <4>2. psPlayer' = [psPlayer EXCEPT ![a] = p] \/ psPlayer' = [psPlayer EXCEPT ![a] = q]
        BY <1>0, <2>1, <3>2 DEF Players!HandlePlay, Players!HandlePause, PlayersPlayers
      <4>3. p \in PlayersPlayers /\ q \in PlayersPlayers
        BY <2>1, <2>2, <4>1 DEF PlayersPlayers, PlayersLives
      <4> HIDE DEF p, q
      <4> QED BY <1>0, <4>2, <4>3
    <3>3. CASE Players!FinishLoad(a)
      <4> DEFINE auto == psPlayer[a].autoplay
                 p == [psPlayer[a] EXCEPT !.load = "done", !.playing = auto,
                         !.life = IF auto THEN "playing" ELSE "paused", !.waiter = None]
                 q == [psPlayer[a] EXCEPT !.load = "failed", !.life = "error",
                         !.waiter = None]
      <4>1. psPlayer' = [psPlayer EXCEPT ![a] = p] \/ psPlayer' = [psPlayer EXCEPT ![a] = q]
        BY <1>0, <2>1, <3>3 DEF Players!FinishLoad, PlayersPlayers
      <4>2. auto \in BOOLEAN
        BY <2>1 DEF PlayersPlayers
      <4> HIDE DEF auto
      <4>3. p \in PlayersPlayers /\ q \in PlayersPlayers
        BY <2>1, <4>2 DEF PlayersPlayers, PlayersLives
      <4> HIDE DEF p, q
      <4> QED BY <1>0, <4>1, <4>3
    <3>4. CASE Players!Ends(a)
      <4>1. <<>> \in Seq(Players!Messages)
        OBVIOUS
      <4>2. [Players!NoPlayer EXCEPT !.thread = "ended"] \in PlayersPlayers
        BY <4>1 DEF Players!NoPlayer, PlayersPlayers, PlayersThreads, PlayersLives
      <4> QED BY <1>0, <3>4, <4>2 DEF Players!Ends
    <3> QED BY <1>11, <3>1, <3>2, <3>3, <3>4 DEF Players!ControlStep,
        Players!HandleShutdown, Players!MpvEnds
  <2> QED BY <1>11, <2>2, <2>3 DEF Good
<1>12. ASSUME NEW c \in psCallers, NEW s \in psSessions,
              \/ \E x \in psAutoplays : Players!OpenBegins(c, s, x)
              \/ Players!PlayBegins(c, s) \/ Players!PauseBegins(c, s) \/ Players!CloseBegins(c, s)
       PROVE  Good
  BY <1>2, <1>12 DEF Players!OpenBegins, Players!PlayBegins, Players!PauseBegins,
    Players!CloseBegins
<1>13. ASSUME NEW c \in psCallers, Players!CloseAllBegins(c) PROVE Good
  BY <1>2, <1>13 DEF Players!CloseAllBegins
<1>14. ASSUME NEW c \in psCallers, Players!CallStep(c) PROVE Good
  BY <1>2, <1>5, <1>6, <1>7, <1>8, <1>9, <1>14 DEF Players!CallStep, Players!OpenStep,
    Players!TakeAudibility, Players!OtherPaused, Players!OthersPaused, Players!Resolve,
    Players!Create, Players!Loaded, Players!LoadFailed, Players!Release,
    Players!Unregister, Players!CommandDone, Players!CloseEach, Players!Join
<1>15. Good
  BY <1>10, <1>11, <1>12, <1>13, <1>14 DEF Players!Next
<1> QED BY <1>15 DEF Good

LEMMA PlayersTypeStep ==
  ASSUME Players!PlayerAssumption, PlayersIInv, Players!Next PROVE PlayersTypes'
<1>1. PlayersTypes /\ \A c \in psCallers : PlayersPlaceOK(c)
  BY DEF PlayersIInv, PlayersCallerOK
<1>2. psCall' \in [psCallers -> PlayersCalls] /\ psPc' \in [psCallers -> PlayersPcs] /\ psPlayer' \in [Players!Attempts -> PlayersPlayers]
  BY <1>1, PlayersCallTypes, PlayersPcTypes, PlayersPlayersStep
<1> DEFINE Rest == /\ psMade' \in 0..psMaxOpens /\ psLate' \in Nat
                   /\ psCalls' \in Nat
                   /\ psOpening' \in [psSessions -> 0..psMaxOpens]
                   /\ psRunning' \in [psSessions -> 0..psMaxOpens]
                   /\ psCancelled' \subseteq Players!Attempts
                   /\ psAudibility' \in psCallers \cup {None}
<1>0. /\ psMade \in 0..psMaxOpens /\ psLate \in Nat /\ psCalls \in Nat
      /\ psOpening \in [psSessions -> 0..psMaxOpens]
      /\ psRunning \in [psSessions -> 0..psMaxOpens]
      /\ psCancelled \subseteq Players!Attempts /\ psAudibility \in psCallers \cup {None}
      /\ 0 \in 0..psMaxOpens /\ Players!Attempts = 1..psMaxOpens /\ psBounds \subseteq Nat \X Nat
      /\ psMaxOpens \in Nat
  BY <1>1 DEF PlayersTypes, Players!Attempts, Players!PlayerAssumption
<1>3. \A s \in psSessions : /\ psOpening[s] # 0 => psOpening[s] \in Players!Attempts
                            /\ psRunning[s] # 0 => psRunning[s] \in Players!Attempts
  BY <1>0
<1>4. ASSUME NEW c \in psCallers, NEW s \in psSessions,
             Players!PlayBegins(c, s) \/ Players!PauseBegins(c, s) \/ Players!CloseBegins(c, s)
      PROVE  Rest
  BY <1>0, <1>3, <1>4 DEF Players!PlayBegins, Players!PauseBegins, Players!CloseBegins,
    Players!Start, Players!Starts
<1>5. ASSUME NEW c \in psCallers, NEW s \in psSessions, NEW x \in psAutoplays, Players!OpenBegins(c, s, x)
      PROVE  Rest
  <2>1. psMade < psMaxOpens
    BY <1>5 DEF Players!OpenBegins
  <2>2. psMade + 1 \in 0..psMaxOpens
    BY <1>0, <2>1
  <2> QED BY <1>0, <1>5, <2>2 DEF Players!OpenBegins, Players!Starts
<1>6. ASSUME NEW c \in psCallers, Players!CloseAllBegins(c) PROVE Rest
  BY <1>0, <1>3, <1>6 DEF Players!CloseAllBegins, Players!Starts
<1>7. ASSUME NEW c \in psCallers, Players!OpenStep(c) PROVE Rest
  <2>1. PlayersPlaceOK(c) /\ psCall[c].attempt \in 0..psMaxOpens
    BY <1>1 DEF PlayersTypes, PlayersCalls
  <2>2. CASE Players!Insert(c)
    BY <1>0, <2>1, <2>2 DEF Players!Insert
  <2>3. CASE Players!Unregister(c) \/ Players!Release(c) \/ Players!TakeAudibility(c)
    BY <1>0, <2>3 DEF Players!Unregister, Players!Release, Players!TakeAudibility
  <2>4. CASE ~(Players!Insert(c) \/ Players!Unregister(c) \/ Players!Release(c) \/ Players!TakeAudibility(c))
    BY <1>0, <1>7, <2>4 DEF Players!OpenStep, Players!PauseOther, Players!OtherPaused,
      Players!OthersPaused, Players!Resolve, Players!Create, Players!Load,
      Players!Loaded, Players!LoadFailed
  <2> QED BY <2>2, <2>3, <2>4
<1>8. ASSUME NEW c \in psCallers, Players!Command(c) \/ Players!CommandDone(c) \/ Players!Join(c) \/ Players!TimesOut(c)
      PROVE  Rest
  <2>1. /\ UNCHANGED <<psMade, psOpening, psRunning, psCancelled, psAudibility, psCalls>>
        /\ psLate' = psLate \/ psLate' = psLate + 1
    <3>1. CASE Players!Command(c)
      BY <3>1 DEF Players!Command
    <3>2. CASE Players!CommandDone(c)
      BY <3>2 DEF Players!CommandDone
    <3>3. CASE Players!Join(c)
      BY <3>3 DEF Players!Join
    <3>4. CASE Players!TimesOut(c)
      BY <3>4 DEF Players!TimesOut
    <3> QED BY <1>8, <3>1, <3>2, <3>3, <3>4
  <2> QED BY <1>0, <2>1
<1>9. ASSUME NEW c \in psCallers, Players!CloseEach(c) PROVE Rest
  <2>1. psCall[c].others \subseteq psSessions
    BY <1>1 DEF PlayersTypes, PlayersCalls
  <2>2. /\ UNCHANGED <<psMade, psOpening, psRunning, psAudibility, psLate, psCalls>>
        /\ \/ psCancelled' = psCancelled
           \/ \E s \in psSessions : psCancelled' = psCancelled \cup ({psOpening[s]} \ {0})
    BY <1>9, <2>1 DEF Players!CloseEach
  <2>3. psCancelled \subseteq Players!Attempts
    BY <1>0
  <2>4. ASSUME NEW s \in psSessions, NEW a \in {psOpening[s]} \ {0} PROVE a \in Players!Attempts
    <3>1. psOpening[s] # 0 => psOpening[s] \in Players!Attempts
      BY <1>3
    <3> QED BY <3>1
  <2>5. psCancelled' \subseteq Players!Attempts
    <3> SUFFICES ASSUME NEW a \in psCancelled' PROVE a \in Players!Attempts
      OBVIOUS
    <3> QED BY <2>2, <2>3, <2>4
  <2> QED BY <1>0, <2>2, <2>5
<1>10. ASSUME NEW c \in psCallers, Players!Retire(c) PROVE Rest
  <2>1. psCall[c].session \in psSessions
    BY <1>1, <1>10 DEF Players!Retire, PlayersPlaceOK
  <2>2. /\ UNCHANGED <<psMade, psOpening, psAudibility, psLate, psCalls>>
        /\ \/ UNCHANGED <<psRunning, psCancelled>>
           \/ /\ psRunning[psCall[c].session] # 0
              /\ psRunning' = [psRunning EXCEPT ![psCall[c].session] = 0]
              /\ psCancelled' = psCancelled \cup {psRunning[psCall[c].session]}
    BY <1>10 DEF Players!Retire
  <2>3. psRunning[psCall[c].session] # 0 => psRunning[psCall[c].session] \in Players!Attempts
    BY <1>3, <2>1
  <2>4. psCancelled \subseteq Players!Attempts
    BY <1>0
  <2>5. psCancelled' \subseteq Players!Attempts
    <3> SUFFICES ASSUME NEW a \in psCancelled' PROVE a \in Players!Attempts
      OBVIOUS
    <3> QED BY <2>2, <2>3, <2>4
  <2>6. psRunning' \in [psSessions -> 0..psMaxOpens]
    BY <1>0, <2>1, <2>2
  <2> QED BY <1>0, <2>2, <2>5, <2>6
<1>11. ASSUME NEW a \in Players!Attempts, Players!ControlStep(a) \/ Players!FinishLoad(a) \/ Players!MpvEnds(a)
       PROVE  Rest
  BY <1>0, <1>11 DEF Players!ControlStep, Players!HandleLoad, Players!HandlePlay,
    Players!HandlePause, Players!HandleShutdown, Players!FinishLoad, Players!MpvEnds,
    Players!Ends
<1> HIDE DEF Rest
<1>12. Rest
  BY <1>4, <1>5, <1>6, <1>7, <1>8, <1>9, <1>10, <1>11 DEF Players!Next, Players!CallStep
<1> QED BY <1>2, <1>12 DEF PlayersTypes, Rest

-----------------------------------------------------------------------------
(* A command that differs in its answer only.                              *)
PlayersSameBut(d) ==
  /\ psCall'[d].task = psCall[d].task /\ psCall'[d].session = psCall[d].session
  /\ psCall'[d].attempt = psCall[d].attempt /\ psCall'[d].others = psCall[d].others
  /\ psCall'[d].victim = psCall[d].victim

(* The steps of the control threads and the timeouts.                      *)
LEMMA PlayersAnswerKeeps ==
  ASSUME PlayersIInv, PlayersTypes', \A c \in psCallers : PlayersSameBut(c),
         UNCHANGED <<psMade, psOpening, psRunning, psCancelled, psAudibility, psPc>>,
         \A a \in Players!Attempts : psPlayer'[a].thread = "alive" => psPlayer[a].thread = "alive"
  PROVE  PlayersIInv'
<1>1. ASSUME NEW c \in psCallers PROVE PlayersCallerOK(c)'
  <2>1. PlayersCallerOK(c) /\ PlayersSameBut(c)
    BY DEF PlayersIInv
  <2>2. PlayersPlaceOK(c)' /\ PlayersLockOK(c)' /\ PlayersMineOK(c)'
    BY <2>1 DEF PlayersCallerOK, PlayersPlaceOK, PlayersLockOK, PlayersMineOK,
      PlayersSameBut
  <2> QED BY <2>2 DEF PlayersCallerOK
<1>2. PlayersDistinctOK' /\ PlayersMapsOK'
  BY DEF PlayersIInv, PlayersDistinctOK, PlayersMapsOK, PlayersSameBut
<1>3. PlayersReachedOK'
  <2>1. \A c \in psCallers, s \in psSessions : PlayersReaches(c, s) => PlayersReaches(c, s)'
    BY DEF PlayersReaches, PlayersSameBut
  <2> QED BY <2>1 DEF PlayersIInv, PlayersReachedOK
<1>4. PlayersKnownOK'
  BY DEF PlayersIInv, PlayersKnownOK, PlayersSameBut
<1> QED BY <1>1, <1>2, <1>3, <1>4 DEF PlayersIInv

(* A step of one thread: what is said of the others stays.                 *)
PlayersFrame(c) ==
  /\ \A d \in psCallers \ {c} : psPc'[d] = psPc[d] /\ psCall'[d] = psCall[d]
  /\ psAudibility' = psAudibility \/ (psAudibility \in {None, c} /\ psAudibility' \in {None, c})

LEMMA PlayersOthersKept ==
  ASSUME Players!PlayerAssumption, PlayersIInv, NEW c \in psCallers, PlayersFrame(c),
         UNCHANGED <<psMade, psOpening, psRunning>>, psCancelled \subseteq psCancelled'
  PROVE  \A d \in psCallers \ {c} : PlayersCallerOK(d)'
<1> SUFFICES ASSUME NEW d \in psCallers, d # c PROVE PlayersCallerOK(d)'
  OBVIOUS
<1>1. PlayersCallerOK(d) /\ psPc'[d] = psPc[d] /\ psCall'[d] = psCall[d]
  BY DEF PlayersIInv, PlayersFrame
<1>2. PlayersPlaceOK(d)' /\ PlayersMineOK(d)'
  BY <1>1 DEF PlayersCallerOK, PlayersPlaceOK, PlayersMineOK
<1>3. PlayersLockOK(d)'
  BY <1>1 DEF PlayersCallerOK, PlayersLockOK, PlayersFrame, Players!PlayerAssumption
<1> QED BY <1>2, <1>3 DEF PlayersCallerOK

LEMMA PlayersCallerKeeps ==
  ASSUME Players!PlayerAssumption, PlayersIInv, PlayersTypes', NEW c \in psCallers,
         PlayersFrame(c),
         UNCHANGED <<psMade, psOpening, psRunning>>, psCancelled \subseteq psCancelled',
         \A a \in Players!Attempts : psPlayer'[a].thread = "alive" => psPlayer[a].thread = "alive",
         PlayersCallerOK(c)', PlayersReachedOK',
         psCall'[c].task = "open" =>
           psCall[c].task = "open" /\ psCall'[c].attempt = psCall[c].attempt,
         psCall'[c].victim = psCall[c].victim \/
           (psCall[c].victim \in Players!Attempts => psPlayer[psCall[c].victim].thread # "alive")
  PROVE  PlayersIInv'
<1>1. \A d \in psCallers : PlayersCallerOK(d)'
  BY PlayersOthersKept
<1>2. PlayersDistinctOK'
  BY DEF PlayersIInv, PlayersDistinctOK, PlayersFrame
<1>3. PlayersMapsOK'
  BY DEF PlayersIInv, PlayersMapsOK
<1>4. PlayersKnownOK'
  BY DEF PlayersIInv, PlayersKnownOK, PlayersFrame
<1> QED BY <1>1, <1>2, <1>3, <1>4 DEF PlayersIInv

(* The same for a step that cancels nothing and is not a close's.          *)
LEMMA PlayersWalkKeeps ==
  ASSUME Players!PlayerAssumption, PlayersIInv, PlayersTypes', NEW c \in psCallers,
         PlayersFrame(c),
         UNCHANGED <<psMade, psOpening, psRunning, psCancelled>>,
         \A a \in Players!Attempts : psPlayer'[a].thread = "alive" => psPlayer[a].thread = "alive",
         PlayersCallerOK(c)', \A s \in psSessions : psRunning[s] # 0 /\ PlayersReaches(c, s) => PlayersReaches(c, s)',
         psCall'[c].task = "open" =>
           psCall[c].task = "open" /\ psCall'[c].attempt = psCall[c].attempt,
         psCall'[c].victim = psCall[c].victim \/
           (psCall[c].victim \in Players!Attempts => psPlayer[psCall[c].victim].thread # "alive")
  PROVE  PlayersIInv'
<1>1. \A d \in psCallers \ {c}, s \in psSessions : PlayersReaches(d, s) => PlayersReaches(d, s)'
  BY DEF PlayersReaches, PlayersFrame
<1>2. PlayersReachedOK'
  BY <1>1 DEF PlayersIInv, PlayersReachedOK
<1> QED BY <1>2, PlayersCallerKeeps

LEMMA PlayersControlStepHolds ==
  ASSUME Players!PlayerAssumption, PlayersIInv, Players!Next, NEW a \in Players!Attempts,
         Players!ControlStep(a) \/ Players!FinishLoad(a) \/ Players!MpvEnds(a)
  PROVE  PlayersIInv'
<1>1. UNCHANGED <<psMade, psOpening, psRunning, psCancelled, psAudibility, psPc>>
  BY DEF Players!ControlStep, Players!HandleLoad, Players!HandlePlay,
    Players!HandlePause, Players!HandleShutdown, Players!FinishLoad, Players!MpvEnds,
    Players!Ends
<1>2. ASSUME NEW c \in psCallers PROVE PlayersSameBut(c)
  <2>1. psCall[c] \in PlayersCalls /\ psCall \in [psCallers -> PlayersCalls]
    BY DEF PlayersIInv, PlayersTypes
  <2>2. ASSUME NEW d, NEW x, psCall' = Players!Answered(d, x) PROVE PlayersSameBut(c)
    BY <2>1, <2>2 DEF Players!Answered, PlayersSameBut, PlayersCalls
  <2>3. psCall' = psCall => PlayersSameBut(c)
    BY DEF PlayersSameBut
  <2>4. Players!Ends(a) => PlayersSameBut(c)
    BY <2>1 DEF Players!Ends, PlayersSameBut, PlayersCalls
  <2> QED BY <2>2, <2>3, <2>4 DEF Players!ControlStep, Players!HandleLoad,
      Players!HandlePlay, Players!HandlePause, Players!HandleShutdown,
      Players!FinishLoad, Players!MpvEnds
<1>3. \A b \in Players!Attempts : psPlayer'[b].thread = "alive" => psPlayer[b].thread = "alive"
  <2>1. PlayersTypes /\ \A c \in psCallers : PlayersPlaceOK(c)
    BY DEF PlayersIInv, PlayersCallerOK
  <2>2. ~PlayersNewThread
    BY <1>1, <2>1 DEF PlayersNewThread, Players!Insert, Players!Goto,
      Players!NextBackend, PlayersTypes
  <2> QED BY <2>1, <2>2, PlayersPlayersStep
<1> QED BY <1>1, <1>2, <1>3, PlayersTypeStep, PlayersAnswerKeeps

LEMMA PlayersTimeoutHolds ==
  ASSUME Players!PlayerAssumption, PlayersIInv, Players!Next, NEW c \in psCallers,
         Players!TimesOut(c)
  PROVE  PlayersIInv'
<1>1. UNCHANGED <<psMade, psOpening, psRunning, psCancelled, psAudibility, psPc>>
  BY DEF Players!TimesOut
<1>2. \A d \in psCallers : PlayersSameBut(d)
  BY DEF Players!TimesOut, PlayersSameBut, PlayersIInv, PlayersTypes, PlayersCalls
<1>3. PlayersTypes /\ \A d \in psCallers : PlayersPlaceOK(d)
  BY DEF PlayersIInv, PlayersCallerOK
<1>4. ~PlayersNewThread
  BY <1>1, <1>3 DEF PlayersNewThread, Players!Insert, Players!Goto, Players!NextBackend,
    PlayersTypes
<1>5. \A b \in Players!Attempts : psPlayer'[b].thread = "alive" => psPlayer[b].thread = "alive"
  BY <1>3, <1>4, PlayersPlayersStep
<1> QED BY <1>1, <1>2, <1>5, PlayersTypeStep, PlayersAnswerKeeps

(* A step of one command that leaves the maps and the flags alone.         *)
PlayersMove(c, from, to) ==
  /\ UNCHANGED <<psMade, psOpening, psRunning, psCancelled>>
  /\ \A d \in psCallers \ {c} : psPc'[d] = psPc[d] /\ psCall'[d] = psCall[d]
  /\ psPc[c] \in from /\ psPc'[c] \in to
  /\ psCall'[c].task = psCall[c].task /\ psCall'[c].session = psCall[c].session
  /\ psCall'[c].attempt = psCall[c].attempt /\ psCall'[c].victim = psCall[c].victim

LEMMA PlayersMoveTo ==
  ASSUME PlayersTypes, NEW c \in psCallers, NEW from, NEW to, NEW p \in to,
         Players!Goto(c, p),
         psPc[c] \in from, UNCHANGED <<psMade, psOpening, psRunning, psCancelled>>,
         \/ psCall' = psCall
         \/ \E x : psCall' = [psCall EXCEPT ![c].others = x]
         \/ \E x : psCall' = [psCall EXCEPT ![c].answer = x]
         \/ \E x, y : psCall' = [psCall EXCEPT ![c].others = x, ![c].answer = y]
         \/ \E x : psCall' = [psCall EXCEPT ![c].backend = x]
  PROVE  PlayersMove(c, from, to)
<1>1. psCall \in [psCallers -> PlayersCalls] /\ psCall[c] \in PlayersCalls /\ psPc \in [psCallers -> PlayersPcs]
  BY DEF PlayersTypes
<1>2. psPc'[c] = p /\ \A d \in psCallers \ {c} : psPc'[d] = psPc[d]
  BY <1>1 DEF Players!Goto
<1> DEFINE Kept ==
      /\ \A d \in psCallers \ {c} : psCall'[d] = psCall[d]
      /\ psCall'[c].task = psCall[c].task /\ psCall'[c].session = psCall[c].session
      /\ psCall'[c].attempt = psCall[c].attempt /\ psCall'[c].victim = psCall[c].victim
<1>3. ASSUME NEW x, \/ psCall' = [psCall EXCEPT ![c].others = x]
                    \/ psCall' = [psCall EXCEPT ![c].answer = x]
                    \/ psCall' = [psCall EXCEPT ![c].backend = x]
      PROVE  Kept
  BY <1>1, <1>3 DEF PlayersCalls
<1>4. ASSUME NEW x, NEW y, psCall' = [psCall EXCEPT ![c].others = x, ![c].answer = y]
      PROVE  Kept
  <2>1. \A d \in psCallers \ {c} : psCall'[d] = psCall[d]
    BY <1>1, <1>4
  <2>2. psCall'[c] = [psCall[c] EXCEPT !.others = x, !.answer = y]
    BY <1>1, <1>4
  <2> QED BY <1>1, <2>1, <2>2 DEF PlayersCalls
<1>5. psCall' = psCall => Kept
  OBVIOUS
<1> HIDE DEF Kept
<1>6. Kept
  BY <1>3, <1>4, <1>5
<1> USE DEF Kept
<1> QED BY <1>2, <1>6 DEF PlayersMove

(* Such a step of an open, a Play or a Pause needs a look at the places,   *)
(* the lock and the player only.                                           *)
LEMMA PlayersMoveHolds ==
  ASSUME Players!PlayerAssumption, PlayersIInv, Players!Next, NEW c \in psCallers, NEW from,
         NEW to,
         PlayersMove(c, from, to), from \cap PlayersEnding = {}, "join" \notin to,
         "insert" \notin from \/ UNCHANGED psPlayer,
         psCall[c].task \in {"open", "play", "pause"},
         psPc'[c] \in PlayersPlaceOf(psCall[c].task), PlayersLockOK(c)',
         psAudibility' = psAudibility \/ (psAudibility = None /\ psAudibility' = c),
         psPc'[c] \in {"load", "loading", "retire"} =>
           psPc[c] \in {"load", "loading"} /\ psCall[c].task = "open"
  PROVE  PlayersIInv'
<1>0. PlayersTypes /\ PlayersCallerOK(c) /\ \A d \in psCallers : PlayersPlaceOK(d)
  BY DEF PlayersIInv, PlayersCallerOK
<1>1. PlayersTypes' /\ PlayersFrame(c)
  BY PlayersTypeStep DEF PlayersMove, PlayersFrame
<1>2. \A a \in Players!Attempts : psPlayer'[a].thread = "alive" => psPlayer[a].thread = "alive"
  <2>1. CASE UNCHANGED psPlayer
    BY <2>1
  <2>2. CASE "insert" \notin from
    <3>1. ~PlayersNewThread
      BY <1>0, <2>2 DEF PlayersNewThread, Players!Insert, Players!Goto,
        Players!NextBackend, PlayersTypes, PlayersMove
    <3> QED BY <1>0, <3>1, PlayersPlayersStep
  <2> QED BY <2>1, <2>2
<1>3. PlayersPlaceOK(c)'
  BY <1>0 DEF PlayersMove, PlayersCallerOK, PlayersPlaceOK, PlayersEnding
<1>4. PlayersMineOK(c)'
  BY <1>0 DEF PlayersMove, PlayersCallerOK, PlayersMineOK
<1>5. \A s \in psSessions : ~PlayersReaches(c, s)
  BY DEF PlayersMove, PlayersReaches, PlayersEnding
<1>6. PlayersCallerOK(c)'
  BY <1>3, <1>4 DEF PlayersCallerOK
<1> QED BY <1>1, <1>2, <1>5, <1>6, PlayersWalkKeeps DEF PlayersMove

LEMMA PlayersWalkHolds ==
  ASSUME Players!PlayerAssumption, PlayersIInv, Players!Next, NEW c \in psCallers,
         \/ Players!TakeAudibility(c) \/ Players!PauseOther(c) \/ Players!OtherPaused(c) \/ Players!OthersPaused(c)
         \/ Players!Resolve(c) \/ Players!Create(c) \/ Players!Load(c) \/ Players!Loaded(c) \/ Players!LoadFailed(c)
         \/ Players!Command(c) \/ Players!CommandDone(c)
  PROVE  PlayersIInv'
<1>0. PlayersTypes /\ PlayersPlaceOK(c) /\ PlayersLockOK(c) /\ psCall[c].task \in PlayersTasks
  BY DEF PlayersIInv, PlayersCallerOK, PlayersTypes, PlayersCalls
<1>a. psCall[c].task \in {"open", "play", "pause"}
  BY <1>0 DEF PlayersPlaceOK, PlayersPlaceOf, PlayersTasks, PlayersSilencing,
    PlayersOpenOnly, PlayersEnding, Players!TakeAudibility, Players!PauseOther,
    Players!OtherPaused, Players!OthersPaused, Players!Resolve, Players!Create,
    Players!Load, Players!Loaded, Players!LoadFailed, Players!Command,
    Players!CommandDone
<1>b. psPc[c] \in PlayersOpenOnly => psCall[c].task = "open"
  BY <1>0 DEF PlayersPlaceOK, PlayersPlaceOf, PlayersTasks, PlayersSilencing,
    PlayersOpenOnly, PlayersEnding
<1>c. psPc[c] \in PlayersSilencing => psCall[c].task \in {"open", "play"}
  BY <1>0 DEF PlayersPlaceOK, PlayersPlaceOf, PlayersTasks, PlayersSilencing,
    PlayersOpenOnly, PlayersEnding
<1>d. psPc[c] \in {"command", "waiting"} => psCall[c].task \in {"play", "pause"}
  BY <1>0 DEF PlayersPlaceOK, PlayersPlaceOf, PlayersTasks, PlayersSilencing,
    PlayersOpenOnly, PlayersEnding
<1>1. CASE Players!TakeAudibility(c)
  <2>1. PlayersMove(c, {"lock"}, {"others"})
    BY <1>0, <1>1, PlayersMoveTo DEF Players!TakeAudibility
  <2>2. /\ psPc'[c] \in PlayersPlaceOf(psCall[c].task) /\ PlayersLockOK(c)'
        /\ psAudibility = None /\ psAudibility' = c
    BY <1>1, <1>c, <2>1 DEF PlayersMove, Players!TakeAudibility, PlayersPlaceOf,
      PlayersSilencing, PlayersLockOK
  <2> QED BY <1>a, <2>1, <2>2, PlayersMoveHolds DEF PlayersEnding, PlayersMove
<1>2. CASE Players!PauseOther(c) \/ Players!OtherPaused(c)
  <2>1. PlayersMove(c, {"others", "pausing"}, {"others", "pausing"})
    <3>1. CASE Players!OtherPaused(c)
      BY <1>0, <3>1, PlayersMoveTo DEF Players!OtherPaused
    <3>2. CASE Players!PauseOther(c)
      <4>1. /\ UNCHANGED <<psMade, psOpening, psRunning, psCancelled>> /\ psPc[c] = "others"
            /\ Players!Goto(c, "pausing") \/ Players!Goto(c, "others")
        BY <1>0, <3>2 DEF Players!PauseOther, Players!Goto, PlayersTypes
      <4>2. \/ \E x : psCall' = [psCall EXCEPT ![c].others = x]
            \/ \E x, y : psCall' = [psCall EXCEPT ![c].others = x, ![c].answer = y]
        BY <3>2 DEF Players!PauseOther
      <4> QED BY <1>0, <4>1, <4>2, PlayersMoveTo
    <3> QED BY <1>2, <3>1, <3>2
  <2>2. psPc'[c] \in PlayersPlaceOf(psCall[c].task) /\ PlayersLockOK(c)' /\ psAudibility' = psAudibility
    BY <1>0, <1>2, <1>c, <2>1 DEF PlayersMove, Players!PauseOther, Players!OtherPaused,
      PlayersPlaceOf, PlayersSilencing, PlayersLockOK
  <2> QED BY <1>a, <2>1, <2>2, PlayersMoveHolds DEF PlayersEnding, PlayersMove
<1>3. CASE Players!OthersPaused(c)
  <2>1. PlayersMove(c, {"others"}, {IF psCall[c].task = "open" THEN "resolve" ELSE "command"})
    BY <1>0, <1>3, PlayersMoveTo DEF Players!OthersPaused
  <2>2. psPc'[c] \in PlayersPlaceOf(psCall[c].task) /\ PlayersLockOK(c)' /\ psAudibility' = psAudibility
    BY <1>0, <1>3, <1>c, <2>1 DEF PlayersMove, Players!OthersPaused, PlayersPlaceOf,
      PlayersSilencing, PlayersOpenOnly, PlayersEnding, PlayersLockOK
  <2> QED BY <1>a, <2>1, <2>2, PlayersMoveHolds DEF PlayersEnding, PlayersMove
<1>4. CASE Players!Resolve(c) \/ Players!Create(c)
  <2>1. PlayersMove(c, {"resolve", "create"}, {"create", "insert", "resolve", "release"})
    <3>1. CASE Players!Resolve(c)
      BY <1>0, <3>1, PlayersMoveTo DEF Players!Resolve
    <3>2. CASE Players!Create(c)
      <4>1. psCall' = psCall \/ \E x : psCall' = [psCall EXCEPT ![c].backend = x]
        BY <3>2 DEF Players!Create, Players!NextBackend
      <4>2. /\ UNCHANGED <<psMade, psOpening, psRunning, psCancelled>> /\ psPc[c] = "create"
            /\ Players!Goto(c, "insert") \/ Players!Goto(c, "resolve") \/ Players!Goto(c, "release")
        BY <3>2 DEF Players!Create, Players!NextBackend
      <4> QED BY <1>0, <4>1, <4>2, PlayersMoveTo
    <3> QED BY <1>4, <3>1, <3>2
  <2>2. psPc'[c] \in PlayersPlaceOf(psCall[c].task) /\ PlayersLockOK(c)' /\ psAudibility' = psAudibility
    BY <1>0, <1>4, <1>b, <2>1 DEF PlayersMove, Players!Resolve, Players!Create,
      PlayersPlaceOf, PlayersSilencing, PlayersOpenOnly, PlayersEnding, PlayersLockOK
  <2> QED BY <1>a, <2>1, <2>2, PlayersMoveHolds DEF PlayersEnding, PlayersMove
<1>5. CASE Players!Load(c)
  <2>1. PlayersMove(c, {"load"}, {"loading"})
    BY <1>0, <1>5, PlayersMoveTo DEF Players!Load
  <2>2. /\ psPc'[c] \in PlayersPlaceOf(psCall[c].task) /\ PlayersLockOK(c)' /\ psAudibility' = psAudibility
        /\ psCall[c].task = "open"
    BY <1>0, <1>5, <1>b, <2>1 DEF PlayersMove, Players!Load, PlayersPlaceOf,
      PlayersSilencing, PlayersOpenOnly, PlayersEnding, PlayersLockOK
  <2> QED BY <1>a, <2>1, <2>2, PlayersMoveHolds DEF PlayersEnding, PlayersMove
<1>6. CASE Players!Loaded(c) \/ Players!LoadFailed(c)
  <2>1. PlayersMove(c, {"loading"}, {"release", "retire"})
    BY <1>0, <1>6, PlayersMoveTo DEF Players!Loaded, Players!LoadFailed
  <2>2. /\ psPc'[c] \in PlayersPlaceOf(psCall[c].task) /\ PlayersLockOK(c)' /\ psAudibility' = psAudibility
        /\ psCall[c].task = "open"
    BY <1>0, <1>6, <1>b, <2>1 DEF PlayersMove, Players!Loaded, Players!LoadFailed,
      PlayersPlaceOf, PlayersSilencing, PlayersOpenOnly, PlayersEnding, PlayersLockOK
  <2> QED BY <1>a, <2>1, <2>2, PlayersMoveHolds DEF PlayersEnding, PlayersMove
<1>7. CASE Players!Command(c) \/ Players!CommandDone(c)
  <2>1. PlayersMove(c, {"command", "waiting"}, {"waiting", "release"})
    BY <1>0, <1>7, PlayersMoveTo DEF Players!Command, Players!CommandDone
  <2>2. psPc'[c] \in PlayersPlaceOf(psCall[c].task) /\ PlayersLockOK(c)' /\ psAudibility' = psAudibility
    BY <1>7, <1>d, <2>1 DEF PlayersMove, Players!Command, Players!CommandDone,
      PlayersPlaceOf, PlayersOpenOnly, PlayersEnding, PlayersLockOK
  <2> QED BY <1>a, <2>1, <2>2, PlayersMoveHolds DEF PlayersEnding, PlayersMove
<1> QED BY <1>1, <1>2, <1>3, <1>4, <1>5, <1>6, <1>7

(* The lock is given back, and a command other than an open is over.       *)
LEMMA PlayersReleaseHolds ==
  ASSUME Players!PlayerAssumption, PlayersIInv, Players!Next, NEW c \in psCallers,
         Players!Release(c)
  PROVE  PlayersIInv'
<1>0. /\ PlayersTypes /\ PlayersPlaceOK(c) /\ PlayersMineOK(c) /\ psCall[c].task \in PlayersTasks
      /\ psPc[c] = "release" /\ UNCHANGED <<psMade, psOpening, psRunning, psCancelled, psPlayer>>
      /\ psAudibility' = IF psAudibility = c THEN None ELSE psAudibility
  BY DEF PlayersIInv, PlayersCallerOK, PlayersTypes, PlayersCalls, Players!Release
<1>1. /\ \A d \in psCallers \ {c} : psPc'[d] = psPc[d] /\ psCall'[d] = psCall[d]
      /\ psPc'[c] = IF psCall[c].task = "open" THEN "unregister" ELSE "idle"
      /\ psCall'[c] = IF psCall[c].task = "open" THEN psCall[c] ELSE Players!Idle
  BY <1>0 DEF Players!Release, Players!Goto, PlayersTypes
<1>2. PlayersFrame(c) /\ PlayersTypes'
  BY <1>0, <1>1, PlayersTypeStep DEF PlayersFrame
<1>3. psCall[c].task # "close all"
  BY <1>0 DEF PlayersPlaceOK, PlayersPlaceOf, PlayersEnding
<1>4. PlayersPlaceOK(c)'
  <2>1. psCall[c].victim = 0
    BY <1>0 DEF PlayersPlaceOK
  <2>2. CASE psCall[c].task = "open"
    BY <1>0, <1>1, <2>1, <2>2 DEF PlayersPlaceOK, PlayersPlaceOf, PlayersOpenOnly
  <2>3. CASE psCall[c].task # "open"
    <3>1. psPc'[c] = "idle" /\ psCall'[c] = Players!Idle
      BY <1>1, <2>3
    <3> QED BY <3>1 DEF PlayersPlaceOK, PlayersPlaceOf, Players!Idle
  <2> QED BY <2>2, <2>3
<1>5. PlayersLockOK(c)' /\ PlayersMineOK(c)'
  BY <1>0, <1>1 DEF PlayersLockOK, PlayersMineOK, PlayersOpenOnly, PlayersEnding,
    Players!Idle
<1>6. \A t \in psSessions : ~PlayersReaches(c, t)
  BY <1>0, <1>3 DEF PlayersReaches
<1>7. psCall'[c].victim = psCall[c].victim
  BY <1>0, <1>1 DEF PlayersPlaceOK, Players!Idle
<1> QED BY <1>0, <1>1, <1>2, <1>4, <1>5, <1>6, <1>7, PlayersWalkKeeps
    DEF PlayersCallerOK, Players!Idle

LEMMA PlayersJoinHolds ==
  ASSUME Players!PlayerAssumption, PlayersIInv, Players!Next, NEW c \in psCallers,
         Players!Join(c)
  PROVE  PlayersIInv'
<1>0. /\ PlayersTypes /\ PlayersPlaceOK(c) /\ PlayersLockOK(c) /\ PlayersMineOK(c) /\ psCall[c] \in PlayersCalls
      /\ psCall[c].task \in PlayersTasks /\ psPc[c] = "join"
      /\ UNCHANGED <<psMade, psOpening, psRunning, psCancelled, psAudibility, psPlayer>>
      /\ psPlayer[psCall[c].victim].thread = "ended"
  BY DEF PlayersIInv, PlayersCallerOK, PlayersTypes, PlayersCalls, Players!Join
<1>1. /\ \A d \in psCallers \ {c} : psPc'[d] = psPc[d] /\ psCall'[d] = psCall[d]
      /\ psPc'[c] \in {"resolve", "each", "release"}
      /\ psPc'[c] = "resolve" => psCall[c].task = "open"
      /\ psPc'[c] = "each" <=> psCall[c].task = "close all"
  BY <1>0 DEF Players!Join, Players!Goto, PlayersTypes
<1>2. /\ psCall'[c].task = psCall[c].task /\ psCall'[c].session = psCall[c].session
      /\ psCall'[c].attempt = psCall[c].attempt /\ psCall'[c].others = psCall[c].others
      /\ psCall'[c].victim = 0
  <2>1. \/ psCall' = [psCall EXCEPT ![c].victim = 0]
        \/ \E x : psCall' = [psCall EXCEPT ![c].backend = x, ![c].victim = 0]
    BY DEF Players!Join
  <2>2. ASSUME NEW x, psCall' = [psCall EXCEPT ![c].backend = x, ![c].victim = 0]
        PROVE  psCall'[c] = [psCall[c] EXCEPT !.backend = x, !.victim = 0]
    BY <1>0, <2>2 DEF PlayersTypes
  <2>3. psCall' = [psCall EXCEPT ![c].victim = 0]
          => psCall'[c] = [psCall[c] EXCEPT !.victim = 0]
    BY <1>0 DEF PlayersTypes
  <2> QED BY <1>0, <2>1, <2>2, <2>3 DEF PlayersCalls
<1>3. PlayersFrame(c) /\ PlayersTypes'
  BY <1>0, <1>1, PlayersTypeStep DEF PlayersFrame
<1>4. psCall[c].task \in {"open", "close", "close all"}
  BY <1>0 DEF PlayersPlaceOK, PlayersPlaceOf, PlayersTasks, PlayersSilencing,
    PlayersOpenOnly, PlayersEnding
<1>5. PlayersPlaceOK(c)'
  BY <1>0, <1>1, <1>2, <1>4 DEF PlayersPlaceOK, PlayersPlaceOf, PlayersOpenOnly,
    PlayersEnding
<1>6. PlayersLockOK(c)' /\ PlayersMineOK(c)'
  BY <1>0, <1>1, <1>2 DEF PlayersLockOK, PlayersMineOK, PlayersOpenOnly, PlayersEnding
<1>7. \A t \in psSessions : PlayersReaches(c, t) => PlayersReaches(c, t)'
  BY <1>0, <1>2 DEF PlayersReaches
<1> QED BY <1>0, <1>1, <1>2, <1>3, <1>5, <1>6, <1>7, PlayersWalkKeeps
    DEF PlayersCallerOK

(* Play and Pause begin.                                                   *)
LEMMA PlayersPlayBeginsHolds ==
  ASSUME Players!PlayerAssumption, PlayersIInv, Players!Next, NEW c \in psCallers,
         NEW s \in psSessions,
         Players!PlayBegins(c, s) \/ Players!PauseBegins(c, s)
  PROVE  PlayersIInv'
<1>0. /\ PlayersTypes /\ PlayersPlaceOK(c) /\ psCall[c].task \in PlayersTasks /\ psPc[c] = "idle"
      /\ UNCHANGED <<psMade, psOpening, psRunning, psCancelled, psAudibility, psPlayer>>
  BY DEF PlayersIInv, PlayersCallerOK, PlayersTypes, PlayersCalls, Players!PlayBegins,
    Players!PauseBegins, Players!Start, Players!Starts
<1>1. /\ \A d \in psCallers \ {c} : psPc'[d] = psPc[d] /\ psCall'[d] = psCall[d]
      /\ \/ psPc'[c] = "lock" /\ psCall'[c] = [Players!Idle EXCEPT !.task = "play", !.session = s]
         \/ psPc'[c] = "command" /\ psCall'[c] = [Players!Idle EXCEPT !.task = "pause", !.session = s]
  BY <1>0 DEF Players!PlayBegins, Players!PauseBegins, Players!Start, Players!Goto,
    PlayersTypes
<1>2. PlayersFrame(c) /\ PlayersTypes'
  BY <1>0, <1>1, PlayersTypeStep DEF PlayersFrame
<1>3. psCall[c].task = "none"
  BY <1>0 DEF PlayersPlaceOK, PlayersPlaceOf, PlayersTasks, PlayersSilencing,
    PlayersOpenOnly, PlayersEnding
<1>4. PlayersPlaceOK(c)'
  BY <1>0, <1>1 DEF PlayersPlaceOK, PlayersPlaceOf, PlayersSilencing, Players!Idle
<1>5. PlayersLockOK(c)' /\ PlayersMineOK(c)'
  BY <1>1 DEF PlayersLockOK, PlayersMineOK, PlayersOpenOnly, PlayersEnding, Players!Idle
<1>6. \A t \in psSessions : ~PlayersReaches(c, t)
  BY <1>0, <1>3 DEF PlayersReaches
<1>7. psCall'[c].victim = psCall[c].victim /\ psCall'[c].task # "open"
  BY <1>0, <1>1 DEF PlayersPlaceOK, Players!Idle
<1> QED BY <1>0, <1>2, <1>4, <1>5, <1>6, <1>7, PlayersWalkKeeps DEF PlayersCallerOK

(* A close begins: what it cancels is on its list.                         *)
LEMMA PlayersCloseHolds ==
  ASSUME Players!PlayerAssumption, PlayersIInv, Players!Next, NEW c \in psCallers,
         \/ \E s \in psSessions : Players!CloseBegins(c, s)
         \/ Players!CloseAllBegins(c) \/ Players!CloseEach(c)
  PROVE  PlayersIInv'
<1>0. /\ PlayersTypes /\ PlayersMapsOK /\ PlayersPlaceOK(c) /\ psCall[c] \in PlayersCalls /\ psCall[c].task \in PlayersTasks
      /\ UNCHANGED <<psMade, psOpening, psRunning, psAudibility, psPlayer>>
      /\ psCancelled \subseteq psCancelled'
  BY DEF PlayersIInv, PlayersCallerOK, PlayersTypes, PlayersCalls, Players!CloseBegins,
    Players!CloseAllBegins, Players!CloseEach, Players!Start, Players!Starts
<1>1. \A d \in psCallers \ {c} : psPc'[d] = psPc[d] /\ psCall'[d] = psCall[d]
  BY <1>0 DEF Players!CloseBegins, Players!CloseAllBegins, Players!CloseEach,
    Players!Start, Players!Goto, PlayersTypes
<1>2. PlayersFrame(c) /\ PlayersTypes'
  BY <1>0, <1>1, PlayersTypeStep DEF PlayersFrame
<1>3. psCall[c].task \in {"none", "close all"} /\ psCall[c].victim = 0
  BY <1>0 DEF PlayersPlaceOK, PlayersPlaceOf, PlayersTasks, PlayersSilencing,
    PlayersOpenOnly, PlayersEnding, Players!CloseBegins, Players!CloseAllBegins,
    Players!CloseEach, Players!Start, Players!Starts
<1>4. \A s, t \in psSessions : psOpening[s] # 0 /\ psRunning[t] = psOpening[s] => s = t
  BY <1>0 DEF PlayersMapsOK
<1>5. ASSUME NEW d \in psCallers \ {c}, NEW t \in psSessions, PlayersReaches(d, t) PROVE PlayersReaches(d, t)'
  BY <1>1, <1>5 DEF PlayersReaches
<1> DEFINE Goal == /\ PlayersPlaceOK(c)' /\ PlayersLockOK(c)' /\ PlayersMineOK(c)' /\ PlayersReachedOK'
                   /\ psCall'[c].task # "open" /\ psCall'[c].victim = 0
<1>6. ASSUME NEW s \in psSessions, Players!CloseBegins(c, s) PROVE Goal
  <2>1. /\ psPc[c] = "idle" /\ psPc'[c] = "retire"
        /\ psCall'[c] = [Players!Idle EXCEPT !.task = "close", !.session = s]
        /\ psCancelled' = psCancelled \cup ({psOpening[s]} \ {0})
    BY <1>0, <1>6 DEF Players!CloseBegins, Players!Start, Players!Starts, Players!Goto,
      PlayersTypes
  <2>2. PlayersPlaceOK(c)' /\ PlayersLockOK(c)' /\ PlayersMineOK(c)'
    BY <2>1 DEF PlayersPlaceOK, PlayersPlaceOf, PlayersLockOK, PlayersMineOK,
      PlayersOpenOnly, PlayersEnding, Players!Idle
  <2>3. PlayersReaches(c, s)'
    BY <2>1 DEF PlayersReaches, Players!Idle
  <2>4. \A t \in psSessions : ~PlayersReaches(c, t)
    BY <1>0, <2>1 DEF PlayersReaches, PlayersPlaceOK, PlayersPlaceOf, PlayersEnding
  <2>5. PlayersReachedOK'
    BY <1>0, <1>4, <1>5, <2>1, <2>3, <2>4 DEF PlayersIInv, PlayersReachedOK
  <2> QED BY <2>1, <2>2, <2>5 DEF Players!Idle
<1>7. ASSUME Players!CloseAllBegins(c) PROVE Goal
  <2> DEFINE set == {s \in psSessions : psRunning[s] # 0}
  <2>1. /\ psPc[c] = "idle" /\ psPc'[c] = "each"
        /\ psCall'[c] = [Players!Idle EXCEPT !.task = "close all", !.others = set]
        /\ psCancelled' = psCancelled \cup ({psOpening[s] : s \in psSessions} \ {0})
    BY <1>0, <1>7 DEF Players!CloseAllBegins, Players!Starts, Players!Goto, PlayersTypes
  <2>2. PlayersPlaceOK(c)' /\ PlayersLockOK(c)' /\ PlayersMineOK(c)'
    BY <2>1 DEF PlayersPlaceOK, PlayersPlaceOf, PlayersLockOK, PlayersMineOK,
      PlayersOpenOnly, PlayersEnding, Players!Idle
  <2>3. \A s \in psSessions : psRunning[s] # 0 => PlayersReaches(c, s)'
    BY <2>1 DEF PlayersReaches, Players!Idle
  <2>5. PlayersReachedOK'
    BY <1>0, <2>3 DEF PlayersReachedOK
  <2> QED BY <2>1, <2>2, <2>5 DEF Players!Idle
<1>8. ASSUME Players!CloseEach(c) PROVE Goal
  <2>1. CASE psCall[c].others = {}
    <3>1. /\ psPc[c] = "each" /\ psPc'[c] = "idle" /\ psCall'[c] = Players!Idle
          /\ psCancelled' = psCancelled
      BY <1>0, <1>8, <2>1 DEF Players!CloseEach, Players!Goto, PlayersTypes
    <3>2. PlayersPlaceOK(c)' /\ PlayersLockOK(c)' /\ PlayersMineOK(c)'
      BY <3>1 DEF PlayersPlaceOK, PlayersPlaceOf, PlayersLockOK, PlayersMineOK,
        PlayersOpenOnly, PlayersEnding, Players!Idle
    <3>3. \A t \in psSessions : ~PlayersReaches(c, t)
      BY <2>1, <3>1 DEF PlayersReaches
    <3>4. PlayersReachedOK'
      BY <1>0, <1>5, <3>1, <3>3 DEF PlayersIInv, PlayersReachedOK
    <3> QED BY <3>1, <3>2, <3>4 DEF Players!Idle
  <2>2. CASE psCall[c].others # {}
    <3>1. PICK s \in psCall[c].others :
            /\ psCall' = [psCall EXCEPT ![c].others = @ \ {s}, ![c].session = s]
            /\ psCancelled' = psCancelled \cup ({psOpening[s]} \ {0})
            /\ psPc[c] = "each" /\ Players!Goto(c, "retire")
      BY <1>8, <2>2 DEF Players!CloseEach
    <3>2. s \in psSessions /\ psPc'[c] = "retire"
      BY <1>0, <3>1 DEF Players!Goto, PlayersTypes, PlayersCalls
    <3>3. psCall'[c] = [psCall[c] EXCEPT !.others = @ \ {s}, !.session = s]
      BY <1>0, <3>1 DEF PlayersTypes
    <3>4. /\ psCall'[c].task = psCall[c].task /\ psCall'[c].session = s
          /\ psCall'[c].attempt = psCall[c].attempt /\ psCall'[c].victim = psCall[c].victim
          /\ psCall'[c].others = psCall[c].others \ {s}
      BY <1>0, <3>3 DEF PlayersCalls
    <3>5. psCall[c].task = "close all"
      BY <1>0, <1>3, <3>1 DEF PlayersPlaceOK, PlayersPlaceOf
    <3>6. PlayersPlaceOK(c)' /\ PlayersLockOK(c)' /\ PlayersMineOK(c)'
      BY <1>0, <1>3, <3>2, <3>4, <3>5 DEF PlayersPlaceOK, PlayersPlaceOf, PlayersLockOK,
        PlayersMineOK, PlayersOpenOnly, PlayersEnding
    <3>7. \A t \in psSessions : t = s \/ PlayersReaches(c, t) => PlayersReaches(c, t)'
      BY <3>1, <3>2, <3>4, <3>5 DEF PlayersReaches
    <3>8. PlayersReachedOK'
      BY <1>0, <1>4, <1>5, <3>1, <3>2, <3>7 DEF PlayersIInv, PlayersReachedOK
    <3> QED BY <1>3, <3>4, <3>5, <3>6, <3>8
  <2> QED BY <2>1, <2>2
<1> HIDE DEF Goal
<1>9. Goal
  BY <1>6, <1>7, <1>8
<1>10. PlayersCallerOK(c)' /\ PlayersReachedOK' /\ psCall'[c].task # "open" /\ psCall'[c].victim = psCall[c].victim
  BY <1>3, <1>9 DEF Goal, PlayersCallerOK
<1> QED BY <1>0, <1>2, <1>10, PlayersCallerKeeps

(* An open begins: an attempt that nobody knows yet.                       *)
LEMMA PlayersOpenHolds ==
  ASSUME Players!PlayerAssumption, PlayersIInv, Players!Next, NEW c \in psCallers,
         NEW s \in psSessions,
         NEW x \in psAutoplays, Players!OpenBegins(c, s, x)
  PROVE  PlayersIInv'
<1>0. /\ PlayersTypes /\ PlayersMapsOK /\ PlayersPlaceOK(c) /\ psCall[c].task \in PlayersTasks
      /\ UNCHANGED <<psRunning, psCancelled, psAudibility, psPlayer>> /\ psMade \in Nat
      /\ psMade' = psMade + 1 /\ psOpening' = [psOpening EXCEPT ![s] = psMade + 1]
      /\ psOpening[s] # 0 => psOpening[s] \in psCancelled
      /\ psPc[c] = "idle"
  BY DEF PlayersIInv, PlayersCallerOK, PlayersTypes, PlayersCalls, Players!OpenBegins,
    Players!Starts, Players!Opens
<1>1. /\ \A d \in psCallers \ {c} : psPc'[d] = psPc[d] /\ psCall'[d] = psCall[d]
      /\ psPc'[c] = "lock"
      /\ psCall'[c] = [Players!Idle EXCEPT !.task = "open", !.session = s,
                                 !.attempt = psMade + 1, !.autoplay = x]
  BY <1>0 DEF Players!OpenBegins, Players!Goto, PlayersTypes
<1>2. /\ psCall'[c].task = "open" /\ psCall'[c].session = s
      /\ psCall'[c].attempt = psMade + 1 /\ psCall'[c].victim = 0
  BY <1>1 DEF Players!Idle
<1>3. psCall[c].task = "none" /\ psCall[c].victim = 0
  BY <1>0 DEF PlayersPlaceOK, PlayersPlaceOf, PlayersTasks, PlayersSilencing,
    PlayersOpenOnly, PlayersEnding
<1>4. /\ psOpening \in [psSessions -> 0..psMaxOpens]
      /\ \A t \in psSessions : /\ psOpening[t] \in 0..psMade /\ psRunning[t] \in 0..psMade
                               /\ psOpening'[t] = IF t = s THEN psMade + 1 ELSE psOpening[t]
  BY <1>0 DEF PlayersTypes, PlayersMapsOK
<1>5. ASSUME NEW d \in psCallers, d # c PROVE PlayersCallerOK(d)'
  <2>1. /\ PlayersCallerOK(d) /\ psPc'[d] = psPc[d] /\ psCall'[d] = psCall[d] /\ psCall[d] \in PlayersCalls
    BY <1>1, <1>5 DEF PlayersIInv, PlayersTypes
  <2>2. PlayersPlaceOK(d)'
    BY <1>0, <2>1 DEF PlayersCallerOK, PlayersPlaceOK
  <2>3. PlayersLockOK(d)'
    BY <1>0, <2>1 DEF PlayersCallerOK, PlayersLockOK
  <2>4. PlayersMineOK(d)'
    <3> SUFFICES ASSUME psCall[d].task = "open" PROVE PlayersMineOK(d)'
      BY <2>1 DEF PlayersMineOK
    <3>1. psCall[d].attempt \in 1..psMade /\ psCall[d].session \in psSessions
      BY <2>1 DEF PlayersCallerOK, PlayersPlaceOK
    <3>2. psCall[d].attempt # psMade + 1
      BY <1>0, <3>1
    <3>3. psCall[d].attempt \notin psCancelled =>
            psOpening[psCall[d].session] = psCall[d].attempt /\ psCall[d].session # s
      BY <1>0, <2>1, <3>1 DEF PlayersCallerOK, PlayersMineOK
    <3>4. \A t \in psSessions : psCall[d].attempt \in {psOpening'[t], psRunning[t]} => t = psCall[d].session
      BY <1>4, <2>1, <3>2 DEF PlayersCallerOK, PlayersMineOK
    <3> QED BY <1>0, <1>4, <2>1, <3>1, <3>3, <3>4 DEF PlayersCallerOK, PlayersMineOK
  <2> QED BY <2>2, <2>3, <2>4 DEF PlayersCallerOK
<1>6. PlayersCallerOK(c)'
  <2>0. psMade + 1 \in 1..psMade' /\ psMade + 1 # 0
    BY <1>0
  <2>1. PlayersPlaceOK(c)'
    <3>1. psPc'[c] \in PlayersPlaceOf("open")
      BY <1>1 DEF PlayersPlaceOf, PlayersSilencing
    <3> QED BY <1>1, <1>2, <2>0, <3>1 DEF PlayersPlaceOK
  <2>2. PlayersLockOK(c)'
    BY <1>1 DEF PlayersLockOK, PlayersOpenOnly, PlayersEnding
  <2>3. PlayersMineOK(c)'
    BY <1>0, <1>1, <1>2, <1>4 DEF PlayersMineOK
  <2> QED BY <2>1, <2>2, <2>3 DEF PlayersCallerOK
<1>7. PlayersDistinctOK'
  <2>1. \A d \in psCallers : d # c /\ psCall[d].task = "open" => psCall[d].attempt \in 1..psMade
    BY DEF PlayersIInv, PlayersCallerOK, PlayersPlaceOK
  <2>2. \A d \in psCallers : d # c /\ psCall[d].task = "open" => psCall[d].attempt # psMade + 1
    BY <1>0, <2>1
  <2>3. ASSUME NEW d \in psCallers, NEW e \in psCallers, d # e,
               psCall'[d].task = "open", psCall'[e].task = "open"
        PROVE  psCall'[d].attempt # psCall'[e].attempt
    <3>1. CASE d # c /\ e # c
      BY <1>1, <2>3, <3>1 DEF PlayersIInv, PlayersDistinctOK
    <3>2. CASE d = c
      <4>1. psCall'[e] = psCall[e] /\ psCall'[d].attempt = psMade + 1
        BY <1>1, <1>2, <2>3, <3>2
      <4> QED BY <2>2, <2>3, <3>2, <4>1
    <3>3. CASE e = c
      <4>1. psCall'[d] = psCall[d] /\ psCall'[e].attempt = psMade + 1
        BY <1>1, <1>2, <2>3, <3>3
      <4> QED BY <2>2, <2>3, <3>3, <4>1
    <3> QED BY <3>1, <3>2, <3>3
  <2> QED BY <2>3 DEF PlayersDistinctOK
<1>8. PlayersMapsOK'
  BY <1>0, <1>4 DEF PlayersMapsOK
<1>9. PlayersReachedOK'
  <2>1. \A t \in psSessions : ~PlayersReaches(c, t)
    BY <1>0, <1>3 DEF PlayersReaches
  <2>2. \A d \in psCallers \ {c}, t \in psSessions : PlayersReaches(d, t) => PlayersReaches(d, t)'
    BY <1>1 DEF PlayersReaches
  <2> QED BY <1>0, <2>1, <2>2 DEF PlayersIInv, PlayersReachedOK
<1>10. PlayersKnownOK'
  BY <1>0, <1>1, <1>2, <1>3 DEF PlayersIInv, PlayersKnownOK, Players!Attempts,
    Players!PlayerAssumption
<1> QED BY <1>5, <1>6, <1>7, <1>8, <1>9, <1>10, PlayersTypeStep DEF PlayersIInv

(* The entry of an open goes, if it is still its own.                      *)
LEMMA PlayersUnregisterHolds ==
  ASSUME Players!PlayerAssumption, PlayersIInv, Players!Next, NEW c \in psCallers,
         Players!Unregister(c)
  PROVE  PlayersIInv'
<1>0. /\ PlayersTypes /\ PlayersMapsOK /\ PlayersPlaceOK(c) /\ psCall[c].task \in PlayersTasks
      /\ UNCHANGED <<psMade, psRunning, psCancelled, psAudibility, psPlayer>>
      /\ psPc[c] = "unregister"
  BY DEF PlayersIInv, PlayersCallerOK, PlayersTypes, PlayersCalls, Players!Unregister
<1>1. /\ \A d \in psCallers \ {c} : psPc'[d] = psPc[d] /\ psCall'[d] = psCall[d]
      /\ psPc'[c] = "idle" /\ psCall'[c] = Players!Idle
  BY <1>0 DEF Players!Unregister, Players!Goto, PlayersTypes
<1>2. psCall[c].task = "open" /\ psCall[c].session \in psSessions /\ psCall[c].victim = 0
  BY <1>0 DEF PlayersPlaceOK, PlayersPlaceOf, PlayersTasks, PlayersSilencing,
    PlayersOpenOnly, PlayersEnding
<1>3. \A t \in psSessions : psOpening'[t] =
        IF t = psCall[c].session /\ psOpening[t] = psCall[c].attempt THEN 0 ELSE psOpening[t]
  BY <1>0, <1>2 DEF Players!Unregister, PlayersTypes
<1>4. ASSUME NEW d \in psCallers, d # c PROVE PlayersCallerOK(d)'
  <2>1. PlayersCallerOK(d) /\ psPc'[d] = psPc[d] /\ psCall'[d] = psCall[d]
    BY <1>1, <1>4 DEF PlayersIInv
  <2>2. PlayersPlaceOK(d)' /\ PlayersLockOK(d)'
    BY <1>0, <2>1 DEF PlayersCallerOK, PlayersPlaceOK, PlayersLockOK
  <2>3. PlayersMineOK(d)'
    <3> SUFFICES ASSUME psCall[d].task = "open" PROVE PlayersMineOK(d)'
      BY <2>1 DEF PlayersMineOK
    <3>1. psCall[d].attempt # psCall[c].attempt /\ psCall[d].attempt \in 1..psMade
          /\ psCall[d].session \in psSessions
      BY <1>2, <1>4, <2>1 DEF PlayersIInv, PlayersDistinctOK, PlayersCallerOK,
        PlayersPlaceOK
    <3>2. psCall[d].attempt # 0
      BY <3>1
    <3> QED BY <1>0, <1>3, <2>1, <3>1, <3>2 DEF PlayersCallerOK, PlayersMineOK
  <2> QED BY <2>2, <2>3 DEF PlayersCallerOK
<1>5. PlayersCallerOK(c)'
  BY <1>1 DEF PlayersCallerOK, PlayersPlaceOK, PlayersPlaceOf, PlayersLockOK,
    PlayersMineOK, PlayersOpenOnly, PlayersEnding, Players!Idle
<1>6. PlayersDistinctOK'
  BY <1>1 DEF PlayersIInv, PlayersDistinctOK, Players!Idle
<1>7. PlayersMapsOK'
  <2>1. \A t \in psSessions : psOpening'[t] \in {0, psOpening[t]} /\ psRunning'[t] = psRunning[t]
    BY <1>0, <1>3
  <2>2. \A t \in psSessions : psOpening'[t] \in 0..psMade'
    BY <1>0, <2>1 DEF PlayersMapsOK, PlayersTypes
  <2> QED BY <1>0, <2>1, <2>2 DEF PlayersMapsOK
<1>8. PlayersReachedOK'
  <2>1. \A t \in psSessions : ~PlayersReaches(c, t)
    BY <1>0, <1>2 DEF PlayersReaches
  <2>2. \A d \in psCallers \ {c}, t \in psSessions : PlayersReaches(d, t) => PlayersReaches(d, t)'
    BY <1>1 DEF PlayersReaches
  <2> QED BY <1>0, <2>1, <2>2 DEF PlayersIInv, PlayersReachedOK
<1>9. PlayersKnownOK'
  BY <1>0, <1>1, <1>2 DEF PlayersIInv, PlayersKnownOK, Players!Attempts,
    Players!PlayerAssumption
<1> QED BY <1>4, <1>5, <1>6, <1>7, <1>8, <1>9, PlayersTypeStep DEF PlayersIInv

(* The control thread of an open is registered, or is not started.         *)
LEMMA PlayersInsertHolds ==
  ASSUME Players!PlayerAssumption, PlayersIInv, Players!Next, NEW c \in psCallers,
         Players!Insert(c)
  PROVE  PlayersIInv'
<1> DEFINE s == psCall[c].session
           a == psCall[c].attempt
<1>0. /\ PlayersTypes /\ PlayersMapsOK /\ PlayersCallerOK(c) /\ PlayersPlaceOK(c) /\ PlayersLockOK(c) /\ PlayersMineOK(c)
      /\ psCall[c].task \in PlayersTasks
      /\ UNCHANGED <<psMade, psOpening, psCancelled, psAudibility>> /\ psPc[c] = "insert"
  BY DEF PlayersIInv, PlayersCallerOK, PlayersTypes, PlayersCalls, Players!Insert
<1>1. psCall[c].task = "open" /\ s \in psSessions /\ a \in 1..psMade /\ psAudibility = c
  BY <1>0 DEF PlayersPlaceOK, PlayersPlaceOf, PlayersTasks, PlayersSilencing,
    PlayersOpenOnly, PlayersEnding, PlayersLockOK
<1>2. CASE a \notin psCancelled /\ psRunning[s] = 0
  <2>1. /\ UNCHANGED psCall /\ psPc'[c] = "load" /\ \A d \in psCallers \ {c} : psPc'[d] = psPc[d]
        /\ psRunning' = [psRunning EXCEPT ![s] = a]
        /\ \A b \in Players!Attempts : b # a => psPlayer'[b] = psPlayer[b]
    BY <1>0, <1>2 DEF Players!Insert, Players!Goto, PlayersTypes
  <2>2. /\ \A t \in psSessions : psRunning'[t] = IF t = s THEN a ELSE psRunning[t]
        /\ a # 0 /\ a \in 0..psMade
        /\ \A t \in psSessions : a \in {psOpening[t], psRunning[t]} => t = s
    BY <1>0, <1>1, <2>1 DEF PlayersTypes, PlayersMineOK
  <2>3. PlayersCallerOK(c)'
    <3>1. PlayersPlaceOK(c)'
      BY <1>0, <1>1, <2>1 DEF PlayersPlaceOK, PlayersPlaceOf, PlayersOpenOnly
    <3>2. PlayersLockOK(c)'
      BY <1>0, <1>1 DEF PlayersLockOK
    <3>3. PlayersMineOK(c)'
      BY <1>0, <1>1, <2>1, <2>2 DEF PlayersMineOK
    <3> QED BY <3>1, <3>2, <3>3 DEF PlayersCallerOK
  <2>4. ASSUME NEW d \in psCallers, d # c PROVE PlayersCallerOK(d)'
    <3>1. PlayersCallerOK(d) /\ psPc'[d] = psPc[d] /\ psCall'[d] = psCall[d]
      BY <2>1, <2>4 DEF PlayersIInv
    <3>2. PlayersPlaceOK(d)' /\ PlayersLockOK(d)'
      BY <1>0, <3>1 DEF PlayersCallerOK, PlayersPlaceOK, PlayersLockOK
    <3>3. PlayersMineOK(d)'
      <4> SUFFICES ASSUME psCall[d].task = "open" PROVE PlayersMineOK(d)'
        BY <3>1 DEF PlayersMineOK
      <4>1. psCall[d].attempt # a /\ psCall[d].session \in psSessions
        BY <1>1, <2>4, <3>1 DEF PlayersIInv, PlayersDistinctOK, PlayersCallerOK,
          PlayersPlaceOK
      <4>2. psPc[d] \notin {"load", "loading", "retire"}
        BY <1>1, <2>4, <3>1 DEF PlayersCallerOK, PlayersLockOK, PlayersOpenOnly,
          PlayersEnding
      <4>3. \A t \in psSessions : psCall[d].attempt \in {psOpening[t], psRunning'[t]}
                                 => t = psCall[d].session
        BY <2>2, <3>1, <4>1 DEF PlayersCallerOK, PlayersMineOK
      <4>4. psCall[d].attempt \notin psCancelled => psOpening[psCall[d].session] = psCall[d].attempt
        BY <3>1 DEF PlayersCallerOK, PlayersMineOK
      <4> HIDE DEF s, a
      <4> QED BY <1>0, <3>1, <4>2, <4>3, <4>4 DEF PlayersMineOK
    <3> QED BY <3>2, <3>3 DEF PlayersCallerOK
  <2>5. PlayersDistinctOK'
    BY <2>1 DEF PlayersIInv, PlayersDistinctOK
  <2> HIDE DEF s, a
  <2>6. PlayersMapsOK'
    <3>1. \A t \in psSessions : psOpening'[t] \in 0..psMade' /\ psRunning'[t] \in 0..psMade'
      BY <1>0, <2>2 DEF PlayersMapsOK
    <3>2. ASSUME NEW t \in psSessions, NEW u \in psSessions, t # u
          PROVE  /\ psOpening'[t] # 0 => psOpening'[t] \notin {psOpening'[u], psRunning'[u]}
                 /\ psRunning'[t] # 0 => psRunning'[t] # psRunning'[u]
      <4>1. psOpening[t] # 0 => psOpening[t] \notin {psOpening[u], psRunning[u]}
        BY <1>0, <3>2 DEF PlayersMapsOK
      <4>2. psRunning[t] # 0 => psRunning[t] # psRunning[u]
        BY <1>0, <3>2 DEF PlayersMapsOK
      <4> QED BY <1>0, <2>2, <3>2, <4>1, <4>2
    <3> QED BY <3>1, <3>2 DEF PlayersMapsOK
  <2>7. PlayersReachedOK'
    <3>1. \A d \in psCallers, t \in psSessions : PlayersReaches(d, t) => PlayersReaches(d, t)'
      BY <1>0, <1>1, <2>1 DEF PlayersReaches
    <3> QED BY <1>0, <1>2, <2>2, <3>1 DEF PlayersIInv, PlayersReachedOK
  <2>8. PlayersKnownOK'
    <3>1. s \in psSessions /\ psRunning'[s] = a
      BY <1>1, <2>2
    <3>2. ASSUME NEW b \in Players!Attempts, b # a, psPlayer'[b].thread = "alive"
          PROVE  \/ \E t \in psSessions : psRunning'[t] = b
                 \/ \E d \in psCallers : psCall'[d].victim = b
      <4>1. b # 0
        BY DEF Players!Attempts, Players!PlayerAssumption
      <4>2. \/ \E t \in psSessions : psRunning[t] = b
            \/ \E d \in psCallers : psCall[d].victim = b
        BY <2>1, <3>2 DEF PlayersIInv, PlayersKnownOK
      <4> QED BY <1>2, <2>1, <2>2, <4>1, <4>2
    <3> QED BY <3>1, <3>2 DEF PlayersKnownOK
  <2> QED BY <2>3, <2>4, <2>5, <2>6, <2>7, <2>8, PlayersTypeStep DEF PlayersIInv
<1>3. CASE ~(a \notin psCancelled /\ psRunning[s] = 0)
  <2>1. /\ Players!NextBackend(c) /\ UNCHANGED <<psPlayer, psRunning>>
    BY <1>3 DEF Players!Insert
  <2>2. PlayersMove(c, {"insert"}, {"resolve", "release"})
    BY <1>0, <2>1, PlayersMoveTo DEF Players!NextBackend
  <2>3. psPc'[c] \in PlayersPlaceOf("open") /\ PlayersLockOK(c)'
    BY <1>0, <1>1, <2>2 DEF PlayersMove, PlayersPlaceOf, PlayersOpenOnly, PlayersEnding,
      PlayersLockOK
  <2> QED BY <1>0, <1>1, <2>1, <2>2, <2>3, PlayersMoveHolds DEF PlayersEnding,
      PlayersMove
<1> QED BY <1>2, <1>3

(* The player of a session is taken out of the map.                        *)
LEMMA PlayersRetireHolds ==
  ASSUME Players!PlayerAssumption, PlayersIInv, Players!Next, NEW c \in psCallers,
         Players!Retire(c)
  PROVE  PlayersIInv'
<1> DEFINE s == psCall[c].session
           a == psRunning[s]
<1>0. /\ PlayersTypes /\ PlayersMapsOK /\ PlayersCallerOK(c) /\ PlayersPlaceOK(c) /\ PlayersLockOK(c) /\ PlayersMineOK(c)
      /\ psCall[c] \in PlayersCalls /\ psCall[c].task \in PlayersTasks
      /\ UNCHANGED <<psMade, psOpening, psAudibility>> /\ psPc[c] = "retire"
  BY DEF PlayersIInv, PlayersCallerOK, PlayersTypes, PlayersCalls, Players!Retire
<1>1. /\ psCall[c].task \in {"open", "close", "close all"}
      /\ s \in psSessions /\ psCall[c].victim = 0
  BY <1>0 DEF PlayersPlaceOK, PlayersPlaceOf, PlayersTasks, PlayersSilencing,
    PlayersOpenOnly, PlayersEnding
<1>2. CASE a = 0
  <2>1. Players!AfterClose(c) /\ UNCHANGED <<psRunning, psCancelled, psPlayer>>
    BY <1>2 DEF Players!Retire
  <2>2. /\ psPc'[c] \in {"resolve", "each", "release"}
        /\ psPc'[c] = "resolve" => psCall[c].task = "open"
        /\ psPc'[c] = "each" <=> psCall[c].task = "close all"
        /\ \A d \in psCallers \ {c} : psPc'[d] = psPc[d]
    BY <1>0, <1>1, <2>1 DEF Players!AfterClose, Players!NextBackend, Players!Goto,
      PlayersTypes
  <2>3. /\ \A d \in psCallers \ {c} : psCall'[d] = psCall[d]
        /\ psCall'[c].task = psCall[c].task /\ psCall'[c].session = psCall[c].session
        /\ psCall'[c].attempt = psCall[c].attempt /\ psCall'[c].others = psCall[c].others
        /\ psCall'[c].victim = psCall[c].victim
    <3>1. psCall' = psCall \/ \E x : psCall' = [psCall EXCEPT ![c].backend = x]
      BY <1>1, <2>1 DEF Players!AfterClose, Players!NextBackend
    <3> QED BY <1>0, <3>1 DEF PlayersTypes, PlayersCalls
  <2>4. PlayersFrame(c) /\ PlayersTypes'
    BY <1>0, <2>2, <2>3, PlayersTypeStep DEF PlayersFrame
  <2>5. PlayersPlaceOK(c)'
    BY <1>0, <1>1, <2>2, <2>3 DEF PlayersPlaceOK, PlayersPlaceOf, PlayersOpenOnly,
      PlayersEnding
  <2>6. PlayersLockOK(c)' /\ PlayersMineOK(c)'
    BY <1>0, <2>1, <2>2, <2>3 DEF PlayersLockOK, PlayersMineOK, PlayersOpenOnly,
      PlayersEnding
  <2>7. \A t \in psSessions : psRunning[t] # 0 /\ PlayersReaches(c, t) => PlayersReaches(c, t)'
    BY <1>2, <2>3 DEF PlayersReaches
  <2> HIDE DEF s, a
  <2> QED BY <1>0, <2>1, <2>3, <2>4, <2>5, <2>6, <2>7, PlayersWalkKeeps
      DEF PlayersCallerOK
<1>3. CASE a # 0
  <2>1. /\ \A d \in psCallers \ {c} : psPc'[d] = psPc[d] /\ psCall'[d] = psCall[d]
        /\ psPc'[c] = "join" /\ psCall'[c] = [psCall[c] EXCEPT !.victim = a]
        /\ psRunning' = [psRunning EXCEPT ![s] = 0] /\ psCancelled' = psCancelled \cup {a}
    BY <1>0, <1>3 DEF Players!Retire, Players!Goto, PlayersTypes
  <2>2. \A b \in Players!Attempts : psPlayer'[b].thread = psPlayer[b].thread
    BY <1>0, <1>3 DEF Players!Retire, PlayersTypes, PlayersPlayers
  <2>3. /\ psCall'[c].task = psCall[c].task /\ psCall'[c].session = psCall[c].session
        /\ psCall'[c].attempt = psCall[c].attempt /\ psCall'[c].others = psCall[c].others
        /\ psCall'[c].victim = a
    BY <1>0, <2>1 DEF PlayersCalls
  <2>4. /\ \A t \in psSessions : psRunning'[t] = IF t = s THEN 0 ELSE psRunning[t]
        /\ a \in 1..psMade
    <3>1. psRunning \in [psSessions -> 0..psMaxOpens] /\ psMade \in 0..psMaxOpens
      BY <1>0 DEF PlayersTypes
    <3>2. \A t \in psSessions : psRunning'[t] = IF t = s THEN 0 ELSE psRunning[t]
      BY <1>1, <2>1, <3>1
    <3>3. a \in 0..psMade
      BY <1>0, <1>1 DEF PlayersMapsOK
    <3> HIDE DEF a
    <3>4. a \in 1..psMade
      BY <1>3, <3>1, <3>3
    <3> QED BY <3>2, <3>4
  <2>5. PlayersMineOK(c) /\ psCall[c].task = "open" => a = psCall[c].attempt
    BY <1>0, <1>3 DEF PlayersMineOK
  <2> HIDE DEF s, a
  <2>6. PlayersCallerOK(c)'
    <3>1. PlayersPlaceOK(c)'
      BY <1>0, <1>1, <2>1, <2>3, <2>4 DEF PlayersPlaceOK, PlayersPlaceOf, PlayersEnding,
        s
    <3>2. PlayersLockOK(c)'
      BY <1>0, <2>1, <2>3 DEF PlayersLockOK, PlayersOpenOnly, PlayersEnding
    <3>3. PlayersMineOK(c)'
      <4> SUFFICES ASSUME psCall[c].task = "open" PROVE PlayersMineOK(c)'
        BY <2>3 DEF PlayersMineOK
      <4>1. psCall[c].attempt \in psCancelled' /\ psCall[c].attempt # 0
        BY <1>0, <2>1, <2>4, <2>5
      <4> QED BY <1>0, <2>1, <2>3, <2>4, <4>1 DEF PlayersMineOK
    <3> QED BY <3>1, <3>2, <3>3 DEF PlayersCallerOK
  <2>7. ASSUME NEW d \in psCallers, d # c PROVE PlayersCallerOK(d)'
    <3>1. PlayersCallerOK(d) /\ psPc'[d] = psPc[d] /\ psCall'[d] = psCall[d]
      BY <2>1, <2>7 DEF PlayersIInv
    <3>2. PlayersPlaceOK(d)' /\ PlayersLockOK(d)'
      BY <1>0, <3>1 DEF PlayersCallerOK, PlayersPlaceOK, PlayersLockOK
    <3>3. PlayersMineOK(d)'
      <4> SUFFICES ASSUME psCall[d].task = "open" PROVE PlayersMineOK(d)'
        BY <3>1 DEF PlayersMineOK
      <4>1. psCall[d].attempt # 0 /\ psCall[d].session \in psSessions
        BY <3>1 DEF PlayersCallerOK, PlayersPlaceOK
      <4> QED BY <1>0, <2>1, <2>4, <3>1, <4>1 DEF PlayersCallerOK, PlayersMineOK
    <3> QED BY <3>2, <3>3 DEF PlayersCallerOK
  <2>8. PlayersDistinctOK'
    <3>1. \A d \in psCallers : psCall'[d].task = psCall[d].task /\ psCall'[d].attempt = psCall[d].attempt
      BY <2>1, <2>3
    <3> QED BY <3>1 DEF PlayersIInv, PlayersDistinctOK
  <2>9. PlayersMapsOK'
    <3>1. \A t \in psSessions : psRunning'[t] \in {0, psRunning[t]} /\ psOpening'[t] = psOpening[t]
      BY <1>0, <2>4
    <3>2. \A t \in psSessions : psOpening'[t] \in 0..psMade' /\ psRunning'[t] \in 0..psMade'
      <4>1. 0 \in 0..psMade
        BY <1>0 DEF PlayersTypes
      <4> QED BY <1>0, <3>1, <4>1 DEF PlayersMapsOK
    <3> QED BY <1>0, <3>1, <3>2 DEF PlayersMapsOK
  <2>10. PlayersReachedOK'
    <3>1. ASSUME NEW t \in psSessions, psRunning'[t] # 0, psRunning'[t] \in psCancelled'
          PROVE  \E d \in psCallers : PlayersReaches(d, t)'
      <4>1. t # s /\ psRunning'[t] = psRunning[t]
        BY <2>4, <3>1
      <4>2. psRunning[t] # a
        BY <1>0, <1>1, <3>1, <4>1 DEF PlayersMapsOK, a
      <4>3. PICK d \in psCallers : PlayersReaches(d, t)
        BY <2>1, <3>1, <4>1, <4>2 DEF PlayersIInv, PlayersReachedOK
      <4>4. CASE d = c
        BY <2>3, <4>1, <4>3, <4>4 DEF PlayersReaches, s
      <4>5. CASE d # c
        BY <2>1, <4>3, <4>5 DEF PlayersReaches
      <4> QED BY <4>4, <4>5
    <3> QED BY <3>1 DEF PlayersReachedOK
  <2>11. PlayersKnownOK'
    <3>1. ASSUME NEW b \in Players!Attempts, psPlayer'[b].thread = "alive"
          PROVE  \/ \E t \in psSessions : psRunning'[t] = b
                 \/ \E d \in psCallers : psCall'[d].victim = b
      <4>1. b # 0
        BY DEF Players!Attempts, Players!PlayerAssumption
      <4>2. \/ \E t \in psSessions : psRunning[t] = b
            \/ \E d \in psCallers : psCall[d].victim = b
        BY <2>2, <3>1 DEF PlayersIInv, PlayersKnownOK
      <4>3. CASE \E t \in psSessions : psRunning[t] = b
        BY <2>3, <2>4, <4>3 DEF a
      <4>4. CASE \E d \in psCallers : psCall[d].victim = b
        BY <1>1, <2>1, <4>1, <4>4
      <4> QED BY <4>2, <4>3, <4>4
    <3> QED BY <3>1 DEF PlayersKnownOK
  <2> QED BY <2>6, <2>7, <2>8, <2>9, <2>10, <2>11, PlayersTypeStep DEF PlayersIInv
<1> QED BY <1>2, <1>3

-----------------------------------------------------------------------------
LEMMA PlayersStepHolds ==
  ASSUME Players!PlayerAssumption, PlayersIInv, [Players!Next]_Players!vars
  PROVE  PlayersIInv'
<1>1. CASE UNCHANGED Players!vars
  <2>1. PlayersTypes' /\ \A c \in psCallers : PlayersSameBut(c)
    BY <1>1 DEF Players!vars, PlayersIInv, PlayersTypes, PlayersSameBut
  <2> QED BY <1>1, <2>1, PlayersAnswerKeeps DEF Players!vars
<1>2. CASE Players!Next
  <2>1. ASSUME NEW c \in psCallers, Players!CallStep(c) \/ Players!TimesOut(c) \/ Players!CloseAllBegins(c) PROVE PlayersIInv'
    BY <1>2, <2>1, PlayersWalkHolds, PlayersInsertHolds, PlayersReleaseHolds,
      PlayersUnregisterHolds, PlayersCloseHolds, PlayersRetireHolds, PlayersJoinHolds,
      PlayersTimeoutHolds DEF Players!CallStep, Players!OpenStep
  <2>2. ASSUME NEW c \in psCallers, NEW s \in psSessions,
               \/ \E x \in psAutoplays : Players!OpenBegins(c, s, x)
               \/ Players!PlayBegins(c, s) \/ Players!PauseBegins(c, s) \/ Players!CloseBegins(c, s)
        PROVE  PlayersIInv'
    BY <1>2, <2>2, PlayersOpenHolds, PlayersPlayBeginsHolds, PlayersCloseHolds
  <2>3. ASSUME NEW a \in Players!Attempts, Players!ControlStep(a) \/ Players!FinishLoad(a) \/ Players!MpvEnds(a)
        PROVE  PlayersIInv'
    BY <1>2, <2>3, PlayersControlStepHolds
  <2> QED BY <1>2, <2>1, <2>2, <2>3 DEF Players!Next
<1> QED BY <1>1, <1>2

LEMMA PlayersInvariance ==
  ASSUME Players!PlayerAssumption
  PROVE  Players!Spec => []PlayersIInv
<1>1. Players!Init => PlayersIInv
  BY PlayersInitHolds
<1>2. PlayersIInv /\ [Players!Next]_Players!vars => PlayersIInv'
  BY PlayersStepHolds
<1> QED BY <1>1, <1>2, PTL DEF Players!Spec

(* Every variable keeps its type: the maps name attempts that were made,   *)
(* a queue holds messages of commands or of a close, a lock has one owner. *)
THEOREM PlayersTypeCorrect ==
  ASSUME Players!PlayerAssumption
  PROVE  Players!Spec => []Players!TypeOK
<1>1. PlayersIInv => Players!TypeOK
  <2> SUFFICES ASSUME PlayersIInv PROVE Players!TypeOK
    OBVIOUS
  <2>1. PlayersTypes /\ \A a \in Players!Attempts : psPlayer[a] \in PlayersPlayers
    BY DEF PlayersIInv, PlayersTypes
  <2> QED BY <2>1 DEF Players!TypeOK, PlayersTypes, PlayersPlayers, PlayersThreads,
      PlayersLives
<1> QED BY <1>1, PlayersInvariance, PTL

(* A close reaches every attempt to open that has not been cancelled: the  *)
(* entry in `opening` that close and close_all look up is its own, though  *)
(* the next open of the session overwrites it and each open takes its      *)
(* entry out when it returns (open, close and close_all of mpv/player.rs). *)
THEOREM PlayersCloseFindsTheOpen ==
  ASSUME Players!PlayerAssumption
  PROVE  Players!Spec => []Players!CloseReaches
<1>1. PlayersIInv => Players!CloseReaches
  BY DEF PlayersIInv, PlayersCallerOK, PlayersMineOK, Players!CloseReaches
<1> QED BY <1>1, PlayersInvariance, PTL

(* An open that failed ends no player but its own, though close_running is *)
(* given the session only, which may have been closed and opened again.    *)
THEOREM PlayersFailedOpenEndsItsOwn ==
  ASSUME Players!PlayerAssumption
  PROVE  Players!Spec => []Players!OwnPlayerOnly
<1>1. PlayersIInv => Players!OwnPlayerOnly
  BY DEF PlayersIInv, PlayersCallerOK, PlayersMineOK, Players!OwnPlayerOnly
<1> QED BY <1>1, PlayersInvariance, PTL

(* A closed session stays closed: ensure_started looks at the flag under   *)
(* the lock of `running`, so that no player of a cancelled attempt is left *)
(* registered when the open and the close are over, and every control      *)
(* thread is in the map or is being joined by close_running.               *)
THEOREM PlayersClosedStaysClosed ==
  ASSUME Players!PlayerAssumption
  PROVE  Players!Spec => []Players!ClosedForGood
<1>1. PlayersIInv => Players!ClosedForGood
  <2> SUFFICES ASSUME PlayersIInv, NEW a \in Players!Attempts
               PROVE  /\ a \in psCancelled /\ (\A c \in psCallers : ~Players!AtWork(c, a))
                           => \A s \in psSessions : psRunning[s] # a
                      /\ psPlayer[a].thread = "alive"
                           => \/ \E s \in psSessions : psRunning[s] = a
                              \/ \E c \in psCallers : psCall[c].victim = a
    BY DEF Players!ClosedForGood
  <2>1. ASSUME NEW s \in psSessions, psRunning[s] = a, a \in psCancelled
        PROVE  \E c \in psCallers : Players!AtWork(c, a)
    <3>1. a \in Nat
      BY DEF Players!Attempts
    <3>2. CASE a # 0
      <4>1. PICK c \in psCallers : PlayersReaches(c, s)
        BY <2>1, <3>2 DEF PlayersIInv, PlayersReachedOK
      <4>2. Players!AtWork(c, a)
        <5>1. psCall[c].task \in {"close", "close all"}
          BY <4>1 DEF PlayersReaches
        <5> QED BY <5>1 DEF Players!AtWork
      <4> QED BY <4>2
    <3>3. a # 0
      BY DEF Players!Attempts
    <3> QED BY <3>2, <3>3
  <2>2. psPlayer[a].thread = "alive" => \/ \E s \in psSessions : psRunning[s] = a
                                        \/ \E c \in psCallers : psCall[c].victim = a
    BY DEF PlayersIInv, PlayersKnownOK
  <2> QED BY <2>1, <2>2
<1> QED BY <1>1, PlayersInvariance, PTL

-----------------------------------------------------------------------------
(* One session is heard.  A player is quiet if it will not play without a  *)
(* new request: what is left of its queue ends what it does, or holds no   *)
(* request to play and it does not play.                                   *)
PlayersWakes == {"load", "play"}
PlayersStops == {"pause", "shutdown"}

PlayersQuiet(p) ==
  \/ \E i \in DOMAIN p.queue :
       /\ p.queue[i].kind \in PlayersStops
       /\ \A j \in DOMAIN p.queue : j > i => p.queue[j].kind \notin PlayersWakes
  \/ /\ ~p.playing /\ ~(p.load = "pending" /\ p.autoplay)
     /\ \A j \in DOMAIN p.queue : p.queue[j].kind \notin PlayersWakes

(* The holder of the lock, until it has sent what it silences others for.  *)
PlayersKeeping(c) ==
  \/ psPc[c] \in {"others", "pausing", "resolve", "create", "insert", "load", "loading"}
  \/ psPc[c] \in PlayersEnding /\ psCall[c].task = "open"
  \/ psPc[c] = "command" /\ psCall[c].task = "play"

PlayersKeepsQuiet(c) ==
  PlayersKeeping(c) =>
    /\ psAudibility = c
    /\ psPc[c] \notin {"others", "pausing"} => psCall[c].others = {}
    /\ \A s \in psSessions : s # psCall[c].session /\ psRunning[s] # 0
         => s \in psCall[c].others \/ PlayersQuiet(psPlayer[psRunning[s]])

(* Nobody speaks to a player that has ended or is not registered.          *)
PlayersLeftQuiet ==
  \A a \in Players!Attempts :
    psPlayer[a].thread # "alive" \/ (\A s \in psSessions : psRunning[s] # a)
      => PlayersQuiet(psPlayer[a])

PlayersOneLoud ==
  \A a, b \in Players!Attempts : ~PlayersQuiet(psPlayer[a]) /\ ~PlayersQuiet(psPlayer[b]) => a = b

PlayersSoundOK == PlayersLeftQuiet /\ PlayersOneLoud /\ \A c \in psCallers : PlayersKeepsQuiet(c)

LEMMA PlayersStopQuiets ==
  ASSUME NEW p, NEW q \in Seq(Players!Messages), NEW m \in Players!Messages,
         m.kind \in PlayersStops,
         p.queue = Append(q, m)
  PROVE  PlayersQuiet(p)
<1>1. /\ Len(q) + 1 \in DOMAIN p.queue /\ p.queue[Len(q) + 1] = m
      /\ \A j \in DOMAIN p.queue : ~(j > Len(q) + 1)
  OBVIOUS
<1> QED BY <1>1 DEF PlayersQuiet

(* The message at the head was handled.                                    *)
LEMMA PlayersHeadGoes ==
  ASSUME NEW p, NEW n, p.queue \in Seq(Players!Messages), p.queue # <<>>,
         n.queue = Tail(p.queue),
         Head(p.queue).kind \in PlayersStops => ~n.playing /\ ~n.autoplay,
         PlayersQuiet(p)
  PROVE  PlayersQuiet(n)
<1> DEFINE q == p.queue
<1>1. /\ Len(q) \in Nat /\ DOMAIN q = 1..Len(q) /\ Head(q) = q[1] /\ 1 \in DOMAIN q
      /\ DOMAIN n.queue = 1..(Len(q) - 1)
      /\ \A j \in DOMAIN n.queue : j + 1 \in DOMAIN q /\ n.queue[j] = q[j + 1]
      /\ Head(q) \in Players!Messages
  OBVIOUS
<1>2. Head(q).kind \in PlayersStops \cup PlayersWakes
  BY <1>1 DEF Players!Messages, PlayersStops, PlayersWakes
<1> HIDE DEF q
<1>3. ASSUME Head(q).kind \in PlayersStops, \A j \in DOMAIN q : j > 1 => q[j].kind \notin PlayersWakes
      PROVE  PlayersQuiet(n)
  <2>1. \A j \in DOMAIN n.queue : n.queue[j].kind \notin PlayersWakes
    <3> TAKE j \in DOMAIN n.queue
    <3>1. j + 1 \in DOMAIN q /\ j + 1 > 1 /\ n.queue[j] = q[j + 1]
      BY <1>1
    <3> QED BY <1>3, <3>1
  <2>2. ~n.playing /\ ~n.autoplay
    BY <1>3 DEF q
  <2> QED BY <2>1, <2>2 DEF PlayersQuiet
<1>4. CASE \E i \in DOMAIN q :
             /\ q[i].kind \in PlayersStops
             /\ \A j \in DOMAIN q : j > i => q[j].kind \notin PlayersWakes
  <2>1. PICK i \in DOMAIN q : /\ q[i].kind \in PlayersStops
                              /\ \A j \in DOMAIN q : j > i => q[j].kind \notin PlayersWakes
    BY <1>4
  <2>2. CASE i = 1
    BY <1>1, <1>3, <2>1, <2>2
  <2>3. CASE i # 1
    <3>1. /\ i - 1 \in DOMAIN n.queue /\ n.queue[i - 1] = q[i]
      BY <1>1, <2>3
    <3>2. ASSUME NEW j \in DOMAIN n.queue, j > i - 1 PROVE n.queue[j].kind \notin PlayersWakes
      <4>1. j + 1 \in DOMAIN q /\ j + 1 > i /\ n.queue[j] = q[j + 1]
        BY <1>1, <3>2
      <4> QED BY <2>1, <4>1
    <3> QED BY <2>1, <3>1, <3>2 DEF PlayersQuiet
  <2> QED BY <2>2, <2>3
<1>5. CASE \A j \in DOMAIN q : q[j].kind \notin PlayersWakes
  BY <1>1, <1>2, <1>3, <1>5
<1> QED BY <1>4, <1>5 DEF PlayersQuiet, q

(* What a step of one control thread does to its player.                   *)
LEMMA PlayersControlKeepsQuiet ==
  ASSUME Players!PlayerAssumption, PlayersTypes, NEW a \in Players!Attempts,
         Players!ControlStep(a) \/ Players!FinishLoad(a) \/ Players!MpvEnds(a)
  PROVE  /\ \A b \in Players!Attempts \ {a} : psPlayer'[b] = psPlayer[b]
         /\ PlayersQuiet(psPlayer[a]) => PlayersQuiet(psPlayer'[a])
         /\ psPlayer'[a].thread # "alive" => PlayersQuiet(psPlayer'[a])
<1>0. psPlayer \in [Players!Attempts -> PlayersPlayers] /\ psPlayer[a] \in PlayersPlayers /\ psPlayer[a].thread = "alive"
  BY DEF PlayersTypes, Players!ControlStep, Players!HandleLoad, Players!HandlePlay,
    Players!HandlePause, Players!HandleShutdown, Players!FinishLoad, Players!MpvEnds,
    Players!Takes, Players!Alive
<1>1. psPlayer[a].queue \in Seq(Players!Messages)
  BY <1>0 DEF PlayersPlayers
<1>2. CASE Players!HandleLoad(a) \/ Players!HandlePlay(a) \/ Players!HandlePause(a)
  <2>1. /\ psPlayer[a].queue # <<>> /\ psPlayer'[a].queue = Tail(psPlayer[a].queue)
        /\ psPlayer'[a].thread = "alive"
        /\ \A b \in Players!Attempts \ {a} : psPlayer'[b] = psPlayer[b]
        /\ Players!Message(a).kind \in PlayersStops => ~psPlayer'[a].playing /\ ~psPlayer'[a].autoplay
    <3>1. CASE Players!HandleLoad(a)
      <4>1. Players!Message(a).kind = "load" /\ psPlayer[a].queue # <<>>
        BY <3>1 DEF Players!HandleLoad, Players!Takes
      <4> DEFINE go == ~psPlayer[a].interrupted /\ \E c \in psCallers :
                         psCall[c].attempt = a /\ psCall[c].autoplay
      <4>2. \/ psPlayer' = [psPlayer EXCEPT ![a] = [psPlayer[a] EXCEPT !.queue = Tail(@),
                  !.life = "opening", !.load = "pending",
                  !.waiter = Players!Message(a).from, !.autoplay = go]]
            \/ psPlayer' = [psPlayer EXCEPT ![a] = [psPlayer[a] EXCEPT !.queue = Tail(@),
                  !.life = "error"]]
        BY <1>0, <3>1 DEF Players!HandleLoad, PlayersPlayers
      <4> HIDE DEF go
      <4> QED BY <1>0, <4>1, <4>2 DEF PlayersPlayers, PlayersStops
    <3>2. CASE Players!HandlePlay(a)
      <4>1. /\ Players!Message(a).kind = "play" /\ psPlayer[a].queue # <<>>
            /\ psPlayer' = [psPlayer EXCEPT ![a] = [psPlayer[a] EXCEPT !.queue = Tail(@),
                  !.life = "playing", !.playing = TRUE, !.interrupted = FALSE]]
        BY <1>0, <3>2 DEF Players!HandlePlay, Players!Takes, PlayersPlayers
      <4> QED BY <1>0, <4>1 DEF PlayersPlayers, PlayersStops
    <3>3. CASE Players!HandlePause(a)
      <4>1. /\ psPlayer[a].queue # <<>>
            /\ psPlayer' = [psPlayer EXCEPT ![a] = [psPlayer[a] EXCEPT !.queue = Tail(@),
                  !.life = "paused", !.playing = FALSE,
                  !.interrupted = TRUE, !.autoplay = FALSE]]
        BY <1>0, <3>3 DEF Players!HandlePause, Players!Takes, PlayersPlayers
      <4> QED BY <1>0, <4>1 DEF PlayersPlayers
    <3> QED BY <1>2, <3>1, <3>2, <3>3
  <2> QED BY <1>1, <2>1, PlayersHeadGoes DEF Players!Message
<1>3. CASE Players!FinishLoad(a)
  <2>1. /\ \A b \in Players!Attempts \ {a} : psPlayer'[b] = psPlayer[b]
        /\ psPlayer'[a].queue = psPlayer[a].queue /\ psPlayer'[a].thread = "alive"
        /\ psPlayer'[a].load \in {"done", "failed"}
        /\ psPlayer[a].load = "pending"
        /\ psPlayer'[a].playing => psPlayer[a].playing \/ psPlayer[a].autoplay
    <3> DEFINE auto == psPlayer[a].autoplay
               life == IF auto THEN "playing" ELSE "paused"
    <3>1. \/ psPlayer' = [psPlayer EXCEPT ![a] = [psPlayer[a] EXCEPT !.load = "done",
                !.playing = auto, !.life = life, !.waiter = None]]
          \/ psPlayer' = [psPlayer EXCEPT ![a] = [psPlayer[a] EXCEPT !.load = "failed",
                !.life = "error", !.waiter = None]]
      BY <1>0, <1>3 DEF Players!FinishLoad, PlayersPlayers
    <3>2. psPlayer[a].load = "pending"
      BY <1>3 DEF Players!FinishLoad
    <3> HIDE DEF life, auto
    <3>3. CASE psPlayer' = [psPlayer EXCEPT ![a] = [psPlayer[a] EXCEPT !.load = "done",
                 !.playing = auto, !.life = life, !.waiter = None]]
      <4>1. /\ \A b \in Players!Attempts \ {a} : psPlayer'[b] = psPlayer[b]
            /\ psPlayer'[a].queue = psPlayer[a].queue /\ psPlayer'[a].thread = "alive"
            /\ psPlayer'[a].load = "done" /\ psPlayer'[a].playing = auto
        BY <1>0, <3>3 DEF PlayersPlayers
      <4> QED BY <3>2, <4>1 DEF auto
    <3>4. CASE psPlayer' = [psPlayer EXCEPT ![a] = [psPlayer[a] EXCEPT !.load = "failed",
                 !.life = "error", !.waiter = None]]
      <4>1. /\ \A b \in Players!Attempts \ {a} : psPlayer'[b] = psPlayer[b]
            /\ psPlayer'[a].queue = psPlayer[a].queue /\ psPlayer'[a].thread = "alive"
            /\ psPlayer'[a].load = "failed" /\ psPlayer'[a].playing = psPlayer[a].playing
        BY <1>0, <3>4 DEF PlayersPlayers
      <4> QED BY <3>2, <4>1
    <3> QED BY <3>1, <3>3, <3>4
  <2> QED BY <2>1 DEF PlayersQuiet
<1>4. CASE Players!Ends(a)
  <2>1. /\ \A b \in Players!Attempts \ {a} : psPlayer'[b] = psPlayer[b]
        /\ psPlayer'[a] = [Players!NoPlayer EXCEPT !.thread = "ended"]
    BY <1>0, <1>4 DEF Players!Ends
  <2>2. PlayersQuiet(psPlayer'[a])
    BY <2>1 DEF PlayersQuiet, Players!NoPlayer
  <2> QED BY <2>1, <2>2
<1> QED BY <1>2, <1>3, <1>4 DEF Players!ControlStep, Players!HandleShutdown,
    Players!MpvEnds

(* What a step of a command does to the players and to the maps: it wakes  *)
(* at most the player of its own session.                                  *)
PlayersWoken(c, a) ==
  /\ psPc[c] = "load" \/ (psPc[c] = "command" /\ psCall[c].task = "play")
  /\ psCall[c].session \in psSessions /\ psRunning[psCall[c].session] = a
  /\ psPlayer[a].thread = "alive"
  /\ \A b \in Players!Attempts \ {a} : psPlayer'[b] = psPlayer[b]

PlayersQuietKept(c) ==
  /\ \A a \in Players!Attempts :
       /\ psPlayer[a].thread = "alive" => psPlayer'[a].thread = "alive"
       /\ PlayersQuiet(psPlayer[a]) => PlayersQuiet(psPlayer'[a]) \/ PlayersWoken(c, a)
  /\ \A s \in psSessions :
       \/ psRunning'[s] = psRunning[s]
       \/ psRunning[s] = 0 /\ psAudibility = c /\ s = psCall[c].session
       \/ psRunning'[s] = 0 /\ psRunning[s] \in Players!Attempts /\ PlayersQuiet(psPlayer'[psRunning[s]])

LEMMA PlayersSendDoes ==
  ASSUME Players!PlayerAssumption, PlayersTypes, NEW c \in psCallers,
         NEW a \in Players!Attempts,
         NEW k \in {"load", "play", "pause"}, Players!Send(c, a, k)
  PROVE  /\ \A b \in Players!Attempts \ {a} : psPlayer'[b] = psPlayer[b]
         /\ psPlayer'[a].thread = psPlayer[a].thread
         /\ k = "pause" => PlayersQuiet(psPlayer'[a])
<1> DEFINE m == [kind |-> k, from |-> c]
<1>1. psPlayer \in [Players!Attempts -> PlayersPlayers] /\ psPlayer[a] \in PlayersPlayers /\ m \in Players!Messages
  BY DEF PlayersTypes, Players!Messages
<1>2. psPlayer' = [psPlayer EXCEPT ![a] = [psPlayer[a] EXCEPT !.queue = Append(psPlayer[a].queue, m)]]
  BY <1>1 DEF Players!Send, PlayersPlayers
<1>3. /\ \A b \in Players!Attempts \ {a} : psPlayer'[b] = psPlayer[b]
      /\ psPlayer'[a].thread = psPlayer[a].thread
      /\ psPlayer'[a].queue = Append(psPlayer[a].queue, m)
      /\ psPlayer[a].queue \in Seq(Players!Messages)
  BY <1>1, <1>2 DEF PlayersPlayers
<1>4. k = "pause" => m.kind \in PlayersStops
  BY DEF PlayersStops
<1> HIDE DEF m
<1> QED BY <1>1, <1>3, <1>4, PlayersStopQuiets

LEMMA PlayersStepKeepsQuiet ==
  ASSUME Players!PlayerAssumption, PlayersIInv, NEW c \in psCallers,
         \/ Players!CallStep(c) \/ Players!TimesOut(c) \/ Players!CloseAllBegins(c)
         \/ \E s \in psSessions : \/ \E x \in psAutoplays : Players!OpenBegins(c, s, x)
                                  \/ Players!PlayBegins(c, s) \/ Players!PauseBegins(c, s)
                                  \/ Players!CloseBegins(c, s)
  PROVE  PlayersQuietKept(c)
<1>0. /\ PlayersTypes /\ PlayersCallerOK(c) /\ PlayersPlaceOK(c) /\ PlayersLockOK(c) /\ psCall[c] \in PlayersCalls
      /\ psCall[c].task \in PlayersTasks /\ psPlayer \in [Players!Attempts -> PlayersPlayers]
  BY DEF PlayersIInv, PlayersCallerOK, PlayersTypes, PlayersCalls
<1>1. \A s \in psSessions : psRunning[s] # 0 => psRunning[s] \in Players!Attempts
  BY <1>0 DEF PlayersTypes, Players!Attempts, Players!PlayerAssumption
<1>2. UNCHANGED <<psPlayer, psRunning>> => PlayersQuietKept(c)
  BY DEF PlayersQuietKept
<1>3. CASE Players!PauseOther(c)
  <2>1. UNCHANGED psRunning /\ psCall[c].others \subseteq psSessions
    BY <1>0, <1>3 DEF Players!PauseOther, PlayersCalls
  <2>2. ASSUME NEW s \in psCall[c].others, Players!Reachable(s), Players!Send(c, psRunning[s], "pause")
        PROVE  PlayersQuietKept(c)
    <3>1. psRunning[s] \in Players!Attempts
      BY <1>1, <2>1, <2>2 DEF Players!Reachable
    <3>2. /\ \A b \in Players!Attempts \ {psRunning[s]} : psPlayer'[b] = psPlayer[b]
          /\ psPlayer'[psRunning[s]].thread = psPlayer[psRunning[s]].thread
          /\ PlayersQuiet(psPlayer'[psRunning[s]])
      BY <1>0, <2>2, <3>1, PlayersSendDoes
    <3> QED BY <2>1, <3>1, <3>2 DEF PlayersQuietKept
  <2> QED BY <1>2, <1>3, <2>1, <2>2 DEF Players!PauseOther
<1>4. CASE Players!Load(c) \/ Players!Command(c)
  <2> DEFINE s == psCall[c].session
  <2>1. UNCHANGED psRunning /\ s \in psSessions
    BY <1>0, <1>4 DEF Players!Load, Players!Command, PlayersPlaceOK, PlayersPlaceOf,
      PlayersTasks, PlayersSilencing, PlayersOpenOnly, PlayersEnding
  <2>2. CASE UNCHANGED psPlayer
    BY <1>2, <2>1, <2>2
  <2>3. CASE ~UNCHANGED psPlayer
    <3>1. /\ Players!Reachable(s)
          /\ \/ psPc[c] = "load" /\ Players!Send(c, psRunning[s], "load")
             \/ psPc[c] = "command" /\ Players!Send(c, psRunning[s], psCall[c].task)
      BY <1>4, <2>3 DEF Players!Load, Players!Command
    <3>2. psCall[c].task \in {"play", "pause"} \/ psPc[c] = "load"
      BY <1>0, <3>1 DEF PlayersPlaceOK, PlayersPlaceOf, PlayersTasks, PlayersSilencing,
        PlayersOpenOnly, PlayersEnding
    <3>3. psRunning[s] \in Players!Attempts /\ psPlayer[psRunning[s]].thread = "alive"
      BY <1>1, <2>1, <3>1 DEF Players!Reachable
    <3> HIDE DEF s
    <3>4. /\ \A b \in Players!Attempts \ {psRunning[s]} : psPlayer'[b] = psPlayer[b]
          /\ psPlayer'[psRunning[s]].thread = psPlayer[psRunning[s]].thread
          /\ psPc[c] = "command" /\ psCall[c].task = "pause" => PlayersQuiet(psPlayer'[psRunning[s]])
      <4>1. CASE psPc[c] = "load"
        BY <1>0, <3>1, <3>3, <4>1, PlayersSendDoes
      <4>2. CASE psPc[c] # "load"
        BY <1>0, <3>1, <3>2, <3>3, <4>2, PlayersSendDoes
      <4> QED BY <4>1, <4>2
    <3>5. PlayersWoken(c, psRunning[s]) \/ PlayersQuiet(psPlayer'[psRunning[s]])
      BY <2>1, <3>1, <3>2, <3>3, <3>4 DEF PlayersWoken, s
    <3> QED BY <2>1, <3>3, <3>4, <3>5 DEF PlayersQuietKept
  <2> QED BY <2>2, <2>3
<1>5. CASE Players!Insert(c)
  <2> DEFINE s == psCall[c].session
             a == psCall[c].attempt
  <2>1. CASE UNCHANGED <<psPlayer, psRunning>>
    BY <1>2, <2>1
  <2>2. CASE ~UNCHANGED <<psPlayer, psRunning>>
    <3>1. /\ psRunning[s] = 0 /\ psRunning' = [psRunning EXCEPT ![s] = a] /\ psPc[c] = "insert"
          /\ psPlayer' = [psPlayer EXCEPT ![a] = [Players!NoPlayer EXCEPT !.thread = "alive",
                                                !.life = "opening"]]
      BY <1>5, <2>2 DEF Players!Insert
    <3>2. s \in psSessions /\ psAudibility = c
      BY <1>0, <3>1 DEF PlayersPlaceOK, PlayersPlaceOf, PlayersTasks, PlayersSilencing,
        PlayersOpenOnly, PlayersEnding, PlayersLockOK
    <3> HIDE DEF s, a
    <3>3. \A b \in Players!Attempts : b # a => psPlayer'[b] = psPlayer[b]
      BY <1>0, <3>1
    <3>4. a \in Players!Attempts => psPlayer'[a].thread = "alive" /\ PlayersQuiet(psPlayer'[a])
      BY <1>0, <3>1 DEF PlayersQuiet, Players!NoPlayer
    <3>5. \A t \in psSessions : psRunning'[t] = psRunning[t] \/ (t = s /\ psRunning[t] = 0)
      BY <1>0, <3>1 DEF PlayersTypes
    <3> QED BY <3>2, <3>3, <3>4, <3>5 DEF PlayersQuietKept, s
  <2> QED BY <2>1, <2>2
<1>6. CASE Players!Retire(c)
  <2> DEFINE s == psCall[c].session
             a == psRunning[s]
             m == [kind |-> "shutdown", from |-> None]
  <2>1. CASE a = 0
    BY <1>2, <1>6, <2>1 DEF Players!Retire
  <2>2. CASE a # 0
    <3>1. s \in psSessions /\ a \in Players!Attempts
      BY <1>0, <1>1, <1>6, <2>2 DEF Players!Retire, PlayersPlaceOK
    <3>2. /\ psRunning' = [psRunning EXCEPT ![s] = 0]
          /\ psPlayer' = [psPlayer EXCEPT ![a] = [psPlayer[a] EXCEPT !.life = "closing",
                          !.queue = Append(psPlayer[a].queue, m)]]
      BY <1>0, <1>6, <2>2, <3>1 DEF Players!Retire, PlayersPlayers
    <3>3. m \in Players!Messages /\ m.kind \in PlayersStops
      BY DEF Players!Messages, PlayersStops
    <3> HIDE DEF m
    <3>4. /\ \A b \in Players!Attempts \ {a} : psPlayer'[b] = psPlayer[b]
          /\ psPlayer'[a].thread = psPlayer[a].thread
          /\ psPlayer'[a].queue = Append(psPlayer[a].queue, m)
          /\ psPlayer[a].queue \in Seq(Players!Messages)
      BY <1>0, <3>1, <3>2 DEF PlayersPlayers
    <3>5. PlayersQuiet(psPlayer'[a])
      BY <3>3, <3>4, PlayersStopQuiets
    <3>6. \A t \in psSessions : psRunning'[t] = IF t = s THEN 0 ELSE psRunning[t]
      BY <1>0, <3>1, <3>2 DEF PlayersTypes
    <3> QED BY <3>1, <3>4, <3>5, <3>6 DEF PlayersQuietKept
  <2> QED BY <2>1, <2>2
<1>7. CASE Players!TimesOut(c)
  <2>1. UNCHANGED psRunning
    BY <1>7 DEF Players!TimesOut
  <2>2. ASSUME NEW a \in Players!Attempts
        PROVE  /\ psPlayer'[a].thread = psPlayer[a].thread
               /\ PlayersQuiet(psPlayer[a]) => PlayersQuiet(psPlayer'[a])
    <3>1. psPlayer'[a] = Players!Forgotten(c, psPlayer[a]) /\ psPlayer[a] \in PlayersPlayers
      BY <1>0, <1>7 DEF Players!TimesOut
    <3>2. /\ psPlayer'[a].thread = psPlayer[a].thread /\ psPlayer'[a].playing = psPlayer[a].playing
          /\ psPlayer'[a].load = psPlayer[a].load /\ psPlayer'[a].autoplay = psPlayer[a].autoplay
          /\ psPlayer'[a].queue = [i \in DOMAIN psPlayer[a].queue |->
               IF psPlayer[a].queue[i].from = c
               THEN [psPlayer[a].queue[i] EXCEPT !.from = None] ELSE psPlayer[a].queue[i]]
      BY <3>1 DEF Players!Forgotten, PlayersPlayers
    <3>3. \A i \in DOMAIN psPlayer[a].queue : psPlayer[a].queue[i] \in Players!Messages
      BY <1>0, PlayersQueueTypes
    <3>4. /\ DOMAIN psPlayer'[a].queue = DOMAIN psPlayer[a].queue
          /\ \A i \in DOMAIN psPlayer[a].queue :
               psPlayer'[a].queue[i].kind = psPlayer[a].queue[i].kind
      BY <3>2, <3>3 DEF Players!Messages
    <3>5. PlayersQuiet(psPlayer[a]) => PlayersQuiet(psPlayer'[a])
      BY <3>2, <3>4 DEF PlayersQuiet
    <3> QED BY <3>2, <3>5
  <2> QED BY <2>1, <2>2 DEF PlayersQuietKept
<1>8. CASE ~(Players!PauseOther(c) \/ Players!Load(c) \/ Players!Command(c) \/ Players!Insert(c) \/ Players!Retire(c) \/ Players!TimesOut(c))
  BY <1>2, <1>8 DEF Players!CallStep, Players!OpenStep, Players!TakeAudibility,
    Players!OtherPaused, Players!OthersPaused, Players!Resolve, Players!Create,
    Players!Loaded, Players!LoadFailed, Players!Release, Players!Unregister,
    Players!CommandDone, Players!CloseEach, Players!Join, Players!CloseAllBegins,
    Players!OpenBegins, Players!PlayBegins, Players!PauseBegins, Players!CloseBegins
<1> QED BY <1>3, <1>4, <1>5, <1>6, <1>7, <1>8

LEMMA PlayersSoundStarts == Players!Init => PlayersSoundOK
<1> SUFFICES ASSUME Players!Init PROVE PlayersSoundOK
  OBVIOUS
<1>1. \A a \in Players!Attempts : PlayersQuiet(psPlayer[a])
  BY DEF Players!Init, PlayersQuiet, Players!NoPlayer
<1>2. \A c \in psCallers : PlayersKeepsQuiet(c)
  BY DEF Players!Init, PlayersKeepsQuiet, PlayersKeeping, PlayersEnding
<1> QED BY <1>1, <1>2 DEF PlayersSoundOK, PlayersLeftQuiet, PlayersOneLoud

(* A step of the control thread of one attempt.                            *)
LEMMA PlayersSoundControl ==
  ASSUME Players!PlayerAssumption, PlayersIInv, PlayersSoundOK, NEW a \in Players!Attempts,
         Players!ControlStep(a) \/ Players!FinishLoad(a) \/ Players!MpvEnds(a)
  PROVE  PlayersSoundOK'
<1>0. /\ UNCHANGED <<psRunning, psAudibility, psPc>>
      /\ \A b \in Players!Attempts \ {a} : psPlayer'[b] = psPlayer[b]
      /\ PlayersQuiet(psPlayer[a]) => PlayersQuiet(psPlayer'[a])
      /\ psPlayer'[a].thread # "alive" => PlayersQuiet(psPlayer'[a])
  BY PlayersControlKeepsQuiet DEF PlayersIInv, Players!ControlStep, Players!HandleLoad,
    Players!HandlePlay, Players!HandlePause, Players!HandleShutdown, Players!FinishLoad,
    Players!MpvEnds, Players!Ends
<1>1. \A b \in Players!Attempts : PlayersQuiet(psPlayer[b]) => PlayersQuiet(psPlayer'[b])
  BY <1>0
<1>2. PlayersLeftQuiet' /\ PlayersOneLoud'
  BY <1>0, <1>1 DEF PlayersSoundOK, PlayersLeftQuiet, PlayersOneLoud
<1>3. ASSUME NEW c \in psCallers PROVE PlayersKeepsQuiet(c)'
  <2>1. PlayersSameBut(c)
    <3>1. psCall[c] \in PlayersCalls /\ psCall \in [psCallers -> PlayersCalls]
      BY DEF PlayersIInv, PlayersTypes
    <3>2. ASSUME NEW d, NEW x, psCall' = Players!Answered(d, x) PROVE PlayersSameBut(c)
      BY <3>1, <3>2 DEF Players!Answered, PlayersSameBut, PlayersCalls
    <3>3. psCall' = psCall => PlayersSameBut(c)
      BY DEF PlayersSameBut
    <3>4. Players!Ends(a) => PlayersSameBut(c)
      BY <3>1 DEF Players!Ends, PlayersSameBut, PlayersCalls
    <3> QED BY <3>2, <3>3, <3>4 DEF Players!ControlStep, Players!HandleLoad,
        Players!HandlePlay, Players!HandlePause, Players!HandleShutdown,
        Players!FinishLoad, Players!MpvEnds
  <2>2. \A s \in psSessions : psRunning[s] # 0 => psRunning[s] \in Players!Attempts
    BY DEF PlayersIInv, PlayersTypes, Players!Attempts, Players!PlayerAssumption
  <2>3. PlayersKeepsQuiet(c) /\ (PlayersKeeping(c)' => PlayersKeeping(c))
    BY <1>0, <2>1 DEF PlayersSoundOK, PlayersKeeping, PlayersSameBut
  <2> QED BY <1>0, <1>1, <2>1, <2>2, <2>3 DEF PlayersKeepsQuiet, PlayersSameBut
<1> QED BY <1>2, <1>3 DEF PlayersSoundOK

(* A step of a command: of all the players, and of the other commands.     *)
LEMMA PlayersSoundPlayers ==
  ASSUME Players!PlayerAssumption, PlayersIInv, PlayersSoundOK, NEW c \in psCallers,
         PlayersQuietKept(c)
  PROVE  PlayersLeftQuiet' /\ PlayersOneLoud'
<1>1. \A s \in psSessions : psRunning[s] # 0 => psRunning[s] \in Players!Attempts
  BY DEF PlayersIInv, PlayersTypes, Players!Attempts, Players!PlayerAssumption
<1>2. PlayersLeftQuiet'
  <2> SUFFICES ASSUME NEW a \in Players!Attempts,
                      psPlayer'[a].thread # "alive" \/ \A s \in psSessions : psRunning'[s] # a
               PROVE  PlayersQuiet(psPlayer'[a])
    BY DEF PlayersLeftQuiet
  <2>1. CASE psPlayer[a].thread # "alive" \/ \A s \in psSessions : psRunning[s] # a
    <3>1. PlayersQuiet(psPlayer[a]) /\ ~PlayersWoken(c, a)
      BY <2>1 DEF PlayersSoundOK, PlayersLeftQuiet, PlayersWoken
    <3> QED BY <3>1 DEF PlayersQuietKept
  <2>2. CASE psPlayer[a].thread = "alive" /\ \E s \in psSessions : psRunning[s] = a
    <3>1. PICK s \in psSessions : psRunning[s] = a
      BY <2>2
    <3>2. psRunning'[s] # a
      BY <2>2 DEF PlayersQuietKept
    <3>3. a # 0
      BY DEF Players!Attempts, Players!PlayerAssumption
    <3> QED BY <3>1, <3>2, <3>3 DEF PlayersQuietKept
  <2> QED BY <2>1, <2>2
<1>3. PlayersOneLoud'
  <2>1. CASE \E a \in Players!Attempts : PlayersWoken(c, a)
    <3>1. PICK a \in Players!Attempts : PlayersWoken(c, a)
      BY <2>1
    <3>2. ASSUME NEW b \in Players!Attempts, b # a PROVE PlayersQuiet(psPlayer'[b])
      <4>1. PlayersKeeping(c) /\ psPc[c] \notin {"others", "pausing"} /\ psPlayer'[b] = psPlayer[b]
        BY <3>1, <3>2 DEF PlayersWoken, PlayersKeeping
      <4>2. b # 0
        BY DEF Players!Attempts, Players!PlayerAssumption
      <4>3. PlayersQuiet(psPlayer[b])
        <5>1. CASE \E s \in psSessions : psRunning[s] = b
          <6>1. PICK s \in psSessions : psRunning[s] = b
            BY <5>1
          <6>2. s # psCall[c].session
            BY <3>1, <3>2, <6>1 DEF PlayersWoken
          <6> QED BY <4>1, <4>2, <6>1, <6>2 DEF PlayersSoundOK, PlayersKeepsQuiet
        <5>2. CASE \A s \in psSessions : psRunning[s] # b
          BY <5>2 DEF PlayersSoundOK, PlayersLeftQuiet
        <5> QED BY <5>1, <5>2
      <4> QED BY <4>1, <4>3
    <3> QED BY <3>2 DEF PlayersOneLoud
  <2>2. CASE \A a \in Players!Attempts : ~PlayersWoken(c, a)
    BY <2>2 DEF PlayersQuietKept, PlayersSoundOK, PlayersOneLoud
  <2> QED BY <2>1, <2>2
<1> QED BY <1>2, <1>3

LEMMA PlayersSoundOthers ==
  ASSUME Players!PlayerAssumption, PlayersIInv, PlayersSoundOK, NEW c \in psCallers,
         PlayersQuietKept(c),
         NEW d \in psCallers, d # c, psPc'[d] = psPc[d], psCall'[d] = psCall[d],
         psAudibility' = psAudibility \/ (psAudibility \in {None, c} /\ psAudibility' \in {None, c})
  PROVE  PlayersKeepsQuiet(d)'
<1> SUFFICES ASSUME PlayersKeeping(d)' PROVE PlayersKeepsQuiet(d)'
  BY DEF PlayersKeepsQuiet
<1>1. PlayersKeeping(d) /\ PlayersKeepsQuiet(d) /\ PlayersKeepsQuiet(c)
  BY DEF PlayersKeeping, PlayersSoundOK
<1>2. psAudibility = d /\ psAudibility # c /\ psAudibility' = d
  BY <1>1 DEF PlayersKeepsQuiet, Players!PlayerAssumption
<1>3. \A a : ~PlayersWoken(c, a)
  BY <1>1, <1>2 DEF PlayersWoken, PlayersKeepsQuiet, PlayersKeeping
<1>4. \A s \in psSessions : psRunning'[s] # 0 => psRunning'[s] = psRunning[s]
  BY <1>2 DEF PlayersQuietKept
<1>5. \A s \in psSessions : psRunning[s] # 0 => psRunning[s] \in Players!Attempts
  BY DEF PlayersIInv, PlayersTypes, Players!Attempts, Players!PlayerAssumption
<1> QED BY <1>1, <1>2, <1>3, <1>4, <1>5 DEF PlayersKeepsQuiet, PlayersQuietKept

(* A step of the command itself, which goes on with what it silences.      *)
PlayersGoesOn(c) ==
  /\ psAudibility' = psAudibility
  /\ psCall'[c].session = psCall[c].session /\ psCall'[c].others = psCall[c].others
  /\ psPc'[c] \notin {"others", "pausing"}
       => psPc[c] \notin {"others", "pausing"} \/ psCall[c].others = {}

LEMMA PlayersSoundGoesOn ==
  ASSUME Players!PlayerAssumption, PlayersIInv, PlayersSoundOK, NEW c \in psCallers,
         PlayersQuietKept(c),
         PlayersKeeping(c)' => PlayersKeeping(c) /\ PlayersGoesOn(c)
  PROVE  PlayersKeepsQuiet(c)'
<1> SUFFICES ASSUME PlayersKeeping(c)' PROVE PlayersKeepsQuiet(c)'
  BY DEF PlayersKeepsQuiet
<1>1. PlayersGoesOn(c) /\ PlayersKeeping(c) /\ PlayersKeepsQuiet(c)
  BY DEF PlayersSoundOK
<1>2. ASSUME NEW s \in psSessions, s # psCall[c].session, psRunning'[s] # 0
      PROVE  psRunning'[s] = psRunning[s] /\ psRunning[s] \in Players!Attempts /\ ~PlayersWoken(c, psRunning[s])
  <2>1. psRunning'[s] = psRunning[s]
    BY <1>2 DEF PlayersQuietKept
  <2>2. psRunning[s] \in Players!Attempts
    BY <1>2, <2>1 DEF PlayersIInv, PlayersTypes, Players!Attempts,
      Players!PlayerAssumption
  <2>3. ~PlayersWoken(c, psRunning[s])
    BY <1>2, <2>1 DEF PlayersIInv, PlayersMapsOK, PlayersWoken
  <2> QED BY <2>1, <2>2, <2>3
<1>3. ASSUME NEW s \in psSessions, s # psCall'[c].session, psRunning'[s] # 0
      PROVE  s \in psCall'[c].others \/ PlayersQuiet(psPlayer'[psRunning'[s]])
  BY <1>1, <1>2, <1>3 DEF PlayersGoesOn, PlayersKeepsQuiet, PlayersQuietKept
<1> QED BY <1>1, <1>3 DEF PlayersGoesOn, PlayersKeepsQuiet

LEMMA PlayersSoundOwn ==
  ASSUME Players!PlayerAssumption, PlayersIInv, PlayersSoundOK, NEW c \in psCallers,
         Players!CallStep(c)
  PROVE  PlayersKeepsQuiet(c)'
<1>0. /\ PlayersTypes /\ PlayersPlaceOK(c) /\ PlayersLockOK(c) /\ psCall[c] \in PlayersCalls /\ psCall[c].task \in PlayersTasks
      /\ psCall \in [psCallers -> PlayersCalls] /\ psPc \in [psCallers -> PlayersPcs]
  BY DEF PlayersIInv, PlayersCallerOK, PlayersTypes, PlayersCalls
<1>1. PlayersQuietKept(c)
  BY PlayersStepKeepsQuiet
<1>2. ASSUME NEW x, NEW y, \/ psCall' = [psCall EXCEPT ![c].backend = x]
                           \/ psCall' = [psCall EXCEPT ![c].victim = x]
                           \/ psCall' = [psCall EXCEPT ![c].answer = x]
                           \/ psCall' = [psCall EXCEPT ![c].backend = x, ![c].victim = y]
                           \/ psCall' = psCall
      PROVE  /\ psCall'[c].session = psCall[c].session /\ psCall'[c].others = psCall[c].others
             /\ psCall'[c].task = psCall[c].task
  <2>1. psCall' = [psCall EXCEPT ![c].backend = x, ![c].victim = y]
          => psCall'[c] = [psCall[c] EXCEPT !.backend = x, !.victim = y]
    BY <1>0
  <2>2. psCall' = [psCall EXCEPT ![c].victim = x] => psCall'[c] = [psCall[c] EXCEPT !.victim = x]
    BY <1>0
  <2>3. psCall' = [psCall EXCEPT ![c].answer = x] => psCall'[c] = [psCall[c] EXCEPT !.answer = x]
    BY <1>0
  <2>4. psCall' = [psCall EXCEPT ![c].backend = x] => psCall'[c] = [psCall[c] EXCEPT !.backend = x]
    BY <1>0
  <2> QED BY <1>0, <1>2, <2>1, <2>2, <2>3, <2>4 DEF PlayersCalls
<1>3. \A p : Players!Goto(c, p) => psPc'[c] = p
  BY <1>0 DEF Players!Goto
<1> DEFINE Goal == PlayersKeeping(c)' => PlayersKeeping(c) /\ PlayersGoesOn(c)
<1>4. CASE Players!TakeAudibility(c)
  <2> DEFINE set == {s \in psSessions \ {psCall[c].session} : psRunning[s] # 0}
  <2>1. /\ UNCHANGED psRunning /\ psAudibility' = c /\ psPc'[c] = "others"
        /\ psCall'[c].session = psCall[c].session /\ psCall'[c].others = set
    BY <1>0, <1>3, <1>4 DEF Players!TakeAudibility, PlayersCalls
  <2> QED BY <2>1 DEF PlayersKeepsQuiet
<1>5. CASE Players!PauseOther(c)
  <2>1. /\ psPc[c] = "others" /\ UNCHANGED <<psRunning, psAudibility>>
        /\ psPc'[c] \in {"others", "pausing"}
    BY <1>0, <1>3, <1>5 DEF Players!PauseOther
  <2>2. PlayersKeepsQuiet(c) /\ PlayersKeeping(c)
    BY <2>1 DEF PlayersSoundOK, PlayersKeeping
  <2>3. PICK s \in psCall[c].others :
          \/ /\ Players!Reachable(s) /\ Players!Send(c, psRunning[s], "pause")
             /\ psCall' = [psCall EXCEPT ![c].others = @ \ {s}, ![c].answer = "none"]
          \/ /\ ~Players!Reachable(s) /\ UNCHANGED psPlayer
             /\ psCall' = [psCall EXCEPT ![c].others = @ \ {s}]
    BY <1>5 DEF Players!PauseOther
  <2>4. \/ psCall'[c] = [psCall[c] EXCEPT !.others = @ \ {s}, !.answer = "none"]
        \/ psCall'[c] = [psCall[c] EXCEPT !.others = @ \ {s}]
    BY <1>0, <2>3
  <2>5. psCall'[c].session = psCall[c].session /\ psCall'[c].others = psCall[c].others \ {s}
    BY <1>0, <2>4 DEF PlayersCalls
  <2>6. \A t \in psSessions : psRunning[t] # 0 => psRunning[t] \in Players!Attempts
    BY <1>0 DEF PlayersTypes, Players!Attempts, Players!PlayerAssumption
  <2>7. s \in psSessions
    BY <1>0 DEF PlayersCalls
  <2>8. psRunning[s] # 0 => PlayersQuiet(psPlayer'[psRunning[s]])
    <3>1. CASE Players!Reachable(s)
      <4>1. Players!Send(c, psRunning[s], "pause") /\ psRunning[s] \in Players!Attempts
        BY <2>3, <2>6, <2>7, <3>1 DEF Players!Reachable
      <4> QED BY <1>0, <4>1, PlayersSendDoes
    <3>2. CASE ~Players!Reachable(s)
      BY <2>3, <2>6, <2>7, <3>2 DEF Players!Reachable, PlayersSoundOK, PlayersLeftQuiet
    <3> QED BY <3>1, <3>2
  <2>9. \A a \in Players!Attempts : PlayersQuiet(psPlayer[a]) => PlayersQuiet(psPlayer'[a])
    BY <1>1, <2>1 DEF PlayersQuietKept, PlayersWoken
  <2> QED BY <2>1, <2>2, <2>5, <2>6, <2>8, <2>9 DEF PlayersKeepsQuiet
<1>6. CASE Players!OtherPaused(c) \/ Players!OthersPaused(c) \/ Players!Resolve(c) \/ Players!Loaded(c) \/ Players!CommandDone(c)
  <2>1. Goal
    BY <1>2, <1>3, <1>6 DEF Players!OtherPaused, Players!OthersPaused, Players!Resolve,
      Players!Loaded, Players!CommandDone, PlayersKeeping, PlayersGoesOn, PlayersEnding
  <2> QED BY <1>1, <2>1, PlayersSoundGoesOn
<1>7. CASE Players!LoadFailed(c)
  <2>1. Goal
    BY <1>2, <1>3, <1>7 DEF Players!LoadFailed, PlayersKeeping, PlayersGoesOn,
      PlayersEnding
  <2> QED BY <1>1, <2>1, PlayersSoundGoesOn
<1>8. CASE Players!Create(c) \/ Players!Insert(c)
  <2>1. /\ psCall' = psCall \/ \E x : psCall' = [psCall EXCEPT ![c].backend = x]
        /\ UNCHANGED psAudibility /\ psPc[c] \in {"create", "insert"}
        /\ psPc'[c] \in {"insert", "load", "resolve", "release"}
    BY <1>3, <1>8 DEF Players!Create, Players!Insert, Players!NextBackend
  <2>2. Goal
    BY <1>2, <2>1 DEF PlayersKeeping, PlayersGoesOn, PlayersEnding
  <2> QED BY <1>1, <2>2, PlayersSoundGoesOn
<1>9. CASE Players!Load(c) \/ Players!Command(c)
  <2>1. /\ psCall' = psCall \/ \E x : psCall' = [psCall EXCEPT ![c].answer = x]
        /\ UNCHANGED psAudibility
        /\ \/ psPc[c] = "load" /\ psPc'[c] = "loading"
           \/ psPc'[c] \in {"waiting", "release"}
    BY <1>3, <1>9 DEF Players!Load, Players!Command
  <2>2. Goal
    BY <1>2, <2>1 DEF PlayersKeeping, PlayersGoesOn, PlayersEnding
  <2> QED BY <1>1, <2>2, PlayersSoundGoesOn
<1>10. CASE Players!Release(c) \/ Players!Unregister(c) \/ Players!CloseEach(c)
  <2>1. CASE Players!Release(c) \/ Players!Unregister(c)
    <3>1. psPc'[c] \in {"unregister", "idle"}
      BY <1>3, <2>1 DEF Players!Release, Players!Unregister
    <3> QED BY <3>1 DEF PlayersKeepsQuiet, PlayersKeeping, PlayersEnding
  <2>2. CASE Players!CloseEach(c)
    <3>1. psCall[c].task = "close all"
      BY <1>0, <2>2 DEF Players!CloseEach, PlayersPlaceOK, PlayersPlaceOf, PlayersTasks,
        PlayersSilencing, PlayersOpenOnly, PlayersEnding
    <3>2. psPc'[c] = "idle" \/ (psPc'[c] = "retire" /\ psCall'[c].task = "close all")
      <4>1. CASE psCall[c].others = {}
        BY <1>3, <2>2, <4>1 DEF Players!CloseEach
      <4>2. CASE psCall[c].others # {}
        <5>1. PICK s \in psCall[c].others :
                psCall' = [psCall EXCEPT ![c].others = @ \ {s}, ![c].session = s]
          BY <2>2, <4>2 DEF Players!CloseEach
        <5>2. psCall'[c] = [psCall[c] EXCEPT !.others = @ \ {s}, !.session = s]
          BY <1>0, <5>1
        <5> QED BY <1>0, <1>3, <2>2, <3>1, <4>2, <5>2 DEF Players!CloseEach,
            PlayersCalls
      <4> QED BY <4>1, <4>2
    <3> QED BY <3>2 DEF PlayersKeepsQuiet, PlayersKeeping, PlayersEnding
  <2> QED BY <1>10, <2>1, <2>2
<1>11. CASE Players!Retire(c) \/ Players!Join(c)
  <2>1. /\ psPc[c] \in PlayersEnding /\ UNCHANGED psAudibility
        /\ \/ psCall' = psCall
           \/ \E x : \/ psCall' = [psCall EXCEPT ![c].backend = x]
                     \/ psCall' = [psCall EXCEPT ![c].victim = x]
           \/ \E x, y : psCall' = [psCall EXCEPT ![c].backend = x, ![c].victim = y]
        /\ \/ psPc'[c] = "join"
           \/ psPc'[c] = "resolve" /\ psCall[c].task = "open"
           \/ psPc'[c] \in {"each", "release"}
    <3>1. CASE Players!Retire(c)
      BY <1>3, <3>1 DEF Players!Retire, Players!AfterClose, Players!NextBackend,
        PlayersEnding
    <3>2. CASE Players!Join(c)
      <4>1. /\ psPc[c] \in PlayersEnding /\ UNCHANGED psAudibility
            /\ \/ Players!Goto(c, "resolve") /\ psCall[c].task = "open"
               \/ Players!Goto(c, "each") \/ Players!Goto(c, "release")
        BY <3>2 DEF Players!Join, PlayersEnding
      <4>2. \/ \E x : psCall' = [psCall EXCEPT ![c].victim = x]
            \/ \E x, y : psCall' = [psCall EXCEPT ![c].backend = x, ![c].victim = y]
        BY <3>2 DEF Players!Join
      <4> QED BY <1>3, <4>1, <4>2
    <3> QED BY <1>11, <3>1, <3>2
  <2>3. /\ psCall'[c].session = psCall[c].session /\ psCall'[c].others = psCall[c].others
        /\ psCall'[c].task = psCall[c].task
    BY <1>2, <2>1
  <2>2. Goal
    <3>1. psPc[c] \notin {"others", "pausing"}
      BY <2>1 DEF PlayersEnding
    <3>2. PlayersKeeping(c)' => PlayersKeeping(c)
      BY <2>1, <2>3 DEF PlayersKeeping, PlayersEnding
    <3> QED BY <2>1, <2>3, <3>1, <3>2 DEF PlayersGoesOn
  <2> QED BY <1>1, <2>2, PlayersSoundGoesOn
<1> QED BY <1>4, <1>5, <1>6, <1>7, <1>8, <1>9, <1>10, <1>11 DEF Players!CallStep,
    Players!OpenStep

LEMMA PlayersSoundStep ==
  ASSUME Players!PlayerAssumption, PlayersIInv, PlayersSoundOK, [Players!Next]_Players!vars
  PROVE  PlayersSoundOK'
<1>1. CASE UNCHANGED Players!vars
  BY <1>1 DEF Players!vars, PlayersSoundOK, PlayersLeftQuiet, PlayersOneLoud,
    PlayersKeepsQuiet, PlayersKeeping
<1>2. ASSUME NEW a \in Players!Attempts, Players!ControlStep(a) \/ Players!FinishLoad(a) \/ Players!MpvEnds(a)
      PROVE  PlayersSoundOK'
  BY <1>2, PlayersSoundControl
<1>3. ASSUME NEW c \in psCallers, Players!TimesOut(c) PROVE PlayersSoundOK'
  <2>1. PlayersQuietKept(c) /\ UNCHANGED <<psPc, psAudibility, psRunning>>
    BY <1>3, PlayersStepKeepsQuiet DEF Players!TimesOut
  <2>2. \A d \in psCallers : PlayersSameBut(d)
    BY <1>3 DEF Players!TimesOut, PlayersSameBut, PlayersIInv, PlayersTypes,
      PlayersCalls
  <2>3. psPc[c] # "load" /\ psPc[c] # "command"
    BY <1>3 DEF Players!TimesOut
  <2>4. \A a \in Players!Attempts : PlayersQuiet(psPlayer[a]) => PlayersQuiet(psPlayer'[a])
    BY <2>1, <2>3 DEF PlayersQuietKept, PlayersWoken
  <2>5. \A s \in psSessions : psRunning[s] # 0 => psRunning[s] \in Players!Attempts
    BY DEF PlayersIInv, PlayersTypes, Players!Attempts, Players!PlayerAssumption
  <2>6. ASSUME NEW d \in psCallers PROVE PlayersKeepsQuiet(d)'
    <3>1. PlayersKeepsQuiet(d) /\ PlayersSameBut(d) /\ (PlayersKeeping(d)' => PlayersKeeping(d))
      BY <2>1, <2>2 DEF PlayersSoundOK, PlayersKeeping, PlayersSameBut
    <3> QED BY <2>1, <2>4, <2>5, <3>1 DEF PlayersKeepsQuiet, PlayersSameBut
  <2> QED BY <2>1, <2>6, PlayersSoundPlayers DEF PlayersSoundOK
<1>4. ASSUME NEW c \in psCallers,
             \/ Players!CallStep(c) \/ Players!CloseAllBegins(c)
             \/ \E s \in psSessions : \/ \E x \in psAutoplays : Players!OpenBegins(c, s, x)
                                      \/ Players!PlayBegins(c, s) \/ Players!PauseBegins(c, s)
                                      \/ Players!CloseBegins(c, s)
      PROVE  PlayersSoundOK'
  <2>0. PlayersTypes
    BY DEF PlayersIInv
  <2>1. PlayersQuietKept(c)
    BY <1>4, PlayersStepKeepsQuiet
  <2>2. /\ \A d \in psCallers \ {c} : psPc'[d] = psPc[d] /\ psCall'[d] = psCall[d]
        /\ psAudibility' = psAudibility \/ (psAudibility \in {None, c} /\ psAudibility' \in {None, c})
    <3>1. CASE Players!CallStep(c)
      <4>1. CASE Players!OpenStep(c)
        BY <2>0, <4>1 DEF PlayersTypes, Players!OpenStep, Players!TakeAudibility,
          Players!PauseOther, Players!OtherPaused, Players!OthersPaused,
          Players!Resolve, Players!Create, Players!Insert, Players!NextBackend,
          Players!Load, Players!Loaded, Players!LoadFailed, Players!Release,
          Players!Unregister, Players!Goto
      <4>2. CASE ~Players!OpenStep(c)
        BY <2>0, <3>1, <4>2 DEF PlayersTypes, Players!CallStep, Players!Command,
          Players!CommandDone, Players!CloseEach, Players!Retire, Players!AfterClose,
          Players!NextBackend, Players!Join, Players!Goto
      <4> QED BY <4>1, <4>2
    <3>2. CASE ~Players!CallStep(c)
      BY <1>4, <2>0, <3>2 DEF PlayersTypes, Players!CloseAllBegins, Players!OpenBegins,
        Players!PlayBegins, Players!PauseBegins, Players!CloseBegins, Players!Start,
        Players!Goto
    <3> QED BY <3>1, <3>2
  <2>3. PlayersKeepsQuiet(c)'
    <3>1. CASE Players!CallStep(c)
      BY <3>1, PlayersSoundOwn
    <3>2. CASE ~Players!CallStep(c)
      <4>1. \/ psPc'[c] \in {"lock", "each"}
            \/ psPc'[c] \in {"command", "retire"} /\ psCall'[c].task \in {"pause", "close"}
        BY <1>4, <2>0, <3>2 DEF PlayersTypes, Players!CloseAllBegins,
          Players!OpenBegins, Players!PlayBegins, Players!PauseBegins,
          Players!CloseBegins, Players!Start, Players!Goto, Players!Idle
      <4> QED BY <4>1 DEF PlayersKeepsQuiet, PlayersKeeping, PlayersEnding
    <3> QED BY <3>1, <3>2
  <2>4. \A d \in psCallers : PlayersKeepsQuiet(d)'
    BY <2>1, <2>2, <2>3, PlayersSoundOthers
  <2> QED BY <2>1, <2>4, PlayersSoundPlayers DEF PlayersSoundOK
<1> QED BY <1>1, <1>2, <1>3, <1>4 DEF Players!Next

LEMMA PlayersSoundInvariance ==
  ASSUME Players!PlayerAssumption
  PROVE  Players!Spec => []PlayersSoundOK
<1>1. Players!Init => PlayersSoundOK
  BY PlayersSoundStarts
<1>2. PlayersIInv /\ PlayersSoundOK /\ [Players!Next]_Players!vars => PlayersSoundOK'
  BY PlayersSoundStep
<1> QED BY <1>1, <1>2, PlayersInvariance, PTL DEF Players!Spec

(* At most one session is heard: of the players that play, all but one     *)
(* have a pause or their end in their queue, whatever commands of open,    *)
(* play, pause and close overlap and whatever answers are late (audibility *)
(* and pause_others of mpv/player.rs).                                     *)
THEOREM PlayersOneIsHeard ==
  ASSUME Players!PlayerAssumption
  PROVE  Players!Spec => []Players!OneHeard
<1>1. \A a \in Players!Attempts : Players!Heard(a) => ~PlayersQuiet(psPlayer[a])
  BY DEF Players!Heard, PlayersQuiet, PlayersStops
<1>2. PlayersSoundOK => Players!OneHeard
  BY <1>1 DEF PlayersSoundOK, PlayersOneLoud, Players!OneHeard
<1> QED BY <1>2, PlayersSoundInvariance, PTL

-----------------------------------------------------------------------------
(* Thumbnails, for any number of requests and sessions and for any sizes of *)
(* the two memories.                                                        *)
\* Who holds the worker, whose flag a cancel reaches, and whose decoder runs.
ThumbsHoldsWorker(r) == thReq[r].stage \in {"locked", "prepared", "child", "judge"} <=> thWorker = r
ThumbsIsActive(r) == thReq[r].stage \in {"prepared", "child", "judge"} <=> thActive = r
ThumbsHasChild(r) == thReq[r].stage = "child" <=> thChild = r
ThumbsUnanswered(r) == thReq[r].stage # "answered" => thReq[r].outcome = "none"

\* A cancel is seen by its request: in the memory until it is active, by its
\* flag from then on.
ThumbsCancelKnown(r) ==
  r \in thDoomed =>
    /\ thReq[r].stage \in {"new", "locked"} => Thumbs!Contains(thCancelled, r)
    /\ thReq[r].stage \in {"prepared", "child", "judge"} => r \in thFlags
    /\ thReq[r].outcome # "ready"

ThumbsRequestOK(r) == ThumbsHoldsWorker(r) /\ ThumbsIsActive(r) /\ ThumbsHasChild(r) /\ ThumbsUnanswered(r) /\ ThumbsCancelKnown(r)

ThumbsIInv == Thumbs!TypeOK /\ \A r \in thRequests : ThumbsRequestOK(r)

ThumbsOutcomes == {"none", "busy", "cancelled", "error", "unavailable", "ready"}
ThumbsRuns == {"none", "version", "probe", "frame"}
ThumbsReqs == [file : thFiles, stage : Thumbs!Stages, run : ThumbsRuns, outcome : ThumbsOutcomes]

LEMMA ThumbsInitHolds == ASSUME Thumbs!ThumbnailAssumption, Thumbs!Init PROVE ThumbsIInv
<1>1. PICK f \in [thRequests -> thFiles] :
        thReq = [r \in thRequests |-> [file |-> f[r], stage |-> "new", run |-> "none",
                                   outcome |-> "none"]]
  BY DEF Thumbs!Init
<1>2. thReq \in [thRequests -> ThumbsReqs]
  BY <1>1 DEF ThumbsReqs, Thumbs!Stages, ThumbsRuns, ThumbsOutcomes
<1>0. /\ thWorker = None /\ thActive = None /\ thFlags = {} /\ thCancelled = <<>>
      /\ thOwner = None /\ thChild = None /\ thSources = <<>> /\ thBinary = FALSE
      /\ thSession = [o \in thOwners |-> "new"] /\ thDoomed = {}
  BY DEF Thumbs!Init
<1> \A S : <<>> \in Seq(S)
  OBVIOUS
<1>3. Thumbs!TypeOK
  BY <1>0, <1>2 DEF Thumbs!TypeOK, ThumbsReqs, ThumbsRuns, ThumbsOutcomes
<1>4. \A r \in thRequests : thReq[r].stage = "new" /\ thReq[r].outcome = "none" /\ r # None
  BY <1>1 DEF Thumbs!ThumbnailAssumption
<1>5. \A r \in thRequests : ThumbsRequestOK(r)
  BY <1>0, <1>4 DEF ThumbsRequestOK, ThumbsHoldsWorker, ThumbsIsActive, ThumbsHasChild,
    ThumbsUnanswered, ThumbsCancelKnown
<1> QED BY <1>3, <1>5 DEF ThumbsIInv

(* What a change of one request does to the type of all.                    *)
LEMMA ThumbsReqTypes ==
  ASSUME thReq \in [thRequests -> ThumbsReqs], NEW r \in thRequests,
         NEW s \in Thumbs!Stages, NEW x \in ThumbsRuns,
         NEW y \in ThumbsOutcomes
  PROVE  /\ [thReq EXCEPT ![r].stage = s] \in [thRequests -> ThumbsReqs]
         /\ [thReq EXCEPT ![r].stage = s, ![r].run = x] \in [thRequests -> ThumbsReqs]
         /\ [thReq EXCEPT ![r].stage = s, ![r].outcome = y] \in [thRequests -> ThumbsReqs]
  BY DEF ThumbsReqs

(* What is appended to a list is in it, and at the limit only the head goes. *)
LEMMA ThumbsAppended ==
  ASSUME NEW S, NEW q \in Seq(S), NEW x \in S
  PROVE  LET l == Append(q, x) IN
         /\ l \in Seq(S) /\ \E i \in 1..Len(l) : l[i] = x
         /\ \A i \in 1..Len(q) : \E j \in 1..Len(l) : l[j] = q[i]
<1> DEFINE l == Append(q, x)
<1>1. /\ l \in Seq(S) /\ Len(q) \in Nat /\ Len(l) = Len(q) + 1 /\ l[Len(q) + 1] = x
      /\ \A i \in 1..Len(q) : l[i] = q[i]
  OBVIOUS
<1> HIDE DEF l
<1>2. Len(q) + 1 \in 1..Len(l) /\ \A i \in 1..Len(q) : i \in 1..Len(l)
  BY <1>1
<1>3. (\E i \in 1..Len(l) : l[i] = x) /\ \A i \in 1..Len(q) : \E j \in 1..Len(l) : l[j] = q[i]
  BY <1>1, <1>2
<1> QED BY <1>1, <1>3 DEF l

LEMMA ThumbsDropped ==
  ASSUME NEW S, NEW q \in Seq(S), q # <<>>
  PROVE  /\ Tail(q) \in Seq(S)
         /\ \A i \in 1..Len(q) :
              q[i] = Head(q) \/ \E j \in 1..Len(Tail(q)) : Tail(q)[j] = q[i]
<1> DEFINE l == Tail(q)
<1>1. /\ l \in Seq(S) /\ Len(q) \in Nat \ {0} /\ Len(l) = Len(q) - 1 /\ Head(q) = q[1]
      /\ \A i \in 1..Len(l) : l[i] = q[i + 1]
  OBVIOUS
<1> HIDE DEF l
<1>2. ASSUME NEW i \in 1..Len(q), i # 1 PROVE \E j \in 1..Len(l) : l[j] = q[i]
  <2>1. i - 1 \in 1..Len(l) /\ (i - 1) + 1 = i
    BY <1>1, <1>2
  <2> QED BY <1>1, <2>1
<1> QED BY <1>1, <1>2 DEF l

LEMMA ThumbsRemembers ==
  ASSUME Thumbs!ThumbnailAssumption, thCancelled \in Seq(thRequests), NEW id \in thRequests
  PROVE  /\ Thumbs!Remember(id) \in Seq(thRequests)
         /\ \E i \in 1..Len(Thumbs!Remember(id)) : Thumbs!Remember(id)[i] = id
         /\ \A i \in 1..Len(thCancelled) :
              \/ \E j \in 1..Len(Thumbs!Remember(id)) : Thumbs!Remember(id)[j] = thCancelled[i]
              \/ Thumbs!Forgets(id) /\ thCancelled[i] = Head(thCancelled)
<1>1. CASE Thumbs!Contains(thCancelled, id)
  BY <1>1 DEF Thumbs!Remember, Thumbs!Contains
<1>2. CASE ~Thumbs!Contains(thCancelled, id) /\ ~Thumbs!Forgets(id)
  <2>1. Thumbs!Remember(id) = Append(thCancelled, id)
    BY <1>2 DEF Thumbs!Remember
  <2> QED BY <2>1, ThumbsAppended
<1>3. CASE Thumbs!Forgets(id)
  <2>1. Thumbs!Remember(id) = Append(Tail(thCancelled), id)
    BY <1>3 DEF Thumbs!Remember, Thumbs!Forgets
  <2>2. thCancelled # <<>>
    BY <1>3 DEF Thumbs!Forgets, Thumbs!ThumbnailAssumption
  <2>3. /\ Tail(thCancelled) \in Seq(thRequests)
        /\ \A i \in 1..Len(thCancelled) :
             \/ thCancelled[i] = Head(thCancelled)
             \/ \E j \in 1..Len(Tail(thCancelled)) : Tail(thCancelled)[j] = thCancelled[i]
    BY <2>2, ThumbsDropped
  <2>4. /\ Thumbs!Remember(id) \in Seq(thRequests)
        /\ \E i \in 1..Len(Thumbs!Remember(id)) : Thumbs!Remember(id)[i] = id
        /\ \A i \in 1..Len(Tail(thCancelled)) :
             \E j \in 1..Len(Thumbs!Remember(id)) : Thumbs!Remember(id)[j] = Tail(thCancelled)[i]
    <3> DEFINE q == Tail(thCancelled)
           l == Thumbs!Remember(id)
    <3>1. q \in Seq(thRequests)
      BY <2>3
    <3>2. l = Append(q, id)
      BY <2>1
    <3> HIDE DEF q, l
    <3>3. /\ l \in Seq(thRequests) /\ Len(q) \in Nat /\ Len(l) = Len(q) + 1 /\ l[Len(q) + 1] = id
          /\ \A i \in 1..Len(q) : l[i] = q[i]
      BY <3>1, <3>2
    <3>4. Len(q) + 1 \in 1..Len(l) /\ \A i \in 1..Len(q) : i \in 1..Len(l)
      BY <3>3
    <3>5. /\ \E i \in 1..Len(l) : l[i] = id
          /\ \A i \in 1..Len(q) : \E j \in 1..Len(l) : l[j] = q[i]
      BY <3>3, <3>4
    <3> QED BY <3>3, <3>5 DEF q, l
  <2>5. ASSUME NEW i \in 1..Len(thCancelled), thCancelled[i] # Head(thCancelled)
        PROVE  \E j \in 1..Len(Thumbs!Remember(id)) : Thumbs!Remember(id)[j] = thCancelled[i]
    BY <2>3, <2>4, <2>5
  <2> QED BY <1>3, <2>4, <2>5
<1> QED BY <1>1, <1>2, <1>3

LEMMA ThumbsMarksKeeps ==
  ASSUME Thumbs!ThumbnailAssumption, ThumbsIInv, NEW id \in thRequests, Thumbs!Marks(id),
         UNCHANGED <<thWorker, thActive, thChild, thSources, thBinary, thReq>>,
         thOwner' \in thOwners \cup {None},
         thSession' \in [thOwners -> {"new", "started", "cancelling", "ended"}]
  PROVE  ThumbsIInv'
<1>1. Thumbs!TypeOK /\ thCancelled \in Seq(thRequests)
  BY DEF ThumbsIInv, Thumbs!TypeOK
<1>2. thCancelled' = Thumbs!Remember(id) /\ thFlags' = thFlags \cup ({id} \cap {thActive})
  BY DEF Thumbs!Marks
<1>3. thDoomed' = {r \in thDoomed \cup {id} :
               /\ thReq[r].stage = "answered" => r \in thDoomed
               /\ Thumbs!Forgets(id) /\ r = Head(thCancelled) => thReq[r].stage \notin {"new", "locked"}}
  BY DEF Thumbs!Marks, Thumbs!Dooms
<1>4. Thumbs!TypeOK'
  BY <1>1, <1>2, <1>3, ThumbsRemembers DEF Thumbs!TypeOK
<1>5. ASSUME NEW r \in thRequests PROVE ThumbsRequestOK(r)'
  <2>1. ThumbsRequestOK(r)
    BY DEF ThumbsIInv
  <2>2. ThumbsHoldsWorker(r)' /\ ThumbsIsActive(r)' /\ ThumbsHasChild(r)' /\ ThumbsUnanswered(r)'
    BY <2>1 DEF ThumbsRequestOK, ThumbsHoldsWorker, ThumbsIsActive, ThumbsHasChild,
      ThumbsUnanswered
  <2>3. ThumbsCancelKnown(r)'
    <3> SUFFICES ASSUME r \in thDoomed' PROVE ThumbsCancelKnown(r)'
      BY DEF ThumbsCancelKnown
    <3>1. r \in thDoomed \/ (r = id /\ thReq[r].stage # "answered")
      BY <1>3
    <3>2. thReq[r].stage \in {"new", "locked"} => ~(Thumbs!Forgets(id) /\ r = Head(thCancelled))
      BY <1>3
    <3>3. ASSUME thReq[r].stage \in {"new", "locked"} PROVE Thumbs!Contains(thCancelled', r)
      <4>1. CASE r = id
        BY <1>1, <1>2, <4>1, ThumbsRemembers DEF Thumbs!Contains
      <4>2. CASE r # id
        <5>1. Thumbs!Contains(thCancelled, r)
          BY <2>1, <3>1, <3>3, <4>2 DEF ThumbsRequestOK, ThumbsCancelKnown
        <5>2. PICK i \in 1..Len(thCancelled) : thCancelled[i] = r
          BY <5>1 DEF Thumbs!Contains
        <5> QED BY <1>1, <1>2, <3>2, <3>3, <5>2, ThumbsRemembers DEF Thumbs!Contains
      <4> QED BY <4>1, <4>2
    <3>4. ASSUME thReq[r].stage \in {"prepared", "child", "judge"} PROVE r \in thFlags'
      BY <1>2, <2>1, <3>1, <3>4 DEF ThumbsRequestOK, ThumbsCancelKnown, ThumbsIsActive
    <3>5. thReq[r].outcome # "ready"
      BY <2>1, <3>1 DEF ThumbsRequestOK, ThumbsCancelKnown, ThumbsUnanswered
    <3> QED BY <3>3, <3>4, <3>5 DEF ThumbsCancelKnown
  <2> QED BY <2>2, <2>3 DEF ThumbsRequestOK
<1> QED BY <1>4, <1>5 DEF ThumbsIInv

(* An answer of the request that holds the worker, or of one that is new.   *)
LEMMA ThumbsAnswerKeeps ==
  ASSUME Thumbs!ThumbnailAssumption, ThumbsIInv, NEW r \in thRequests,
         NEW o \in ThumbsOutcomes, Thumbs!Answer(r, o),
         r \in thDoomed => o # "ready",
         thChild' = IF thChild = r THEN None ELSE thChild,
         thBinary' \in BOOLEAN, thSources' \in Seq(thFiles),
         UNCHANGED <<thFlags, thCancelled, thOwner, thSession, thDoomed>>
  PROVE  ThumbsIInv'
<1>1. Thumbs!TypeOK /\ thReq \in [thRequests -> ThumbsReqs]
  BY DEF ThumbsIInv, Thumbs!TypeOK, ThumbsReqs, ThumbsRuns, ThumbsOutcomes
<1>2. thReq' = [thReq EXCEPT ![r].stage = "answered", ![r].outcome = o]
  BY DEF Thumbs!Answer
<1>3. thReq' \in [thRequests -> ThumbsReqs]
  BY <1>1, <1>2, ThumbsReqTypes DEF Thumbs!Stages, ThumbsRuns
<1>4. Thumbs!TypeOK'
  BY <1>1, <1>3 DEF Thumbs!TypeOK, Thumbs!Answer, ThumbsReqs, ThumbsRuns, ThumbsOutcomes
<1>5. ASSUME NEW q \in thRequests PROVE ThumbsRequestOK(q)'
  <2>1. ThumbsRequestOK(q)
    BY DEF ThumbsIInv
  <2>2. /\ thWorker' = (IF thWorker = r THEN None ELSE thWorker)
        /\ thActive' = (IF thActive = r THEN None ELSE thActive)
        /\ r # None /\ q # None
    BY DEF Thumbs!Answer, Thumbs!ThumbnailAssumption
  <2>3. CASE q = r
    <3>1. thReq'[r].stage = "answered" /\ thReq'[r].outcome = o
      BY <1>1, <1>2 DEF ThumbsReqs
    <3> QED BY <2>2, <2>3, <3>1 DEF ThumbsRequestOK, ThumbsHoldsWorker, ThumbsIsActive,
        ThumbsHasChild, ThumbsUnanswered, ThumbsCancelKnown
  <2>4. CASE q # r
    <3>1. thReq'[q] = thReq[q]
      BY <1>1, <1>2, <2>4
    <3> QED BY <2>1, <2>2, <2>4, <3>1 DEF ThumbsRequestOK, ThumbsHoldsWorker,
        ThumbsIsActive, ThumbsHasChild, ThumbsUnanswered, ThumbsCancelKnown,
        Thumbs!Contains
  <2> QED BY <2>3, <2>4
<1> QED BY <1>4, <1>5 DEF ThumbsIInv

(* The holder of the worker goes on to another stage.                       *)
LEMMA ThumbsStageKeeps ==
  ASSUME Thumbs!ThumbnailAssumption, ThumbsIInv, NEW r \in thRequests, NEW x \in ThumbsRuns,
         NEW s \in {"prepared", "child", "judge"},
         thReq' = [thReq EXCEPT ![r].stage = s, ![r].run = x],
         thWorker = r, thWorker' = r, thReq[r].stage # "answered",
         thActive' = r, thActive \in {None, r},
         thChild' = IF s = "child" THEN r ELSE None,
         \A q \in thRequests \ {r} : thChild # q,
         r \in thDoomed => r \in thFlags,
         thBinary' \in BOOLEAN, thSources' \in Seq(thFiles),
         UNCHANGED <<thFlags, thCancelled, thOwner, thSession, thDoomed>>
  PROVE  ThumbsIInv'
<1>1. Thumbs!TypeOK /\ thReq \in [thRequests -> ThumbsReqs]
  BY DEF ThumbsIInv, Thumbs!TypeOK, ThumbsReqs, ThumbsRuns, ThumbsOutcomes
<1>2. thReq' \in [thRequests -> ThumbsReqs]
  BY <1>1, ThumbsReqTypes DEF Thumbs!Stages, ThumbsOutcomes
<1>3. Thumbs!TypeOK'
  BY <1>1, <1>2 DEF Thumbs!TypeOK, ThumbsReqs, ThumbsRuns, ThumbsOutcomes
<1>4. ASSUME NEW q \in thRequests PROVE ThumbsRequestOK(q)'
  <2>1. ThumbsRequestOK(q) /\ q # None
    BY DEF ThumbsIInv, Thumbs!ThumbnailAssumption
  <2>2. CASE q = r
    <3>1. thReq'[r].stage = s /\ thReq'[r].outcome = thReq[r].outcome
      BY <1>1 DEF ThumbsReqs
    <3> QED BY <2>1, <2>2, <3>1 DEF ThumbsRequestOK, ThumbsHoldsWorker, ThumbsIsActive,
        ThumbsHasChild, ThumbsUnanswered, ThumbsCancelKnown
  <2>3. CASE q # r
    <3>1. thReq'[q] = thReq[q]
      BY <1>1, <2>3
    <3> QED BY <2>1, <2>3, <3>1 DEF ThumbsRequestOK, ThumbsHoldsWorker, ThumbsIsActive,
        ThumbsHasChild, ThumbsUnanswered, ThumbsCancelKnown, Thumbs!Contains
  <2> QED BY <2>2, <2>3
<1> QED BY <1>3, <1>4 DEF ThumbsIInv

LEMMA ThumbsSourceTypes ==
  ASSUME Thumbs!ThumbnailAssumption, thSources \in Seq(thFiles), NEW f \in thFiles
  PROVE  Thumbs!Probed(f) \in Seq(thFiles)
<1>1. Thumbs!Others(f) \in Seq(thFiles)
  <2>1. CASE Thumbs!Contains(thSources, f)
    <3> DEFINE i == CHOOSE k \in 1..Len(thSources) : thSources[k] = f
    <3>1. i \in 1..Len(thSources) /\ Len(thSources) \in Nat
      BY <2>1 DEF Thumbs!Contains
    <3> HIDE DEF i
    <3>2. SubSeq(thSources, 1, i - 1) \in Seq(thFiles)
      BY <3>1
    <3>3. SubSeq(thSources, i + 1, Len(thSources)) \in Seq(thFiles)
      BY <3>1
    <3>4. SubSeq(thSources, 1, i - 1) \o SubSeq(thSources, i + 1, Len(thSources)) \in Seq(thFiles)
      BY <3>2, <3>3
    <3> QED BY <2>1, <3>4 DEF Thumbs!Others, Thumbs!RemoveAt, i
  <2> QED BY <2>1 DEF Thumbs!Others
<1>2. CASE Len(Thumbs!Others(f)) = thMaxSources
  <2>1. Thumbs!Others(f) # <<>>
    BY <1>1, <1>2 DEF Thumbs!ThumbnailAssumption
  <2>2. Tail(Thumbs!Others(f)) \in Seq(thFiles)
    BY <1>1, <2>1
  <2> QED BY <1>2, <2>2 DEF Thumbs!Probed
<1>3. CASE Len(Thumbs!Others(f)) # thMaxSources
  BY <1>1, <1>3 DEF Thumbs!Probed
<1> QED BY <1>2, <1>3

LEMMA ThumbsStepKeeps ==
  ASSUME Thumbs!ThumbnailAssumption, ThumbsIInv, NEW r \in thRequests,
         Thumbs!Generate(r) \/ Thumbs!Step(r)
  PROVE  ThumbsIInv'
<1>1. Thumbs!TypeOK /\ thReq \in [thRequests -> ThumbsReqs] /\ ThumbsRequestOK(r) /\ r # None
  BY DEF ThumbsIInv, Thumbs!TypeOK, ThumbsReqs, ThumbsRuns, ThumbsOutcomes,
    Thumbs!ThumbnailAssumption
<1>2. thReq[r] \in ThumbsReqs /\ thReq[r].file \in thFiles
  BY <1>1 DEF ThumbsReqs
<1>3. \A q \in thRequests : ThumbsRequestOK(q)
  BY DEF ThumbsIInv
<1>4. ASSUME thWorker = r PROVE \A q \in thRequests \ {r} : thActive # q /\ thChild # q
  BY <1>3, <1>4 DEF ThumbsRequestOK, ThumbsHoldsWorker, ThumbsIsActive, ThumbsHasChild
<1>5. CASE Thumbs!Generate(r)
  <2>1. CASE thWorker # None
    <3>1. thChild = r => thReq[r].stage = "child"
      BY <1>1 DEF ThumbsRequestOK, ThumbsHasChild
    <3> QED BY <1>1, <1>5, <2>1, <3>1, ThumbsAnswerKeeps DEF Thumbs!Generate,
        ThumbsOutcomes, Thumbs!TypeOK
  <2>2. CASE thWorker = None
    <3>1. /\ thWorker' = r /\ thReq' = [thReq EXCEPT ![r].stage = "locked"] /\ thReq[r].stage = "new"
          /\ UNCHANGED <<thActive, thFlags, thCancelled, thOwner, thChild, thSources, thBinary, thSession, thDoomed>>
      BY <1>5, <2>2 DEF Thumbs!Generate
    <3>2. thReq' \in [thRequests -> ThumbsReqs]
      BY <1>1, <3>1, ThumbsReqTypes DEF Thumbs!Stages, ThumbsRuns, ThumbsOutcomes
    <3>3. Thumbs!TypeOK'
      BY <1>1, <3>1, <3>2 DEF Thumbs!TypeOK, ThumbsReqs, ThumbsRuns, ThumbsOutcomes
    <3>4. ASSUME NEW q \in thRequests PROVE ThumbsRequestOK(q)'
      <4>1. q # None
        BY DEF Thumbs!ThumbnailAssumption
      <4>2. CASE q = r
        <5>1. thReq'[r].stage = "locked" /\ thReq'[r].outcome = thReq[r].outcome
          BY <1>1, <3>1 DEF ThumbsReqs
        <5> QED BY <1>1, <3>1, <4>2, <5>1 DEF ThumbsRequestOK, ThumbsHoldsWorker,
            ThumbsIsActive, ThumbsHasChild, ThumbsUnanswered, ThumbsCancelKnown,
            Thumbs!Contains
      <4>3. CASE q # r
        <5>1. thReq'[q] = thReq[q]
          BY <1>1, <3>1, <4>3
        <5> QED BY <1>3, <2>2, <3>1, <4>1, <4>3, <5>1 DEF ThumbsRequestOK,
            ThumbsHoldsWorker, ThumbsIsActive, ThumbsHasChild, ThumbsUnanswered,
            ThumbsCancelKnown, Thumbs!Contains
      <4> QED BY <4>2, <4>3
    <3> QED BY <3>3, <3>4 DEF ThumbsIInv
  <2> QED BY <2>1, <2>2
<1>6. CASE Thumbs!Register(r)
  <2>1. thWorker = r /\ thChild # r /\ thActive = None /\ thReq[r].stage = "locked"
    BY <1>1, <1>3, <1>6 DEF Thumbs!Register, ThumbsRequestOK, ThumbsHoldsWorker,
      ThumbsIsActive, ThumbsHasChild, Thumbs!TypeOK
  <2>2. CASE Thumbs!Contains(thCancelled, r)
    BY <1>1, <1>6, <2>1, <2>2, ThumbsAnswerKeeps DEF Thumbs!Register, ThumbsOutcomes,
      Thumbs!TypeOK
  <2>3. CASE ~Thumbs!Contains(thCancelled, r)
    <3>1. r \notin thDoomed
      BY <1>1, <2>1, <2>3 DEF ThumbsRequestOK, ThumbsCancelKnown
    <3>2. thReq' = [thReq EXCEPT ![r].stage = "prepared", ![r].run = thReq[r].run]
      <4>1. thReq' = [thReq EXCEPT ![r].stage = "prepared"]
        BY <1>6, <2>3 DEF Thumbs!Register
      <4> QED BY <1>1, <1>2, <4>1 DEF ThumbsReqs
    <3>3. thReq[r].run \in ThumbsRuns
      BY <1>2 DEF ThumbsReqs
    <3>4. thChild = None
      BY <1>1, <1>4, <2>1 DEF Thumbs!TypeOK
    <3>5. /\ UNCHANGED <<thWorker, thFlags, thCancelled, thOwner, thChild, thSources, thBinary, thSession, thDoomed>>
          /\ thActive' = r
      BY <1>6, <2>3 DEF Thumbs!Register
    <3>6. thSources' \in Seq(thFiles) /\ thBinary' \in BOOLEAN
      BY <1>1, <3>5 DEF Thumbs!TypeOK
    <3>7. \A q \in thRequests \ {r} : thChild # q
      BY <1>4, <2>1
    <3> QED BY <2>1, <3>1, <3>2, <3>3, <3>4, <3>5, <3>6, <3>7, ThumbsStageKeeps
  <2> QED BY <2>2, <2>3
<1>7. CASE Thumbs!Refuse(r)
  <2>1. thChild # r
    BY <1>1, <1>7 DEF Thumbs!Refuse, ThumbsRequestOK, ThumbsHasChild
  <2> QED BY <1>1, <1>7, <2>1, ThumbsAnswerKeeps DEF Thumbs!Refuse, ThumbsOutcomes,
      Thumbs!TypeOK
<1>8. CASE Thumbs!RunChild(r)
  <2>1. thWorker = r /\ thActive = r /\ thChild # r /\ thReq[r].stage = "prepared"
    BY <1>1, <1>8 DEF Thumbs!RunChild, ThumbsRequestOK, ThumbsHoldsWorker,
      ThumbsIsActive, ThumbsHasChild
  <2>2. CASE r \in thFlags
    BY <1>1, <1>8, <2>1, <2>2, ThumbsAnswerKeeps DEF Thumbs!RunChild, ThumbsOutcomes,
      Thumbs!TypeOK
  <2>3. CASE r \notin thFlags
    <3>1. r \notin thDoomed
      BY <1>1, <2>1, <2>3 DEF ThumbsRequestOK, ThumbsCancelKnown
    <3>2. Thumbs!NextRun(r) \in ThumbsRuns
      BY DEF Thumbs!NextRun, ThumbsRuns
    <3> QED BY <1>1, <1>4, <1>8, <2>1, <2>3, <3>1, <3>2, ThumbsStageKeeps
        DEF Thumbs!RunChild, Thumbs!TypeOK
  <2> QED BY <2>2, <2>3
<1>9. CASE Thumbs!KillChild(r)
  <2>1. thChild = r
    BY <1>1, <1>9 DEF Thumbs!KillChild, ThumbsRequestOK, ThumbsHasChild
  <2> QED BY <1>1, <1>9, <2>1, ThumbsAnswerKeeps DEF Thumbs!KillChild, ThumbsOutcomes,
      Thumbs!TypeOK
<1>10. CASE Thumbs!ChildEnds(r)
  <2>1. /\ thWorker = r /\ thActive = r /\ thChild = r /\ thReq[r].stage = "child"
        /\ r \in thDoomed => r \in thFlags
    BY <1>1, <1>10 DEF Thumbs!ChildEnds, ThumbsRequestOK, ThumbsHoldsWorker,
      ThumbsIsActive, ThumbsHasChild, ThumbsCancelKnown
  <2>2. thChild' = None /\ UNCHANGED <<thFlags, thCancelled, thOwner, thSession, thDoomed>>
    BY <1>10 DEF Thumbs!ChildEnds
  <2>3. Thumbs!Probed(thReq[r].file) \in Seq(thFiles)
    BY <1>1, <1>2, ThumbsSourceTypes DEF Thumbs!TypeOK
  <2>4. thReq[r].run \in ThumbsRuns
    BY <1>2 DEF ThumbsReqs
  <2>5. ASSUME NEW s \in {"prepared", "judge"}, thReq' = [thReq EXCEPT ![r].stage = s],
               UNCHANGED <<thActive, thWorker>>, thSources' \in Seq(thFiles), thBinary' \in BOOLEAN
        PROVE  ThumbsIInv'
    <3>1. thReq' = [thReq EXCEPT ![r].stage = s, ![r].run = thReq[r].run]
      BY <1>1, <1>2, <2>5 DEF ThumbsReqs
    <3> QED BY <1>4, <2>1, <2>2, <2>4, <2>5, <3>1, ThumbsStageKeeps
  <2>6. ASSUME Thumbs!Answer(r, "unavailable"), thSources' \in Seq(thFiles), thBinary' \in BOOLEAN
        PROVE  ThumbsIInv'
    BY <2>1, <2>2, <2>6, ThumbsAnswerKeeps DEF ThumbsOutcomes
  <2>7. thSources \in Seq(thFiles) /\ thBinary \in BOOLEAN
    BY <1>1 DEF Thumbs!TypeOK
  <2> QED BY <1>10, <2>3, <2>5, <2>6, <2>7 DEF Thumbs!ChildEnds
<1>11. CASE Thumbs!Judge(r)
  <2>1. thChild # r /\ (r \in thDoomed => r \in thFlags)
    BY <1>1, <1>11 DEF Thumbs!Judge, ThumbsRequestOK, ThumbsHasChild, ThumbsCancelKnown
  <2>2. CASE r \in thFlags
    BY <1>1, <1>11, <2>1, <2>2, ThumbsAnswerKeeps DEF Thumbs!Judge, ThumbsOutcomes,
      Thumbs!TypeOK
  <2>3. CASE r \notin thFlags
    BY <1>1, <1>11, <2>1, <2>3, ThumbsAnswerKeeps DEF Thumbs!Judge, ThumbsOutcomes,
      Thumbs!TypeOK
  <2> QED BY <2>2, <2>3
<1> QED BY <1>5, <1>6, <1>7, <1>8, <1>9, <1>10, <1>11 DEF Thumbs!Step

LEMMA ThumbsOwnerKeeps ==
  ASSUME Thumbs!ThumbnailAssumption, ThumbsIInv, NEW o \in thOwners,
         Thumbs!Start(o) \/ Thumbs!CancelOwner(o) \/ Thumbs!ClearSources(o)
  PROVE  ThumbsIInv'
<1>1. Thumbs!TypeOK
  BY DEF ThumbsIInv
<1>2. /\ thOwner' \in thOwners \cup {None}
      /\ thSession' \in [thOwners -> {"new", "started", "cancelling", "ended"}]
  BY <1>1 DEF Thumbs!Start, Thumbs!CancelOwner, Thumbs!ClearSources, Thumbs!TypeOK
<1>3. ASSUME UNCHANGED <<thWorker, thActive, thFlags, thCancelled, thChild, thBinary, thReq, thDoomed>>,
             thSources' \in Seq(thFiles)
      PROVE  ThumbsIInv'
  <2>1. Thumbs!TypeOK'
    BY <1>1, <1>2, <1>3 DEF Thumbs!TypeOK
  <2>2. \A r \in thRequests : ThumbsRequestOK(r)'
    BY <1>3 DEF ThumbsIInv, ThumbsRequestOK, ThumbsHoldsWorker, ThumbsIsActive,
      ThumbsHasChild, ThumbsUnanswered, ThumbsCancelKnown, Thumbs!Contains
  <2> QED BY <2>1, <2>2 DEF ThumbsIInv
<1>4. CASE Thumbs!Start(o) \/ Thumbs!ClearSources(o)
  <2>1. thSources' = thSources \/ thSources' = <<>>
    BY <1>4 DEF Thumbs!Start, Thumbs!ClearSources
  <2>2. thSources \in Seq(thFiles) /\ <<>> \in Seq(thFiles)
    BY <1>1 DEF Thumbs!TypeOK
  <2>3. thSources' \in Seq(thFiles)
    BY <2>1, <2>2, Zenon
  <2> QED BY <1>3, <1>4, <2>3 DEF Thumbs!Start, Thumbs!ClearSources
<1>5. CASE Thumbs!CancelOwner(o)
  <2>1. CASE thOwner = o /\ thActive # None
    <3>1. Thumbs!Marks(thActive) /\ thActive \in thRequests
      BY <1>1, <1>5, <2>1 DEF Thumbs!CancelOwner, Thumbs!TypeOK
    <3> QED BY <1>2, <1>5, <3>1, ThumbsMarksKeeps DEF Thumbs!CancelOwner
  <2>2. CASE ~(thOwner = o /\ thActive # None)
    BY <1>1, <1>3, <1>5, <2>2 DEF Thumbs!CancelOwner, Thumbs!TypeOK
  <2> QED BY <2>1, <2>2
<1> QED BY <1>4, <1>5

LEMMA ThumbsStepHolds ==
  ASSUME Thumbs!ThumbnailAssumption, ThumbsIInv, [Thumbs!Next]_Thumbs!vars
  PROVE  ThumbsIInv'
<1>1. ASSUME NEW r \in thRequests, Thumbs!CancelRequest(r) PROVE ThumbsIInv'
  <2>1. Thumbs!TypeOK
    BY DEF ThumbsIInv
  <2> QED BY <1>1, <2>1, ThumbsMarksKeeps DEF Thumbs!CancelRequest, Thumbs!TypeOK
<1>2. CASE Thumbs!Next
  BY <1>1, <1>2, ThumbsStepKeeps, ThumbsOwnerKeeps DEF Thumbs!Next
<1>3. CASE UNCHANGED Thumbs!vars
  BY <1>3 DEF Thumbs!vars, ThumbsIInv, Thumbs!TypeOK, ThumbsRequestOK,
    ThumbsHoldsWorker, ThumbsIsActive, ThumbsHasChild, ThumbsUnanswered,
    ThumbsCancelKnown, Thumbs!Contains
<1> QED BY <1>2, <1>3

LEMMA ThumbsInvariant == ASSUME Thumbs!ThumbnailAssumption PROVE Thumbs!Spec => []ThumbsIInv
  BY ThumbsInitHolds, ThumbsStepHolds, PTL DEF Thumbs!Spec

-----------------------------------------------------------------------------
(* The variables keep their types.                                          *)
THEOREM ThumbsTypeCorrect ==
  ASSUME Thumbs!ThumbnailAssumption
  PROVE  Thumbs!Spec => []Thumbs!TypeOK
<1>1. ThumbsIInv => Thumbs!TypeOK
  BY DEF ThumbsIInv
<1> QED BY <1>1, ThumbsInvariant, PTL

(* A request that was cancelled in time yields no frame, whichever step of  *)
(* generate the cancel met (thumbnail.rs).                                  *)
THEOREM ThumbsCancelHolds ==
  ASSUME Thumbs!ThumbnailAssumption
  PROVE  Thumbs!Spec => []Thumbs!CancelledYieldsNothing
<1>1. ThumbsIInv => Thumbs!CancelledYieldsNothing
  BY DEF ThumbsIInv, Thumbs!TypeOK, ThumbsRequestOK, ThumbsCancelKnown,
    Thumbs!CancelledYieldsNothing
<1> QED BY <1>1, ThumbsInvariant, PTL

(* One decoder runs, for the request that holds the worker.                 *)
THEOREM ThumbsOneDecoderRuns ==
  ASSUME Thumbs!ThumbnailAssumption
  PROVE  Thumbs!Spec => []Thumbs!OneDecoder
<1>1. ThumbsIInv => Thumbs!OneDecoder
  BY DEF ThumbsIInv, Thumbs!TypeOK, ThumbsRequestOK, ThumbsHoldsWorker, ThumbsIsActive,
    ThumbsHasChild, Thumbs!OneDecoder
<1> QED BY <1>1, ThumbsInvariant, PTL

(* The end of a player session finds the decoder of what it cancelled       *)
(* reaped and the cache of sources empty.                                   *)
THEOREM ThumbsEndIsReaped ==
  ASSUME Thumbs!ThumbnailAssumption
  PROVE  Thumbs!Spec => Thumbs!EndReaps
<1>1. ASSUME Thumbs!ThumbnailAssumption, ThumbsIInv, [Thumbs!Next]_Thumbs!vars
      PROVE  [\A o \in thOwners : thSession[o] = "cancelling" /\ thSession'[o] = "ended"
                => thChild' \notin thFlags /\ thSources' = <<>>]_Thumbs!vars
  <2> SUFFICES ASSUME Thumbs!Next, NEW o \in thOwners, thSession[o] = "cancelling", thSession'[o] = "ended"
               PROVE  thChild' \notin thFlags /\ thSources' = <<>>
    BY <1>1
  <2>1. Thumbs!TypeOK
    BY <1>1 DEF ThumbsIInv
  <2>2. Thumbs!ClearSources(o)
    <3>1. ASSUME NEW r \in thRequests, Thumbs!CancelRequest(r) \/ Thumbs!Generate(r) \/ Thumbs!Step(r) PROVE FALSE
      BY <3>1 DEF Thumbs!CancelRequest, Thumbs!Generate, Thumbs!Step, Thumbs!Register,
        Thumbs!Refuse, Thumbs!RunChild, Thumbs!KillChild, Thumbs!ChildEnds, Thumbs!Judge
    <3>2. ASSUME NEW p \in thOwners, Thumbs!Start(p) \/ Thumbs!CancelOwner(p) PROVE FALSE
      BY <2>1, <3>2 DEF Thumbs!Start, Thumbs!CancelOwner, Thumbs!TypeOK
    <3>3. ASSUME NEW p \in thOwners, Thumbs!ClearSources(p) PROVE p = o
      BY <2>1, <3>3 DEF Thumbs!ClearSources, Thumbs!TypeOK
    <3> QED BY <3>1, <3>2, <3>3 DEF Thumbs!Next
  <2>3. thChild \notin thRequests
    BY <1>1, <2>2 DEF ThumbsIInv, ThumbsRequestOK, ThumbsHoldsWorker, ThumbsHasChild,
      Thumbs!ClearSources, Thumbs!ThumbnailAssumption
  <2> QED BY <2>1, <2>2, <2>3 DEF Thumbs!ClearSources, Thumbs!TypeOK
<1> QED BY <1>1, ThumbsInvariant, PTL DEF Thumbs!Spec, Thumbs!EndReaps

-----------------------------------------------------------------------------
(* The server of media, for files of any size, any piece, and any number of *)
(* players and streams.                                                     *)
ServerSteps == {"new", "asked", "opened", "piece", "failed", "done"}
ServerStatuses == {0, 200, 206, 416, 500}
ServerRecords == [via : Server!Vias, header : Server!Headers, size : 0..rgMaxSize, step : ServerSteps, status : ServerStatuses,
            start : Nat, end : Nat, next : Nat, got : Nat, changed : BOOLEAN]

\* What was opened is a range of the file as it was announced: not empty, and
\* the one that is asked for or the first Chunk of it.
ServerOpened(x) ==
  x.step \in {"opened", "piece"} /\ x.size > 0 =>
    /\ x.start <= x.end /\ x.end < x.size
    /\ x.start \in Server!Wanted(x.header, x.size)
    /\ \A i \in Server!Wanted(x.header, x.size) : x.start <= i
    /\ x.start..x.end \subseteq Server!Wanted(x.header, x.size)
    /\ \/ x.start..x.end = Server!Wanted(x.header, x.size)
       \/ x.via = "protocol" /\ x.end - x.start + 1 = rgChunk

ServerEmpty(x) == x.step \in {"opened", "piece"} /\ x.size = 0 => x.start = 0

ServerWhole(x) ==
  x.step = "piece" => x.next = x.start + (IF x.size = 0 THEN 0 ELSE x.end - x.start + 1)

ServerRefused(x, total) ==
  x.status = 416 => /\ x.step = "failed"
                    /\ ~x.changed => Server!Wanted(x.header, total) = {}

ServerFetchOK(f) == ServerOpened(rgFetch[f]) /\ ServerEmpty(rgFetch[f]) /\ ServerWhole(rgFetch[f]) /\ ServerRefused(rgFetch[f], rgSize)

\* A read that is under way when its stream is cancelled is the only late one.
ServerStreamOK(s) ==
  /\ rgStream[s].late # 0 => rgStream[s].late = 1 /\ ~rgStream[s].reading /\ rgStream[s].cancelled

ServerIInv ==
  /\ Server!TypeOK
  /\ \A f \in rgFetches : ServerFetchOK(f)
  /\ \A s \in rgStreams : ServerStreamOK(s)

-----------------------------------------------------------------------------
(* Ranges.                                                                  *)

LEMMA ServerHeaderForms ==
  ASSUME Server!ServerAssumption, NEW h \in Server!Headers
  PROVE  \/ h = Server!Plain /\ h.first = None /\ h.last = None
         \/ h # Server!Plain /\ h.first \in Nat /\ h.last = None /\ h.first # None
         \/ h # Server!Plain /\ h.first \in Nat /\ h.last \in Nat /\ h.first # None /\ h.last # None
         \/ h # Server!Plain /\ h.first = None /\ h.last \in Nat /\ h.last # None
<1>1. CASE h \in [first : {None}, last : {None}]
  BY <1>1 DEF Server!Plain
<1>2. CASE h \in [first : 0..(rgMaxSize + 1), last : 0..(rgMaxSize + 1) \cup {None}]
  BY <1>2 DEF Server!Plain, Server!ServerAssumption
<1>3. CASE h \in [first : {None}, last : 0..(rgMaxSize + 1)]
  BY <1>3 DEF Server!Plain, Server!ServerAssumption
<1> QED BY <1>1, <1>2, <1>3 DEF Server!Headers

(* parse_range: the range is the set of bytes that the header asks for, and *)
(* a header is refused when it asks for none.                               *)
LEMMA ServerParseRangeIsWanted ==
  ASSUME Server!ServerAssumption, NEW h \in Server!Headers, NEW total \in Nat, total > 0,
         NEW p, p = Server!ParseRange(h, total)
  PROVE  \/ p = Server!Bad /\ Server!Wanted(h, total) = {}
         \/ /\ p.first \in Nat /\ p.last \in Nat /\ p.first <= p.last /\ p.last < total
            /\ p = [first |-> p.first, last |-> p.last]
            /\ \A i \in Nat : i \in Server!Wanted(h, total) <=> p.first <= i /\ i <= p.last
<1>1. ASSUME NEW i \in Nat
      PROVE  i \in Server!Wanted(h, total) <=>
               /\ i < total
               /\ \/ h = Server!Plain
                  \/ h.first # None /\ h.first <= i /\ (h.last = None \/ i <= h.last)
                  \/ h.first = None /\ h # Server!Plain /\ i + h.last >= total
  BY DEF Server!Wanted
<1>2. \A i \in Server!Wanted(h, total) : i \in Nat
  BY DEF Server!Wanted
<1> HIDE DEF Server!Wanted
<1>3. CASE h = Server!Plain
  BY <1>1, <1>3 DEF Server!ParseRange, Server!Minus
<1>4. CASE h # Server!Plain /\ h.first = None /\ h.last \in Nat /\ h.last # None
  <2>1. CASE h.last = 0
    <3>1. p = Server!Bad
      BY <1>4, <2>1 DEF Server!ParseRange
    <3>2. \A i \in Nat : i \notin Server!Wanted(h, total)
      BY <1>1, <1>4, <2>1
    <3> QED BY <1>2, <3>1, <3>2
  <2>2. CASE h.last # 0
    BY <1>1, <1>4, <2>2 DEF Server!ParseRange, Server!Minus
  <2> QED BY <2>1, <2>2
<1>5. CASE h # Server!Plain /\ h.first \in Nat /\ h.first # None /\ h.last = None
  <2>1. CASE h.first >= total
    <3>1. p = Server!Bad
      BY <1>5, <2>1 DEF Server!ParseRange
    <3>2. \A i \in Nat : i \notin Server!Wanted(h, total)
      BY <1>1, <1>5, <2>1
    <3> QED BY <1>2, <3>1, <3>2
  <2>2. CASE ~(h.first >= total)
    <3>1. p = [first |-> h.first, last |-> total - 1]
      BY <1>5, <2>2 DEF Server!ParseRange, Server!Least
    <3> QED BY <1>1, <1>5, <2>2, <3>1
  <2> QED BY <2>1, <2>2
<1>6. CASE h # Server!Plain /\ h.first \in Nat /\ h.first # None /\ h.last \in Nat /\ h.last # None
  <2>1. CASE h.first >= total \/ h.last < h.first
    <3>1. p = Server!Bad
      BY <1>6, <2>1 DEF Server!ParseRange
    <3>2. \A i \in Nat : i \notin Server!Wanted(h, total)
      BY <1>1, <1>6, <2>1
    <3> QED BY <1>2, <3>1, <3>2
  <2>2. CASE ~(h.first >= total \/ h.last < h.first)
    <3>1. p = [first |-> h.first, last |-> IF h.last < total - 1 THEN h.last ELSE total - 1]
      BY <1>6, <2>2 DEF Server!ParseRange, Server!Least
    <3> QED BY <1>1, <1>6, <2>2, <3>1
  <2> QED BY <2>1, <2>2
<1> QED BY <1>3, <1>4, <1>5, <1>6, ServerHeaderForms

LEMMA ServerBoundRangeIsFirst ==
  ASSUME Server!ServerAssumption, NEW h, NEW via \in Server!Vias, NEW p,
         p = Server!Bad \/ /\ p.first \in Nat /\ p.last \in Nat /\ p.first <= p.last
                           /\ p = [first |-> p.first, last |-> p.last],
         NEW r, r = Server!BoundRange(via, h, p)
  PROVE  IF p = Server!Bad THEN r = Server!Bad
         ELSE /\ r # Server!Bad /\ r.first = p.first /\ r.last \in Nat
              /\ r.first <= r.last /\ r.last <= p.last
              /\ r.last = p.last \/ (via = "protocol" /\ r.last - r.first + 1 = rgChunk)
<1>1. CASE p = Server!Bad
  BY <1>1 DEF Server!BoundRange, Server!Bad, Server!Least, Server!ServerAssumption
<1>2. CASE p # Server!Bad
  <2>1. r = p \/ (via = "protocol" /\ r = [first |-> p.first, last |-> Server!Least(p.last, p.first + rgChunk - 1)])
    BY <1>2 DEF Server!BoundRange
  <2>2. CASE r = p
    BY <1>2, <2>2
  <2>3. CASE via = "protocol" /\ r = [first |-> p.first, last |-> Server!Least(p.last, p.first + rgChunk - 1)]
    BY <1>2, <2>3 DEF Server!Least, Server!Bad, Server!ServerAssumption
  <2> QED BY <2>1, <2>2, <2>3
<1> QED BY <1>1, <1>2

-----------------------------------------------------------------------------
(* The players that read by ranges.                                         *)

\* What the end of a piece leaves of a player.
ServerSame(x, y) ==
  /\ y.via = x.via /\ y.header = x.header /\ y.size = x.size /\ y.start = x.start
  /\ y.end = x.end

LEMMA ServerInitHolds == ASSUME Server!ServerAssumption, Server!Init PROVE ServerIInv
<1>1. Server!Plain \in Server!Headers
  BY DEF Server!Plain, Server!Headers
<1>0. PICK v \in [rgFetches -> Server!Vias] :
        rgFetch = [f \in rgFetches |->
                   [via |-> v[f], step |-> "new", header |-> Server!Plain, size |-> 0, status |-> 0,
                    start |-> 0, end |-> 0, next |-> 0, got |-> 0, changed |-> FALSE]]
  BY DEF Server!Init
<1>2. ASSUME NEW f \in rgFetches
      PROVE  rgFetch[f] \in ServerRecords /\ rgFetch[f].step = "new" /\ rgFetch[f].status = 0
  <2>1. 0 \in 0..rgMaxSize /\ 0 \in ServerStatuses /\ "new" \in ServerSteps
    BY DEF ServerStatuses, ServerSteps, Server!ServerAssumption
  <2> QED BY <1>0, <1>1, <2>1 DEF ServerRecords
<1>3. rgFetch \in [rgFetches -> ServerRecords]
  BY <1>0, <1>2
<1>4. Server!TypeOK
  <2>1. rgSize \in 0..rgMaxSize /\ rgChanges \in 0..rgMaxChanges /\ rgRegistry \subseteq rgStreams
    BY DEF Server!Init, Server!ServerAssumption
  <2>2. rgStream = [s \in rgStreams |-> [step |-> "new", cancelled |-> FALSE, done |-> 0,
                                    reading |-> FALSE, late |-> 0]]
    BY DEF Server!Init
  <2>3. 0 \in 0..rgMaxReads
    BY DEF Server!ServerAssumption
  <2> QED BY <1>3, <2>1, <2>2, <2>3 DEF Server!TypeOK, ServerRecords, ServerSteps,
      ServerStatuses
<1>5. ASSUME NEW f \in rgFetches PROVE ServerFetchOK(f)
  <2>1. rgFetch[f].step = "new" /\ rgFetch[f].status = 0
    BY <1>2
  <2>2. ServerOpened(rgFetch[f]) /\ ServerEmpty(rgFetch[f]) /\ ServerWhole(rgFetch[f])
    BY <2>1 DEF ServerOpened, ServerEmpty, ServerWhole
  <2>3. ServerRefused(rgFetch[f], rgSize)
    BY <2>1 DEF ServerRefused
  <2> QED BY <2>2, <2>3 DEF ServerFetchOK
<1>6. \A s \in rgStreams : ServerStreamOK(s)
  BY DEF Server!Init, ServerStreamOK
<1> QED BY <1>4, <1>5, <1>6 DEF ServerIInv

(* A step of one player.                                                    *)
LEMMA ServerPutKeeps ==
  ASSUME ServerIInv, NEW f \in rgFetches, NEW r \in ServerRecords, Server!Put(f, r),
         UNCHANGED Server!server,
         ServerOpened(r), ServerEmpty(r), ServerWhole(r), ServerRefused(r, rgSize)
  PROVE  ServerIInv'
<1>1. Server!TypeOK /\ rgFetch \in [rgFetches -> ServerRecords]
  BY DEF ServerIInv, Server!TypeOK, ServerRecords, ServerSteps, ServerStatuses
<1>2. rgFetch' = [rgFetch EXCEPT ![f] = r]
  BY DEF Server!Put
<1>3. Server!TypeOK'
  BY <1>1, <1>2 DEF Server!TypeOK, Server!server, ServerRecords, ServerSteps,
    ServerStatuses
<1>4. ASSUME NEW g \in rgFetches PROVE ServerFetchOK(g)'
  BY <1>1, <1>2 DEF ServerIInv, ServerFetchOK, Server!server
<1>5. \A s \in rgStreams : ServerStreamOK(s)'
  BY DEF ServerIInv, ServerStreamOK, Server!server
<1> QED BY <1>3, <1>4, <1>5 DEF ServerIInv

LEMMA ServerOpensKeeps ==
  ASSUME Server!ServerAssumption, ServerIInv, NEW f \in rgFetches, Server!Opens(f)
  PROVE  ServerIInv'
<1>1. /\ rgFetch[f] \in ServerRecords /\ rgSize \in Nat /\ rgSize \in 0..rgMaxSize
      /\ rgFetch[f].header \in Server!Headers /\ rgFetch[f].via \in Server!Vias
  BY DEF ServerIInv, Server!TypeOK, ServerRecords, ServerSteps, ServerStatuses,
    Server!ServerAssumption
<1> DEFINE h == rgFetch[f].header
           p == Server!ParseRange(h, rgSize)
           r == Server!BoundRange(rgFetch[f].via, h, p)
           v == IF h = Server!Plain THEN 200 ELSE 206
           x == [rgFetch[f] EXCEPT !.step = "opened", !.size = rgSize, !.start = r.first,
                   !.end = r.last, !.status = v]
           y == [rgFetch[f] EXCEPT !.step = "failed", !.status = 416]
<1>2. /\ UNCHANGED Server!server /\ rgFetch[f].step = "asked"
      /\ \/ r = Server!Bad /\ Server!Put(f, y)
         \/ r # Server!Bad /\ Server!Put(f, x)
  BY DEF Server!Opens
<1>3. v \in ServerStatuses /\ v # 416
  BY DEF ServerStatuses
<1> HIDE DEF v
<1>4. CASE rgSize = 0 /\ h = Server!Plain
  <2>1. p = [first |-> 0, last |-> 0]
    BY <1>4 DEF Server!ParseRange, Server!Minus
  <2>2. r = [first |-> 0, last |-> 0] /\ r # Server!Bad
    BY <1>4, <2>1 DEF Server!BoundRange, Server!Bad
  <2>3. r.first = 0 /\ r.last = 0
    BY <2>2
  <2> HIDE DEF p, r
  <2>4. x \in ServerRecords /\ x.step = "opened" /\ x.size = 0 /\ x.start = 0 /\ x.status = v
    BY <1>1, <1>3, <1>4, <2>3 DEF ServerRecords, ServerSteps
  <2>5. Server!Put(f, x) /\ UNCHANGED Server!server
    BY <1>2, <2>2
  <2> HIDE DEF x
  <2>6. ServerOpened(x) /\ ServerEmpty(x) /\ ServerWhole(x) /\ ServerRefused(x, rgSize)
    BY <1>3, <2>4 DEF ServerOpened, ServerEmpty, ServerWhole, ServerRefused
  <2> QED BY <2>4, <2>5, <2>6, ServerPutKeeps
<1>5. CASE r = Server!Bad /\ ~(rgSize = 0 /\ h = Server!Plain)
  <2>1. Server!Wanted(h, rgSize) = {}
    <3>1. CASE rgSize = 0
      BY <3>1 DEF Server!Wanted
    <3>2. CASE rgSize > 0
      <4>1. \/ p = Server!Bad /\ Server!Wanted(h, rgSize) = {}
            \/ p.first \in Nat /\ p.last \in Nat /\ p.first <= p.last
               /\ p = [first |-> p.first, last |-> p.last]
        BY <1>1, <3>2, ServerParseRangeIsWanted
      <4>2. p # Server!Bad => r # Server!Bad
        BY <1>1, <4>1, ServerBoundRangeIsFirst
      <4>3. p # Server!Bad \/ Server!Wanted(h, rgSize) = {}
        BY <4>1 DEF Server!Bad
      <4> QED BY <1>5, <4>2, <4>3
    <3> QED BY <1>1, <3>1, <3>2
  <2>2. y \in ServerRecords /\ y.step = "failed" /\ y.header = h
    <3> DEFINE c == 416  s == "failed"  o == rgFetch[f]
               z == [o EXCEPT !.step = s, !.status = c]
    <3>1. c \in ServerStatuses /\ s \in ServerSteps
      BY DEF ServerStatuses, ServerSteps
    <3>2. o \in ServerRecords
      BY <1>1
    <3>3. y = z /\ h = o.header
      OBVIOUS
    <3> HIDE DEF x, y, h, p, r, c, s, o
    <3>4. z \in ServerRecords
      BY <3>1, <3>2 DEF ServerRecords
    <3>5. z.step = s /\ z.header = o.header
      BY <3>1, <3>2 DEF ServerRecords
    <3> QED BY <3>3, <3>4, <3>5 DEF s
  <2>3. Server!Put(f, y) /\ UNCHANGED Server!server
    BY <1>2, <1>5
  <2> HIDE DEF y
  <2>4. ServerOpened(y) /\ ServerEmpty(y) /\ ServerWhole(y) /\ ServerRefused(y, rgSize)
    BY <2>1, <2>2 DEF ServerOpened, ServerEmpty, ServerWhole, ServerRefused
  <2> QED BY <2>2, <2>3, <2>4, ServerPutKeeps
<1>6. CASE r # Server!Bad /\ ~(rgSize = 0 /\ h = Server!Plain)
  <2>1. rgSize > 0
    <3>1. CASE rgSize = 0
      <4>1. p = Server!Bad
        BY <1>6, <3>1 DEF Server!ParseRange
      <4> QED BY <1>1, <1>6, <4>1, ServerBoundRangeIsFirst
    <3> QED BY <1>1, <3>1
  <2>2. /\ p # Server!Bad /\ p.first \in Nat /\ p.last \in Nat /\ p.first <= p.last /\ p.last < rgSize
        /\ p = [first |-> p.first, last |-> p.last]
        /\ \A i \in Nat : i \in Server!Wanted(h, rgSize) <=> p.first <= i /\ i <= p.last
    <3>1. p = Server!Bad => r = Server!Bad
      BY <1>1, ServerBoundRangeIsFirst
    <3> QED BY <1>1, <1>6, <2>1, <3>1, ServerParseRangeIsWanted
  <2>3. /\ r.first = p.first /\ r.last \in Nat /\ r.first <= r.last /\ r.last <= p.last
        /\ r.last = p.last \/ (rgFetch[f].via = "protocol" /\ r.last - r.first + 1 = rgChunk)
    BY <1>1, <2>2, ServerBoundRangeIsFirst
  <2>4. Server!Put(f, x) /\ UNCHANGED Server!server
    BY <1>2, <1>6
  <2> HIDE DEF p, r
  <2>5. /\ x \in ServerRecords /\ x.step = "opened" /\ x.size = rgSize /\ x.start = r.first
        /\ x.end = r.last /\ x.header = h /\ x.via = rgFetch[f].via /\ x.status # 416
    <3> DEFINE a == r.first  b == r.last
    <3>1. a \in Nat /\ b \in Nat /\ v \in ServerStatuses /\ v # 416
      BY <1>3, <2>2, <2>3
    <3>2. x = [rgFetch[f] EXCEPT !.step = "opened", !.size = rgSize, !.start = a, !.end = b,
                 !.status = v]
      OBVIOUS
    <3> HIDE DEF x, a, b
    <3>3. /\ x \in ServerRecords /\ x.step = "opened" /\ x.size = rgSize /\ x.start = a
          /\ x.end = b /\ x.header = h /\ x.via = rgFetch[f].via /\ x.status # 416
      BY <1>1, <3>1, <3>2 DEF ServerRecords, ServerSteps
    <3> QED BY <3>3 DEF a, b
  <2> HIDE DEF x
  <2>6. ServerOpened(x)
    <3> DEFINE w == Server!Wanted(h, rgSize)  a == r.first  b == r.last  l == p.last
    <3>1. \A i \in w : i \in Nat
      BY DEF Server!Wanted
    <3>2. /\ a \in Nat /\ b \in Nat /\ l \in Nat /\ a <= b /\ b <= l /\ l < rgSize
          /\ \A i \in Nat : i \in w <=> a <= i /\ i <= l
          /\ b = l \/ (x.via = "protocol" /\ b - a + 1 = rgChunk)
      BY <2>2, <2>3, <2>5
    <3>3. x.start = a /\ x.end = b /\ x.size = rgSize /\ Server!Wanted(x.header, x.size) = w
      BY <2>5
    <3> HIDE DEF w, a, b, l
    <3>4. a \in w /\ (\A i \in w : a <= i) /\ a..b \subseteq w
      BY <3>1, <3>2
    <3>5. ASSUME b = l PROVE a..b = w
      <4>1. \A i : i \in a..b <=> i \in w
        BY <3>1, <3>2, <3>5
      <4> QED BY <4>1
    <3>6. b < rgSize
      BY <1>1, <3>2
    <3> QED BY <3>2, <3>3, <3>4, <3>5, <3>6 DEF ServerOpened
  <2>7. ServerEmpty(x) /\ ServerWhole(x) /\ ServerRefused(x, rgSize)
    BY <2>1, <2>5 DEF ServerEmpty, ServerWhole, ServerRefused
  <2> QED BY <2>4, <2>5, <2>6, <2>7, ServerPutKeeps
<1> QED BY <1>4, <1>5, <1>6

LEMMA ServerFetchKeeps ==
  ASSUME Server!ServerAssumption, ServerIInv, NEW f \in rgFetches,
         Server!Ask(f) \/ Server!Serve(f)
  PROVE  ServerIInv'
<1>1. rgFetch[f] \in ServerRecords /\ ServerFetchOK(f)
  BY DEF ServerIInv, Server!TypeOK, ServerRecords, ServerSteps, ServerStatuses
<1>2. ASSUME NEW h \in Server!Headers, rgFetch[f].step \in {"new", "piece"}, UNCHANGED Server!server,
             Server!Put(f, [rgFetch[f] EXCEPT !.step = "asked", !.header = h])
      PROVE  ServerIInv'
  <2> DEFINE x == [rgFetch[f] EXCEPT !.step = "asked", !.header = h]
  <2>1. x \in ServerRecords /\ x.step = "asked" /\ x.status = rgFetch[f].status
    BY <1>1 DEF ServerRecords, ServerSteps
  <2>2. Server!Put(f, x) /\ UNCHANGED Server!server
    BY <1>2
  <2> HIDE DEF x
  <2>3. ServerOpened(x) /\ ServerEmpty(x) /\ ServerWhole(x) /\ ServerRefused(x, rgSize)
    BY <1>1, <1>2, <2>1 DEF ServerFetchOK, ServerOpened, ServerEmpty, ServerWhole,
      ServerRefused
  <2> QED BY <2>1, <2>2, <2>3, ServerPutKeeps
<1>3. CASE Server!Ask(f)
  BY <1>2, <1>3 DEF Server!Ask
<1>4. CASE Server!AskNext(f)
  <2> DEFINE h == [first |-> rgFetch[f].next, last |-> None]
  <2>1. rgFetch[f].next \in 0..(rgMaxSize + 1)
    BY <1>1, <1>4 DEF ServerRecords, Server!ServerAssumption, Server!AskNext
  <2>2. h \in Server!Headers
    BY <2>1 DEF Server!Headers
  <2> QED BY <1>2, <1>4, <2>2 DEF Server!AskNext
<1>5. CASE Server!Opens(f)
  BY <1>5, ServerOpensKeeps
<1>6. ASSUME NEW s \in {"failed", "done"}, NEW v \in ServerStatuses, v # 416, UNCHANGED Server!server,
             Server!Put(f, [rgFetch[f] EXCEPT !.step = s, !.status = v])
      PROVE  ServerIInv'
  <2> DEFINE x == [rgFetch[f] EXCEPT !.step = s, !.status = v]
  <2>1. s \in ServerSteps
    BY DEF ServerSteps
  <2>2. x \in ServerRecords /\ x.step = s /\ x.status = v
    BY <1>1, <2>1 DEF ServerRecords
  <2>3. Server!Put(f, x) /\ UNCHANGED Server!server
    BY <1>6
  <2> HIDE DEF x
  <2>4. ServerOpened(x) /\ ServerEmpty(x) /\ ServerWhole(x) /\ ServerRefused(x, rgSize)
    BY <1>6, <2>2 DEF ServerOpened, ServerEmpty, ServerWhole, ServerRefused
  <2> QED BY <2>2, <2>3, <2>4, ServerPutKeeps
<1>7. rgFetch[f].step # "failed" => rgFetch[f].status # 416 /\ rgFetch[f].status \in ServerStatuses
  BY <1>1 DEF ServerFetchOK, ServerRefused, ServerRecords
<1>8. CASE Server!Answers(f)
  <2>1. rgFetch[f].step = "opened" /\ UNCHANGED Server!server
    BY <1>8 DEF Server!Answers
  <2>2. CASE Server!Copied(f) = Server!Length(f)
    <3> DEFINE n == Server!Length(f)
               x == Server!Delivered(f, n)
    <3>1. n = (IF rgFetch[f].size = 0 THEN 0 ELSE rgFetch[f].end - rgFetch[f].start + 1)
      BY DEF Server!Length
    <3>2. rgFetch[f].start \in Nat /\ rgFetch[f].end \in Nat /\ rgFetch[f].got \in Nat /\ rgFetch[f].size \in Nat
      BY <1>1 DEF ServerRecords, Server!ServerAssumption
    <3>3. rgFetch[f].size > 0 => rgFetch[f].start <= rgFetch[f].end
      BY <1>1, <2>1 DEF ServerFetchOK, ServerOpened
    <3>4. n \in Nat
      BY <3>1, <3>2, <3>3
    <3>5. Server!Put(f, x)
      BY <1>8, <2>2 DEF Server!Answers
    <3> HIDE DEF n
    <3> DEFINE a == rgFetch[f].start + n
               b == rgFetch[f].got + n
    <3>6. a \in Nat /\ b \in Nat
      BY <3>2, <3>4
    <3>10. x = [rgFetch[f] EXCEPT !.step = "piece", !.next = a, !.got = b]
      BY DEF Server!Delivered
    <3> HIDE DEF x, a, b
    <3>7. /\ x \in ServerRecords /\ x.step = "piece" /\ x.next = a
          /\ x.status = rgFetch[f].status /\ ServerSame(rgFetch[f], x)
      BY <1>1, <3>6, <3>10 DEF ServerRecords, ServerSteps, ServerSame
    <3>8. ServerOpened(x)
      BY <1>1, <2>1, <3>7 DEF ServerFetchOK, ServerOpened, ServerSame
    <3>9. ServerEmpty(x) /\ ServerWhole(x) /\ ServerRefused(x, rgSize)
      BY <1>1, <1>7, <2>1, <3>1, <3>7 DEF a, ServerFetchOK, ServerEmpty, ServerWhole,
        ServerRefused, ServerSame
    <3> QED BY <2>1, <3>5, <3>7, <3>8, <3>9, ServerPutKeeps
  <2>3. CASE Server!Copied(f) # Server!Length(f)
    <3> DEFINE v == IF rgFetch[f].via = "http" THEN rgFetch[f].status ELSE 500
    <3>1. v \in ServerStatuses /\ v # 416
      BY <1>7, <2>1 DEF ServerStatuses
    <3>2. Server!Put(f, [rgFetch[f] EXCEPT !.step = "failed", !.status = v])
      BY <1>8, <2>3 DEF Server!Answers
    <3> HIDE DEF v
    <3> QED BY <1>6, <2>1, <3>1, <3>2
  <2> QED BY <2>2, <2>3
<1>9. CASE Server!Fails(f)
  <2> DEFINE v == IF rgFetch[f].via = "http" /\ rgFetch[f].step = "opened" THEN rgFetch[f].status ELSE 500
  <2>1. v \in ServerStatuses /\ v # 416 /\ UNCHANGED Server!server
    BY <1>7, <1>9 DEF Server!Fails, ServerStatuses
  <2>2. Server!Put(f, [rgFetch[f] EXCEPT !.step = "failed", !.status = v])
    BY <1>9 DEF Server!Fails
  <2> HIDE DEF v
  <2> QED BY <1>6, <2>1, <2>2
<1>10. CASE Server!Done(f)
  <2> DEFINE v == rgFetch[f].status
  <2>1. v \in ServerStatuses /\ v # 416 /\ UNCHANGED Server!server
    BY <1>7, <1>10 DEF Server!Done
  <2>2. [rgFetch[f] EXCEPT !.step = "done"] = [rgFetch[f] EXCEPT !.step = "done", !.status = v]
    BY <1>1 DEF ServerRecords
  <2>3. Server!Put(f, [rgFetch[f] EXCEPT !.step = "done", !.status = v])
    BY <1>10, <2>2 DEF Server!Done
  <2> HIDE DEF v
  <2> QED BY <1>6, <2>1, <2>3
<1> QED BY <1>3, <1>4, <1>5, <1>8, <1>9, <1>10 DEF Server!Serve

(* The file is changed by another program.                                  *)
LEMMA ServerChangeKeeps ==
  ASSUME Server!ServerAssumption, ServerIInv, Server!Change
  PROVE  ServerIInv'
<1>1. Server!TypeOK /\ rgFetch \in [rgFetches -> ServerRecords]
  BY DEF ServerIInv, Server!TypeOK, ServerRecords, ServerSteps, ServerStatuses
<1>2. rgFetch' = [f \in rgFetches |-> [rgFetch[f] EXCEPT !.changed = TRUE]]
  BY DEF Server!Change
<1>3. \A f \in rgFetches : [rgFetch[f] EXCEPT !.changed = TRUE] \in ServerRecords
  BY <1>1 DEF ServerRecords
<1>4. rgFetch' \in [rgFetches -> ServerRecords]
  BY <1>2, <1>3
<1>5. Server!TypeOK'
  BY <1>1, <1>4 DEF Server!Change, Server!TypeOK, ServerRecords, ServerSteps,
    ServerStatuses, Server!ServerAssumption
<1>6. ASSUME NEW f \in rgFetches PROVE ServerFetchOK(f)'
  <2>1. rgFetch[f] \in ServerRecords /\ rgFetch'[f] = [rgFetch[f] EXCEPT !.changed = TRUE] /\ ServerFetchOK(f)
    BY <1>1, <1>2 DEF ServerIInv
  <2>2. /\ rgFetch'[f].step = rgFetch[f].step /\ rgFetch'[f].status = rgFetch[f].status
        /\ rgFetch'[f].next = rgFetch[f].next /\ rgFetch'[f].changed /\ ServerSame(rgFetch[f], rgFetch'[f])
    BY <2>1 DEF ServerRecords, ServerSame
  <2>3. ServerOpened(rgFetch[f])'
    BY <2>1, <2>2 DEF ServerFetchOK, ServerOpened, ServerSame
  <2>4. ServerEmpty(rgFetch[f])' /\ ServerWhole(rgFetch[f])' /\ ServerRefused(rgFetch[f], rgSize)'
    BY <2>1, <2>2 DEF ServerFetchOK, ServerEmpty, ServerWhole, ServerRefused, ServerSame
  <2> QED BY <2>3, <2>4 DEF ServerFetchOK
<1>7. \A s \in rgStreams : ServerStreamOK(s)'
  BY DEF ServerIInv, ServerStreamOK, Server!Change
<1> QED BY <1>5, <1>6, <1>7 DEF ServerIInv

-----------------------------------------------------------------------------
(* The streams.                                                             *)

ServerStreamRecords ==
  [step : {"new", "registered", "unstarted", "loading", "open", "closed"},
   cancelled : BOOLEAN, done : 0..rgMaxReads, reading : BOOLEAN, late : Nat]

LEMMA ServerStreamPutKeeps ==
  ASSUME ServerIInv, NEW s \in rgStreams, NEW r \in ServerStreamRecords,
         Server!Stream(s, r), UNCHANGED Server!ranges,
         rgRegistry' \subseteq rgStreams,
         r.late # 0 => r.late = 1 /\ ~r.reading /\ r.cancelled
  PROVE  ServerIInv'
<1>1. Server!TypeOK /\ rgStream \in [rgStreams -> ServerStreamRecords]
  BY DEF ServerIInv, Server!TypeOK, ServerStreamRecords
<1>2. rgStream' = [rgStream EXCEPT ![s] = r]
  BY DEF Server!Stream
<1>3. Server!TypeOK'
  BY <1>1, <1>2 DEF Server!TypeOK, Server!ranges, ServerStreamRecords
<1>4. \A f \in rgFetches : ServerFetchOK(f)'
  BY DEF ServerIInv, ServerFetchOK, Server!ranges
<1>5. ASSUME NEW q \in rgStreams PROVE ServerStreamOK(q)'
  BY <1>1, <1>2 DEF ServerIInv, ServerStreamOK
<1> QED BY <1>3, <1>4, <1>5 DEF ServerIInv

LEMMA ServerStreamKeeps ==
  ASSUME Server!ServerAssumption, ServerIInv, NEW s \in rgStreams,
         \/ Server!Register(s) \/ Server!StartFails(s) \/ Server!Load(s) \/ Server!OpenStream(s) \/ Server!Remove(s)
         \/ Server!ReadStream(s) \/ Server!ReadReturns(s) \/ Server!CancelStream(s) \/ Server!CloseStream(s)
  PROVE  ServerIInv'
<1>1. rgStream[s] \in ServerStreamRecords /\ ServerStreamOK(s) /\ rgRegistry \subseteq rgStreams
  BY DEF ServerIInv, Server!TypeOK, ServerStreamRecords
<1>2. ASSUME NEW t \in {"registered", "unstarted", "loading", "open", "closed"},
             Server!Stream(s, [rgStream[s] EXCEPT !.step = t]), UNCHANGED Server!ranges, rgRegistry' \subseteq rgStreams
      PROVE  ServerIInv'
  <2> DEFINE r == [rgStream[s] EXCEPT !.step = t]
  <2>1. /\ r \in ServerStreamRecords /\ r.late = rgStream[s].late /\ r.reading = rgStream[s].reading
        /\ r.cancelled = rgStream[s].cancelled
    BY <1>1 DEF ServerStreamRecords
  <2>2. Server!Stream(s, r)
    BY <1>2
  <2> HIDE DEF r
  <2> QED BY <1>1, <1>2, <2>1, <2>2, ServerStreamPutKeeps DEF ServerStreamOK
<1>3. CASE Server!Register(s) \/ Server!StartFails(s) \/ Server!Load(s) \/ Server!CloseStream(s)
  BY <1>1, <1>2, <1>3 DEF Server!Register, Server!StartFails, Server!Load,
    Server!CloseStream
<1>4. CASE Server!OpenStream(s)
  BY <1>1, <1>2, <1>4 DEF Server!OpenStream
<1>5. CASE Server!Remove(s)
  <2>1. Server!TypeOK'
    BY <1>5 DEF ServerIInv, Server!TypeOK, Server!Remove, Server!ranges
  <2>2. \A f \in rgFetches : ServerFetchOK(f)'
    BY <1>5 DEF ServerIInv, ServerFetchOK, Server!Remove, Server!ranges
  <2>3. \A q \in rgStreams : ServerStreamOK(q)'
    BY <1>5 DEF ServerIInv, ServerStreamOK, Server!Remove
  <2> QED BY <2>1, <2>2, <2>3 DEF ServerIInv
<1>6. CASE Server!ReadStream(s)
  <2> DEFINE b == ~rgStream[s].cancelled
             n == rgStream[s].done + 1
             x == [rgStream[s] EXCEPT !.reading = b, !.done = n]
  <2>1. Server!Stream(s, x) /\ UNCHANGED <<rgRegistry, Server!ranges>> /\ rgStream[s].done < rgMaxReads
    BY <1>6 DEF Server!ReadStream
  <2>2. b \in BOOLEAN /\ rgStream[s].cancelled \in BOOLEAN
    BY <1>1, Zenon DEF ServerStreamRecords
  <2>3. n \in 0..rgMaxReads
    BY <1>1, <2>1 DEF ServerStreamRecords, Server!ServerAssumption
  <2>4. b => rgStream[s].late = 0
    BY <1>1 DEF ServerStreamOK
  <2>5. rgStream[s].late # 0 => rgStream[s].late = 1 /\ ~b /\ rgStream[s].cancelled
    BY <1>1, <2>4 DEF ServerStreamOK
  <2> HIDE DEF b, n
  <2>6. /\ x \in ServerStreamRecords /\ x.reading = b /\ x.late = rgStream[s].late
        /\ x.cancelled = rgStream[s].cancelled
    BY <1>1, <2>2, <2>3 DEF ServerStreamRecords
  <2> HIDE DEF x
  <2> QED BY <1>1, <2>1, <2>5, <2>6, ServerStreamPutKeeps
<1>7. CASE Server!ReadReturns(s)
  <2> DEFINE k == IF rgStream[s].cancelled THEN rgStream[s].late + 1 ELSE rgStream[s].late
             x == [rgStream[s] EXCEPT !.reading = FALSE, !.late = k]
  <2>1. Server!Stream(s, x) /\ UNCHANGED <<rgRegistry, Server!ranges>> /\ rgStream[s].reading
    BY <1>7 DEF Server!ReadReturns
  <2>2. rgStream[s].late = 0
    BY <1>1, <2>1 DEF ServerStreamOK
  <2>3. k \in Nat /\ (k # 0 => k = 1 /\ rgStream[s].cancelled)
    BY <2>2
  <2> HIDE DEF k
  <2>4. /\ x \in ServerStreamRecords /\ x.reading = FALSE /\ x.late = k
        /\ x.cancelled = rgStream[s].cancelled
    BY <1>1, <2>3 DEF ServerStreamRecords
  <2> HIDE DEF x
  <2> QED BY <1>1, <2>1, <2>3, <2>4, ServerStreamPutKeeps
<1>8. CASE Server!CancelStream(s)
  <2> DEFINE x == [rgStream[s] EXCEPT !.cancelled = TRUE]
  <2>1. Server!Stream(s, x) /\ UNCHANGED <<rgRegistry, Server!ranges>>
    BY <1>8 DEF Server!CancelStream
  <2>2. /\ x.late = rgStream[s].late /\ x.reading = rgStream[s].reading
        /\ x.cancelled /\ x \in ServerStreamRecords
    BY <1>1 DEF ServerStreamRecords
  <2> HIDE DEF x
  <2> QED BY <1>1, <2>1, <2>2, ServerStreamPutKeeps DEF ServerStreamOK
<1> QED BY <1>3, <1>4, <1>5, <1>6, <1>7, <1>8

LEMMA ServerStepHolds ==
  ASSUME Server!ServerAssumption, ServerIInv, [Server!Next]_Server!vars
  PROVE  ServerIInv'
<1>1. CASE Server!Next
  BY <1>1, ServerFetchKeeps, ServerChangeKeeps, ServerStreamKeeps DEF Server!Next
<1>2. CASE UNCHANGED Server!vars
  BY <1>2 DEF Server!vars, ServerIInv, Server!TypeOK, ServerFetchOK, ServerStreamOK
<1> QED BY <1>1, <1>2

LEMMA ServerInvariant == ASSUME Server!ServerAssumption PROVE Server!Spec => []ServerIInv
  BY ServerInitHolds, ServerStepHolds, PTL DEF Server!Spec

-----------------------------------------------------------------------------
(* The variables keep their types.                                          *)
THEOREM ServerTypeCorrect ==
  ASSUME Server!ServerAssumption
  PROVE  Server!Spec => []Server!TypeOK
<1>1. ServerIInv => Server!TypeOK
  BY DEF ServerIInv
<1> QED BY <1>1, ServerInvariant, PTL

(* A response carries the bytes that its header asks for of the file as it  *)
(* was announced, or the first Chunk of them, and only a header that asks   *)
(* for none is refused (media/mod.rs, media/http.rs: parse_range).          *)
THEOREM ServerRangesAreWanted ==
  ASSUME Server!ServerAssumption
  PROVE  Server!Spec => []Server!RangeIsWanted
<1>1. ASSUME ServerIInv PROVE Server!RangeIsWanted
  <2> SUFFICES ASSUME NEW f \in rgFetches
               PROVE  LET w == Server!Wanted(rgFetch[f].header, rgFetch[f].size) IN
                      /\ rgFetch[f].step \in {"opened", "piece"} /\ rgFetch[f].size > 0 =>
                           /\ rgFetch[f].start..rgFetch[f].end \subseteq w
                           /\ rgFetch[f].start \in w /\ \A i \in w : i >= rgFetch[f].start
                           /\ \/ rgFetch[f].start..rgFetch[f].end = w
                              \/ rgFetch[f].via = "protocol" /\ Server!Length(f) = rgChunk
                      /\ rgFetch[f].status = 416 /\ ~rgFetch[f].changed =>
                           Server!Wanted(rgFetch[f].header, rgSize) = {}
    BY DEF Server!RangeIsWanted
  <2>1. ServerOpened(rgFetch[f]) /\ ServerRefused(rgFetch[f], rgSize) /\ rgFetch[f] \in ServerRecords
    BY <1>1 DEF ServerIInv, ServerFetchOK, Server!TypeOK, ServerRecords, ServerSteps,
      ServerStatuses
  <2>2. rgFetch[f].size > 0 => Server!Length(f) = rgFetch[f].end - rgFetch[f].start + 1
    BY DEF Server!Length
  <2>3. \A i \in Server!Wanted(rgFetch[f].header, rgFetch[f].size) : i \in Nat
    BY DEF Server!Wanted
  <2>4. rgFetch[f].start \in Nat
    BY <2>1 DEF ServerRecords
  <2> QED BY <2>1, <2>2, <2>3, <2>4 DEF ServerOpened, ServerRefused
<1> QED BY <1>1, ServerInvariant, PTL

(* A piece is complete, and the next one begins where it ended.             *)
THEOREM ServerPiecesAreWhole ==
  ASSUME Server!ServerAssumption
  PROVE  Server!Spec => []Server!PiecesTile
<1>1. ASSUME ServerIInv, Server!ServerAssumption PROVE Server!PiecesTile
  <2> SUFFICES ASSUME NEW f \in rgFetches, rgFetch[f].step = "piece"
               PROVE  /\ rgFetch[f].next = rgFetch[f].start + Server!Length(f)
                      /\ rgFetch[f].next <= rgFetch[f].size
    BY DEF Server!PiecesTile
  <2>1. ServerFetchOK(f) /\ rgFetch[f] \in ServerRecords
    BY <1>1 DEF ServerIInv, Server!TypeOK, ServerRecords, ServerSteps, ServerStatuses
  <2>2. rgFetch[f].size \in Nat /\ rgFetch[f].start \in Nat /\ rgFetch[f].end \in Nat
    BY <1>1, <2>1 DEF ServerRecords, Server!ServerAssumption
  <2>3. rgFetch[f].next = rgFetch[f].start + Server!Length(f)
    BY <2>1 DEF ServerFetchOK, ServerWhole, Server!Length
  <2>4. CASE rgFetch[f].size = 0
    BY <2>1, <2>3, <2>4 DEF ServerFetchOK, ServerEmpty, Server!Length
  <2>5. CASE rgFetch[f].size > 0
    <3>1. rgFetch[f].start <= rgFetch[f].end /\ rgFetch[f].end < rgFetch[f].size
      BY <2>1, <2>5 DEF ServerFetchOK, ServerOpened
    <3> QED BY <2>2, <2>3, <2>5, <3>1 DEF Server!Length
  <2> QED BY <2>2, <2>3, <2>4, <2>5
<1> QED BY <1>1, ServerInvariant, PTL

(* After a cancel at most the read that was under way returns bytes         *)
(* (mpv/stream.rs).                                                         *)
THEOREM ServerCancelQuiets ==
  ASSUME Server!ServerAssumption
  PROVE  Server!Spec => []Server!QuietAfterCancel
<1>1. ServerIInv => Server!QuietAfterCancel
  BY DEF ServerIInv, ServerStreamOK, Server!QuietAfterCancel
<1> QED BY <1>1, ServerInvariant, PTL

-----------------------------------------------------------------------------
(* One session of the player and the history of its file, for files of any *)
(* length, any volumes, and any number of requests, sessions and failures. *)
(* The load is the first request of a session, and nothing is loaded       *)
(* before it is handled.                                                   *)
ControlLoadFirst ==
  /\ \A i \in 1..Len(pcQueue) : pcQueue[i].kind = "load" =>
       /\ i = 1 /\ pcCtl.load = None /\ pcMpv.file = "none"
       /\ ~pcCtl.vo /\ ~pcCtl.ready /\ ~pcCtl.current /\ ~pcCtl.restoring
  /\ pcCtl.thread # "running" =>
       pcQueue = <<>> /\ pcMpv.file = "none" /\ pcCtl.captured = None /\ ~pcCtl.interrupted

(* What waits for its output or its resume is a load, and only a session   *)
(* whose load is finished has a position of its own.                       *)
ControlLoading ==
  /\ pcCtl.vo => pcCtl.load # None /\ pcMpv.file = "loaded"
  /\ pcMpv.file = "loading" => pcCtl.load # None
  /\ pcCtl.restoring => pcMpv.file # "loading" /\ ~pcCtl.vo
  /\ pcCtl.ready /\ pcCtl.load = None => pcCtl.current
  /\ pcCtl.current => pcCtl.load = None /\ pcCtl.resume = None

ControlPauseHolds ==
  pcCtl.interrupted => pcMpv.pause /\ (pcCtl.load # None => ~pcCtl.load.autoplay)

(* The volume that is to come back is the user's.                          *)
ControlVolumeKnown ==
  pcCtl.thread = "running" =>
    IF pcCtl.seek = None THEN pcCtl.volume = None /\ pcMpv.level = pcGhost.volume
    ELSE pcCtl.volume = pcGhost.volume /\ pcMpv.level \in {0, pcGhost.volume}

(* The record will be that of position a once the worker has done its      *)
(* jobs: the last one that saves has it, or none saves and it is there.    *)
ControlRowOf(a) == IF a = 0 THEN None ELSE [pos |-> a, version |-> pcVersion]
ControlWillBe(a) ==
  \/ \E i \in 1..Len(pcJobs) :
       /\ pcJobs[i].kind = "save" /\ pcJobs[i].arg = a
       /\ \A j \in 1..Len(pcJobs) : i < j => pcJobs[j].kind = "lookup"
  \/ pcRow = ControlRowOf(a) /\ \A j \in 1..Len(pcJobs) : pcJobs[j].kind = "lookup"

(* Of the lookups in the queue only the last one is awaited.               *)
ControlLookupLast ==
  /\ \A i \in 1..Len(pcJobs) : pcJobs[i].kind = "lookup" => pcJobs[i].arg <= pcCount.sent
  /\ pcCtl.thread = "lookup" =>
       /\ pcJobs # <<>> /\ pcJobs[Len(pcJobs)].kind = "lookup" /\ pcJobs[Len(pcJobs)].arg = pcCount.sent
       /\ \A i \in 1..Len(pcJobs) : i # Len(pcJobs) /\ pcJobs[i].kind = "lookup" => pcJobs[i].arg < pcCount.sent

ControlRecorded ==
  ~pcGhost.spoilt =>
    /\ pcCtl.captured # None => pcCtl.current /\ ControlWillBe(pcCtl.captured)
    /\ pcCtl.captured = None /\ pcGhost.left # None => ControlWillBe(pcGhost.left)
    /\ pcCtl.thread = "running" /\ pcCtl.resume # None =>
         pcJobs = <<>> /\ pcRow = [pos |-> pcCtl.resume, version |-> pcVersion]

ControlIInv ==
  /\ Control!TypeOK /\ ControlLoadFirst /\ ControlLoading /\ ControlPauseHolds /\ ControlVolumeKnown /\ ControlLookupLast /\ ControlRecorded

ControlLives == {"opening", "ready", "playing", "paused", "error", "closed"}
ControlControls ==
  [thread : {"none", "lookup", "running", "ended"}, life : ControlLives,
   ready : BOOLEAN, load : Control!Loads \cup {None}, intent : BOOLEAN,
   interrupted : BOOLEAN, vo : BOOLEAN, resume : Control!Positions \cup {None},
   restoring : BOOLEAN, seek : Control!Seeks \cup {None},
   volume : pcLevels \cup {None}, track : Control!Tracks \cup {None},
   current : BOOLEAN, captured : Control!Positions \cup {None}, eof : BOOLEAN]
ControlFiles ==
  [file : {"none", "loading", "loaded"}, pause : BOOLEAN, pos : Control!Positions,
   seeking : BOOLEAN, target : Control!Positions, level : pcLevels \cup {0}]
ControlMessages == [kind : pcKinds \cup {"load"}, id : Control!Requests]
ControlJobs == [kind : {"save"}, arg : Control!Positions] \cup [kind : {"lookup"}, arg : Control!Requests]

-----------------------------------------------------------------------------
(* Queues.                                                                 *)

(* What was taken from the head of a queue is not the load of the rest.    *)
LEMMA ControlTakesLoad ==
  ASSUME Control!TypeOK, ControlLoadFirst, NEW kind, Control!Takes(kind)
  PROVE  /\ pcQueue' \in Seq(ControlMessages) /\ \A i \in 1..Len(pcQueue') : pcQueue'[i].kind # "load"
         /\ Head(pcQueue) \in ControlMessages /\ Head(pcQueue).kind = kind /\ Control!Id \in Control!Requests
<1>1. pcQueue \in Seq(ControlMessages) /\ pcQueue # <<>> /\ pcQueue' = Tail(pcQueue)
  BY DEF Control!TypeOK, Control!Takes, ControlMessages
<1>2. /\ Tail(pcQueue) \in Seq(ControlMessages) /\ Head(pcQueue) \in ControlMessages
      /\ Len(Tail(pcQueue)) = Len(pcQueue) - 1 /\ Len(pcQueue) \in Nat
      /\ \A i \in 1..Len(Tail(pcQueue)) : Tail(pcQueue)[i] = pcQueue[i + 1]
  BY <1>1
<1>3. \A i \in 1..Len(Tail(pcQueue)) : pcQueue[i + 1].kind # "load"
  BY <1>2 DEF ControlLoadFirst
<1>4. Control!Id \in Control!Requests
  BY <1>2 DEF Control!Id, ControlMessages
<1> QED BY <1>1, <1>2, <1>3, <1>4 DEF Control!Takes

(* A load is handled before anything else is.                              *)
LEMMA ControlTakesFresh ==
  ASSUME Control!TypeOK, ControlLoadFirst, Control!Takes("load")
  PROVE  /\ pcCtl.load = None /\ pcMpv.file = "none"
         /\ ~pcCtl.vo /\ ~pcCtl.ready /\ ~pcCtl.current /\ ~pcCtl.restoring
<1>1. pcQueue \in Seq(ControlMessages) /\ pcQueue # <<>> /\ Head(pcQueue).kind = "load"
  BY DEF Control!TypeOK, Control!Takes, ControlMessages
<1>2. 1 \in 1..Len(pcQueue) /\ pcQueue[1] = Head(pcQueue)
  BY <1>1
<1> QED BY <1>1, <1>2 DEF ControlLoadFirst

LEMMA ControlJobsAppended ==
  ASSUME pcJobs \in Seq(ControlJobs), NEW j \in ControlJobs, pcJobs' = Append(pcJobs, j)
  PROVE  /\ pcJobs' \in Seq(ControlJobs) /\ Len(pcJobs) \in Nat /\ Len(pcJobs') = Len(pcJobs) + 1
         /\ pcJobs'[Len(pcJobs')] = j /\ \A i \in 1..Len(pcJobs) : pcJobs'[i] = pcJobs[i]
OBVIOUS

LEMMA ControlJobsDone ==
  ASSUME pcJobs \in Seq(ControlJobs), pcJobs # <<>>, pcJobs' = Tail(pcJobs)
  PROVE  /\ pcJobs' \in Seq(ControlJobs) /\ Len(pcJobs) \in Nat \ {0} /\ Len(pcJobs') = Len(pcJobs) - 1
         /\ Head(pcJobs) = pcJobs[1] /\ Head(pcJobs) \in ControlJobs
         /\ \A i \in 1..Len(pcJobs') : pcJobs'[i] = pcJobs[i + 1]
OBVIOUS

(* What the record will be does not change with a lookup, and is what is   *)
(* saved last.                                                             *)
LEMMA ControlWillBeKept ==
  ASSUME UNCHANGED <<pcJobs, pcRow, pcVersion>>, NEW a, ControlWillBe(a)
  PROVE  ControlWillBe(a)'
BY DEF ControlWillBe, ControlRowOf

LEMMA ControlWillBeSought ==
  ASSUME pcJobs \in Seq(ControlJobs), NEW j \in ControlJobs, j.kind = "lookup",
         pcJobs' = Append(pcJobs, j),
         UNCHANGED <<pcRow, pcVersion>>, NEW a, ControlWillBe(a)
  PROVE  ControlWillBe(a)'
<1>1. /\ Len(pcJobs) \in Nat /\ Len(pcJobs') = Len(pcJobs) + 1 /\ pcJobs'[Len(pcJobs) + 1] = j
      /\ \A i \in 1..Len(pcJobs) : pcJobs'[i] = pcJobs[i]
  BY ControlJobsAppended
<1>2. \A i \in 1..Len(pcJobs') : i \in 1..Len(pcJobs) \/ i = Len(pcJobs) + 1
  BY <1>1
<1>3. CASE pcRow = ControlRowOf(a) /\ \A i \in 1..Len(pcJobs) : pcJobs[i].kind = "lookup"
  BY <1>1, <1>2, <1>3 DEF ControlWillBe, ControlRowOf
<1>4. ASSUME NEW i \in 1..Len(pcJobs), pcJobs[i].kind = "save", pcJobs[i].arg = a,
             \A k \in 1..Len(pcJobs) : i < k => pcJobs[k].kind = "lookup"
      PROVE  ControlWillBe(a)'
  <2>1. i \in 1..Len(pcJobs') /\ pcJobs'[i].kind = "save" /\ pcJobs'[i].arg = a
    BY <1>1, <1>4
  <2>2. \A k \in 1..Len(pcJobs') : i < k => pcJobs'[k].kind = "lookup"
    BY <1>1, <1>2, <1>4
  <2> QED BY <2>1, <2>2 DEF ControlWillBe
<1> QED BY <1>3, <1>4 DEF ControlWillBe

LEMMA ControlWillBeSaved ==
  ASSUME pcJobs \in Seq(ControlJobs), NEW a \in Control!Positions,
         pcJobs' = Append(pcJobs, [kind |-> "save", arg |-> a])
  PROVE  ControlWillBe(a)'
<1>1. [kind |-> "save", arg |-> a] \in ControlJobs
  BY DEF ControlJobs
<1>2. /\ Len(pcJobs) \in Nat /\ Len(pcJobs') = Len(pcJobs) + 1
      /\ pcJobs'[Len(pcJobs')] = [kind |-> "save", arg |-> a]
  BY <1>1, ControlJobsAppended
<1>3. /\ Len(pcJobs') \in 1..Len(pcJobs') /\ pcJobs'[Len(pcJobs')].kind = "save"
      /\ pcJobs'[Len(pcJobs')].arg = a
  BY <1>2
<1>4. \A j \in 1..Len(pcJobs') : ~(Len(pcJobs') < j)
  BY <1>2
<1> QED BY <1>3, <1>4 DEF ControlWillBe

LEMMA ControlWillBeDone ==
  ASSUME pcJobs \in Seq(ControlJobs), pcJobs # <<>>, pcJobs' = Tail(pcJobs),
         UNCHANGED pcVersion,
         \/ Head(pcJobs).kind = "save" /\ pcRow' = ControlRowOf(Head(pcJobs).arg)
         \/ Head(pcJobs).kind = "lookup" /\ pcRow' = IF Control!Known THEN pcRow ELSE None,
         NEW a, ControlWillBe(a)
  PROVE  ControlWillBe(a)'
<1>1. /\ Len(pcJobs) \in Nat \ {0} /\ Len(pcJobs') = Len(pcJobs) - 1 /\ Head(pcJobs) = pcJobs[1]
      /\ \A i \in 1..Len(pcJobs') : pcJobs'[i] = pcJobs[i + 1]
  BY ControlJobsDone
<1>2. /\ 1 \in 1..Len(pcJobs) /\ \A i \in 1..Len(pcJobs') : i + 1 \in 1..Len(pcJobs)
      /\ \A i \in 1..Len(pcJobs) : i # 1 => i - 1 \in 1..Len(pcJobs') /\ pcJobs'[i - 1] = pcJobs[i]
  BY <1>1
<1>3. CASE pcRow = ControlRowOf(a) /\ \A i \in 1..Len(pcJobs) : pcJobs[i].kind = "lookup"
  <2>1. pcRow' = ControlRowOf(a)'
    BY <1>1, <1>2, <1>3 DEF ControlRowOf, Control!Known
  <2> QED BY <1>1, <1>2, <1>3, <2>1 DEF ControlWillBe
<1>4. ASSUME NEW i \in 1..Len(pcJobs), pcJobs[i].kind = "save", pcJobs[i].arg = a,
             \A k \in 1..Len(pcJobs) : i < k => pcJobs[k].kind = "lookup"
      PROVE  ControlWillBe(a)'
  <2>1. CASE i = 1
    <3>1. pcRow' = ControlRowOf(a)'
      BY <1>1, <1>4, <2>1 DEF ControlRowOf
    <3>2. \A k \in 1..Len(pcJobs') : pcJobs'[k].kind = "lookup"
      BY <1>1, <1>2, <1>4, <2>1
    <3> QED BY <3>1, <3>2 DEF ControlWillBe
  <2>2. CASE i # 1
    <3>1. i - 1 \in 1..Len(pcJobs') /\ pcJobs'[i - 1].kind = "save" /\ pcJobs'[i - 1].arg = a
      BY <1>2, <1>4, <2>2
    <3>2. \A k \in 1..Len(pcJobs') : i - 1 < k => pcJobs'[k].kind = "lookup"
      BY <1>1, <1>2, <1>4
    <3> QED BY <3>1, <3>2 DEF ControlWillBe
  <2> QED BY <2>1, <2>2
<1> QED BY <1>3, <1>4 DEF ControlWillBe

(* What capture enqueues, or has enqueued before.                          *)
LEMMA ControlSavesWillBe ==
  ASSUME Control!ControlAssumption, Control!TypeOK, ControlRecorded, ~pcGhost.spoilt,
         NEW p \in Control!Positions, NEW eof \in BOOLEAN,
         pcJobs' = Control!Saves(p, eof), UNCHANGED <<pcRow, pcVersion>>
  PROVE  ControlWillBe(Control!Record(p, eof))'
<1>1. Control!Record(p, eof) \in Control!Positions /\ pcJobs \in Seq(ControlJobs) /\ Control!Record(p, eof) # None
  BY DEF Control!Record, Control!Positions, Control!TypeOK, ControlJobs,
    Control!ControlAssumption
<1>2. CASE pcCtl.captured = Control!Record(p, eof)
  BY <1>1, <1>2, ControlWillBeKept DEF Control!Saves, ControlRecorded
<1>3. CASE pcCtl.captured # Control!Record(p, eof)
  BY <1>1, <1>3, ControlWillBeSaved DEF Control!Saves
<1> QED BY <1>2, <1>3

LEMMA ControlSavesTyped ==
  ASSUME Control!ControlAssumption, Control!TypeOK, ControlLookupLast,
         NEW p \in Control!Positions, NEW eof \in BOOLEAN,
         pcJobs' = Control!Saves(p, eof), UNCHANGED pcCount, pcCtl.thread = "running"
  PROVE  /\ pcJobs' \in Seq(ControlJobs) /\ Control!Record(p, eof) \in Control!Positions
         /\ \A i \in 1..Len(pcJobs') : pcJobs'[i].kind = "lookup" => pcJobs'[i].arg <= pcCount'.sent
<1> DEFINE j == [kind |-> "save", arg |-> Control!Record(p, eof)]
<1>1. Control!Record(p, eof) \in Control!Positions /\ pcJobs \in Seq(ControlJobs)
  BY DEF Control!Record, Control!Positions, Control!TypeOK, ControlJobs,
    Control!ControlAssumption
<1>2. j \in ControlJobs /\ j.kind = "save"
  BY <1>1 DEF ControlJobs
<1> HIDE DEF j
<1>3. CASE pcJobs' = pcJobs
  BY <1>1, <1>3 DEF ControlLookupLast
<1>4. CASE pcJobs' = Append(pcJobs, j)
  <2>1. /\ pcJobs' \in Seq(ControlJobs) /\ Len(pcJobs) \in Nat /\ Len(pcJobs') = Len(pcJobs) + 1
        /\ pcJobs'[Len(pcJobs')] = j /\ \A i \in 1..Len(pcJobs) : pcJobs'[i] = pcJobs[i]
    BY <1>1, <1>2, <1>4, ControlJobsAppended
  <2>2. \A i \in 1..Len(pcJobs') : i \in 1..Len(pcJobs) \/ i = Len(pcJobs')
    BY <2>1
  <2> QED BY <1>1, <1>2, <2>1, <2>2 DEF ControlLookupLast
<1> QED BY <1>1, <1>3, <1>4 DEF Control!Saves, j

-----------------------------------------------------------------------------
(* The window and the worker.                                              *)

LEMMA ControlTypes ==
  ASSUME Control!TypeOK
  PROVE  /\ pcCtl \in ControlControls /\ pcMpv \in ControlFiles /\ pcQueue \in Seq(ControlMessages) /\ pcJobs \in Seq(ControlJobs)
         /\ pcRow \in Control!Rows \cup {None} /\ pcVersion \in {1, 2}
         /\ pcCount \in [sent : 0..pcMaxRequests, opens : 0..pcMaxOpens, faults : Nat]
         /\ pcGhost \in [volume : pcLevels, left : Control!Positions \cup {None}, spoilt : BOOLEAN]
         /\ pcAnswer \in [Control!Requests -> {"none", "ok", "error"}]
BY DEF Control!TypeOK, ControlControls, ControlLives, ControlFiles, ControlMessages,
  ControlJobs

LEMMA ControlTypesBack ==
  ASSUME pcCtl' \in ControlControls, pcMpv' \in ControlFiles,
         pcQueue' \in Seq(ControlMessages), pcJobs' \in Seq(ControlJobs),
         pcRow' \in Control!Rows \cup {None}, pcVersion' \in {1, 2},
         pcCount' \in [sent : 0..pcMaxRequests, opens : 0..pcMaxOpens, faults : Nat],
         pcGhost' \in [volume : pcLevels, left : Control!Positions \cup {None}, spoilt : BOOLEAN],
         pcAnswer' \in [Control!Requests -> {"none", "ok", "error"}]
  PROVE  Control!TypeOK'
BY DEF Control!TypeOK, ControlControls, ControlLives, ControlFiles, ControlMessages,
  ControlJobs

LEMMA ControlClosedTyped ==
  ASSUME Control!ControlAssumption
  PROVE  /\ Control!Closed \in ControlControls /\ Control!NoFile \in ControlFiles /\ Control!NoFile.level \in pcLevels
         /\ Control!NoFile.file = "none" /\ Control!NoFile.pause
<1>1. (CHOOSE v \in pcLevels : TRUE) \in pcLevels
  BY DEF Control!ControlAssumption
<1>2. 0 \in Control!Positions
  BY DEF Control!Positions, Control!ControlAssumption
<1> DEFINE v == CHOOSE w \in pcLevels : TRUE
<1>3. Control!NoFile = [file |-> "none", pause |-> TRUE, pos |-> 0, seeking |-> FALSE,
                target |-> 0, level |-> v]
  BY DEF Control!NoFile
<1>4. v \in pcLevels
  BY <1>1
<1> HIDE DEF v
<1>5. Control!NoFile \in ControlFiles /\ Control!NoFile.level \in pcLevels /\ Control!NoFile.file = "none" /\ Control!NoFile.pause
  BY <1>2, <1>3, <1>4 DEF ControlFiles
<1>6. Control!Closed \in ControlControls
  BY DEF Control!Closed, ControlControls, ControlLives
<1> QED BY <1>5, <1>6

LEMMA ControlInitHolds == ASSUME Control!ControlAssumption, Control!Init PROVE ControlIInv
<1>1. /\ pcCtl = Control!Closed /\ pcMpv = Control!NoFile /\ pcQueue = <<>> /\ pcJobs = <<>> /\ pcRow = None /\ pcVersion = 1
      /\ pcCount = [sent |-> 0, opens |-> 0, faults |-> 0]
      /\ pcGhost = [volume |-> Control!NoFile.level, left |-> None, spoilt |-> FALSE]
      /\ pcAnswer = [r \in Control!Requests |-> "none"]
  BY DEF Control!Init
<1>2. Control!TypeOK
  <2>1. pcCtl \in ControlControls /\ pcMpv \in ControlFiles /\ Control!NoFile.level \in pcLevels
    BY <1>1, ControlClosedTyped
  <2>2. pcQueue \in Seq(ControlMessages) /\ pcJobs \in Seq(ControlJobs)
    BY <1>1
  <2>3. pcCount \in [sent : 0..pcMaxRequests, opens : 0..pcMaxOpens, faults : Nat]
    BY <1>1 DEF Control!ControlAssumption
  <2>4. pcGhost \in [volume : pcLevels, left : Control!Positions \cup {None}, spoilt : BOOLEAN]
    BY <1>1, <2>1
  <2>5. pcAnswer \in [Control!Requests -> {"none", "ok", "error"}]
    BY <1>1
  <2> QED BY <1>1, <2>1, <2>2, <2>3, <2>4, <2>5 DEF Control!TypeOK, ControlControls,
      ControlLives, ControlFiles, ControlMessages, ControlJobs
<1>3. /\ pcCtl.thread = "none" /\ pcCtl.captured = None /\ ~pcCtl.interrupted /\ ~pcCtl.vo /\ ~pcCtl.ready
      /\ ~pcCtl.current /\ pcMpv.file = "none" /\ Len(pcQueue) = 0 /\ Len(pcJobs) = 0
      /\ pcGhost.left = None
  BY <1>1, ControlClosedTyped DEF Control!Closed
<1>4. ControlLoadFirst /\ ControlLoading /\ ControlPauseHolds /\ ControlVolumeKnown
  BY <1>1, <1>3 DEF ControlLoadFirst, ControlLoading, ControlPauseHolds,
    ControlVolumeKnown
<1>5. ControlLookupLast /\ ControlRecorded
  BY <1>1, <1>3 DEF ControlLookupLast, ControlRecorded
<1> QED BY <1>2, <1>4, <1>5 DEF ControlIInv

(* A session begins with its load, and nothing of the one before it.       *)
LEMMA ControlBeginsKeeps ==
  ASSUME Control!ControlAssumption, ControlIInv, pcCtl.thread = "lookup",
         NEW t \in Control!Positions \cup {None}, Control!Begins(t),
         UNCHANGED pcAnswer
  PROVE  /\ pcCtl' \in ControlControls /\ pcMpv' \in ControlFiles /\ pcQueue' \in Seq(ControlMessages)
         /\ pcGhost' \in [volume : pcLevels, left : Control!Positions \cup {None}, spoilt : BOOLEAN]
         /\ pcGhost'.left = pcGhost.left /\ pcGhost'.spoilt = pcGhost.spoilt
         /\ pcCtl'.thread = "running" /\ pcCtl'.captured = None /\ pcCtl'.resume = t
         /\ ControlLoadFirst' /\ ControlLoading' /\ ControlPauseHolds' /\ ControlVolumeKnown'
<1>1. /\ pcCount.sent \in Control!Requests
      /\ pcGhost \in [volume : pcLevels, left : Control!Positions \cup {None}, spoilt : BOOLEAN]
  <2>1. /\ pcJobs \in Seq(ControlJobs) /\ pcCount.sent \in 0..pcMaxRequests /\ pcJobs # <<>>
        /\ pcJobs[Len(pcJobs)].kind = "lookup" /\ pcMaxRequests \in Nat
        /\ \A i \in 1..Len(pcJobs) : pcJobs[i].kind = "lookup" => pcJobs[i].arg <= pcCount.sent
        /\ pcGhost \in [volume : pcLevels, left : Control!Positions \cup {None}, spoilt : BOOLEAN]
    BY ControlTypes DEF ControlIInv, ControlLookupLast, Control!ControlAssumption
  <2>2. Len(pcJobs) \in 1..Len(pcJobs) /\ pcJobs[Len(pcJobs)] \in ControlJobs
    BY <2>1
  <2>3. pcJobs[Len(pcJobs)].arg \in Control!Requests
    BY <2>1, <2>2 DEF ControlJobs
  <2> QED BY <2>1, <2>2, <2>3 DEF Control!Requests
<1>2. /\ pcCtl' = [Control!Closed EXCEPT !.thread = "running", !.life = "opening", !.resume = t]
      /\ pcMpv' = Control!NoFile /\ pcGhost' = [pcGhost EXCEPT !.volume = Control!NoFile.level]
      /\ pcQueue' = <<[kind |-> "load", id |-> pcCount.sent]>>
  BY DEF Control!Begins
<1>3. /\ pcCtl' \in ControlControls /\ pcCtl'.thread = "running" /\ pcCtl'.captured = None /\ pcCtl'.resume = t
      /\ pcCtl'.load = None /\ ~pcCtl'.vo /\ ~pcCtl'.ready /\ ~pcCtl'.current /\ ~pcCtl'.restoring
      /\ ~pcCtl'.interrupted /\ pcCtl'.seek = None /\ pcCtl'.volume = None
  BY <1>2 DEF Control!Closed, ControlControls, ControlLives
<1>4. pcMpv' \in ControlFiles /\ pcMpv'.level \in pcLevels /\ pcMpv'.file = "none"
  BY <1>2, ControlClosedTyped
<1>5. /\ pcGhost' \in [volume : pcLevels, left : Control!Positions \cup {None}, spoilt : BOOLEAN]
      /\ pcGhost'.volume = pcMpv'.level /\ pcGhost'.left = pcGhost.left /\ pcGhost'.spoilt = pcGhost.spoilt
  BY <1>1, <1>2, <1>4
<1>6. pcQueue' \in Seq(ControlMessages)
  <2>1. [kind |-> "load", id |-> pcCount.sent] \in ControlMessages
    BY <1>1 DEF ControlMessages
  <2> QED BY <1>2, <2>1
<1>7. \A i \in 1..Len(pcQueue') : i = 1
  BY <1>2
<1> HIDE DEF Control!Begins
<1>8. ControlLoadFirst' /\ ControlLoading'
  BY <1>3, <1>4, <1>7 DEF ControlLoadFirst, ControlLoading
<1>9. ControlPauseHolds' /\ ControlVolumeKnown'
  BY <1>3, <1>5 DEF ControlPauseHolds, ControlVolumeKnown
<1> QED BY <1>3, <1>4, <1>5, <1>6, <1>8, <1>9

LEMMA ControlOpenKeeps ==
  ASSUME Control!ControlAssumption, ControlIInv, Control!Open
  PROVE  ControlIInv'
<1>1. /\ pcCtl \in ControlControls /\ pcMpv \in ControlFiles /\ pcQueue \in Seq(ControlMessages) /\ pcJobs \in Seq(ControlJobs)
      /\ pcCount \in [sent : 0..pcMaxRequests, opens : 0..pcMaxOpens, faults : Nat]
      /\ pcMaxOpens \in Nat /\ pcMaxRequests \in Nat
  BY ControlTypes DEF ControlIInv, Control!ControlAssumption
<1> DEFINE n == pcCount.sent + 1
           j == [kind |-> "lookup", arg |-> n]
<1>2. /\ pcCtl.thread \in {"none", "ended"} /\ <<n, pcCount.faults>> \in pcBounds
      /\ pcCount' = [pcCount EXCEPT !.opens = @ + 1, !.sent = @ + 1] /\ pcCount.opens < pcMaxOpens
      /\ pcCtl' = [Control!Closed EXCEPT !.thread = "lookup"] /\ pcJobs' = Append(pcJobs, j)
      /\ UNCHANGED <<pcMpv, pcQueue, pcAnswer, pcRow, pcVersion, pcGhost>>
  BY DEF Control!Open, Control!Within
<1>3. n \in Control!Requests /\ n \in 0..pcMaxRequests /\ pcCount'.sent = n
  <2>1. n \in 0..pcMaxRequests
    BY <1>2 DEF Control!ControlAssumption
  <2> QED BY <1>1, <1>2, <2>1 DEF Control!Requests
<1>4. pcCount' \in [sent : 0..pcMaxRequests, opens : 0..pcMaxOpens, faults : Nat]
  <2> DEFINE o == pcCount.opens + 1
  <2>1. o \in 0..pcMaxOpens /\ pcCount' = [pcCount EXCEPT !.opens = o, !.sent = n]
    BY <1>1, <1>2
  <2> HIDE DEF o, n
  <2> QED BY <1>1, <1>3, <2>1
<1>5. j \in ControlJobs /\ j.kind = "lookup" /\ j.arg = n
  BY <1>3 DEF ControlJobs
<1>6. /\ pcCtl' \in ControlControls /\ pcCtl'.thread = "lookup" /\ pcCtl'.captured = None /\ pcCtl'.load = None
      /\ ~pcCtl'.vo /\ ~pcCtl'.ready /\ ~pcCtl'.current /\ ~pcCtl'.restoring /\ ~pcCtl'.interrupted
  BY <1>2 DEF Control!Closed, ControlControls, ControlLives
<1>7. pcQueue = <<>> /\ pcMpv.file = "none" /\ pcCtl.captured = None
  BY <1>2 DEF ControlIInv, ControlLoadFirst
<1>8. /\ pcJobs' \in Seq(ControlJobs) /\ Len(pcJobs) \in Nat /\ Len(pcJobs') = Len(pcJobs) + 1
      /\ pcJobs'[Len(pcJobs')] = j /\ \A i \in 1..Len(pcJobs) : pcJobs'[i] = pcJobs[i]
      /\ \A i \in 1..Len(pcJobs') : i \in 1..Len(pcJobs) \/ i = Len(pcJobs')
  <2>1. /\ pcJobs' \in Seq(ControlJobs) /\ Len(pcJobs) \in Nat /\ Len(pcJobs') = Len(pcJobs) + 1
        /\ pcJobs'[Len(pcJobs')] = j /\ \A i \in 1..Len(pcJobs) : pcJobs'[i] = pcJobs[i]
    BY <1>1, <1>2, <1>5, ControlJobsAppended
  <2> QED BY <2>1
<1>9. Control!TypeOK'
  BY <1>1, <1>2, <1>4, <1>6, <1>8, ControlTypes, ControlTypesBack DEF ControlIInv
<1>10. ControlLoadFirst' /\ ControlLoading' /\ ControlPauseHolds' /\ ControlVolumeKnown'
  <2>1. pcMpv'.file = "none"
    BY <1>2, <1>7
  <2>2. Len(pcQueue') = 0
    BY <1>2, <1>7
  <2> QED BY <1>2, <1>6, <1>7, <2>1, <2>2 DEF ControlLoadFirst, ControlLoading,
      ControlPauseHolds, ControlVolumeKnown
<1>11. ControlLookupLast'
  <2>1. \A i \in 1..Len(pcJobs) : pcJobs[i].kind = "lookup" => pcJobs[i].arg \in Nat /\ pcJobs[i].arg < n
    BY <1>1 DEF ControlIInv, ControlLookupLast, ControlJobs, Control!Requests
  <2> HIDE DEF n, j
  <2> QED BY <1>2, <1>3, <1>5, <1>8, <2>1 DEF ControlLookupLast
<1>12. ControlRecorded'
  <2>1. ~pcGhost.spoilt /\ pcGhost.left # None => ControlWillBe(pcGhost.left)
    BY <1>7 DEF ControlIInv, ControlRecorded
  <2>2. ~pcGhost.spoilt /\ pcGhost.left # None => ControlWillBe(pcGhost.left)'
    <3> HIDE DEF j
    <3> QED BY <1>1, <1>2, <1>5, <2>1, ControlWillBeSought
  <2> QED BY <1>2, <1>6, <2>2 DEF ControlRecorded
<1> QED BY <1>9, <1>10, <1>11, <1>12 DEF ControlIInv

LEMMA ControlRequestKeeps ==
  ASSUME Control!ControlAssumption, ControlIInv, NEW kind \in pcKinds, Control!Request(kind)
  PROVE  ControlIInv'
<1>1. /\ pcCtl \in ControlControls /\ pcMpv \in ControlFiles /\ pcQueue \in Seq(ControlMessages) /\ pcJobs \in Seq(ControlJobs)
      /\ pcCount \in [sent : 0..pcMaxRequests, opens : 0..pcMaxOpens, faults : Nat]
      /\ pcMaxRequests \in Nat
  BY ControlTypes DEF ControlIInv, Control!ControlAssumption
<1> DEFINE n == pcCount.sent + 1
           m == [kind |-> kind, id |-> n]
<1>2. /\ pcCtl.thread = "running" /\ <<n, pcCount.faults>> \in pcBounds
      /\ pcCount' = [pcCount EXCEPT !.sent = @ + 1] /\ pcQueue' = Append(pcQueue, m)
      /\ UNCHANGED <<pcCtl, pcMpv, pcAnswer, pcJobs, pcRow, pcVersion, pcGhost>>
  BY DEF Control!Request, Control!Within
<1>3. n \in Control!Requests /\ n \in 0..pcMaxRequests /\ pcCount'.sent = n
  <2>1. n \in 0..pcMaxRequests
    BY <1>2 DEF Control!ControlAssumption
  <2> QED BY <1>1, <1>2, <2>1 DEF Control!Requests
<1>4. pcCount' \in [sent : 0..pcMaxRequests, opens : 0..pcMaxOpens, faults : Nat]
  <2>1. pcCount' = [pcCount EXCEPT !.sent = n]
    BY <1>1, <1>2
  <2> HIDE DEF n
  <2> QED BY <1>1, <1>3, <2>1
<1>5. m \in ControlMessages /\ m.kind # "load"
  BY <1>3 DEF ControlMessages, Control!ControlAssumption
<1>6. /\ pcQueue' \in Seq(ControlMessages) /\ Len(pcQueue) \in Nat /\ Len(pcQueue') = Len(pcQueue) + 1
      /\ pcQueue'[Len(pcQueue')] = m /\ \A i \in 1..Len(pcQueue) : pcQueue'[i] = pcQueue[i]
  <2> HIDE DEF m
  <2> QED BY <1>1, <1>2, <1>5
<1>7. \A i \in 1..Len(pcQueue') : i \in 1..Len(pcQueue) \/ i = Len(pcQueue')
  BY <1>6
<1>8. Control!TypeOK'
  BY <1>1, <1>2, <1>4, <1>6, ControlTypes, ControlTypesBack DEF ControlIInv
<1> HIDE DEF m, n
<1>9. ControlLoadFirst'
  BY <1>2, <1>5, <1>6, <1>7 DEF ControlIInv, ControlLoadFirst
<1>10. ControlLoading' /\ ControlPauseHolds' /\ ControlVolumeKnown'
  BY <1>2 DEF ControlIInv, ControlLoading, ControlPauseHolds, ControlVolumeKnown
<1>11. ControlLookupLast'
  <2>1. \A i \in 1..Len(pcJobs) : pcJobs[i].kind = "lookup" => pcJobs[i].arg \in Nat /\ pcJobs[i].arg <= n
    BY <1>1 DEF ControlIInv, ControlLookupLast, ControlJobs, Control!Requests, n
  <2> QED BY <1>2, <1>3, <2>1 DEF ControlLookupLast
<1>12. ControlRecorded'
  BY <1>2, ControlWillBeKept DEF ControlIInv, ControlRecorded
<1> QED BY <1>8, <1>9, <1>10, <1>11, <1>12 DEF ControlIInv

(* A job that is done leaves the queue, and the lookup that is awaited is   *)
(* still the last one.                                                     *)
LEMMA ControlJobGone ==
  ASSUME Control!ControlAssumption, ControlIInv, pcJobs # <<>>, pcJobs' = Tail(pcJobs)
  PROVE  /\ pcJobs' \in Seq(ControlJobs)
         /\ \A i \in 1..Len(pcJobs') : pcJobs'[i].kind = "lookup" => pcJobs'[i].arg <= pcCount.sent
         /\ pcCtl.thread = "lookup" /\ ~(Head(pcJobs).kind = "lookup" /\ Head(pcJobs).arg = pcCount.sent) =>
              /\ pcJobs' # <<>> /\ pcJobs'[Len(pcJobs')].kind = "lookup"
              /\ pcJobs'[Len(pcJobs')].arg = pcCount.sent
              /\ \A i \in 1..Len(pcJobs') :
                   i # Len(pcJobs') /\ pcJobs'[i].kind = "lookup" => pcJobs'[i].arg < pcCount.sent
<1>1. /\ pcJobs \in Seq(ControlJobs) /\ pcRow \in Control!Rows \cup {None} /\ pcVersion \in {1, 2}
      /\ pcCount.sent \in Nat
  BY ControlTypes DEF ControlIInv, Control!ControlAssumption
<1>2. /\ pcJobs' \in Seq(ControlJobs) /\ Len(pcJobs) \in Nat \ {0} /\ Len(pcJobs') = Len(pcJobs) - 1
      /\ Head(pcJobs) = pcJobs[1] /\ Head(pcJobs) \in ControlJobs
      /\ \A i \in 1..Len(pcJobs') : pcJobs'[i] = pcJobs[i + 1] /\ i + 1 \in 1..Len(pcJobs)
  BY <1>1, ControlJobsDone
<1>3. \A i \in 1..Len(pcJobs') : pcJobs'[i].kind = "lookup" => pcJobs'[i].arg <= pcCount.sent
  BY <1>2 DEF ControlIInv, ControlLookupLast
<1>4. ASSUME pcCtl.thread = "lookup", ~(Head(pcJobs).kind = "lookup" /\ Head(pcJobs).arg = pcCount.sent)
      PROVE  /\ pcJobs' # <<>> /\ pcJobs'[Len(pcJobs')].kind = "lookup"
             /\ pcJobs'[Len(pcJobs')].arg = pcCount.sent
             /\ \A i \in 1..Len(pcJobs') :
                  i # Len(pcJobs') /\ pcJobs'[i].kind = "lookup" => pcJobs'[i].arg < pcCount.sent
  <2>1. /\ pcJobs[Len(pcJobs)].kind = "lookup" /\ pcJobs[Len(pcJobs)].arg = pcCount.sent
        /\ \A i \in 1..Len(pcJobs) :
             i # Len(pcJobs) /\ pcJobs[i].kind = "lookup" => pcJobs[i].arg < pcCount.sent
    BY <1>4 DEF ControlIInv, ControlLookupLast
  <2>2. Len(pcJobs) # 1
    BY <1>2, <1>4, <2>1
  <2> DEFINE n == Len(pcJobs)  m == Len(pcJobs')
  <2>a. /\ n \in Nat \ {0} /\ m = n - 1 /\ n # 1 /\ pcJobs' \in Seq(ControlJobs)
        /\ \A i \in 1..m : pcJobs'[i] = pcJobs[i + 1] /\ i + 1 \in 1..n
    BY <1>2, <2>2
  <2>b. pcJobs' = <<>> => m = 0
    OBVIOUS
  <2> HIDE DEF n, m
  <2>c. m \in 1..m /\ m + 1 = n /\ m # 0 /\ \A i \in 1..m : i # m => i + 1 # n
    BY <2>a
  <2>3. pcJobs' # <<>> /\ m \in 1..m /\ pcJobs'[m] = pcJobs[n]
    BY <2>a, <2>b, <2>c
  <2>4. \A i \in 1..m : i # m => i + 1 # n
    BY <2>c
  <2> USE DEF n, m
  <2> QED BY <1>2, <2>1, <2>3, <2>4
<1> QED BY <1>2, <1>3, <1>4

LEMMA ControlJobDoneKeeps ==
  ASSUME Control!ControlAssumption, ControlIInv, pcJobs # <<>>, pcJobs' = Tail(pcJobs),
         UNCHANGED pcVersion,
         \/ Head(pcJobs).kind = "save" /\ pcRow' = ControlRowOf(Head(pcJobs).arg)
         \/ Head(pcJobs).kind = "lookup" /\ pcRow' = IF Control!Known THEN pcRow ELSE None
  PROVE  /\ pcJobs' \in Seq(ControlJobs) /\ pcRow' \in Control!Rows \cup {None}
         /\ \A i \in 1..Len(pcJobs') : pcJobs'[i].kind = "lookup" => pcJobs'[i].arg <= pcCount.sent
         /\ pcCtl.thread = "lookup" /\ ~(Head(pcJobs).kind = "lookup" /\ Head(pcJobs).arg = pcCount.sent) =>
              /\ pcJobs' # <<>> /\ pcJobs'[Len(pcJobs')].kind = "lookup"
              /\ pcJobs'[Len(pcJobs')].arg = pcCount.sent
              /\ \A i \in 1..Len(pcJobs') :
                   i # Len(pcJobs') /\ pcJobs'[i].kind = "lookup" => pcJobs'[i].arg < pcCount.sent
         /\ \A a : ControlWillBe(a) => ControlWillBe(a)'
<1>1. /\ pcJobs \in Seq(ControlJobs) /\ pcRow \in Control!Rows \cup {None} /\ pcVersion \in {1, 2}
  BY ControlTypes DEF ControlIInv
<1>2. Head(pcJobs) \in ControlJobs
  BY <1>1, ControlJobsDone
<1>3. pcRow' \in Control!Rows \cup {None}
  <2>1. CASE Head(pcJobs).kind = "save" /\ pcRow' = ControlRowOf(Head(pcJobs).arg)
    <3>1. Head(pcJobs).arg \in Control!Positions
      BY <1>2, <2>1 DEF ControlJobs
    <3> QED BY <1>1, <2>1, <3>1 DEF ControlRowOf, Control!Rows
  <2>2. CASE pcRow' = IF Control!Known THEN pcRow ELSE None
    BY <1>1, <2>2
  <2> QED BY <2>1, <2>2
<1>4. \A a : ControlWillBe(a) => ControlWillBe(a)'
  BY <1>1, ControlWillBeDone
<1> QED BY <1>3, <1>4, ControlJobGone

LEMMA ControlWorkerKeeps ==
  ASSUME Control!ControlAssumption, ControlIInv, Control!WorkerSaves \/ Control!WorkerFails
  PROVE  ControlIInv'
<1>1. /\ pcCtl \in ControlControls /\ pcJobs \in Seq(ControlJobs) /\ pcMaxRequests \in Nat
      /\ pcCount \in [sent : 0..pcMaxRequests, opens : 0..pcMaxOpens, faults : Nat]
      /\ pcGhost \in [volume : pcLevels, left : Control!Positions \cup {None}, spoilt : BOOLEAN]
  BY ControlTypes DEF ControlIInv, Control!ControlAssumption
<1>2. /\ pcJobs # <<>> /\ pcJobs' = Tail(pcJobs) /\ Head(pcJobs).kind = "save"
      /\ UNCHANGED <<pcCtl, pcMpv, pcQueue, pcAnswer, pcVersion>>
  BY DEF Control!WorkerSaves, Control!WorkerFails
<1>3. pcCtl.thread = "running" => ~(pcCtl.resume # None /\ ~pcGhost.spoilt)
  BY <1>2 DEF ControlIInv, ControlRecorded
<1>4. CASE Control!WorkerSaves
  <2>1. pcRow' = ControlRowOf(Head(pcJobs).arg) /\ UNCHANGED <<pcCount, pcGhost>>
    BY <1>4 DEF Control!WorkerSaves, ControlRowOf
  <2>2. /\ pcJobs' \in Seq(ControlJobs) /\ pcRow' \in Control!Rows \cup {None}
        /\ \A i \in 1..Len(pcJobs') : pcJobs'[i].kind = "lookup" => pcJobs'[i].arg <= pcCount.sent
        /\ pcCtl.thread = "lookup" =>
             /\ pcJobs' # <<>> /\ pcJobs'[Len(pcJobs')].kind = "lookup"
             /\ pcJobs'[Len(pcJobs')].arg = pcCount.sent
             /\ \A i \in 1..Len(pcJobs') :
                  i # Len(pcJobs') /\ pcJobs'[i].kind = "lookup" => pcJobs'[i].arg < pcCount.sent
        /\ \A a : ControlWillBe(a) => ControlWillBe(a)'
    BY <1>2, <2>1, ControlJobDoneKeeps
  <2>3. Control!TypeOK'
    BY <1>2, <2>1, <2>2, ControlTypes, ControlTypesBack DEF ControlIInv
  <2>4. ControlLoadFirst' /\ ControlLoading' /\ ControlPauseHolds' /\ ControlVolumeKnown'
    BY <1>2, <2>1 DEF ControlIInv, ControlLoadFirst, ControlLoading, ControlPauseHolds,
      ControlVolumeKnown
  <2>5. ControlLookupLast'
    BY <1>2, <2>1, <2>2 DEF ControlLookupLast
  <2>6. ControlRecorded'
    BY <1>2, <1>3, <2>1, <2>2 DEF ControlIInv, ControlRecorded
  <2> QED BY <2>3, <2>4, <2>5, <2>6 DEF ControlIInv
<1>5. CASE Control!WorkerFails
  <2> DEFINE n == pcCount.faults + 1
  <2>1. /\ pcCount' = [pcCount EXCEPT !.faults = n] /\ UNCHANGED pcRow
        /\ pcGhost' = [pcGhost EXCEPT !.spoilt = TRUE] /\ n \in Nat
    BY <1>1, <1>5 DEF Control!WorkerFails, Control!Fault
  <2> HIDE DEF n
  <2>2. /\ pcCount' \in [sent : 0..pcMaxRequests, opens : 0..pcMaxOpens, faults : Nat]
        /\ pcCount'.sent = pcCount.sent
    BY <1>1, <2>1
  <2>3. /\ pcGhost' \in [volume : pcLevels, left : Control!Positions \cup {None}, spoilt : BOOLEAN]
        /\ pcGhost'.spoilt /\ pcGhost'.volume = pcGhost.volume
    BY <1>1, <2>1
  <2>4. /\ pcJobs' \in Seq(ControlJobs)
        /\ \A i \in 1..Len(pcJobs') : pcJobs'[i].kind = "lookup" => pcJobs'[i].arg <= pcCount.sent
        /\ pcCtl.thread = "lookup" =>
             /\ pcJobs' # <<>> /\ pcJobs'[Len(pcJobs')].kind = "lookup"
             /\ pcJobs'[Len(pcJobs')].arg = pcCount.sent
             /\ \A i \in 1..Len(pcJobs') :
                  i # Len(pcJobs') /\ pcJobs'[i].kind = "lookup" => pcJobs'[i].arg < pcCount.sent
    BY <1>2, ControlJobGone
  <2>5. Control!TypeOK'
    BY <1>2, <2>1, <2>2, <2>3, <2>4, ControlTypes, ControlTypesBack DEF ControlIInv
  <2>6. ControlLoadFirst' /\ ControlLoading' /\ ControlPauseHolds' /\ ControlVolumeKnown'
    BY <1>2, <2>3 DEF ControlIInv, ControlLoadFirst, ControlLoading, ControlPauseHolds,
      ControlVolumeKnown
  <2>7. ControlLookupLast'
    BY <1>2, <2>2, <2>4 DEF ControlLookupLast
  <2>8. ControlRecorded'
    BY <2>3 DEF ControlRecorded
  <2> QED BY <2>5, <2>6, <2>7, <2>8 DEF ControlIInv
<1> QED BY <1>4, <1>5

LEMMA ControlLookupKeeps ==
  ASSUME Control!ControlAssumption, ControlIInv,
         Control!WorkerLooks \/ Control!LookupLate \/ Control!FileChanges
  PROVE  ControlIInv'
<1>1. /\ pcCtl \in ControlControls /\ pcJobs \in Seq(ControlJobs) /\ pcMaxRequests \in Nat
      /\ pcCount \in [sent : 0..pcMaxRequests, opens : 0..pcMaxOpens, faults : Nat]
      /\ pcGhost \in [volume : pcLevels, left : Control!Positions \cup {None}, spoilt : BOOLEAN]
      /\ pcRow \in Control!Rows \cup {None} /\ pcVersion \in {1, 2}
  BY ControlTypes DEF ControlIInv, Control!ControlAssumption
<1>2. CASE Control!WorkerLooks
  <2> DEFINE t == IF Control!Known THEN pcRow.pos ELSE None
  <2>1. /\ pcJobs # <<>> /\ pcJobs' = Tail(pcJobs) /\ Head(pcJobs).kind = "lookup"
        /\ pcRow' = (IF Control!Known THEN pcRow ELSE None) /\ UNCHANGED <<pcAnswer, pcVersion, pcCount>>
    BY <1>2 DEF Control!WorkerLooks
  <2>2. /\ pcJobs' \in Seq(ControlJobs) /\ pcRow' \in Control!Rows \cup {None}
        /\ \A i \in 1..Len(pcJobs') : pcJobs'[i].kind = "lookup" => pcJobs'[i].arg <= pcCount.sent
        /\ \A a : ControlWillBe(a) => ControlWillBe(a)'
    BY <2>1, ControlJobDoneKeeps
  <2>3. CASE pcCtl.thread = "lookup" /\ Head(pcJobs).arg = pcCount.sent
    <3>1. t \in Control!Positions \cup {None} /\ Control!Begins(t)
      BY <1>1, <1>2, <2>3 DEF Control!WorkerLooks, Control!Known, Control!Rows
    <3>2. t # None => pcRow' = [pos |-> t, version |-> pcVersion]
      BY <1>1, <2>1 DEF Control!Known, Control!Rows
    <3> HIDE DEF t
    <3>3. /\ pcCtl' \in ControlControls /\ pcMpv' \in ControlFiles /\ pcQueue' \in Seq(ControlMessages)
          /\ pcGhost' \in [volume : pcLevels, left : Control!Positions \cup {None}, spoilt : BOOLEAN]
          /\ pcGhost'.left = pcGhost.left /\ pcGhost'.spoilt = pcGhost.spoilt
          /\ pcCtl'.thread = "running" /\ pcCtl'.captured = None /\ pcCtl'.resume = t
          /\ ControlLoadFirst' /\ ControlLoading' /\ ControlPauseHolds' /\ ControlVolumeKnown'
      BY <2>1, <2>3, <3>1, ControlBeginsKeeps
    <3>4. pcJobs' = <<>>
      <4>1. /\ pcJobs[Len(pcJobs)].arg = pcCount.sent
            /\ \A i \in 1..Len(pcJobs) :
                 i # Len(pcJobs) /\ pcJobs[i].kind = "lookup" => pcJobs[i].arg < pcCount.sent
        BY <2>3 DEF ControlIInv, ControlLookupLast
      <4>2. /\ Len(pcJobs) \in Nat \ {0} /\ Len(pcJobs') = Len(pcJobs) - 1 /\ Head(pcJobs) = pcJobs[1]
        BY <1>1, <2>1, ControlJobsDone
      <4>3. ASSUME Len(pcJobs) # 1 PROVE FALSE
        <5>1. 1 \in 1..Len(pcJobs) /\ pcCount.sent \in Nat
          BY <1>1, <4>2
        <5>2. pcJobs[1].arg < pcCount.sent /\ pcJobs[1].arg = pcCount.sent
          BY <2>1, <2>3, <4>1, <4>2, <4>3, <5>1
        <5> QED BY <5>1, <5>2
      <4> QED BY <2>2, <4>2, <4>3
    <3>5. Control!TypeOK'
      BY <2>1, <2>2, <3>3, ControlTypes, ControlTypesBack DEF ControlIInv
    <3>6. ControlLookupLast'
      BY <2>1, <2>2, <3>3 DEF ControlLookupLast
    <3>7. pcCtl.captured = None
      BY <2>3 DEF ControlIInv, ControlLoadFirst
    <3>8. ControlRecorded'
      BY <2>1, <2>2, <3>2, <3>3, <3>4, <3>7 DEF ControlIInv, ControlRecorded
    <3> QED BY <3>3, <3>5, <3>6, <3>8 DEF ControlIInv
  <2>4. CASE ~(pcCtl.thread = "lookup" /\ Head(pcJobs).arg = pcCount.sent)
    <3>1. UNCHANGED <<pcCtl, pcMpv, pcQueue, pcGhost>>
      BY <1>2, <2>4 DEF Control!WorkerLooks
    <3>2. pcCtl.thread = "lookup" =>
            /\ pcJobs' # <<>> /\ pcJobs'[Len(pcJobs')].kind = "lookup"
            /\ pcJobs'[Len(pcJobs')].arg = pcCount.sent
            /\ \A i \in 1..Len(pcJobs') :
                 i # Len(pcJobs') /\ pcJobs'[i].kind = "lookup" => pcJobs'[i].arg < pcCount.sent
      BY <2>1, <2>4, ControlJobDoneKeeps
    <3>3. Control!TypeOK'
      BY <2>1, <2>2, <3>1, ControlTypes, ControlTypesBack DEF ControlIInv
    <3>4. ControlLoadFirst' /\ ControlLoading' /\ ControlPauseHolds' /\ ControlVolumeKnown'
      BY <3>1 DEF ControlIInv, ControlLoadFirst, ControlLoading, ControlPauseHolds,
        ControlVolumeKnown
    <3>5. ControlLookupLast'
      BY <2>1, <2>2, <3>1, <3>2 DEF ControlLookupLast
    <3>6. ControlRecorded'
      BY <2>1, <2>2, <3>1 DEF ControlIInv, ControlRecorded
    <3> QED BY <3>3, <3>4, <3>5, <3>6 DEF ControlIInv
  <2> QED BY <2>3, <2>4
<1>3. CASE Control!LookupLate
  <2> DEFINE n == pcCount.faults + 1
  <2>1. /\ pcCtl.thread = "lookup" /\ Control!Begins(None) /\ UNCHANGED <<pcAnswer, pcJobs, pcRow, pcVersion>>
        /\ pcCount' = [pcCount EXCEPT !.faults = n] /\ n \in Nat
    BY <1>1, <1>3 DEF Control!LookupLate, Control!Fault
  <2> HIDE DEF n
  <2>2. /\ pcCount' \in [sent : 0..pcMaxRequests, opens : 0..pcMaxOpens, faults : Nat]
        /\ pcCount'.sent = pcCount.sent
    BY <1>1, <2>1
  <2>3. /\ pcCtl' \in ControlControls /\ pcMpv' \in ControlFiles /\ pcQueue' \in Seq(ControlMessages)
        /\ pcGhost' \in [volume : pcLevels, left : Control!Positions \cup {None}, spoilt : BOOLEAN]
        /\ pcGhost'.left = pcGhost.left /\ pcGhost'.spoilt = pcGhost.spoilt
        /\ pcCtl'.thread = "running" /\ pcCtl'.captured = None /\ pcCtl'.resume = None
        /\ ControlLoadFirst' /\ ControlLoading' /\ ControlPauseHolds' /\ ControlVolumeKnown'
    BY <2>1, ControlBeginsKeeps
  <2>4. Control!TypeOK'
    BY <2>1, <2>2, <2>3, ControlTypes, ControlTypesBack DEF ControlIInv
  <2>5. ControlLookupLast'
    BY <2>1, <2>2, <2>3 DEF ControlIInv, ControlLookupLast
  <2>6. pcCtl.captured = None
    BY <2>1 DEF ControlIInv, ControlLoadFirst
  <2>7. ControlRecorded'
    BY <2>1, <2>3, <2>6, ControlWillBeKept DEF ControlIInv, ControlRecorded
  <2> QED BY <2>3, <2>4, <2>5, <2>7 DEF ControlIInv
<1>4. CASE Control!FileChanges
  <2>1. /\ pcCtl.thread = "ended" /\ pcJobs = <<>> /\ pcVersion' = 2
        /\ pcGhost' = [pcGhost EXCEPT !.left = None]
        /\ UNCHANGED <<pcCtl, pcMpv, pcQueue, pcAnswer, pcJobs, pcRow, pcCount>>
    BY <1>4 DEF Control!FileChanges
  <2>2. /\ pcGhost' \in [volume : pcLevels, left : Control!Positions \cup {None}, spoilt : BOOLEAN]
        /\ pcGhost'.left = None /\ pcGhost'.volume = pcGhost.volume
    BY <1>1, <2>1
  <2>3. Control!TypeOK'
    BY <2>1, <2>2, ControlTypes, ControlTypesBack DEF ControlIInv
  <2>4. ControlLoadFirst' /\ ControlLoading' /\ ControlPauseHolds' /\ ControlVolumeKnown'
    BY <2>1, <2>2 DEF ControlIInv, ControlLoadFirst, ControlLoading, ControlPauseHolds,
      ControlVolumeKnown
  <2>5. ControlLookupLast'
    BY <2>1 DEF ControlIInv, ControlLookupLast
  <2>6. ControlRecorded'
    BY <2>1, <2>2 DEF ControlIInv, ControlLoadFirst, ControlRecorded
  <2> QED BY <2>3, <2>4, <2>5, <2>6 DEF ControlIInv
<1> QED BY <1>2, <1>3, <1>4

-----------------------------------------------------------------------------
(* The control thread.                                                     *)

(* A step that enqueues nothing and takes nothing back of what was played. *)
LEMMA ControlQuietKeeps ==
  ASSUME ControlIInv, pcCtl.thread = "running", pcCtl'.thread = "running",
         UNCHANGED <<pcJobs, pcRow, pcVersion, pcCount>>,
         pcGhost'.left = pcGhost.left, pcGhost'.spoilt = pcGhost.spoilt,
         pcCtl'.captured = pcCtl.captured, pcCtl.current => pcCtl'.current,
         pcCtl'.resume \in {pcCtl.resume, None}
  PROVE  ControlLookupLast' /\ ControlRecorded'
<1>1. ControlLookupLast'
  BY DEF ControlIInv, ControlLookupLast
<1>2. ControlRecorded'
  BY ControlWillBeKept DEF ControlIInv, ControlRecorded
<1> QED BY <1>1, <1>2

(* A step that captures the position of a file that was loaded.            *)
LEMMA ControlSaveKeeps ==
  ASSUME Control!ControlAssumption, ControlIInv, pcCtl.thread = "running",
         pcCtl'.thread = "running",
         NEW p \in Control!Positions, NEW eof \in BOOLEAN, pcJobs' = Control!Saves(p, eof),
         UNCHANGED <<pcRow, pcVersion, pcCount>>, pcCtl'.captured = Control!Record(p, eof),
         pcGhost'.spoilt \/ (pcGhost'.spoilt = pcGhost.spoilt /\ pcCtl.current /\ pcCtl'.current
                               /\ pcCtl'.resume = pcCtl.resume)
  PROVE  ControlLookupLast' /\ ControlRecorded' /\ pcJobs' \in Seq(ControlJobs) /\ pcCtl'.captured \in Control!Positions
<1>1. /\ pcJobs' \in Seq(ControlJobs) /\ Control!Record(p, eof) \in Control!Positions
      /\ \A i \in 1..Len(pcJobs') : pcJobs'[i].kind = "lookup" => pcJobs'[i].arg <= pcCount'.sent
  BY ControlSavesTyped DEF ControlIInv
<1>2. ControlLookupLast'
  BY <1>1 DEF ControlLookupLast
<1>3. ASSUME ~pcGhost'.spoilt PROVE ControlRecorded'
  <2>1. pcCtl.resume = None /\ pcCtl'.captured # None
    BY <1>1, <1>3 DEF ControlIInv, ControlLoading, Control!Positions,
      Control!ControlAssumption
  <2>2. ControlWillBe(pcCtl.captured)'
    BY <1>3, ControlSavesWillBe DEF ControlIInv
  <2> QED BY <1>3, <2>1, <2>2 DEF ControlRecorded
<1>4. pcGhost'.spoilt => ControlRecorded'
  BY DEF ControlRecorded
<1> QED BY <1>1, <1>2, <1>3, <1>4

LEMMA ControlTaken ==
  ASSUME ControlIInv, NEW kind, Control!Takes(kind), pcCtl'.thread = "running"
  PROVE  ControlLoadFirst' /\ pcQueue' \in Seq(ControlMessages) /\ Control!Id \in Control!Requests
<1>1. /\ pcQueue' \in Seq(ControlMessages) /\ \A i \in 1..Len(pcQueue') : pcQueue'[i].kind # "load"
      /\ Control!Id \in Control!Requests
  BY ControlTakesLoad DEF ControlIInv
<1> QED BY <1>1 DEF ControlLoadFirst

LEMMA ControlAnswersTyped ==
  ASSUME ControlIInv, NEW rs, NEW how \in {"ok", "error"}, Control!Answers(rs, how)
  PROVE  pcAnswer' \in [Control!Requests -> {"none", "ok", "error"}]
BY ControlTypes DEF ControlIInv, Control!Answers

LEMMA ControlHandleLoadKeeps ==
  ASSUME Control!ControlAssumption, ControlIInv, NEW autoplay \in BOOLEAN,
         Control!HandleLoad(autoplay)
  PROVE  ControlIInv'
<1>1. /\ pcCtl \in ControlControls /\ pcMpv \in ControlFiles /\ pcJobs \in Seq(ControlJobs)
      /\ Control!Takes("load") /\ UNCHANGED <<pcJobs, pcGhost, pcRow, pcVersion, pcCount>>
      /\ pcCtl.thread = "running"
  BY ControlTypes DEF ControlIInv, Control!HandleLoad, Control!Takes
<1>2. /\ pcCtl.load = None /\ pcMpv.file = "none"
      /\ ~pcCtl.vo /\ ~pcCtl.ready /\ ~pcCtl.current /\ ~pcCtl.restoring /\ Control!Id \in Control!Requests
  BY <1>1, ControlTakesFresh, ControlTakesLoad DEF ControlIInv
<1>3. pcAnswer' \in [Control!Requests -> {"none", "ok", "error"}]
  BY ControlAnswersTyped, ControlTypes DEF Control!HandleLoad, ControlIInv
<1>4. CASE pcCtl' = [pcCtl EXCEPT !.life = "error"] /\ UNCHANGED pcMpv
  <2>1. /\ pcCtl' \in ControlControls /\ pcCtl'.thread = "running" /\ pcCtl'.load = None
        /\ ~pcCtl'.vo /\ ~pcCtl'.ready /\ ~pcCtl'.current /\ pcCtl'.interrupted = pcCtl.interrupted
        /\ pcCtl'.seek = pcCtl.seek /\ pcCtl'.volume = pcCtl.volume /\ pcCtl'.captured = pcCtl.captured
        /\ pcCtl'.resume = pcCtl.resume /\ pcCtl'.restoring = pcCtl.restoring
    <3> DEFINE l == "error"
    <3>1. l \in ControlLives /\ pcCtl' = [pcCtl EXCEPT !.life = l]
      BY <1>4 DEF ControlLives
    <3> HIDE DEF l
    <3> QED BY <1>1, <1>2, <3>1 DEF ControlControls
  <2>2. Control!TypeOK' /\ ControlLoadFirst'
    BY <1>1, <1>3, <1>4, <2>1, ControlTaken, ControlTypes, ControlTypesBack
      DEF ControlIInv
  <2>3. ControlLoading' /\ ControlPauseHolds' /\ ControlVolumeKnown'
    BY <1>1, <1>2, <1>4, <2>1 DEF ControlIInv, ControlLoading, ControlPauseHolds,
      ControlVolumeKnown
  <2> QED BY <1>1, <1>2, <2>1, <2>2, <2>3, ControlQuietKeeps DEF ControlIInv
<1>5. CASE /\ pcCtl' = [pcCtl EXCEPT !.life = "opening", !.intent = autoplay /\ ~pcCtl.interrupted,
                        !.load = [id |-> Control!Id, autoplay |-> autoplay /\ ~pcCtl.interrupted]]
           /\ pcMpv' = [pcMpv EXCEPT !.file = "loading", !.pause = TRUE]
  <2> DEFINE b == autoplay /\ ~pcCtl.interrupted
             l == "opening"
             o == [id |-> Control!Id, autoplay |-> b]
             f == "loading"
             t == TRUE
  <2>1. /\ pcCtl' = [pcCtl EXCEPT !.life = l, !.intent = b, !.load = o] /\ l \in ControlLives
        /\ b \in BOOLEAN
        /\ pcCtl.interrupted => ~b
        /\ pcMpv' = [pcMpv EXCEPT !.file = f, !.pause = t] /\ t \in BOOLEAN
        /\ f \in {"none", "loading", "loaded"}
    BY <1>1, <1>5 DEF ControlLives, ControlControls
  <2> HIDE DEF b
  <2>2. o \in Control!Loads /\ o # None /\ o.autoplay = b
    <3>1. o \in Control!Loads
      <4>1. b \in BOOLEAN /\ Control!Id \in Control!Requests
        BY <1>2, <2>1
      <4> QED BY <4>1 DEF Control!Loads
    <3>2. None \notin Control!Loads
      BY DEF Control!ControlAssumption
    <3> QED BY <3>1, <3>2
  <2> HIDE DEF l, o, f, t
  <2>3. /\ pcCtl' \in ControlControls /\ pcCtl'.thread = "running" /\ pcCtl'.load = o
        /\ pcCtl'.vo = pcCtl.vo /\ pcCtl'.ready = pcCtl.ready /\ pcCtl'.current = pcCtl.current
        /\ pcCtl'.interrupted = pcCtl.interrupted
        /\ pcCtl'.seek = pcCtl.seek /\ pcCtl'.volume = pcCtl.volume /\ pcCtl'.captured = pcCtl.captured
        /\ pcCtl'.resume = pcCtl.resume /\ pcCtl'.restoring = pcCtl.restoring
    <3>1. /\ pcCtl' = [pcCtl EXCEPT !.life = l, !.intent = b, !.load = o] /\ l \in ControlLives
          /\ b \in BOOLEAN /\ o \in Control!Loads \cup {None}
      BY <2>1, <2>2
    <3>2. pcCtl \in ControlControls /\ pcCtl.thread = "running"
      BY <1>1
    <3> QED BY <3>1, <3>2 DEF ControlControls
  <2>4. pcMpv' \in ControlFiles /\ pcMpv'.file = f /\ pcMpv'.pause = t /\ pcMpv'.level = pcMpv.level
    BY <1>1, <2>1 DEF ControlFiles
  <2>5. Control!TypeOK' /\ ControlLoadFirst'
    BY <1>1, <1>3, <2>3, <2>4, ControlTaken, ControlTypes, ControlTypesBack
      DEF ControlIInv
  <2>6. ControlLoading' /\ ControlPauseHolds' /\ ControlVolumeKnown'
    <3> USE DEF f, t
    <3> QED BY <1>1, <1>2, <2>1, <2>2, <2>3, <2>4 DEF ControlIInv, ControlLoading,
        ControlPauseHolds, ControlVolumeKnown
  <2> QED BY <1>1, <1>2, <2>3, <2>5, <2>6, ControlQuietKeeps DEF ControlIInv
<1> QED BY <1>4, <1>5 DEF Control!HandleLoad

LEMMA ControlHandlePlayKeeps ==
  ASSUME Control!ControlAssumption, ControlIInv, Control!HandlePlay
  PROVE  ControlIInv'
<1>1. /\ pcCtl \in ControlControls /\ pcMpv \in ControlFiles /\ pcJobs \in Seq(ControlJobs)
      /\ Control!Takes("play") /\ UNCHANGED <<pcJobs, pcGhost, pcRow, pcVersion, pcCount>>
      /\ pcCtl.thread = "running"
      /\ pcCtl' = [pcCtl EXCEPT !.interrupted = FALSE, !.intent = TRUE, !.life = "playing"]
      /\ pcMpv' = [pcMpv EXCEPT !.pause = FALSE]
  BY ControlTypes DEF ControlIInv, Control!HandlePlay, Control!Takes
<1> DEFINE l == "playing"  f == FALSE  t == TRUE
<1>2. l \in ControlLives /\ f \in BOOLEAN /\ t \in BOOLEAN
  BY DEF ControlLives
<1>3. /\ pcCtl' = [pcCtl EXCEPT !.interrupted = f, !.intent = t, !.life = l]
      /\ pcMpv' = [pcMpv EXCEPT !.pause = f]
  BY <1>1
<1> HIDE DEF l, f, t
<1>4. /\ pcCtl' \in ControlControls /\ pcCtl'.thread = "running" /\ pcCtl'.load = pcCtl.load
      /\ pcCtl'.vo = pcCtl.vo /\ pcCtl'.ready = pcCtl.ready /\ pcCtl'.current = pcCtl.current
      /\ pcCtl'.interrupted = f
      /\ pcCtl'.seek = pcCtl.seek /\ pcCtl'.volume = pcCtl.volume /\ pcCtl'.captured = pcCtl.captured
      /\ pcCtl'.resume = pcCtl.resume /\ pcCtl'.restoring = pcCtl.restoring
  BY <1>1, <1>2, <1>3 DEF ControlControls
<1>5. pcMpv' \in ControlFiles /\ pcMpv'.file = pcMpv.file /\ pcMpv'.level = pcMpv.level
  BY <1>1, <1>2, <1>3 DEF ControlFiles
<1>6. pcAnswer' \in [Control!Requests -> {"none", "ok", "error"}]
  BY ControlAnswersTyped DEF Control!HandlePlay
<1>7. Control!TypeOK' /\ ControlLoadFirst'
  BY <1>1, <1>4, <1>5, <1>6, ControlTaken, ControlTypes, ControlTypesBack
    DEF ControlIInv
<1>8. ControlLoading' /\ ControlPauseHolds' /\ ControlVolumeKnown'
  BY <1>1, <1>4, <1>5 DEF ControlIInv, ControlLoading, ControlPauseHolds,
    ControlVolumeKnown, f
<1> QED BY <1>1, <1>4, <1>7, <1>8, ControlQuietKeeps DEF ControlIInv

LEMMA ControlHandlePauseKeeps ==
  ASSUME Control!ControlAssumption, ControlIInv, Control!HandlePause
  PROVE  ControlIInv'
<1> DEFINE p == pcMpv.pos
           r == Control!Record(p, FALSE)
           c == IF pcCtl.ready THEN r ELSE pcCtl.captured
           o == IF pcCtl.load = None THEN pcCtl.load ELSE [pcCtl.load EXCEPT !.autoplay = FALSE]
           l == "paused"  f == FALSE  t == TRUE
<1>1. /\ pcCtl \in ControlControls /\ pcMpv \in ControlFiles /\ pcJobs \in Seq(ControlJobs)
      /\ Control!Takes("pause") /\ UNCHANGED <<pcRow, pcVersion, pcCount>>
      /\ pcCtl.thread = "running"
      /\ pcCtl' = [pcCtl EXCEPT !.interrupted = t, !.intent = f, !.life = l, !.load = o, !.captured = c]
      /\ pcMpv' = [pcMpv EXCEPT !.pause = t]
      /\ pcJobs' = IF pcCtl.ready THEN Control!Saves(p, FALSE) ELSE pcJobs
      /\ pcGhost' = [pcGhost EXCEPT !.spoilt = pcGhost.spoilt \/ (pcCtl.ready /\ pcCtl.load # None)]
      /\ pcGhost \in [volume : pcLevels, left : Control!Positions \cup {None}, spoilt : BOOLEAN]
  BY ControlTypes DEF ControlIInv, Control!HandlePause, Control!Takes
<1>2. l \in ControlLives /\ f \in BOOLEAN /\ t \in BOOLEAN /\ FALSE \in BOOLEAN /\ p \in Control!Positions
  BY <1>1 DEF ControlLives, ControlFiles
<1>3. /\ o \in Control!Loads \cup {None} /\ (o = None <=> pcCtl.load = None) /\ (o # None => ~o.autoplay)
  <2>1. CASE pcCtl.load = None
    BY <2>1
  <2>2. CASE pcCtl.load # None
    <3>1. pcCtl.load \in Control!Loads /\ None \notin Control!Loads
      BY <1>1, <2>2 DEF ControlControls, Control!ControlAssumption
    <3>2. o \in Control!Loads /\ ~o.autoplay
      BY <2>2, <3>1 DEF Control!Loads
    <3> QED BY <2>2, <3>1, <3>2
  <2> QED BY <2>1, <2>2
<1>4. r \in Control!Positions
  BY <1>2 DEF Control!Record, Control!Positions, Control!ControlAssumption
<1>5. c \in Control!Positions \cup {None}
  BY <1>1, <1>4 DEF ControlControls
<1> DEFINE b == pcGhost.spoilt \/ (pcCtl.ready /\ pcCtl.load # None)
<1>6. b \in BOOLEAN /\ pcGhost' = [pcGhost EXCEPT !.spoilt = b]
  BY <1>1
<1> HIDE DEF o, l, f, t, c, b
<1>7. /\ pcCtl' \in ControlControls /\ pcCtl'.thread = "running" /\ pcCtl'.load = o
      /\ pcCtl'.vo = pcCtl.vo /\ pcCtl'.ready = pcCtl.ready /\ pcCtl'.current = pcCtl.current
      /\ pcCtl'.seek = pcCtl.seek /\ pcCtl'.volume = pcCtl.volume /\ pcCtl'.captured = c
      /\ pcCtl'.resume = pcCtl.resume /\ pcCtl'.restoring = pcCtl.restoring
  <2>1. o \in Control!Loads \cup {None} /\ c \in Control!Positions \cup {None}
    BY <1>3, <1>5
  <2>2. pcCtl' = [pcCtl EXCEPT !.interrupted = t, !.intent = f, !.life = l, !.load = o, !.captured = c]
    BY <1>1
  <2>3. pcCtl \in ControlControls /\ pcCtl.thread = "running"
    BY <1>1
  <2>4. l \in ControlLives /\ f \in BOOLEAN /\ t \in BOOLEAN
    BY <1>2
  <2> HIDE DEF p, r
  <2> DEFINE x == [pcCtl EXCEPT !.interrupted = t, !.intent = f, !.life = l]
  <2>8. x \in ControlControls
    BY <2>3, <2>4 DEF ControlControls
  <2>9. pcCtl' = [x EXCEPT !.load = o, !.captured = c]
    BY <2>2
  <2> HIDE DEF x
  <2>5. pcCtl' \in ControlControls
    BY <2>1, <2>8, <2>9 DEF ControlControls
  <2>6. pcCtl'.thread = "running" /\ pcCtl'.load = o /\ pcCtl'.captured = c
    BY <2>2, <2>3 DEF ControlControls
  <2>7. /\ pcCtl'.vo = pcCtl.vo /\ pcCtl'.ready = pcCtl.ready /\ pcCtl'.current = pcCtl.current
        /\ pcCtl'.seek = pcCtl.seek /\ pcCtl'.volume = pcCtl.volume
        /\ pcCtl'.resume = pcCtl.resume /\ pcCtl'.restoring = pcCtl.restoring
    BY <2>2, <2>3 DEF ControlControls
  <2> QED BY <2>5, <2>6, <2>7
<1>8. pcMpv' \in ControlFiles /\ pcMpv'.pause = t /\ pcMpv'.file = pcMpv.file /\ pcMpv'.level = pcMpv.level
  BY <1>1, <1>2 DEF ControlFiles
<1>9. /\ pcGhost' \in [volume : pcLevels, left : Control!Positions \cup {None}, spoilt : BOOLEAN]
      /\ pcGhost'.volume = pcGhost.volume /\ pcGhost'.left = pcGhost.left /\ pcGhost'.spoilt = b
  BY <1>1, <1>6
<1>10. ControlLookupLast' /\ ControlRecorded' /\ pcJobs' \in Seq(ControlJobs)
  <2>1. CASE pcCtl.ready
    <3>1. b \/ (b = pcGhost.spoilt /\ pcCtl.current)
      <4>1. CASE pcCtl.load # None
        BY <2>1, <4>1 DEF b
      <4>2. CASE pcCtl.load = None
        <5>1. (b <=> pcGhost.spoilt) /\ pcCtl.current
          BY <2>1, <4>2 DEF b, ControlIInv, ControlLoading
        <5> QED BY <1>1, <1>6, <5>1
      <4> QED BY <4>1, <4>2
    <3>2. pcGhost'.spoilt \/ (pcGhost'.spoilt = pcGhost.spoilt /\ pcCtl.current /\ pcCtl'.current
                               /\ pcCtl'.resume = pcCtl.resume)
      BY <1>7, <1>9, <3>1
    <3>3. pcJobs' = Control!Saves(p, FALSE) /\ pcCtl'.captured = Control!Record(p, FALSE)
      BY <1>1, <1>7, <2>1 DEF c
    <3> HIDE DEF p, r
    <3> QED BY <1>1, <1>2, <1>7, <3>2, <3>3, ControlSaveKeeps
  <2>2. CASE ~pcCtl.ready
    <3>1. b = pcGhost.spoilt /\ UNCHANGED pcJobs /\ c = pcCtl.captured
      <4>1. b <=> pcGhost.spoilt
        BY <2>2 DEF b
      <4>2. pcGhost.spoilt \in BOOLEAN
        BY <1>1
      <4> QED BY <1>1, <1>6, <2>2, <4>1, <4>2 DEF c
    <3> QED BY <1>1, <1>7, <1>9, <3>1, ControlQuietKeeps
  <2> QED BY <2>1, <2>2
<1>11. pcAnswer' \in [Control!Requests -> {"none", "ok", "error"}]
  BY ControlAnswersTyped DEF Control!HandlePause
<1>12. Control!TypeOK' /\ ControlLoadFirst'
  BY <1>1, <1>7, <1>8, <1>9, <1>10, <1>11, ControlTaken, ControlTypes, ControlTypesBack
    DEF ControlIInv
<1>13. ControlLoading' /\ ControlPauseHolds' /\ ControlVolumeKnown'
  BY <1>1, <1>3, <1>7, <1>8, <1>9 DEF ControlIInv, ControlLoading, ControlPauseHolds,
    ControlVolumeKnown, t
<1> QED BY <1>10, <1>12, <1>13 DEF ControlIInv

LEMMA ControlHandleSeekKeeps ==
  ASSUME Control!ControlAssumption, ControlIInv, NEW target \in Control!Positions,
         Control!HandleSeek(target)
  PROVE  ControlIInv'
<1> DEFINE v == IF pcCtl.volume = None THEN pcMpv.level ELSE pcCtl.volume
           k == [id |-> Control!Id, target |-> target, phase |-> "fade out"]
<1>1. /\ pcCtl \in ControlControls /\ pcMpv \in ControlFiles /\ pcJobs \in Seq(ControlJobs)
      /\ Control!Takes("seek") /\ UNCHANGED <<pcMpv, pcJobs, pcGhost, pcRow, pcVersion, pcCount>>
      /\ pcCtl.thread = "running"
      /\ pcCtl' = [pcCtl EXCEPT !.volume = v, !.seek = k]
      /\ pcGhost.volume \in pcLevels /\ None \notin pcLevels
  BY ControlTypes DEF ControlIInv, Control!HandleSeek, Control!Takes,
    Control!ControlAssumption
<1>2. Control!Id \in Control!Requests
  BY <1>1, ControlTakesLoad DEF ControlIInv
<1>3. k \in Control!Seeks /\ k # None
  <2>1. k \in Control!Seeks
    BY <1>2 DEF Control!Seeks
  <2>2. None \notin Control!Seeks
    BY DEF Control!ControlAssumption
  <2> QED BY <2>1, <2>2
<1>4. v = pcGhost.volume /\ pcMpv.level \in {0, pcGhost.volume}
  BY <1>1 DEF ControlIInv, ControlVolumeKnown
<1> HIDE DEF v, k
<1>5. /\ pcCtl' \in ControlControls /\ pcCtl'.thread = "running" /\ pcCtl'.load = pcCtl.load
      /\ pcCtl'.vo = pcCtl.vo /\ pcCtl'.ready = pcCtl.ready /\ pcCtl'.current = pcCtl.current
      /\ pcCtl'.interrupted = pcCtl.interrupted
      /\ pcCtl'.seek = k /\ pcCtl'.volume = v /\ pcCtl'.captured = pcCtl.captured
      /\ pcCtl'.resume = pcCtl.resume /\ pcCtl'.restoring = pcCtl.restoring
  BY <1>1, <1>3, <1>4 DEF ControlControls
<1>6. pcAnswer' \in [Control!Requests -> {"none", "ok", "error"}]
  BY ControlAnswersTyped DEF Control!HandleSeek
<1>7. Control!TypeOK' /\ ControlLoadFirst'
  BY <1>1, <1>5, <1>6, ControlTaken, ControlTypes, ControlTypesBack DEF ControlIInv
<1>8. ControlLoading' /\ ControlPauseHolds' /\ ControlVolumeKnown'
  BY <1>1, <1>3, <1>4, <1>5 DEF ControlIInv, ControlLoading, ControlPauseHolds,
    ControlVolumeKnown
<1> QED BY <1>1, <1>5, <1>7, <1>8, ControlQuietKeeps DEF ControlIInv

LEMMA ControlHandleVolumeKeeps ==
  ASSUME Control!ControlAssumption, ControlIInv, NEW level \in pcLevels,
         Control!HandleVolume(level)
  PROVE  ControlIInv'
<1> DEFINE v == IF pcCtl.volume = None THEN None ELSE level
           w == IF pcMpv.level = 0 THEN 0 ELSE level
<1>1. /\ pcCtl \in ControlControls /\ pcMpv \in ControlFiles /\ pcJobs \in Seq(ControlJobs)
      /\ Control!Takes("volume") /\ UNCHANGED <<pcJobs, pcRow, pcVersion, pcCount>>
      /\ pcCtl.thread = "running"
      /\ pcCtl' = [pcCtl EXCEPT !.volume = v] /\ pcMpv' = [pcMpv EXCEPT !.level = w]
      /\ pcGhost' = [pcGhost EXCEPT !.volume = level]
      /\ pcGhost \in [volume : pcLevels, left : Control!Positions \cup {None}, spoilt : BOOLEAN]
      /\ None \notin pcLevels /\ 0 \notin pcLevels
  BY ControlTypes DEF ControlIInv, Control!HandleVolume, Control!Takes,
    Control!ControlAssumption
<1>2. v \in pcLevels \cup {None} /\ w \in pcLevels \cup {0}
  OBVIOUS
<1>3. IF pcCtl.seek = None THEN v = None /\ w = level ELSE v = level /\ w \in {0, level}
  BY <1>1 DEF ControlIInv, ControlVolumeKnown
<1> HIDE DEF v, w
<1>4. /\ pcCtl' \in ControlControls /\ pcCtl'.thread = "running" /\ pcCtl'.load = pcCtl.load
      /\ pcCtl'.vo = pcCtl.vo /\ pcCtl'.ready = pcCtl.ready /\ pcCtl'.current = pcCtl.current
      /\ pcCtl'.interrupted = pcCtl.interrupted
      /\ pcCtl'.seek = pcCtl.seek /\ pcCtl'.volume = v /\ pcCtl'.captured = pcCtl.captured
      /\ pcCtl'.resume = pcCtl.resume /\ pcCtl'.restoring = pcCtl.restoring
  BY <1>1, <1>2 DEF ControlControls
<1>5. pcMpv' \in ControlFiles /\ pcMpv'.pause = pcMpv.pause /\ pcMpv'.file = pcMpv.file /\ pcMpv'.level = w
  BY <1>1, <1>2 DEF ControlFiles
<1>6. /\ pcGhost' \in [volume : pcLevels, left : Control!Positions \cup {None}, spoilt : BOOLEAN]
      /\ pcGhost'.volume = level /\ pcGhost'.left = pcGhost.left /\ pcGhost'.spoilt = pcGhost.spoilt
  BY <1>1
<1>7. pcAnswer' \in [Control!Requests -> {"none", "ok", "error"}]
  BY ControlAnswersTyped DEF Control!HandleVolume
<1>8. Control!TypeOK' /\ ControlLoadFirst'
  BY <1>1, <1>4, <1>5, <1>6, <1>7, ControlTaken, ControlTypes, ControlTypesBack
    DEF ControlIInv
<1>9. ControlLoading' /\ ControlPauseHolds' /\ ControlVolumeKnown'
  BY <1>1, <1>3, <1>4, <1>5, <1>6 DEF ControlIInv, ControlLoading, ControlPauseHolds,
    ControlVolumeKnown
<1> QED BY <1>1, <1>4, <1>6, <1>8, <1>9, ControlQuietKeeps DEF ControlIInv

LEMMA ControlHandleOtherKeeps ==
  ASSUME Control!ControlAssumption, ControlIInv, Control!HandleTrack \/ Control!HandleOther
  PROVE  ControlIInv'
<1>1. /\ pcCtl \in ControlControls /\ pcMpv \in ControlFiles /\ pcJobs \in Seq(ControlJobs)
      /\ pcCtl.thread = "running"
      /\ UNCHANGED <<pcMpv, pcJobs, pcGhost, pcRow, pcVersion, pcCount>>
      /\ Control!Takes("track") \/ Control!Takes("other")
  BY ControlTypes DEF ControlIInv, Control!HandleTrack, Control!HandleOther,
    Control!Takes
<1>2. Control!Id \in Control!Requests
  BY <1>1, ControlTakesLoad DEF ControlIInv
<1>3. \E n \in Control!Tracks \cup {None} : pcCtl' = [pcCtl EXCEPT !.track = n] \/ UNCHANGED pcCtl
  <2>1. [id |-> Control!Id] \in Control!Tracks
    BY <1>2 DEF Control!Tracks
  <2> QED BY <2>1 DEF Control!HandleTrack, Control!HandleOther
<1>4. /\ pcCtl' \in ControlControls /\ pcCtl'.thread = "running" /\ pcCtl'.load = pcCtl.load
      /\ pcCtl'.vo = pcCtl.vo /\ pcCtl'.ready = pcCtl.ready /\ pcCtl'.current = pcCtl.current
      /\ pcCtl'.interrupted = pcCtl.interrupted
      /\ pcCtl'.seek = pcCtl.seek /\ pcCtl'.volume = pcCtl.volume /\ pcCtl'.captured = pcCtl.captured
      /\ pcCtl'.resume = pcCtl.resume /\ pcCtl'.restoring = pcCtl.restoring
  BY <1>1, <1>3 DEF ControlControls
<1>5. pcAnswer' \in [Control!Requests -> {"none", "ok", "error"}]
  BY ControlAnswersTyped DEF Control!HandleTrack, Control!HandleOther
<1>6. Control!TypeOK' /\ ControlLoadFirst'
  BY <1>1, <1>4, <1>5, ControlTaken, ControlTypes, ControlTypesBack DEF ControlIInv
<1>7. ControlLoading' /\ ControlPauseHolds' /\ ControlVolumeKnown'
  BY <1>1, <1>4 DEF ControlIInv, ControlLoading, ControlPauseHolds, ControlVolumeKnown
<1> QED BY <1>1, <1>4, <1>6, <1>7, ControlQuietKeeps DEF ControlIInv

-----------------------------------------------------------------------------
(* What mpv reports, and what the loop waits for.                          *)

(* A step that takes no request finds none to load, once mpv has a file.   *)
LEMMA ControlNoneToLoad ==
  ASSUME ControlIInv, UNCHANGED pcQueue, pcCtl'.thread = "running",
         pcMpv.file # "none" \/ pcCtl.load # None \/ pcCtl.vo \/ pcCtl.ready \/ pcCtl.current \/ pcCtl.restoring
  PROVE  ControlLoadFirst'
<1>1. \A i \in 1..Len(pcQueue) : pcQueue[i].kind # "load"
  BY DEF ControlIInv, ControlLoadFirst
<1> QED BY <1>1 DEF ControlLoadFirst

(* The fields of the loop that a finished load, and a captured position, set. *)
LEMMA ControlFinishTyped ==
  ASSUME NEW c \in ControlControls, NEW n \in Control!Loads \cup {None}, NEW t \in BOOLEAN,
         NEW l \in ControlLives
  PROVE  [c EXCEPT !.load = n, !.current = t, !.ready = t, !.life = l] \in ControlControls
<1> DEFINE d == [c EXCEPT !.load = n, !.current = t]
<1>1. d \in ControlControls
  BY DEF ControlControls
<1>2. [c EXCEPT !.load = n, !.current = t, !.ready = t, !.life = l]
      = [d EXCEPT !.ready = t, !.life = l]
  BY DEF ControlControls
<1> HIDE DEF d
<1>3. [d EXCEPT !.ready = t, !.life = l] \in ControlControls
  BY <1>1 DEF ControlControls
<1> QED BY <1>2, <1>3

LEMMA ControlCaptureTyped ==
  ASSUME NEW c \in ControlControls, NEW e \in BOOLEAN, NEW i \in BOOLEAN,
         NEW l \in ControlLives,
         NEW r \in Control!Positions \cup {None}
  PROVE  [c EXCEPT !.eof = e, !.intent = i, !.life = l, !.captured = r] \in ControlControls
<1> DEFINE d == [c EXCEPT !.eof = e, !.intent = i]
<1>1. d \in ControlControls
  BY DEF ControlControls
<1>2. [c EXCEPT !.eof = e, !.intent = i, !.life = l, !.captured = r]
      = [d EXCEPT !.life = l, !.captured = r]
  BY DEF ControlControls
<1> HIDE DEF d
<1>3. [d EXCEPT !.life = l, !.captured = r] \in ControlControls
  BY <1>1 DEF ControlControls
<1> QED BY <1>2, <1>3

(* finish_load makes the file the current one, unless the load has failed. *)
LEMMA ControlFinishKeeps ==
  ASSUME Control!ControlAssumption, ControlIInv, Control!Loop, NEW c \in ControlControls,
         Control!FinishLoad(c), UNCHANGED pcJobs,
         pcMpv.file # "loading",
         pcMpv.file # "none" \/ pcCtl.load # None \/ pcCtl.vo \/ pcCtl.ready \/ pcCtl.current \/ pcCtl.restoring,
         c.thread = "running", c.load = pcCtl.load, ~c.vo, c.resume = None, c.current = pcCtl.current,
         c.interrupted = pcCtl.interrupted, c.seek = pcCtl.seek, c.volume = pcCtl.volume,
         c.captured = pcCtl.captured, c.ready /\ c.load = None => pcCtl.current
  PROVE  ControlIInv'
<1>1. /\ pcCtl \in ControlControls /\ pcMpv \in ControlFiles /\ pcJobs \in Seq(ControlJobs) /\ pcCtl.thread = "running"
      /\ UNCHANGED <<pcQueue, pcRow, pcVersion, pcCount, pcGhost>>
  BY ControlTypes DEF ControlIInv, Control!Loop
<1> DEFINE plays == c.load # None /\ c.load.autoplay
           p == pcMpv.pause /\ ~plays
           l == IF plays THEN "playing" ELSE "paused"
<1>2. pcAnswer' \in [Control!Requests -> {"none", "ok", "error"}]
  BY ControlAnswersTyped DEF Control!FinishLoad
<1>3. pcMpv' = [pcMpv EXCEPT !.pause = p]
  BY DEF Control!FinishLoad
<1>4. p \in BOOLEAN /\ l \in ControlLives
  BY DEF ControlLives
<1>5. pcCtl.interrupted => (p <=> pcMpv.pause) /\ pcMpv.pause
  BY DEF ControlIInv, ControlPauseHolds
<1> DEFINE t == TRUE  n == None
<1>6. IF c.load = None THEN pcCtl' = c
      ELSE pcCtl' = [c EXCEPT !.load = n, !.current = t, !.ready = t, !.life = l]
  BY DEF Control!FinishLoad
<1>7. t \in BOOLEAN /\ n \in Control!Loads \cup {None} /\ n = None
  OBVIOUS
<1> HIDE DEF p, l, t, n
<1>8. pcMpv' \in ControlFiles /\ pcMpv'.file = pcMpv.file /\ pcMpv'.level = pcMpv.level /\ pcMpv'.pause = p
  BY <1>1, <1>3, <1>4 DEF ControlFiles
<1>9. /\ pcCtl' \in ControlControls /\ pcCtl'.thread = "running" /\ pcCtl'.load = None
      /\ pcCtl'.vo = c.vo /\ pcCtl'.interrupted = pcCtl.interrupted
      /\ pcCtl'.seek = pcCtl.seek /\ pcCtl'.volume = pcCtl.volume /\ pcCtl'.captured = pcCtl.captured
      /\ pcCtl'.resume = None
  <2>1. CASE c.load = None
    BY <1>6, <2>1
  <2>2. CASE c.load # None
    <3>1. pcCtl' = [c EXCEPT !.load = n, !.current = t, !.ready = t, !.life = l]
      BY <1>6, <2>2
    <3>2. n \in Control!Loads \cup {None} /\ t \in BOOLEAN /\ l \in ControlLives
      BY <1>4, <1>7
    <3>5. pcCtl' \in ControlControls
      BY <3>1, <3>2, ControlFinishTyped
    <3>4. /\ pcCtl'.thread = c.thread /\ pcCtl'.load = n
          /\ pcCtl'.vo = c.vo /\ pcCtl'.interrupted = c.interrupted
          /\ pcCtl'.seek = c.seek /\ pcCtl'.volume = c.volume /\ pcCtl'.captured = c.captured
          /\ pcCtl'.resume = c.resume
      BY <3>1 DEF ControlControls
    <3> QED BY <1>7, <3>4, <3>5
  <2> QED BY <2>1, <2>2
<1>10. IF c.load = None THEN pcCtl'.current = c.current /\ pcCtl'.ready = c.ready
       ELSE pcCtl'.current = t
  BY <1>6 DEF ControlControls
<1>11. (pcCtl.current => pcCtl'.current) /\ (pcCtl'.ready => pcCtl'.current)
  BY <1>10 DEF t
<1>12. Control!TypeOK'
  BY <1>1, <1>2, <1>8, <1>9, ControlTypes, ControlTypesBack DEF ControlIInv
<1>13. ControlLoadFirst'
  BY <1>1, <1>9, ControlNoneToLoad
<1>14. ControlLoading' /\ ControlPauseHolds' /\ ControlVolumeKnown'
  <2>1. ControlLoading'
    BY <1>8, <1>9, <1>11 DEF ControlLoading
  <2>2. ControlPauseHolds'
    BY <1>5, <1>8, <1>9 DEF ControlPauseHolds
  <2>3. ControlVolumeKnown'
    BY <1>1, <1>8, <1>9 DEF ControlIInv, ControlVolumeKnown
  <2> QED BY <2>1, <2>2, <2>3
<1>15. ControlLookupLast' /\ ControlRecorded'
  BY <1>1, <1>9, <1>11, ControlQuietKeeps
<1> QED BY <1>12, <1>13, <1>14, <1>15 DEF ControlIInv

(* A load that fails leaves no session that could be captured as ready.    *)
LEMMA ControlFailKeeps ==
  ASSUME Control!ControlAssumption, ControlIInv, Control!NotStarted \/ Control!EndFile
  PROVE  ControlIInv'
<1>1. /\ pcCtl \in ControlControls /\ pcMpv \in ControlFiles /\ pcJobs \in Seq(ControlJobs) /\ pcCtl.thread = "running"
      /\ UNCHANGED <<pcQueue, pcRow, pcVersion, pcCount, pcGhost, pcJobs>>
      /\ pcMpv.file # "none" \/ pcCtl.vo
  BY ControlTypes DEF ControlIInv, Control!Loop, Control!NotStarted, Control!EndFile
<1> DEFINE n == None  f == FALSE  l == "error"
<1>2. n \in Control!Loads \cup {None} /\ n = None /\ f \in BOOLEAN /\ l \in ControlLives
  BY DEF ControlLives
<1>3. pcCtl' = [pcCtl EXCEPT !.load = n, !.vo = f, !.ready = f, !.life = l]
  BY DEF Control!NotStarted, Control!EndFile, Control!FailLoad
<1>4. pcAnswer' \in [Control!Requests -> {"none", "ok", "error"}]
  BY ControlAnswersTyped DEF Control!NotStarted, Control!EndFile, Control!FailLoad
<1>5. \/ UNCHANGED pcMpv /\ pcMpv.file = "loaded"
      \/ pcMpv' = [pcMpv EXCEPT !.file = "none", !.seeking = FALSE]
  BY DEF Control!NotStarted, Control!EndFile, ControlIInv, ControlLoading
<1> HIDE DEF n, f, l
<1>6. /\ pcCtl' \in ControlControls /\ pcCtl'.thread = "running" /\ pcCtl'.load = None
      /\ pcCtl'.vo = f /\ pcCtl'.ready = f /\ pcCtl'.current = pcCtl.current
      /\ pcCtl'.interrupted = pcCtl.interrupted
      /\ pcCtl'.seek = pcCtl.seek /\ pcCtl'.volume = pcCtl.volume /\ pcCtl'.captured = pcCtl.captured
      /\ pcCtl'.resume = pcCtl.resume /\ pcCtl'.restoring = pcCtl.restoring
  BY <1>1, <1>2, <1>3 DEF ControlControls
<1>7. pcMpv' \in ControlFiles /\ pcMpv'.pause = pcMpv.pause /\ pcMpv'.level = pcMpv.level /\ pcMpv'.file # "loading"
  BY <1>1, <1>5 DEF ControlFiles
<1>8. Control!TypeOK'
  BY <1>1, <1>4, <1>6, <1>7, ControlTypes, ControlTypesBack DEF ControlIInv
<1>9. ControlLoadFirst'
  BY <1>1, <1>6, ControlNoneToLoad
<1>10. ControlLoading' /\ ControlPauseHolds' /\ ControlVolumeKnown'
  BY <1>1, <1>6, <1>7 DEF ControlIInv, ControlLoading, ControlPauseHolds,
    ControlVolumeKnown, f
<1> QED BY <1>1, <1>6, <1>8, <1>9, <1>10, ControlQuietKeeps DEF ControlIInv

LEMMA ControlStartedKeeps ==
  ASSUME Control!ControlAssumption, ControlIInv,
         Control!FileLoaded \/ Control!Started \/ Control!Restored
  PROVE  ControlIInv'
<1>1. /\ pcCtl \in ControlControls /\ pcMpv \in ControlFiles /\ pcJobs \in Seq(ControlJobs) /\ pcCtl.thread = "running"
      /\ UNCHANGED <<pcQueue, pcRow, pcVersion, pcCount, pcGhost, pcJobs>> /\ Control!Loop
  BY ControlTypes DEF ControlIInv, Control!Loop, Control!FileLoaded, Control!Started,
    Control!Restored
<1> DEFINE f == FALSE  t == TRUE  n == None  l == "ready"
<1>2. /\ n \in Control!Positions \cup {None} /\ n = None /\ f \in BOOLEAN /\ t \in BOOLEAN /\ l \in ControlLives
  BY DEF ControlLives
<1>3. CASE Control!FileLoaded
  <2> DEFINE w == "loaded"
  <2>1. /\ pcMpv.file = "loading" /\ pcMpv' = [pcMpv EXCEPT !.file = w]
        /\ pcCtl' = [pcCtl EXCEPT !.vo = t] /\ UNCHANGED pcAnswer
        /\ w \in {"none", "loading", "loaded"}
    BY <1>3 DEF Control!FileLoaded
  <2> HIDE DEF f, t, n, l, w
  <2>2. /\ pcCtl' \in ControlControls /\ pcCtl'.thread = "running" /\ pcCtl'.load = pcCtl.load
        /\ pcCtl'.ready = pcCtl.ready /\ pcCtl'.current = pcCtl.current
        /\ pcCtl'.interrupted = pcCtl.interrupted
        /\ pcCtl'.seek = pcCtl.seek /\ pcCtl'.volume = pcCtl.volume /\ pcCtl'.captured = pcCtl.captured
        /\ pcCtl'.resume = pcCtl.resume /\ pcCtl'.restoring = pcCtl.restoring
    BY <1>1, <1>2, <2>1 DEF ControlControls
  <2>3. pcMpv' \in ControlFiles /\ pcMpv'.file = w /\ pcMpv'.pause = pcMpv.pause /\ pcMpv'.level = pcMpv.level
    BY <1>1, <2>1 DEF ControlFiles
  <2>4. Control!TypeOK' /\ ControlLoadFirst'
    BY <1>1, <2>1, <2>2, <2>3, ControlTypes, ControlTypesBack, ControlNoneToLoad
      DEF ControlIInv
  <2>5. ControlLoading' /\ ControlPauseHolds' /\ ControlVolumeKnown'
    BY <1>1, <2>1, <2>2, <2>3 DEF ControlIInv, ControlLoading, ControlPauseHolds,
      ControlVolumeKnown, w
  <2> QED BY <1>1, <2>2, <2>4, <2>5, ControlQuietKeeps DEF ControlIInv
<1>4. CASE /\ pcCtl.vo /\ pcMpv.file = "loaded" /\ pcCtl.resume # None /\ UNCHANGED pcAnswer
           /\ pcCtl' = [pcCtl EXCEPT !.vo = FALSE, !.restoring = TRUE, !.ready = TRUE,
                                   !.life = "ready"]
           /\ pcMpv' = [pcMpv EXCEPT !.seeking = TRUE, !.target = pcCtl.resume]
  <2> DEFINE r == pcCtl.resume
  <2>1. /\ pcCtl' = [pcCtl EXCEPT !.vo = f, !.restoring = t, !.ready = t, !.life = l]
        /\ pcMpv' = [pcMpv EXCEPT !.seeking = t, !.target = r]
    BY <1>4
  <2>2. r \in Control!Positions
    BY <1>1, <1>4 DEF ControlControls
  <2> HIDE DEF f, t, n, l, r
  <2>3. /\ pcCtl' \in ControlControls /\ pcCtl'.thread = "running" /\ pcCtl'.load = pcCtl.load
        /\ pcCtl'.vo = f /\ pcCtl'.current = pcCtl.current
        /\ pcCtl'.interrupted = pcCtl.interrupted
        /\ pcCtl'.seek = pcCtl.seek /\ pcCtl'.volume = pcCtl.volume /\ pcCtl'.captured = pcCtl.captured
        /\ pcCtl'.resume = pcCtl.resume
    <3>1. pcCtl \in ControlControls /\ f \in BOOLEAN /\ t \in BOOLEAN /\ l \in ControlLives
      BY <1>1, <1>2
    <3>2. pcCtl' \in ControlControls
      BY <2>1, <3>1 DEF ControlControls
    <3>3. /\ pcCtl'.thread = pcCtl.thread /\ pcCtl'.load = pcCtl.load /\ pcCtl'.vo = f
          /\ pcCtl'.current = pcCtl.current /\ pcCtl'.interrupted = pcCtl.interrupted
          /\ pcCtl'.seek = pcCtl.seek /\ pcCtl'.volume = pcCtl.volume
          /\ pcCtl'.captured = pcCtl.captured /\ pcCtl'.resume = pcCtl.resume
      BY <2>1, <3>1 DEF ControlControls
    <3> QED BY <1>1, <3>2, <3>3
  <2>4. pcMpv' \in ControlFiles /\ pcMpv'.file = pcMpv.file /\ pcMpv'.pause = pcMpv.pause /\ pcMpv'.level = pcMpv.level
    BY <1>1, <1>2, <2>1, <2>2 DEF ControlFiles
  <2>5. Control!TypeOK' /\ ControlLoadFirst'
    BY <1>1, <1>4, <2>3, <2>4, ControlTypes, ControlTypesBack, ControlNoneToLoad
      DEF ControlIInv
  <2>6. ControlLoading' /\ ControlPauseHolds' /\ ControlVolumeKnown'
    BY <1>1, <1>4, <2>3, <2>4 DEF ControlIInv, ControlLoading, ControlPauseHolds,
      ControlVolumeKnown, f
  <2> QED BY <1>1, <2>3, <2>5, <2>6, ControlQuietKeeps DEF ControlIInv
<1>5. CASE /\ pcCtl.vo /\ pcMpv.file = "loaded"
           /\ Control!FinishLoad([pcCtl EXCEPT !.vo = FALSE, !.resume = None, !.ready = TRUE,
                                       !.life = "ready"])
  <2> DEFINE c == [pcCtl EXCEPT !.vo = f, !.resume = n, !.ready = t, !.life = l]
  <2>1. Control!FinishLoad(c)
    BY <1>5
  <2> HIDE DEF f, t, n, l
  <2>2. /\ c \in ControlControls /\ c.thread = "running" /\ c.load = pcCtl.load /\ c.vo = f /\ c.resume = n
        /\ c.current = pcCtl.current /\ c.interrupted = pcCtl.interrupted /\ c.seek = pcCtl.seek
        /\ c.volume = pcCtl.volume /\ c.captured = pcCtl.captured
    <3>1. pcCtl \in ControlControls /\ n \in Control!Positions \cup {None} /\ f \in BOOLEAN /\ t \in BOOLEAN /\ l \in ControlLives
      BY <1>1, <1>2
    <3>2. c \in ControlControls
      BY <3>1 DEF ControlControls
    <3>3. /\ c.thread = pcCtl.thread /\ c.load = pcCtl.load /\ c.vo = f /\ c.resume = n
          /\ c.current = pcCtl.current /\ c.interrupted = pcCtl.interrupted /\ c.seek = pcCtl.seek
          /\ c.volume = pcCtl.volume /\ c.captured = pcCtl.captured
      BY <3>1 DEF ControlControls
    <3> QED BY <1>1, <3>2, <3>3
  <2> HIDE DEF c
  <2>3. pcCtl.load # None
    BY <1>5 DEF ControlIInv, ControlLoading
  <2>4. ~c.vo /\ c.resume = None
    BY <1>2, <2>2 DEF f
  <2> QED BY <1>1, <1>5, <2>1, <2>2, <2>3, <2>4, ControlFinishKeeps
<1>6. CASE Control!Restored
  <2> DEFINE c == [pcCtl EXCEPT !.restoring = f, !.resume = n]
  <2>1. Control!FinishLoad(c) /\ pcCtl.restoring
    BY <1>6 DEF Control!Restored
  <2> HIDE DEF f, t, n, l
  <2>2. /\ c \in ControlControls /\ c.thread = "running" /\ c.load = pcCtl.load /\ c.vo = pcCtl.vo /\ c.resume = n
        /\ c.current = pcCtl.current /\ c.interrupted = pcCtl.interrupted /\ c.seek = pcCtl.seek
        /\ c.volume = pcCtl.volume /\ c.captured = pcCtl.captured /\ c.ready = pcCtl.ready
    BY <1>1, <1>2 DEF ControlControls
  <2> HIDE DEF c
  <2>3. pcMpv.file # "loading" /\ ~c.vo /\ (c.ready /\ c.load = None => pcCtl.current)
    BY <2>1, <2>2 DEF ControlIInv, ControlLoading
  <2> QED BY <1>1, <1>2, <2>1, <2>2, <2>3, ControlFinishKeeps
<1> QED BY <1>3, <1>4, <1>5, <1>6 DEF Control!Started

(* What is waited for may change, as long as the volume stays known.       *)
LEMMA ControlWaitsKeeps ==
  ASSUME Control!ControlAssumption, ControlIInv,
         UNCHANGED <<pcQueue, pcRow, pcVersion, pcCount, pcGhost, pcJobs>>,
         pcCtl.thread = "running", pcCtl' \in ControlControls, pcCtl'.thread = "running",
         pcCtl'.load = pcCtl.load, pcCtl'.vo = pcCtl.vo, pcCtl'.ready = pcCtl.ready,
         pcCtl'.current = pcCtl.current, pcCtl'.interrupted = pcCtl.interrupted,
         pcCtl'.captured = pcCtl.captured, pcCtl'.resume = pcCtl.resume,
         pcCtl'.restoring = pcCtl.restoring,
         pcMpv' \in ControlFiles, pcMpv'.file = pcMpv.file, pcMpv'.pause = pcMpv.pause,
         pcCtl'.seek = None => pcCtl'.volume = None /\ pcMpv'.level = pcGhost.volume,
         pcCtl'.seek # None => pcCtl'.volume = pcGhost.volume /\ pcMpv'.level \in {0, pcGhost.volume},
         pcAnswer' \in [Control!Requests -> {"none", "ok", "error"}]
  PROVE  ControlIInv'
<1>1. pcJobs \in Seq(ControlJobs)
  BY ControlTypes DEF ControlIInv
<1>2. Control!TypeOK'
  BY <1>1, ControlTypes, ControlTypesBack DEF ControlIInv
<1>3. ControlLoadFirst' /\ ControlLoading'
  BY DEF ControlIInv, ControlLoadFirst, ControlLoading
<1>4. ControlPauseHolds' /\ ControlVolumeKnown'
  BY DEF ControlIInv, ControlPauseHolds, ControlVolumeKnown
<1> QED BY <1>1, <1>2, <1>3, <1>4, ControlQuietKeeps DEF ControlIInv

(* The seek and the track that are waited for, and mpv itself.             *)
LEMMA ControlSeekStepKeeps ==
  ASSUME Control!ControlAssumption, ControlIInv,
         Control!Plays \/ Control!AwaitSeek \/ Control!TrackEnds \/ Control!Tick
  PROVE  ControlIInv'
<1>1. /\ pcCtl \in ControlControls /\ pcMpv \in ControlFiles /\ pcJobs \in Seq(ControlJobs)
      /\ UNCHANGED <<pcQueue, pcRow, pcVersion, pcCount, pcGhost, pcJobs>>
  BY ControlTypes DEF ControlIInv, Control!Loop, Control!Plays, Control!AwaitSeek,
    Control!SeekStarts, Control!SeekArrives, Control!SeekEnds, Control!TrackEnds,
    Control!Tick
<1>2. CASE Control!Plays
  <2>1. pcMpv' \in ControlFiles /\ pcMpv'.file = pcMpv.file /\ pcMpv'.pause = pcMpv.pause /\ pcMpv'.level = pcMpv.level
    <3>1. CASE pcMpv' = [pcMpv EXCEPT !.pos = @ + 1] /\ pcMpv.pos < pcLast
      <4> DEFINE p == pcMpv.pos + 1
      <4>1. p \in Control!Positions /\ pcMpv' = [pcMpv EXCEPT !.pos = p]
        BY <1>1, <3>1 DEF ControlFiles, Control!Positions, Control!ControlAssumption
      <4> HIDE DEF p
      <4> QED BY <1>1, <4>1 DEF ControlFiles
    <3>2. CASE pcMpv' = [pcMpv EXCEPT !.pos = pcMpv.target, !.seeking = FALSE]
      <4> DEFINE p == pcMpv.target
      <4>1. p \in Control!Positions /\ pcMpv' = [pcMpv EXCEPT !.pos = p, !.seeking = FALSE]
        BY <1>1, <3>2 DEF ControlFiles
      <4> HIDE DEF p
      <4> QED BY <1>1, <4>1 DEF ControlFiles
    <3> QED BY <1>2, <3>1, <3>2 DEF Control!Plays
  <2>2. UNCHANGED <<pcCtl, pcAnswer>> /\ pcMpv.file = "loaded"
    BY <1>2 DEF Control!Plays
  <2>3. Control!TypeOK'
    BY <1>1, <2>1, <2>2, ControlTypes, ControlTypesBack DEF ControlIInv
  <2>4. ControlLoadFirst' /\ ControlLoading' /\ ControlPauseHolds' /\ ControlVolumeKnown'
    BY <1>1, <2>1, <2>2 DEF ControlIInv, ControlLoadFirst, ControlLoading,
      ControlPauseHolds, ControlVolumeKnown
  <2>5. ControlLookupLast' /\ ControlRecorded'
    BY <1>1, <2>2, ControlWillBeKept DEF ControlIInv, ControlLookupLast, ControlRecorded
  <2> QED BY <2>3, <2>4, <2>5 DEF ControlIInv
<1>4. pcCtl.seek \in Control!Seeks \cup {None} /\ pcCtl.volume \in pcLevels \cup {None}
      /\ pcCtl.track \in Control!Tracks \cup {None} /\ pcCtl.eof \in BOOLEAN
  BY <1>1 DEF ControlControls
<1>5. pcCtl.thread = "running" =>
        IF pcCtl.seek = None THEN pcCtl.volume = None /\ pcMpv.level = pcGhost.volume
        ELSE pcCtl.volume = pcGhost.volume /\ pcMpv.level \in {0, pcGhost.volume}
  BY DEF ControlIInv, ControlVolumeKnown
<1>6. pcAnswer \in [Control!Requests -> {"none", "ok", "error"}]
  BY ControlTypes DEF ControlIInv
<1>7. ASSUME NEW phase \in {"waiting", "fade in"}, pcCtl.seek # None,
             pcCtl' = [pcCtl EXCEPT !.seek.phase = phase], pcCtl.thread = "running",
             pcMpv' \in ControlFiles, pcMpv'.file = pcMpv.file, pcMpv'.pause = pcMpv.pause,
             pcMpv'.level \in {0, pcGhost.volume}, UNCHANGED pcAnswer
      PROVE  ControlIInv'
  <2> DEFINE k == [pcCtl.seek EXCEPT !.phase = phase]
  <2>1. k \in Control!Seeks /\ k # None
    <3>1. pcCtl.seek \in Control!Seeks /\ None \notin Control!Seeks
      BY <1>4, <1>7 DEF Control!ControlAssumption
    <3>2. k \in Control!Seeks
      BY <3>1, <1>7 DEF Control!Seeks
    <3> QED BY <3>1, <3>2
  <2>2. pcCtl' = [pcCtl EXCEPT !.seek = k] /\ pcCtl.volume = pcGhost.volume
    BY <1>5, <1>7
  <2> HIDE DEF k
  <2>3. /\ pcCtl' \in ControlControls /\ pcCtl'.thread = pcCtl.thread /\ pcCtl'.seek = k /\ pcCtl'.volume = pcCtl.volume
        /\ pcCtl'.load = pcCtl.load
        /\ pcCtl'.vo = pcCtl.vo /\ pcCtl'.ready = pcCtl.ready /\ pcCtl'.current = pcCtl.current
        /\ pcCtl'.interrupted = pcCtl.interrupted /\ pcCtl'.captured = pcCtl.captured
        /\ pcCtl'.resume = pcCtl.resume /\ pcCtl'.restoring = pcCtl.restoring
    BY <1>1, <2>1, <2>2 DEF ControlControls
  <2> QED BY <1>1, <1>6, <1>7, <2>1, <2>2, <2>3, ControlWaitsKeeps
<1>8. CASE Control!SeekStarts
  <2> DEFINE p == pcCtl.seek.target  z == 0  t == TRUE
  <2>1. /\ pcCtl.seek # None /\ pcCtl' = [pcCtl EXCEPT !.seek.phase = "waiting"]
        /\ pcMpv' = [pcMpv EXCEPT !.level = z, !.seeking = t, !.target = p]
        /\ UNCHANGED pcAnswer /\ pcCtl.thread = "running" /\ z \in pcLevels \cup {0} /\ t \in BOOLEAN
    BY <1>8 DEF Control!SeekStarts, Control!Seeking, Control!Loop
  <2>2. p \in Control!Positions
    BY <1>4, <2>1 DEF Control!Seeks
  <2> HIDE DEF p, z, t
  <2>3. pcMpv' \in ControlFiles /\ pcMpv'.file = pcMpv.file /\ pcMpv'.pause = pcMpv.pause /\ pcMpv'.level = z
    BY <1>1, <2>1, <2>2 DEF ControlFiles
  <2> QED BY <1>7, <2>1, <2>3 DEF z
<1>9. CASE Control!SeekArrives
  <2>1. /\ pcCtl.seek # None /\ pcCtl' = [pcCtl EXCEPT !.seek.phase = "fade in"]
        /\ UNCHANGED <<pcMpv, pcAnswer>> /\ pcCtl.thread = "running"
    BY <1>9 DEF Control!SeekArrives, Control!Seeking, Control!Loop
  <2> QED BY <1>1, <1>5, <1>7, <2>1
<1>10. CASE Control!SeekEnds
  <2> DEFINE k == None  v == None  w == pcCtl.volume
  <2>1. /\ pcCtl.seek # None /\ pcCtl.thread = "running" /\ pcMpv' = [pcMpv EXCEPT !.level = w]
        /\ pcCtl' = [pcCtl EXCEPT !.seek = k, !.volume = v]
    BY <1>10 DEF Control!SeekEnds, Control!Loop
  <2>2. pcAnswer' \in [Control!Requests -> {"none", "ok", "error"}]
    BY <1>10, ControlAnswersTyped DEF Control!SeekEnds
  <2>3. w = pcGhost.volume /\ w \in pcLevels
    BY <1>4, <1>5, <2>1, ControlTypes DEF ControlIInv
  <2>4. k \in Control!Seeks \cup {None} /\ k = None /\ v \in pcLevels \cup {None} /\ v = None
    OBVIOUS
  <2> HIDE DEF k, v, w
  <2>5. pcMpv' \in ControlFiles /\ pcMpv'.file = pcMpv.file /\ pcMpv'.pause = pcMpv.pause /\ pcMpv'.level = w
    BY <1>1, <2>1, <2>3 DEF ControlFiles
  <2>6. /\ pcCtl' \in ControlControls /\ pcCtl'.thread = pcCtl.thread /\ pcCtl'.seek = k /\ pcCtl'.volume = v
        /\ pcCtl'.load = pcCtl.load
        /\ pcCtl'.vo = pcCtl.vo /\ pcCtl'.ready = pcCtl.ready /\ pcCtl'.current = pcCtl.current
        /\ pcCtl'.interrupted = pcCtl.interrupted /\ pcCtl'.captured = pcCtl.captured
        /\ pcCtl'.resume = pcCtl.resume /\ pcCtl'.restoring = pcCtl.restoring
    BY <1>1, <2>1, <2>4 DEF ControlControls
  <2> QED BY <1>1, <2>1, <2>2, <2>3, <2>4, <2>5, <2>6, ControlWaitsKeeps
<1>11. CASE Control!TrackEnds
  <2> DEFINE t == None
  <2>1. pcCtl.thread = "running" /\ UNCHANGED pcMpv /\ pcCtl' = [pcCtl EXCEPT !.track = t]
        /\ t \in Control!Tracks \cup {None}
    BY <1>11 DEF Control!TrackEnds, Control!Loop
  <2>2. pcAnswer' \in [Control!Requests -> {"none", "ok", "error"}]
    BY <1>11, ControlAnswersTyped DEF Control!TrackEnds
  <2> HIDE DEF t
  <2>3. /\ pcCtl' \in ControlControls /\ pcCtl'.thread = pcCtl.thread /\ pcCtl'.seek = pcCtl.seek /\ pcCtl'.volume = pcCtl.volume
        /\ pcCtl'.load = pcCtl.load
        /\ pcCtl'.vo = pcCtl.vo /\ pcCtl'.ready = pcCtl.ready /\ pcCtl'.current = pcCtl.current
        /\ pcCtl'.interrupted = pcCtl.interrupted /\ pcCtl'.captured = pcCtl.captured
        /\ pcCtl'.resume = pcCtl.resume /\ pcCtl'.restoring = pcCtl.restoring
    BY <1>1, <2>1 DEF ControlControls
  <2>4. pcMpv' \in ControlFiles /\ pcMpv'.file = pcMpv.file /\ pcMpv'.pause = pcMpv.pause /\ pcMpv'.level = pcMpv.level
    BY <1>1, <2>1
  <2> QED BY <1>1, <1>5, <2>1, <2>2, <2>3, <2>4, ControlWaitsKeeps
<1>12. CASE Control!Tick
  <2> DEFINE e == pcCtl.eof /\ pcMpv.pos = pcLast
  <2>1. pcCtl.thread = "running" /\ UNCHANGED <<pcMpv, pcAnswer>> /\ pcCtl' = [pcCtl EXCEPT !.eof = e]
    BY <1>12 DEF Control!Tick, Control!Loop
  <2>2. e \in BOOLEAN
    BY <1>4
  <2> HIDE DEF e
  <2>3. /\ pcCtl' \in ControlControls /\ pcCtl'.thread = pcCtl.thread /\ pcCtl'.seek = pcCtl.seek /\ pcCtl'.volume = pcCtl.volume
        /\ pcCtl'.load = pcCtl.load
        /\ pcCtl'.vo = pcCtl.vo /\ pcCtl'.ready = pcCtl.ready /\ pcCtl'.current = pcCtl.current
        /\ pcCtl'.interrupted = pcCtl.interrupted /\ pcCtl'.captured = pcCtl.captured
        /\ pcCtl'.resume = pcCtl.resume /\ pcCtl'.restoring = pcCtl.restoring
    BY <1>1, <2>1, <2>2 DEF ControlControls
  <2>4. /\ pcMpv' \in ControlFiles /\ pcMpv'.file = pcMpv.file /\ pcMpv'.pause = pcMpv.pause /\ pcMpv'.level = pcMpv.level
        /\ pcAnswer' \in [Control!Requests -> {"none", "ok", "error"}]
    BY <1>1, <1>6, <2>1
  <2> QED BY <1>1, <1>5, <2>1, <2>3, <2>4, ControlWaitsKeeps
<1> QED BY <1>2, <1>8, <1>9, <1>10, <1>11, <1>12 DEF Control!AwaitSeek

(* A position is captured of a file that is loaded.                        *)
LEMMA ControlCaptureKeeps ==
  ASSUME Control!ControlAssumption, ControlIInv, Control!Eof \/ Control!Checkpoint
  PROVE  ControlIInv'
<1>1. /\ pcCtl \in ControlControls /\ pcMpv \in ControlFiles /\ pcJobs \in Seq(ControlJobs) /\ pcCtl.thread = "running"
      /\ UNCHANGED <<pcQueue, pcRow, pcVersion, pcCount, pcGhost, pcAnswer>> /\ pcCtl.load = None
      /\ pcAnswer \in [Control!Requests -> {"none", "ok", "error"}]
  BY ControlTypes DEF ControlIInv, Control!Loop, Control!Eof, Control!Checkpoint
<1>2. pcCtl.current /\ pcCtl.resume = None
  BY DEF ControlIInv, ControlLoading, Control!Eof, Control!Checkpoint
<1>3. ASSUME NEW p \in Control!Positions, NEW b \in BOOLEAN, NEW e \in BOOLEAN, NEW i \in BOOLEAN, NEW l \in ControlLives,
             pcJobs' = Control!Saves(p, b),
             pcCtl' = [pcCtl EXCEPT !.eof = e, !.intent = i, !.life = l, !.captured = Control!Record(p, b)],
             pcMpv' \in ControlFiles, pcMpv'.file = pcMpv.file, pcMpv.pause => pcMpv'.pause, pcMpv'.level = pcMpv.level
      PROVE  ControlIInv'
  <2> DEFINE r == Control!Record(p, b)
  <2>1. r \in Control!Positions \cup {None}
    BY <1>1, <1>3, ControlSavesTyped DEF ControlIInv
  <2>2. pcCtl' = [pcCtl EXCEPT !.eof = e, !.intent = i, !.life = l, !.captured = r]
    BY <1>3
  <2> HIDE DEF r
  <2>8. /\ pcCtl'.thread = "running" /\ pcCtl'.load = pcCtl.load
        /\ pcCtl'.vo = pcCtl.vo /\ pcCtl'.ready = pcCtl.ready /\ pcCtl'.current = pcCtl.current
        /\ pcCtl'.interrupted = pcCtl.interrupted
        /\ pcCtl'.seek = pcCtl.seek /\ pcCtl'.volume = pcCtl.volume /\ pcCtl'.captured = r
        /\ pcCtl'.resume = pcCtl.resume /\ pcCtl'.restoring = pcCtl.restoring
    BY <1>1, <2>2 DEF ControlControls
  <2>9. pcCtl' \in ControlControls
    <3>1. pcCtl \in ControlControls /\ e \in BOOLEAN /\ i \in BOOLEAN /\ l \in ControlLives
      BY <1>1
    <3>2. [pcCtl EXCEPT !.eof = e, !.intent = i, !.life = l, !.captured = r] \in ControlControls
      BY <3>1, <2>1, ControlCaptureTyped
    <3> QED BY <2>2, <3>2
  <2>3. /\ pcCtl' \in ControlControls /\ pcCtl'.thread = "running" /\ pcCtl'.load = pcCtl.load
        /\ pcCtl'.vo = pcCtl.vo /\ pcCtl'.ready = pcCtl.ready /\ pcCtl'.current = pcCtl.current
        /\ pcCtl'.interrupted = pcCtl.interrupted
        /\ pcCtl'.seek = pcCtl.seek /\ pcCtl'.volume = pcCtl.volume /\ pcCtl'.captured = r
        /\ pcCtl'.resume = pcCtl.resume /\ pcCtl'.restoring = pcCtl.restoring
    BY <2>8, <2>9
  <2>4. ControlLookupLast' /\ ControlRecorded' /\ pcJobs' \in Seq(ControlJobs)
    <3>1. pcGhost'.spoilt \/ (pcGhost'.spoilt = pcGhost.spoilt /\ pcCtl.current /\ pcCtl'.current
                               /\ pcCtl'.resume = pcCtl.resume)
      BY <1>1, <1>2, <2>3
    <3>2. pcCtl'.captured = Control!Record(p, b)
      BY <2>3 DEF r
    <3> QED BY <1>1, <1>3, <2>3, <3>1, <3>2, ControlSaveKeeps
  <2>5. Control!TypeOK'
    BY <1>1, <1>3, <2>3, <2>4, ControlTypes, ControlTypesBack DEF ControlIInv
  <2>6. ControlLoadFirst' /\ ControlLoading' /\ ControlPauseHolds' /\ ControlVolumeKnown'
    <3>1. ControlLoadFirst' /\ ControlLoading'
      BY <1>1, <1>2, <1>3, <2>3, ControlNoneToLoad DEF ControlIInv, ControlLoading
    <3>2. ControlPauseHolds' /\ ControlVolumeKnown'
      BY <1>1, <1>3, <2>3 DEF ControlIInv, ControlPauseHolds, ControlVolumeKnown
    <3> QED BY <3>1, <3>2
  <2> QED BY <2>4, <2>5, <2>6 DEF ControlIInv
<1>4. pcMpv.pos \in Control!Positions /\ 0 \in Control!Positions /\ pcCtl.life \in ControlLives /\ pcCtl.intent \in BOOLEAN
  BY <1>1 DEF ControlFiles, ControlControls, Control!Positions,
    Control!ControlAssumption
<1>5. CASE Control!Eof
  <2> DEFINE l == "paused"  f == FALSE  t == TRUE  z == 0  p == pcMpv.pos
  <2>1. /\ pcJobs' = Control!Saves(p, t) /\ pcMpv' = [pcMpv EXCEPT !.pause = t, !.pos = z]
        /\ pcCtl' = [pcCtl EXCEPT !.eof = t, !.intent = f, !.life = l, !.captured = 0]
        /\ t \in BOOLEAN /\ f \in BOOLEAN /\ l \in ControlLives /\ z \in Control!Positions
    BY <1>4, <1>5 DEF Control!Eof, ControlLives
  <2>2. Control!Record(p, t) = 0 /\ t = TRUE
    BY DEF Control!Record
  <2> HIDE DEF l, f, t, z
  <2>3. pcMpv' \in ControlFiles /\ pcMpv'.file = pcMpv.file /\ pcMpv'.pause = t /\ pcMpv'.level = pcMpv.level
    BY <1>1, <2>1 DEF ControlFiles
  <2>4. pcCtl' = [pcCtl EXCEPT !.eof = t, !.intent = f, !.life = l, !.captured = Control!Record(p, t)]
    BY <2>1, <2>2
  <2> HIDE DEF p
  <2> QED BY <1>3, <1>4, <2>1, <2>2, <2>3, <2>4 DEF p
<1>6. CASE Control!Checkpoint
  <2> DEFINE e == pcCtl.eof /\ pcMpv.pos = pcLast  p == pcMpv.pos  f == FALSE  l == pcCtl.life  i == pcCtl.intent
  <2>1. /\ pcJobs' = Control!Saves(p, f) /\ UNCHANGED pcMpv
        /\ pcCtl' = [pcCtl EXCEPT !.captured = Control!Record(p, f), !.eof = e]
        /\ f \in BOOLEAN
    BY <1>6 DEF Control!Checkpoint
  <2>2. e \in BOOLEAN
    BY <1>1 DEF ControlControls
  <2> HIDE DEF e, f
  <2>3. pcCtl' = [pcCtl EXCEPT !.eof = e, !.intent = i, !.life = l, !.captured = Control!Record(p, f)]
    BY <1>1, <2>1 DEF ControlControls
  <2>4. i \in BOOLEAN /\ l \in ControlLives /\ p \in Control!Positions
    BY <1>4
  <2> HIDE DEF p, i, l
  <2> QED BY <1>1, <1>3, <2>1, <2>2, <2>3, <2>4
<1> QED BY <1>5, <1>6

LEMMA ControlEndsKeeps ==
  ASSUME Control!ControlAssumption, ControlIInv, Control!Ends
  PROVE  ControlIInv'
<1> DEFINE k == pcCtl.load = None /\ pcCtl.current
           p == pcMpv.pos
           n == IF k THEN Control!Record(p, FALSE) ELSE pcGhost.left
<1>1. /\ pcCtl \in ControlControls /\ pcMpv \in ControlFiles /\ pcJobs \in Seq(ControlJobs) /\ pcCtl.thread = "running"
      /\ UNCHANGED <<pcRow, pcVersion, pcCount>>
      /\ pcCtl' = [Control!Closed EXCEPT !.thread = "ended"]
      /\ pcJobs' = IF k THEN Control!Saves(p, FALSE) ELSE pcJobs
      /\ pcGhost' = [pcGhost EXCEPT !.left = n]
      /\ pcQueue' = <<>> /\ pcMpv' = Control!NoFile
      /\ pcGhost \in [volume : pcLevels, left : Control!Positions \cup {None}, spoilt : BOOLEAN]
  BY ControlTypes DEF ControlIInv, Control!Ends, Control!EndsIf
<1>2. pcAnswer' \in [Control!Requests -> {"none", "ok", "error"}]
  BY ControlAnswersTyped DEF Control!Ends, Control!EndsIf
<1>3. /\ pcCtl' \in ControlControls /\ pcCtl'.thread = "ended" /\ pcCtl'.captured = None /\ ~pcCtl'.interrupted
      /\ pcCtl'.load = None /\ ~pcCtl'.vo /\ ~pcCtl'.ready /\ ~pcCtl'.current /\ ~pcCtl'.restoring
  BY <1>1 DEF Control!Closed, ControlControls, ControlLives
<1>4. pcMpv' \in ControlFiles /\ pcMpv'.file = "none"
  BY <1>1, ControlClosedTyped
<1>5. /\ p \in Control!Positions /\ Control!Record(p, FALSE) \in Control!Positions /\ n \in Control!Positions \cup {None}
  BY <1>1 DEF ControlFiles, Control!Record, Control!Positions, Control!ControlAssumption
<1>6. /\ pcJobs' \in Seq(ControlJobs)
      /\ \A i \in 1..Len(pcJobs') : pcJobs'[i].kind = "lookup" => pcJobs'[i].arg <= pcCount'.sent
  <2>1. CASE k
    <3>1. pcJobs' = Control!Saves(p, FALSE) /\ UNCHANGED pcCount
      BY <1>1, <2>1
    <3> HIDE DEF p
    <3> QED BY <1>1, <1>5, <3>1, ControlSavesTyped DEF ControlIInv
  <2>2. CASE ~k
    BY <1>1, <2>2 DEF ControlIInv, ControlLookupLast
  <2> QED BY <2>1, <2>2
<1>7. ASSUME ~pcGhost.spoilt, n # None, NEW a, a = n PROVE ControlWillBe(a)'
  <2>1. CASE k
    <3>1. pcJobs' = Control!Saves(p, FALSE) /\ UNCHANGED <<pcRow, pcVersion>>
      BY <1>1, <2>1
    <3>2. a = Control!Record(p, FALSE)
      BY <1>7, <2>1
    <3> HIDE DEF p, n
    <3> QED BY <1>1, <1>5, <1>7, <3>1, <3>2, ControlSavesWillBe DEF ControlIInv
  <2>2. CASE ~k
    <3>1. pcCtl.captured = None /\ n = pcGhost.left
      BY <1>7, <2>2 DEF ControlIInv, ControlRecorded, ControlLoading
    <3>2. ControlWillBe(a)
      BY <1>7, <3>1 DEF ControlIInv, ControlRecorded
    <3>3. UNCHANGED <<pcJobs, pcRow, pcVersion>>
      BY <1>1, <2>2
    <3> QED BY <3>2, <3>3, ControlWillBeKept
  <2> QED BY <2>1, <2>2
<1> HIDE DEF k, p, n
<1>8. /\ pcGhost' \in [volume : pcLevels, left : Control!Positions \cup {None}, spoilt : BOOLEAN]
      /\ pcGhost'.left = n /\ pcGhost'.spoilt = pcGhost.spoilt
  BY <1>1, <1>5
<1>9. Control!TypeOK'
  <2>1. pcQueue' \in Seq(ControlMessages)
    BY <1>1
  <2> QED BY <1>1, <1>2, <1>3, <1>4, <1>6, <1>8, <2>1, ControlTypes, ControlTypesBack
      DEF ControlIInv
<1>10. ControlLoadFirst' /\ ControlLoading' /\ ControlPauseHolds' /\ ControlVolumeKnown' /\ ControlLookupLast'
  <2>1. Len(pcQueue') = 0
    BY <1>1
  <2>2. ControlLoadFirst'
    BY <1>1, <1>3, <1>4, <2>1 DEF ControlLoadFirst
  <2>3. ControlLoading'
    BY <1>3, <1>4 DEF ControlLoading
  <2>4. ControlPauseHolds' /\ ControlVolumeKnown' /\ ControlLookupLast'
    BY <1>3, <1>6 DEF ControlPauseHolds, ControlVolumeKnown, ControlLookupLast
  <2> QED BY <2>2, <2>3, <2>4
<1>11. ControlRecorded'
  <2>1. ASSUME ~pcGhost'.spoilt, pcGhost'.left # None PROVE ControlWillBe(pcGhost.left)'
    <3>1. PICK a : a = n
      OBVIOUS
    <3>2. ControlWillBe(a)' /\ pcGhost'.left = a
      BY <1>7, <1>8, <2>1, <3>1
    <3> QED BY <3>2 DEF ControlWillBe, ControlRowOf
  <2> QED BY <1>3, <1>8, <2>1 DEF ControlRecorded
<1> QED BY <1>9, <1>10, <1>11 DEF ControlIInv

-----------------------------------------------------------------------------
LEMMA ControlInvariant == Control!ControlAssumption => (Control!Spec => []ControlIInv)
<1> SUFFICES ASSUME Control!ControlAssumption PROVE Control!Spec => []ControlIInv
  OBVIOUS
<1>1. Control!Init => ControlIInv
  BY ControlInitHolds
<1>2. ASSUME ControlIInv, [Control!Next]_Control!vars PROVE ControlIInv'
  <2>1. CASE UNCHANGED Control!vars
    <3>1. Control!TypeOK'
      BY <1>2, <2>1 DEF ControlIInv, Control!TypeOK, Control!vars
    <3>2. ControlLoadFirst' /\ ControlLoading' /\ ControlPauseHolds' /\ ControlVolumeKnown' /\ ControlLookupLast'
      BY <1>2, <2>1 DEF ControlIInv, Control!vars, ControlLoadFirst, ControlLoading,
        ControlPauseHolds, ControlVolumeKnown, ControlLookupLast
    <3>3. ControlRecorded'
      BY <1>2, <2>1, ControlWillBeKept DEF ControlIInv, Control!vars, ControlRecorded
    <3> QED BY <3>1, <3>2, <3>3 DEF ControlIInv
  <2>2. CASE Control!Open \/ \E kind \in pcKinds : Control!Request(kind)
    BY <1>2, <2>2, ControlOpenKeeps, ControlRequestKeeps
  <2>3. CASE Control!Handle
    BY <1>2, <2>3, ControlHandleLoadKeeps, ControlHandlePlayKeeps,
      ControlHandlePauseKeeps, ControlHandleSeekKeeps, ControlHandleVolumeKeeps,
      ControlHandleOtherKeeps DEF Control!Handle
  <2>4. CASE Control!FileLoaded \/ Control!Started \/ Control!Restored \/ Control!NotStarted \/ Control!EndFile
    BY <1>2, <2>4, ControlStartedKeeps, ControlFailKeeps
  <2>5. CASE Control!Plays \/ Control!AwaitSeek \/ Control!TrackEnds \/ Control!Tick \/ Control!Eof \/ Control!Checkpoint \/ Control!Ends
    BY <1>2, <2>5, ControlSeekStepKeeps, ControlCaptureKeeps, ControlEndsKeeps
  <2>6. CASE Control!Worker \/ Control!WorkerFails \/ Control!LookupLate \/ Control!FileChanges
    BY <1>2, <2>6, ControlWorkerKeeps, ControlLookupKeeps DEF Control!Worker
  <2> QED BY <1>2, <2>1, <2>2, <2>3, <2>4, <2>5, <2>6 DEF Control!Next
<1> QED BY <1>1, <1>2, PTL DEF Control!Spec

(* The control thread, mpv, the queues, the record and the history keep    *)
(* their types (player.rs, history.rs).                                    *)
THEOREM ControlTypeCorrect ==
  ASSUME Control!ControlAssumption
  PROVE  Control!Spec => []Control!TypeOK
<1>1. ControlIInv => Control!TypeOK
  BY DEF ControlIInv
<1> QED BY <1>1, ControlInvariant, PTL

(* A pause holds until a later play, whatever load or resume ends          *)
(* meanwhile (player.rs: finish_load, control_loop).                       *)
THEOREM ControlPauseHeld ==
  ASSUME Control!ControlAssumption
  PROVE  Control!Spec => []Control!PauseWins
<1>1. ControlIInv => Control!PauseWins
  BY DEF ControlIInv, ControlPauseHolds, Control!PauseWins
<1> QED BY <1>1, ControlInvariant, PTL

(* Between seeks the volume is the user's (player.rs: control_loop).       *)
THEOREM ControlVolumeComesBack ==
  ASSUME Control!ControlAssumption
  PROVE  Control!Spec => []Control!VolumeRestored
<1>1. ControlIInv => Control!VolumeRestored
  BY DEF ControlIInv, ControlVolumeKnown, Control!VolumeRestored
<1> QED BY <1>1, ControlInvariant, PTL

(* Once the worker is done the record is what the last session left, as    *)
(* long as no write failed and no pause came while a load with its resume  *)
(* was under way, which records position 0 (history.rs, player.rs).        *)
THEOREM ControlHistoryIsKept ==
  ASSUME Control!ControlAssumption
  PROVE  Control!Spec => []Control!HistoryKept
<1>1. ASSUME ControlIInv PROVE Control!HistoryKept
  <2>1. SUFFICES ASSUME ~pcGhost.spoilt, pcCtl.thread = "ended", pcJobs = <<>>, pcGhost.left # None
                 PROVE  pcRow = ControlRowOf(pcGhost.left)
    BY <2>1 DEF Control!HistoryKept, Control!RecordKept, ControlRowOf
  <2>2. ControlWillBe(pcGhost.left)
    BY <1>1, <2>1 DEF ControlIInv, ControlLoadFirst, ControlRecorded
  <2>3. Len(pcJobs) = 0
    BY <2>1
  <2> QED BY <2>2, <2>3 DEF ControlWillBe
<1> QED BY <1>1, ControlInvariant, PTL

(* What a session resumes from is the record of the file as it is          *)
(* (history.rs: lookup_at).                                                *)
THEOREM ControlResumesFromRecord ==
  ASSUME Control!ControlAssumption
  PROVE  Control!Spec => []Control!ResumesThere
<1>1. ControlIInv => Control!ResumesThere
  BY DEF ControlIInv, ControlRecorded, Control!ResumesThere
<1> QED BY <1>1, ControlInvariant, PTL

-----------------------------------------------------------------------------
(* The views of a player and its cover, for any number of threads,         *)
(* commands and failures.                                                  *)
ViewsViewOps == {"geometry", "show", "hide", "remove"}
ViewsCoverOps == {"cover", "uncover", "drop cover"}
ViewsLive == vwSurface.views = "live" /\ ~vwSurface.released

(* Tasks of views are posted while the views are there; the removal is the *)
(* last of them, and the creation comes before all of them.                *)
ViewsTasksInOrder ==
  \A i \in 1..Len(vwMain.tasks) :
    /\ vwMain.tasks[i].op \in ViewsViewOps => vwSurface.views = "live"
    /\ vwMain.tasks[i].op = "remove" =>
         /\ vwSurface.released
         /\ \A j \in 1..Len(vwMain.tasks) : i < j => vwMain.tasks[j].op \notin ViewsViewOps
    /\ vwMain.tasks[i].op = "create" =>
         /\ vwSurface.views = "none" /\ vwLife \in {"creating", "closed"}
         /\ \A j \in 1..Len(vwMain.tasks) : vwMain.tasks[j].op = "create" => j = i

(* Who still uses the views keeps them.                                    *)
ViewsViewsHeld ==
  /\ vwLife \in {"created", "starting", "running", "hiding", "stopping"} => ViewsLive
  /\ \A c \in vwCallers : vwCall[c].op \in {"geometry", "show", "hide"} => ViewsLive
  /\ vwLife \in {"new", "creating"} => vwSurface.views = "none"
  /\ vwSurface.released => vwLife = "closed"

(* The render context belongs to the render thread.                        *)
ViewsRenderOrder ==
  /\ vwMpv.handle = "destroyed" => vwLife = "closed" /\ vwRender.pc \in Views!Ended
  /\ vwRender.pc \in {"none", "makes", "over"} => ~vwMpv.context /\ ~vwMpv.callback
  /\ vwLife \in {"new", "creating", "created"} => vwRender.pc = "none"

(* A command to the cover that is under way, and a task that one left in   *)
(* the queue, is an earlier one or the last.                               *)
ViewsCommanded ==
  \A c \in vwCallers :
    /\ vwCall[c].step = "idle" <=> vwCall[c].op = "none"
    /\ vwCall[c].step = "last" => vwCall[c].op = "uncover"
    /\ vwCall[c].op \in {"cover", "uncover"} =>
         /\ vwCall[c].gen <= vwCover.gen
         /\ vwCall[c].gen = vwCover.gen => vwCall[c].op = vwCover.last

ViewsCoverTask(t) ==
  t.op \in ViewsCoverOps =>
    /\ t.gen <= vwCover.gen
    /\ t.gen = vwCover.gen => t.op = vwCover.last \/ (t.op = "drop cover" /\ vwCover.last = "uncover")
ViewsTasksCurrent == \A i \in 1..Len(vwMain.tasks) : ViewsCoverTask(vwMain.tasks[i])

(* The last command is still to be posted or done, or the cover is as it   *)
(* wants it.                                                               *)
ViewsCallPending(c) ==
  vwCall[c].op \in {"cover", "uncover"} /\ vwCall[c].step = "post" /\ vwCall[c].gen = vwCover.gen
ViewsTaskPending(t) == t.op \in {"cover", "uncover"} /\ t.gen = vwCover.gen
ViewsPending ==
  (\E c \in vwCallers : ViewsCallPending(c)) \/ \E i \in 1..Len(vwMain.tasks) : ViewsTaskPending(vwMain.tasks[i])
ViewsSettled ==
  /\ vwCover.last = "cover" => ~vwCover.hidden /\ vwCover.alpha = 1
  /\ vwCover.last = "uncover" => vwCover.alpha = 0
ViewsCoverSettled == vwKind \in {"metal", "gl"} => ViewsSettled \/ ViewsPending

ViewsIInv ==
  /\ Views!TypeOK /\ ViewsTasksInOrder /\ ViewsViewsHeld /\ ViewsRenderOrder
  /\ ViewsCommanded /\ ViewsTasksCurrent /\ ViewsCoverSettled

ViewsMains == [tasks : Seq(Views!Tasks), exiting : BOOLEAN]
ViewsSurfaces == [views : {"none", "live", "left", "gone"}, hidden : BOOLEAN,
             visible : BOOLEAN, retired : BOOLEAN, released : BOOLEAN]
ViewsLives == {"new", "creating", "created", "starting", "running", "hiding", "stopping", "closed"}
ViewsHandles == [handle : {"none", "live", "destroyed"}, context : BOOLEAN, callback : BOOLEAN]
ViewsRenders == [pc : {"none", "makes", "loop", "draw", "over", "failed"}, stop : BOOLEAN,
            ready : {"no", "yes", "failed"}]
ViewsCovers == [gen : Nat, made : BOOLEAN, alpha : {0, 1}, hidden : BOOLEAN,
           last : {"cover", "uncover"}]
ViewsCounts == [commands : Nat, faults : 0..vwMaxFaults]

LEMMA ViewsTypes ==
  Views!TypeOK <=> /\ vwKind \in vwKinds /\ vwMain \in ViewsMains /\ vwSurface \in ViewsSurfaces /\ vwLife \in ViewsLives
                   /\ vwMpv \in ViewsHandles /\ vwRender \in ViewsRenders /\ vwCall \in [vwCallers -> Views!Calls]
                   /\ vwCover \in ViewsCovers /\ vwCount \in ViewsCounts
BY DEF Views!TypeOK, ViewsMains, ViewsSurfaces, ViewsLives, ViewsHandles, ViewsRenders,
  ViewsCovers, ViewsCounts

LEMMA ViewsTypesBack ==
  ASSUME vwKind' \in vwKinds, vwMain' \in ViewsMains, vwSurface' \in ViewsSurfaces,
         vwLife' \in ViewsLives,
         vwMpv' \in ViewsHandles, vwRender' \in ViewsRenders, vwCall' \in [vwCallers -> Views!Calls],
         vwCover' \in ViewsCovers, vwCount' \in ViewsCounts
  PROVE  Views!TypeOK'
BY DEF Views!TypeOK, ViewsMains, ViewsSurfaces, ViewsLives, ViewsHandles, ViewsRenders,
  ViewsCovers, ViewsCounts

-----------------------------------------------------------------------------
(* The queue of the main thread.                                           *)

LEMMA ViewsPostAppends ==
  ASSUME vwMain \in ViewsMains, NEW op, NEW by, NEW gen,
         Views!Task(op, by, gen) \in Views!Tasks, Views!Post(op, by, gen)
  PROVE  /\ vwMain' \in ViewsMains /\ vwMain'.exiting = vwMain.exiting
         /\ Len(vwMain.tasks) \in Nat /\ Len(vwMain'.tasks) = Len(vwMain.tasks) + 1
         /\ vwMain'.tasks[Len(vwMain.tasks) + 1] = Views!Task(op, by, gen)
         /\ \A i \in 1..Len(vwMain.tasks) : vwMain'.tasks[i] = vwMain.tasks[i]
         /\ \A i \in 1..Len(vwMain'.tasks) : i \in 1..Len(vwMain.tasks) \/ i = Len(vwMain.tasks) + 1
<1> DEFINE t == Views!Task(op, by, gen)  q == Append(vwMain.tasks, t)
<1>1. t \in Views!Tasks /\ vwMain.tasks \in Seq(Views!Tasks) /\ vwMain' = [vwMain EXCEPT !.tasks = q]
  BY DEF ViewsMains, Views!Post
<1> HIDE DEF t
<1>2. /\ q \in Seq(Views!Tasks) /\ Len(vwMain.tasks) \in Nat /\ Len(q) = Len(vwMain.tasks) + 1
      /\ q[Len(vwMain.tasks) + 1] = t /\ \A i \in 1..Len(vwMain.tasks) : q[i] = vwMain.tasks[i]
  BY <1>1
<1> HIDE DEF q
<1>3. vwMain' \in ViewsMains /\ vwMain'.tasks = q /\ vwMain'.exiting = vwMain.exiting
  BY <1>1, <1>2 DEF ViewsMains
<1> QED BY <1>2, <1>3 DEF t

LEMMA ViewsRunTakes ==
  ASSUME vwMain \in ViewsMains, vwMain.tasks # <<>>,
         vwMain' = [vwMain EXCEPT !.tasks = Tail(@)]
  PROVE  /\ vwMain' \in ViewsMains /\ vwMain'.exiting = vwMain.exiting
         /\ Len(vwMain.tasks) \in Nat \ {0} /\ Len(vwMain'.tasks) = Len(vwMain.tasks) - 1
         /\ Head(vwMain.tasks) = vwMain.tasks[1] /\ Head(vwMain.tasks) \in Views!Tasks
         /\ \A i \in 1..Len(vwMain'.tasks) : vwMain'.tasks[i] = vwMain.tasks[i + 1] /\ i + 1 \in 1..Len(vwMain.tasks)
         /\ \A i \in 1..Len(vwMain.tasks) : i # 1 => i - 1 \in 1..Len(vwMain'.tasks) /\ vwMain'.tasks[i - 1] = vwMain.tasks[i]
<1> DEFINE q == Tail(vwMain.tasks)
<1>1. vwMain.tasks \in Seq(Views!Tasks) /\ vwMain' = [vwMain EXCEPT !.tasks = q]
  BY DEF ViewsMains
<1>2. /\ q \in Seq(Views!Tasks) /\ Len(vwMain.tasks) \in Nat \ {0} /\ Len(q) = Len(vwMain.tasks) - 1
      /\ Head(vwMain.tasks) = vwMain.tasks[1] /\ Head(vwMain.tasks) \in Views!Tasks
      /\ \A i \in 1..Len(q) : q[i] = vwMain.tasks[i + 1]
  BY <1>1
<1> HIDE DEF q
<1>3. vwMain' \in ViewsMains /\ vwMain'.tasks = q /\ vwMain'.exiting = vwMain.exiting
  BY <1>1, <1>2 DEF ViewsMains
<1>4. \A i \in 1..Len(vwMain.tasks) : i # 1 => i - 1 \in 1..Len(q) /\ i = (i - 1) + 1
  BY <1>2
<1>5. \A i \in 1..Len(q) : i + 1 \in 1..Len(vwMain.tasks)
  BY <1>2
<1> QED BY <1>2, <1>3, <1>4, <1>5

-----------------------------------------------------------------------------
(* Types.                                                                  *)

LEMMA ViewsCountsFaults ==
  ASSUME vwCount \in ViewsCounts, Views!Fault, Views!PresentationAssumption
  PROVE  vwCount' \in ViewsCounts
<1> DEFINE f == vwCount.faults + 1
<1>1. f \in 0..vwMaxFaults /\ vwCount' = [vwCount EXCEPT !.faults = f]
  BY DEF ViewsCounts, Views!Fault, Views!PresentationAssumption
<1> HIDE DEF f
<1> QED BY <1>1 DEF ViewsCounts

LEMMA ViewsCountTyped ==
  ASSUME Views!PresentationAssumption, Views!TypeOK, [Views!Next]_Views!vars
  PROVE  vwCount' \in ViewsCounts
<1>1. vwCount \in ViewsCounts
  BY ViewsTypes
<1>2. CASE Views!Fault
  BY <1>1, <1>2, ViewsCountsFaults
<1>3. CASE UNCHANGED vwCount
  BY <1>1, <1>3
<1>4. ASSUME NEW c \in vwCallers, NEW op \in vwCommands, Views!Begins(c, op)
      PROVE  vwCount' \in ViewsCounts
  <2> DEFINE n == vwCount.commands + 1
  <2>1. n \in Nat /\ vwCount' = [vwCount EXCEPT !.commands = n]
    BY <1>1, <1>4 DEF ViewsCounts, Views!Begins
  <2> HIDE DEF n
  <2> QED BY <1>1, <2>1 DEF ViewsCounts
<1>5. ASSUME NEW c \in vwCallers, Views!Posts(c) \/ Views!Returns(c) PROVE Views!Fault \/ UNCHANGED vwCount
  BY <1>5 DEF Views!Posts, Views!Returns
<1>6. ASSUME NEW b \in BOOLEAN, Views!CloseBegins(b) PROVE UNCHANGED vwCount
  BY <1>6 DEF Views!CloseBegins
<1>7. ASSUME Views!MainRuns PROVE Views!Fault \/ UNCHANGED vwCount
  BY <1>7 DEF Views!MainRuns, Views!Create
<1>8. ASSUME Views!Starts \/ Views!CreateLate \/ Views!NotStarted \/ Views!CloseHidden \/ Views!MakeContext \/ Views!FrameFails
      PROVE Views!Fault \/ UNCHANGED vwCount
  BY <1>8 DEF Views!Starts, Views!CreateLate, Views!NotStarted, Views!CloseHidden,
    Views!MakeContext, Views!FrameFails
<1>9. ASSUME \/ Views!OpenBegins \/ Views!Started \/ Views!StopRenderer \/ Views!Destroy \/ Views!Release \/ Views!Draw \/ Views!Swap \/ Views!FreeContext
             \/ UNCHANGED Views!vars
      PROVE UNCHANGED vwCount
  BY <1>9 DEF Views!OpenBegins, Views!Started, Views!StopRenderer, Views!Destroy,
    Views!Release, Views!Draw, Views!Swap, Views!FreeContext, Views!vars
<1> QED BY <1>2, <1>3, <1>4, <1>5, <1>6, <1>7, <1>8, <1>9 DEF Views!Next

(* A command posts what it was told, or hides instead of showing.          *)
LEMMA ViewsPostTyped ==
  ASSUME ViewsIInv, NEW c \in vwCallers, Views!Posts(c)
  PROVE  \E op \in (vwCommands \cup {"hide"}) :
           /\ Views!Post(op, c, vwCall[c].gen) /\ Views!Task(op, c, vwCall[c].gen) \in Views!Tasks
           /\ op = vwCall[c].op \/ (vwCall[c].op = "show" /\ op = "hide")
<1> DEFINE op == IF vwCall[c].op = "show" /\ vwSurface.retired THEN "hide" ELSE vwCall[c].op
<1>1. vwCall[c] \in Views!Calls /\ vwCall[c].step = "post"
  BY ViewsTypes DEF ViewsIInv, Views!Posts
<1>2. vwCall[c].op \in vwCommands /\ vwCall[c].gen \in Nat
  BY <1>1 DEF Views!Calls, ViewsIInv, ViewsCommanded
<1>3. op \in vwCommands \cup {"hide"} /\ (op = vwCall[c].op \/ (vwCall[c].op = "show" /\ op = "hide"))
  BY <1>2
<1>4. Views!Post(op, c, vwCall[c].gen)
  BY DEF Views!Posts
<1> HIDE DEF op
<1>5. Views!Task(op, c, vwCall[c].gen) \in Views!Tasks
  BY <1>2, <1>3 DEF Views!Task, Views!Tasks
<1> QED BY <1>3, <1>4, <1>5
LEMMA ViewsRenderTyped ==
  ASSUME ViewsIInv, Views!Next
  PROVE  vwKind' \in vwKinds /\ vwRender' \in ViewsRenders /\ vwMpv' \in ViewsHandles /\ vwLife' \in ViewsLives
<1>1. vwKind \in vwKinds /\ vwRender \in ViewsRenders /\ vwMpv \in ViewsHandles /\ vwLife \in ViewsLives
  BY ViewsTypes DEF ViewsIInv
<1>2. CASE \/ Views!OpenBegins \/ Views!CreateLate \/ Views!Started \/ Views!NotStarted \/ Views!CloseHidden \/ Views!Release
           \/ \E b \in BOOLEAN : Views!CloseBegins(b)
  BY <1>1, <1>2 DEF Views!OpenBegins, Views!CreateLate, Views!Started, Views!NotStarted,
    Views!CloseHidden, Views!Release, Views!CloseBegins, ViewsLives
<1>3. CASE \E c \in vwCallers : Views!Posts(c) \/ Views!Returns(c) \/ \E op \in vwCommands : Views!Begins(c, op)
  BY <1>1, <1>3 DEF Views!Posts, Views!Returns, Views!Begins
<1>4. CASE Views!MainRuns
  BY <1>1, <1>4 DEF Views!MainRuns, Views!Create, ViewsLives
<1>5. CASE Views!Starts
  <2> DEFINE w == "live"  m == "makes"  y == "yes"
  <2>1. /\ vwMpv' = [vwMpv EXCEPT !.handle = w] \/ UNCHANGED vwMpv
        /\ \/ vwRender' = [vwRender EXCEPT !.pc = m]
           \/ vwRender' = [vwRender EXCEPT !.ready = y]
           \/ UNCHANGED vwRender
        /\ UNCHANGED vwKind /\ vwLife' \in ViewsLives
    BY <1>5 DEF Views!Starts, ViewsLives
  <2>2. vwMpv' \in ViewsHandles
    BY <1>1, <2>1 DEF ViewsHandles
  <2>3. vwRender' \in ViewsRenders
    BY <1>1, <2>1 DEF ViewsRenders
  <2> QED BY <1>1, <2>1, <2>2, <2>3
<1>6. CASE Views!StopRenderer \/ Views!Draw \/ Views!Swap \/ Views!FrameFails
  <2>1. /\ \/ vwRender' = [vwRender EXCEPT !.stop = TRUE]
           \/ vwRender' = [vwRender EXCEPT !.pc = "draw"]
           \/ vwRender' = [vwRender EXCEPT !.pc = "loop"]
           \/ vwRender' = [vwRender EXCEPT !.pc = "failed"]
        /\ UNCHANGED <<vwKind, vwMpv, vwLife>>
    BY <1>6 DEF Views!StopRenderer, Views!Draw, Views!Swap, Views!FrameFails
  <2>2. vwRender' \in ViewsRenders
    BY <1>1, <2>1 DEF ViewsRenders
  <2> QED BY <1>1, <2>1, <2>2
<1>7. CASE Views!Destroy
  BY <1>1, <1>7 DEF Views!Destroy, ViewsHandles, ViewsLives
<1>8. CASE Views!MakeContext \/ Views!FreeContext
  <2>1. \/ /\ vwRender' = [vwRender EXCEPT !.pc = "loop", !.ready = "yes"]
           /\ vwMpv' = [vwMpv EXCEPT !.context = TRUE, !.callback = TRUE]
        \/ /\ vwRender' = [vwRender EXCEPT !.pc = "over", !.ready = "failed"]
           /\ UNCHANGED vwMpv
        \/ /\ vwRender' = [vwRender EXCEPT !.pc = "over"]
           /\ vwMpv' = [vwMpv EXCEPT !.context = FALSE, !.callback = FALSE]
    BY <1>8 DEF Views!MakeContext, Views!FreeContext, Views!Ends
  <2>2. UNCHANGED <<vwKind, vwLife>>
    BY <1>8 DEF Views!MakeContext, Views!FreeContext
  <2>3. vwRender' \in ViewsRenders
    BY <1>1, <2>1 DEF ViewsRenders
  <2>4. vwMpv' \in ViewsHandles
    BY <1>1, <2>1 DEF ViewsHandles
  <2> QED BY <1>1, <2>2, <2>3, <2>4
<1> QED BY <1>2, <1>3, <1>4, <1>5, <1>6, <1>7, <1>8 DEF Views!Next

LEMMA ViewsSurfaceTyped ==
  ASSUME ViewsIInv, Views!Next PROVE vwSurface' \in ViewsSurfaces
<1>1. vwSurface \in ViewsSurfaces
  BY ViewsTypes DEF ViewsIInv
<1>2. CASE \/ Views!OpenBegins \/ Views!CreateLate \/ Views!Started \/ Views!NotStarted \/ Views!CloseHidden \/ Views!Starts
           \/ Views!StopRenderer \/ Views!Draw \/ Views!Swap \/ Views!FrameFails \/ Views!Destroy \/ Views!MakeContext \/ Views!FreeContext
  BY <1>1, <1>2 DEF Views!OpenBegins, Views!CreateLate, Views!Started, Views!NotStarted,
    Views!CloseHidden, Views!Starts, Views!StopRenderer, Views!Draw, Views!Swap,
    Views!FrameFails, Views!Destroy, Views!MakeContext, Views!FreeContext
<1>3. CASE \E b \in BOOLEAN : Views!CloseBegins(b)
  <2>1. PICK b \in BOOLEAN : Views!CloseBegins(b)
    BY <1>3
  <2> DEFINE r == vwKind = "metal"  h == b \/ vwSurface.hidden  f == FALSE
  <2>2. r \in BOOLEAN /\ h \in BOOLEAN /\ f \in BOOLEAN
    OBVIOUS
  <2>3. vwSurface' = [vwSurface EXCEPT !.retired = r, !.visible = f, !.hidden = h]
    BY <2>1 DEF Views!CloseBegins
  <2> HIDE DEF r, h, f
  <2> QED BY <1>1, <2>2, <2>3 DEF ViewsSurfaces
<1>4. CASE Views!Release
  BY <1>1, <1>4 DEF Views!Release, ViewsSurfaces
<1>5. CASE \E c \in vwCallers : Views!Posts(c) \/ Views!Returns(c) \/ \E op \in vwCommands : Views!Begins(c, op)
  <2>1. CASE UNCHANGED vwSurface
    BY <1>1, <2>1
  <2>2. ASSUME NEW c \in vwCallers, Views!Posts(c) PROVE vwSurface' \in ViewsSurfaces
    <3> DEFINE v == (IF vwCall[c].op = "show" /\ vwSurface.retired THEN "hide" ELSE vwCall[c].op) = "show"
    <3>1. v \in BOOLEAN /\ (vwSurface' = [vwSurface EXCEPT !.visible = v] \/ vwSurface' = vwSurface)
      BY <2>2 DEF Views!Posts
    <3> HIDE DEF v
    <3> QED BY <1>1, <3>1 DEF ViewsSurfaces
  <2> QED BY <1>5, <2>1, <2>2 DEF Views!Returns, Views!Begins
<1>6. CASE Views!MainRuns
  <2> DEFINE task == Head(vwMain.tasks)
             h == ~(task.op = "show") \/ vwSurface.retired
             w == IF vwLife = "creating" THEN "live" ELSE IF vwKind = "metal" THEN "gone" ELSE "left"
             g == "gone"
  <2>1. \/ vwSurface' = [vwSurface EXCEPT !.views = w] \/ vwSurface' = [vwSurface EXCEPT !.views = g]
        \/ vwSurface' = [vwSurface EXCEPT !.hidden = h] \/ vwSurface' = vwSurface
    BY <1>6 DEF Views!MainRuns, Views!Create, Views!ShowViews
  <2>2. h \in BOOLEAN /\ w \in {"none", "live", "left", "gone"} /\ g \in {"none", "live", "left", "gone"}
    OBVIOUS
  <2> HIDE DEF task, h, w, g
  <2> QED BY <1>1, <2>1, <2>2 DEF ViewsSurfaces
<1> QED BY <1>2, <1>3, <1>4, <1>5, <1>6 DEF Views!Next

LEMMA ViewsMainTyped ==
  ASSUME ViewsIInv, Views!Next PROVE vwMain' \in ViewsMains
<1>1. vwMain \in ViewsMains
  BY ViewsTypes DEF ViewsIInv
<1>2. CASE \/ Views!CreateLate \/ Views!Started \/ Views!NotStarted \/ Views!CloseHidden \/ Views!Starts
           \/ Views!StopRenderer \/ Views!Draw \/ Views!Swap \/ Views!FrameFails \/ Views!MakeContext \/ Views!FreeContext
  BY <1>1, <1>2 DEF Views!CreateLate, Views!Started, Views!NotStarted,
    Views!CloseHidden, Views!Starts, Views!StopRenderer, Views!Draw, Views!Swap,
    Views!FrameFails, Views!MakeContext, Views!FreeContext
<1>3. Views!Task("create", "open", 0) \in Views!Tasks /\ Views!Task("hide", "close", 0) \in Views!Tasks /\ Views!Task("remove", "drop", 0) \in Views!Tasks
  BY DEF Views!Task, Views!Tasks
<1>4. CASE Views!OpenBegins \/ Views!Release
  BY <1>1, <1>3, <1>4, ViewsPostAppends DEF Views!OpenBegins, Views!Release
<1>5. CASE \E b \in BOOLEAN : Views!CloseBegins(b)
  <2>1. Views!Post("hide", "close", 0) \/ vwMain' = [vwMain EXCEPT !.exiting = TRUE]
    BY <1>5 DEF Views!CloseBegins
  <2>2. CASE Views!Post("hide", "close", 0)
    BY <1>1, <1>3, <2>2, ViewsPostAppends
  <2>3. CASE vwMain' = [vwMain EXCEPT !.exiting = TRUE]
    BY <1>1, <2>3 DEF ViewsMains
  <2> QED BY <2>1, <2>2, <2>3
<1>6. CASE Views!Destroy
  BY <1>1, <1>6 DEF Views!Destroy, ViewsMains
<1>7. ASSUME NEW c \in vwCallers, Views!Posts(c) PROVE vwMain' \in ViewsMains
  BY <1>1, <1>7, ViewsPostTyped, ViewsPostAppends
<1>8. ASSUME NEW c \in vwCallers, Views!Returns(c) PROVE vwMain' \in ViewsMains
  <2>1. CASE Views!Post("drop cover", c, vwCall[c].gen)
    <3>1. vwCall[c].gen \in Nat
      BY ViewsTypes DEF ViewsIInv, Views!Calls
    <3>2. Views!Task("drop cover", c, vwCall[c].gen) \in Views!Tasks
      BY <3>1 DEF Views!Task, Views!Tasks
    <3> QED BY <1>1, <2>1, <3>2, ViewsPostAppends
  <2> QED BY <1>1, <1>8, <2>1 DEF Views!Returns
<1>9. ASSUME NEW c \in vwCallers, NEW op \in vwCommands, Views!Begins(c, op) PROVE vwMain' \in ViewsMains
  BY <1>1, <1>9 DEF Views!Begins
<1>10. CASE Views!MainRuns
  BY <1>1, <1>10, ViewsRunTakes DEF Views!MainRuns
<1> QED BY <1>2, <1>4, <1>5, <1>6, <1>7, <1>8, <1>9, <1>10 DEF Views!Next

LEMMA ViewsCallTyped ==
  ASSUME Views!PresentationAssumption, ViewsIInv, Views!Next
  PROVE  vwCall' \in [vwCallers -> Views!Calls] /\ vwCover' \in ViewsCovers
<1>1. vwCall \in [vwCallers -> Views!Calls] /\ vwCover \in ViewsCovers
  BY ViewsTypes DEF ViewsIInv
<1>2. CASE UNCHANGED <<vwCall, vwCover>>
  BY <1>1, <1>2
<1>3. ASSUME NEW c \in vwCallers, NEW op \in vwCommands, Views!Begins(c, op)
      PROVE  vwCall' \in [vwCallers -> Views!Calls] /\ vwCover' \in ViewsCovers
  <2>1. CASE op \in {"cover", "uncover"}
    <3> DEFINE g == vwCover.gen + 1  r == [op |-> op, step |-> "post", gen |-> g]
    <3>1. vwCall' = [vwCall EXCEPT ![c] = r] /\ vwCover' = [vwCover EXCEPT !.gen = g, !.last = op]
      BY <1>3, <2>1 DEF Views!Begins
    <3>2. g \in Nat
      BY <1>1 DEF ViewsCovers
    <3>3. r \in Views!Calls
      BY <3>2 DEF Views!Calls
    <3> HIDE DEF g, r
    <3>4. vwCover' \in ViewsCovers
      BY <1>1, <2>1, <3>1, <3>2 DEF ViewsCovers
    <3> QED BY <1>1, <3>1, <3>3, <3>4
  <2>2. CASE op \notin {"cover", "uncover"}
    <3> DEFINE r == [op |-> op, step |-> "post", gen |-> 0]
    <3>1. vwCall' = [vwCall EXCEPT ![c] = r] /\ UNCHANGED vwCover
      BY <1>3, <2>2 DEF Views!Begins
    <3>2. r \in Views!Calls
      BY DEF Views!Calls
    <3> HIDE DEF r
    <3> QED BY <1>1, <3>1, <3>2
  <2> QED BY <2>1, <2>2
<1>4. ASSUME NEW c \in vwCallers, Views!Posts(c) \/ Views!Returns(c)
      PROVE  vwCall' \in [vwCallers -> Views!Calls] /\ vwCover' \in ViewsCovers
  <2> DEFINE w == [vwCall[c] EXCEPT !.step = "wait"]  l == [vwCall[c] EXCEPT !.step = "last"]
  <2>1. /\ UNCHANGED vwCover
        /\ \/ vwCall' = [vwCall EXCEPT ![c] = w] \/ vwCall' = [vwCall EXCEPT ![c] = l]
           \/ vwCall' = [vwCall EXCEPT ![c] = Views!Idle]
    BY <1>4 DEF Views!Posts, Views!Returns
  <2>2. w \in Views!Calls /\ l \in Views!Calls /\ Views!Idle \in Views!Calls
    BY <1>1 DEF Views!Calls, Views!Idle
  <2> HIDE DEF w, l
  <2> QED BY <1>1, <2>1, <2>2
<1>5. CASE Views!MainRuns
  <2> DEFINE z == 0  o == 1  t == TRUE  f == FALSE
  <2>1. z \in {0, 1} /\ o \in {0, 1} /\ t \in BOOLEAN /\ f \in BOOLEAN
    OBVIOUS
  <2>2. /\ UNCHANGED vwCall
        /\ \/ vwCover' = [vwCover EXCEPT !.alpha = z, !.hidden = t]
           \/ vwCover' = [vwCover EXCEPT !.made = t, !.hidden = f, !.alpha = o]
           \/ vwCover' = [vwCover EXCEPT !.made = t, !.alpha = z]
           \/ vwCover' = vwCover
    BY <1>5 DEF Views!MainRuns, Views!HideCover, Views!Fade, Views!FadeOnWindows
  <2> HIDE DEF z, o, t, f
  <2>3. vwCover' \in ViewsCovers
    BY <1>1, <2>1, <2>2 DEF ViewsCovers
  <2> QED BY <1>1, <2>2, <2>3
<1>6. CASE \/ Views!OpenBegins \/ Views!CreateLate \/ Views!Started \/ Views!NotStarted \/ Views!CloseHidden \/ Views!Starts \/ Views!Release
           \/ Views!StopRenderer \/ Views!Draw \/ Views!Swap \/ Views!FrameFails \/ Views!Destroy \/ Views!MakeContext \/ Views!FreeContext
           \/ \E b \in BOOLEAN : Views!CloseBegins(b)
  BY <1>2, <1>6 DEF Views!OpenBegins, Views!CreateLate, Views!Started, Views!NotStarted,
    Views!CloseHidden, Views!Starts, Views!StopRenderer, Views!Draw, Views!Swap,
    Views!FrameFails, Views!Destroy, Views!MakeContext, Views!FreeContext,
    Views!Release, Views!CloseBegins
<1> QED BY <1>3, <1>4, <1>5, <1>6 DEF Views!Next

LEMMA ViewsTypeKeeps ==
  ASSUME Views!PresentationAssumption, ViewsIInv, Views!Next
  PROVE  Views!TypeOK'
<1>1. vwCount' \in ViewsCounts
  BY ViewsCountTyped DEF ViewsIInv
<1> QED BY <1>1, ViewsRenderTyped, ViewsSurfaceTyped, ViewsMainTyped, ViewsCallTyped,
    ViewsTypesBack
-----------------------------------------------------------------------------
(* The order of the tasks, and who holds the views.                        *)

(* A step that leaves the queue and the views alone.                       *)
LEMMA ViewsHeldQuiet ==
  ASSUME ViewsIInv, vwMain'.tasks = vwMain.tasks, UNCHANGED vwCall,
         vwSurface'.views = vwSurface.views, vwSurface'.released = vwSurface.released,
         \/ vwLife' = vwLife
         \/ vwLife' = "closed"
         \/ vwLife \in {"created", "starting", "running", "hiding", "stopping"}
            /\ vwLife' \in {"starting", "running", "hiding", "stopping"}
  PROVE  ViewsTasksInOrder' /\ ViewsViewsHeld'
<1>1. ViewsTasksInOrder'
  BY DEF ViewsIInv, ViewsTasksInOrder, ViewsViewsHeld, ViewsViewOps, ViewsLive
<1>2. ViewsViewsHeld'
  BY DEF ViewsIInv, ViewsViewsHeld, ViewsLive
<1> QED BY <1>1, <1>2

(* A task of views is posted by someone who holds them.                    *)
LEMMA ViewsHeldPost ==
  ASSUME ViewsIInv, NEW op, NEW by, NEW gen, Views!Task(op, by, gen) \in Views!Tasks,
         Views!Post(op, by, gen),
         op \notin {"create", "remove"}, op \in ViewsViewOps => ViewsLive,
         vwSurface'.views = vwSurface.views, vwSurface'.released = vwSurface.released,
         vwLife' = vwLife \/ (vwLife = "running" /\ vwLife' = "hiding"),
         \A c \in vwCallers : vwCall'[c].op = vwCall[c].op
  PROVE  ViewsTasksInOrder' /\ ViewsViewsHeld'
<1>1. /\ Len(vwMain.tasks) \in Nat /\ Len(vwMain'.tasks) = Len(vwMain.tasks) + 1
      /\ vwMain'.tasks[Len(vwMain.tasks) + 1] = Views!Task(op, by, gen)
      /\ \A i \in 1..Len(vwMain.tasks) : vwMain'.tasks[i] = vwMain.tasks[i]
      /\ \A i \in 1..Len(vwMain'.tasks) : i \in 1..Len(vwMain.tasks) \/ i = Len(vwMain.tasks) + 1
  BY ViewsTypes, ViewsPostAppends DEF ViewsIInv
<1>2. Views!Task(op, by, gen).op = op
  BY DEF Views!Task
<1>3. ViewsViewsHeld'
  BY DEF ViewsIInv, ViewsViewsHeld, ViewsLive
<1>4. ASSUME NEW i \in 1..Len(vwMain'.tasks)
      PROVE  /\ vwMain'.tasks[i].op \in ViewsViewOps => vwSurface'.views = "live"
             /\ vwMain'.tasks[i].op = "remove" =>
                  /\ vwSurface'.released
                  /\ \A j \in 1..Len(vwMain'.tasks) : i < j => vwMain'.tasks[j].op \notin ViewsViewOps
             /\ vwMain'.tasks[i].op = "create" =>
                  /\ vwSurface'.views = "none" /\ vwLife' \in {"creating", "closed"}
                  /\ \A j \in 1..Len(vwMain'.tasks) : vwMain'.tasks[j].op = "create" => j = i
  <2>1. CASE i = Len(vwMain.tasks) + 1
    BY <1>1, <1>2, <2>1 DEF ViewsLive
  <2>2. CASE i \in 1..Len(vwMain.tasks)
    <3>1. vwMain'.tasks[i] = vwMain.tasks[i]
      BY <1>1, <2>2
    <3>2. vwMain.tasks[i].op \in ViewsViewOps => vwSurface.views = "live"
      BY <2>2 DEF ViewsIInv, ViewsTasksInOrder
    <3>3. ASSUME vwMain.tasks[i].op = "remove"
          PROVE  /\ vwSurface'.released
                 /\ \A j \in 1..Len(vwMain'.tasks) : i < j => vwMain'.tasks[j].op \notin ViewsViewOps
      <4>1. vwSurface.released /\ \A j \in 1..Len(vwMain.tasks) : i < j => vwMain.tasks[j].op \notin ViewsViewOps
        BY <2>2, <3>3 DEF ViewsIInv, ViewsTasksInOrder
      <4>2. op \notin ViewsViewOps
        BY <4>1 DEF ViewsLive
      <4> QED BY <1>1, <1>2, <4>1, <4>2
    <3>4. ASSUME vwMain.tasks[i].op = "create"
          PROVE  /\ vwSurface'.views = "none" /\ vwLife' \in {"creating", "closed"}
                 /\ \A j \in 1..Len(vwMain'.tasks) : vwMain'.tasks[j].op = "create" => j = i
      <4>1. /\ vwSurface.views = "none" /\ vwLife \in {"creating", "closed"}
            /\ \A j \in 1..Len(vwMain.tasks) : vwMain.tasks[j].op = "create" => j = i
        BY <2>2, <3>4 DEF ViewsIInv, ViewsTasksInOrder
      <4> QED BY <1>1, <1>2, <4>1
    <3> QED BY <3>1, <3>2, <3>3, <3>4
  <2> QED BY <1>1, <2>1, <2>2
<1>5. ViewsTasksInOrder'
  BY <1>4 DEF ViewsTasksInOrder
<1> QED BY <1>3, <1>5

(* What the main thread takes from the queue.                              *)
LEMMA ViewsHeldRun ==
  ASSUME Views!PresentationAssumption, ViewsIInv, Views!MainRuns
  PROVE  ViewsTasksInOrder' /\ ViewsViewsHeld'
<1> DEFINE task == Head(vwMain.tasks)
<1>1. /\ vwMain \in ViewsMains /\ vwMain.tasks # <<>> /\ vwMain' = [vwMain EXCEPT !.tasks = Tail(@)]
      /\ vwSurface \in ViewsSurfaces /\ UNCHANGED vwCall
  BY ViewsTypes DEF ViewsIInv, Views!MainRuns
<1>2. /\ Len(vwMain.tasks) \in Nat \ {0} /\ Len(vwMain'.tasks) = Len(vwMain.tasks) - 1
      /\ task = vwMain.tasks[1]
      /\ \A i \in 1..Len(vwMain'.tasks) : vwMain'.tasks[i] = vwMain.tasks[i + 1] /\ i + 1 \in 1..Len(vwMain.tasks)
  BY <1>1, ViewsRunTakes
<1>3. 1 \in 1..Len(vwMain.tasks) /\ \A i \in 1..Len(vwMain'.tasks) : 1 < i + 1 /\ i + 1 # 1
  BY <1>2
<1>4. \A i, j \in 1..Len(vwMain'.tasks) : (i < j => i + 1 < j + 1) /\ (j + 1 = i + 1 => j = i)
  BY <1>2
<1> HIDE DEF task
<1>5. CASE vwSurface'.views = vwSurface.views /\ vwSurface'.released = vwSurface.released /\ UNCHANGED vwLife
  <2>1. ViewsViewsHeld'
    BY <1>1, <1>5 DEF ViewsIInv, ViewsViewsHeld, ViewsLive
  <2>2. \A i \in 1..Len(vwMain'.tasks) : vwMain'.tasks[i].op \in ViewsViewOps => vwSurface'.views = "live"
    BY <1>2, <1>5 DEF ViewsIInv, ViewsTasksInOrder
  <2>3. ASSUME NEW i \in 1..Len(vwMain'.tasks), vwMain'.tasks[i].op = "remove"
        PROVE  /\ vwSurface'.released
               /\ \A j \in 1..Len(vwMain'.tasks) : i < j => vwMain'.tasks[j].op \notin ViewsViewOps
    <3>1. vwSurface.released /\ \A j \in 1..Len(vwMain.tasks) : i + 1 < j => vwMain.tasks[j].op \notin ViewsViewOps
      BY <1>2, <2>3 DEF ViewsIInv, ViewsTasksInOrder
    <3> QED BY <1>2, <1>4, <1>5, <3>1
  <2>4. ASSUME NEW i \in 1..Len(vwMain'.tasks), vwMain'.tasks[i].op = "create"
        PROVE  /\ vwSurface'.views = "none" /\ vwLife' \in {"creating", "closed"}
               /\ \A j \in 1..Len(vwMain'.tasks) : vwMain'.tasks[j].op = "create" => j = i
    <3>1. /\ vwSurface.views = "none" /\ vwLife \in {"creating", "closed"}
          /\ \A j \in 1..Len(vwMain.tasks) : vwMain.tasks[j].op = "create" => j = i + 1
      BY <1>2, <2>4 DEF ViewsIInv, ViewsTasksInOrder
    <3> QED BY <1>2, <1>4, <1>5, <3>1
  <2>5. ViewsTasksInOrder'
    BY <2>2, <2>3, <2>4 DEF ViewsTasksInOrder
  <2> QED BY <2>1, <2>5
<1>6. CASE task.op = "remove" /\ vwSurface' = [vwSurface EXCEPT !.views = "gone"] /\ UNCHANGED vwLife
  <2>1. /\ vwSurface.released /\ vwSurface.views = "live"
        /\ \A j \in 1..Len(vwMain.tasks) : 1 < j => vwMain.tasks[j].op \notin ViewsViewOps
    BY <1>2, <1>3, <1>6 DEF ViewsIInv, ViewsTasksInOrder, ViewsViewOps
  <2>2. vwSurface'.views = "gone" /\ vwSurface'.released
    BY <1>1, <1>6, <2>1 DEF ViewsSurfaces
  <2>3. \A i \in 1..Len(vwMain'.tasks) : vwMain'.tasks[i].op \notin ViewsViewOps
    BY <1>2, <1>3, <2>1
  <2>4. \A i \in 1..Len(vwMain'.tasks) : vwMain'.tasks[i].op # "create"
    BY <1>2, <2>1 DEF ViewsIInv, ViewsTasksInOrder
  <2>5. ViewsTasksInOrder'
    BY <2>3, <2>4 DEF ViewsTasksInOrder, ViewsViewOps
  <2>6. ViewsViewsHeld'
    BY <1>1, <1>6, <2>1, <2>2 DEF ViewsIInv, ViewsViewsHeld, ViewsLive
  <2> QED BY <2>5, <2>6
<1>7. CASE task.op = "create" /\ Views!Create
  <2>1. /\ vwSurface.views = "none" /\ vwLife \in {"creating", "closed"}
        /\ \A j \in 1..Len(vwMain.tasks) : vwMain.tasks[j].op = "create" => j = 1
    BY <1>2, <1>3, <1>7 DEF ViewsIInv, ViewsTasksInOrder
  <2>2. \A i \in 1..Len(vwMain'.tasks) : vwMain'.tasks[i].op \notin ViewsViewOps /\ vwMain'.tasks[i].op # "create"
    <3>1. \A i \in 1..Len(vwMain.tasks) : vwMain.tasks[i].op \notin ViewsViewOps
      BY <2>1 DEF ViewsIInv, ViewsTasksInOrder
    <3> QED BY <1>2, <1>3, <2>1, <3>1
  <2>3. ViewsTasksInOrder'
    BY <2>2 DEF ViewsTasksInOrder, ViewsViewOps
  <2>4. vwSurface'.released = vwSurface.released
    BY <1>1, <1>7 DEF Views!Create, ViewsSurfaces
  <2>5. vwLife = "creating" /\ vwLife' = "created" => vwSurface'.views = "live"
    BY <1>1, <1>7 DEF Views!Create, ViewsSurfaces
  <2>6. vwLife' = "closed" \/ (vwLife = "creating" /\ vwLife' = "created")
    BY <1>7, <2>1 DEF Views!Create
  <2>7. \A c \in vwCallers : vwCall[c].op \notin {"geometry", "show", "hide"}
    BY <2>1 DEF ViewsIInv, ViewsViewsHeld, ViewsLive
  <2>8. ViewsViewsHeld'
    <3>1. vwLife = "creating" => ~vwSurface.released
      BY DEF ViewsIInv, ViewsViewsHeld
    <3> QED BY <1>1, <2>4, <2>5, <2>6, <2>7, <3>1 DEF ViewsViewsHeld, ViewsLive
  <2> QED BY <2>3, <2>8
<1>8. CASE \E v \in BOOLEAN : Views!ShowViews(v) /\ UNCHANGED vwLife
  <2>1. PICK v \in BOOLEAN : vwSurface' = [vwSurface EXCEPT !.hidden = ~v \/ vwSurface.retired] /\ UNCHANGED vwLife
    BY <1>8 DEF Views!ShowViews
  <2> DEFINE h == ~v \/ vwSurface.retired
  <2>2. vwSurface' = [vwSurface EXCEPT !.hidden = h]
    BY <2>1
  <2> HIDE DEF h
  <2>3. vwSurface'.views = vwSurface.views /\ vwSurface'.released = vwSurface.released
    BY <1>1, <2>2 DEF ViewsSurfaces
  <2> QED BY <1>5, <2>1, <2>3
<1> QED BY <1>5, <1>6, <1>7, <1>8 DEF Views!MainRuns, task

LEMMA ViewsOrderKeeps ==
  ASSUME Views!PresentationAssumption, ViewsIInv, Views!Next
  PROVE  ViewsTasksInOrder' /\ ViewsViewsHeld'
<1>1. vwMain \in ViewsMains /\ vwSurface \in ViewsSurfaces /\ vwCall \in [vwCallers -> Views!Calls] /\ vwLife \in ViewsLives
  BY ViewsTypes DEF ViewsIInv
<1>2. CASE \/ Views!CreateLate \/ Views!Started \/ Views!NotStarted \/ Views!CloseHidden \/ Views!Starts
           \/ Views!StopRenderer \/ Views!Draw \/ Views!Swap \/ Views!FrameFails \/ Views!MakeContext \/ Views!FreeContext
  <2>1. /\ UNCHANGED <<vwMain, vwCall, vwSurface>>
        /\ \/ vwLife' = vwLife \/ vwLife' = "closed"
           \/ vwLife \in {"created", "starting", "hiding"} /\ vwLife' \in {"starting", "running", "stopping"}
    BY <1>2 DEF Views!CreateLate, Views!Started, Views!NotStarted, Views!CloseHidden,
      Views!Starts, Views!StopRenderer, Views!Draw, Views!Swap, Views!FrameFails,
      Views!MakeContext, Views!FreeContext
  <2> QED BY <2>1, ViewsHeldQuiet
<1>3. CASE Views!Destroy
  <2>1. vwMain'.tasks = vwMain.tasks
    BY <1>1, <1>3 DEF Views!Destroy, ViewsMains
  <2> QED BY <1>3, <2>1, ViewsHeldQuiet DEF Views!Destroy
<1>4. CASE \E b \in BOOLEAN : Views!CloseBegins(b)
  <2>1. PICK b \in BOOLEAN : Views!CloseBegins(b)
    BY <1>4
  <2> DEFINE r == vwKind = "metal"  h == b \/ vwSurface.hidden  f == FALSE
  <2>2. vwSurface' = [vwSurface EXCEPT !.retired = r, !.visible = f, !.hidden = h]
    BY <2>1 DEF Views!CloseBegins
  <2>3. vwLife = "running" /\ UNCHANGED vwCall
    BY <2>1 DEF Views!CloseBegins
  <2> HIDE DEF r, h, f
  <2>4. vwSurface'.views = vwSurface.views /\ vwSurface'.released = vwSurface.released
    BY <1>1, <2>2 DEF ViewsSurfaces
  <2>5. CASE vwMain' = [vwMain EXCEPT !.exiting = TRUE] /\ vwLife' = "stopping"
    <3>1. vwMain'.tasks = vwMain.tasks
      BY <1>1, <2>5 DEF ViewsMains
    <3> QED BY <2>3, <2>4, <2>5, <3>1, ViewsHeldQuiet
  <2>6. CASE Views!Post("hide", "close", 0) /\ vwLife' = "hiding"
    <3>1. Views!Task("hide", "close", 0) \in Views!Tasks
      BY DEF Views!Task, Views!Tasks
    <3>2. ViewsLive
      BY <2>3 DEF ViewsIInv, ViewsViewsHeld
    <3> QED BY <2>3, <2>4, <2>6, <3>1, <3>2, ViewsHeldPost
  <2> QED BY <2>1, <2>5, <2>6 DEF Views!CloseBegins
<1>5. CASE Views!MainRuns
  BY <1>5, ViewsHeldRun
<1>6. ASSUME NEW c \in vwCallers, Views!Posts(c) PROVE ViewsTasksInOrder' /\ ViewsViewsHeld'
  <2>1. PICK op \in vwCommands \cup {"hide"} :
          /\ Views!Post(op, c, vwCall[c].gen) /\ Views!Task(op, c, vwCall[c].gen) \in Views!Tasks
          /\ op = vwCall[c].op \/ (vwCall[c].op = "show" /\ op = "hide")
    BY <1>6, ViewsPostTyped
  <2>2. op \in ViewsViewOps => ViewsLive
    BY <2>1 DEF ViewsIInv, ViewsViewsHeld, ViewsViewOps, Views!PresentationAssumption
  <2>3. op \notin {"create", "remove"}
    BY <2>1 DEF Views!PresentationAssumption
  <2>4. vwSurface'.views = vwSurface.views /\ vwSurface'.released = vwSurface.released
    <3> DEFINE v == (IF vwCall[c].op = "show" /\ vwSurface.retired THEN "hide" ELSE vwCall[c].op) = "show"
    <3>1. vwSurface' = [vwSurface EXCEPT !.visible = v] \/ vwSurface' = vwSurface
      BY <1>6 DEF Views!Posts
    <3> HIDE DEF v
    <3> QED BY <1>1, <3>1 DEF ViewsSurfaces
  <2>5. UNCHANGED vwLife /\ \A d \in vwCallers : vwCall'[d].op = vwCall[d].op
    <3>1. UNCHANGED vwLife /\ vwCall' = [vwCall EXCEPT ![c].step = "wait"]
      BY <1>6 DEF Views!Posts
    <3> QED BY <1>1, <3>1 DEF Views!Calls
  <2> HIDE DEF Views!Tasks
  <2> QED BY <2>1, <2>2, <2>3, <2>4, <2>5, ViewsHeldPost
<1>7. ASSUME NEW c \in vwCallers, Views!Returns(c) PROVE ViewsTasksInOrder' /\ ViewsViewsHeld'
  <2>1. CASE Views!Post("drop cover", c, vwCall[c].gen) /\ vwCall' = [vwCall EXCEPT ![c].step = "last"]
    <3>1. vwCall[c].gen \in Nat
      BY <1>1 DEF Views!Calls
    <3>2. Views!Task("drop cover", c, vwCall[c].gen) \in Views!Tasks /\ "drop cover" \notin ViewsViewOps
      BY <3>1 DEF Views!Task, Views!Tasks, ViewsViewOps
    <3>3. \A d \in vwCallers : vwCall'[d].op = vwCall[d].op
      BY <1>1, <2>1 DEF Views!Calls
    <3>4. UNCHANGED <<vwLife, vwSurface>>
      BY <1>7 DEF Views!Returns
    <3> QED BY <2>1, <3>2, <3>3, <3>4, ViewsHeldPost
  <2>2. CASE UNCHANGED vwMain /\ vwCall' = [vwCall EXCEPT ![c] = Views!Idle]
    <3>1. UNCHANGED <<vwLife, vwSurface>>
      BY <1>7 DEF Views!Returns
    <3>2. ViewsTasksInOrder'
      BY <2>2, <3>1 DEF ViewsIInv, ViewsTasksInOrder
    <3>3. \A d \in vwCallers : vwCall'[d].op = vwCall[d].op \/ vwCall'[d].op = "none"
      BY <1>1, <2>2 DEF Views!Idle
    <3>4. ViewsViewsHeld'
      BY <3>1, <3>3 DEF ViewsIInv, ViewsViewsHeld, ViewsLive
    <3> QED BY <3>2, <3>4
  <2> QED BY <1>7, <2>1, <2>2 DEF Views!Returns
<1>8. ASSUME NEW c \in vwCallers, NEW op \in vwCommands, Views!Begins(c, op) PROVE ViewsTasksInOrder' /\ ViewsViewsHeld'
  <2>1. UNCHANGED <<vwMain, vwLife, vwSurface>> /\ (op \in {"geometry", "show", "hide"} => vwLife = "running")
    BY <1>8 DEF Views!Begins
  <2>2. \A d \in vwCallers : vwCall'[d].op = vwCall[d].op \/ vwCall'[d].op = op
    BY <1>1, <1>8 DEF Views!Begins
  <2>3. ViewsTasksInOrder'
    BY <2>1 DEF ViewsIInv, ViewsTasksInOrder
  <2>4. ViewsViewsHeld'
    BY <2>1, <2>2 DEF ViewsIInv, ViewsViewsHeld, ViewsLive
  <2> QED BY <2>3, <2>4
<1>9. CASE Views!OpenBegins
  <2>1. Views!Task("create", "open", 0) \in Views!Tasks /\ Views!Task("create", "open", 0).op = "create"
    BY DEF Views!Task, Views!Tasks
  <2>2. /\ Len(vwMain.tasks) \in Nat /\ Len(vwMain'.tasks) = Len(vwMain.tasks) + 1
        /\ vwMain'.tasks[Len(vwMain.tasks) + 1] = Views!Task("create", "open", 0)
        /\ \A i \in 1..Len(vwMain.tasks) : vwMain'.tasks[i] = vwMain.tasks[i]
        /\ \A i \in 1..Len(vwMain'.tasks) : i \in 1..Len(vwMain.tasks) \/ i = Len(vwMain.tasks) + 1
    BY <1>1, <1>9, <2>1, ViewsPostAppends DEF Views!OpenBegins
  <2>3. vwLife = "new" /\ vwLife' = "creating" /\ UNCHANGED <<vwSurface, vwCall>> /\ vwSurface.views = "none"
    BY <1>9 DEF Views!OpenBegins, ViewsIInv, ViewsViewsHeld
  <2>4. \A i \in 1..Len(vwMain.tasks) : vwMain.tasks[i].op \notin ViewsViewOps /\ vwMain.tasks[i].op # "create"
    BY <2>3 DEF ViewsIInv, ViewsTasksInOrder
  <2>5. ViewsTasksInOrder'
    BY <2>1, <2>2, <2>3, <2>4 DEF ViewsTasksInOrder, ViewsViewOps
  <2>6. ViewsViewsHeld'
    BY <2>3 DEF ViewsIInv, ViewsViewsHeld, ViewsLive
  <2> QED BY <2>5, <2>6
<1>10. CASE Views!Release
  <2>1. Views!Task("remove", "drop", 0) \in Views!Tasks /\ Views!Task("remove", "drop", 0).op = "remove"
    BY DEF Views!Task, Views!Tasks
  <2>2. /\ Len(vwMain.tasks) \in Nat /\ Len(vwMain'.tasks) = Len(vwMain.tasks) + 1
        /\ vwMain'.tasks[Len(vwMain.tasks) + 1] = Views!Task("remove", "drop", 0)
        /\ \A i \in 1..Len(vwMain.tasks) : vwMain'.tasks[i] = vwMain.tasks[i]
        /\ \A i \in 1..Len(vwMain'.tasks) : i \in 1..Len(vwMain.tasks) \/ i = Len(vwMain.tasks) + 1
    BY <1>1, <1>10, <2>1, ViewsPostAppends DEF Views!Release
  <2>3. /\ vwLife = "closed" /\ UNCHANGED <<vwLife, vwCall>> /\ vwSurface.views = "live" /\ ~vwSurface.released
        /\ \A c \in vwCallers : vwCall[c].op \notin {"geometry", "show", "hide"}
        /\ vwSurface' = [vwSurface EXCEPT !.released = TRUE]
    BY <1>10 DEF Views!Release, Views!Held
  <2>4. vwSurface'.views = "live" /\ vwSurface'.released
    BY <1>1, <2>3 DEF ViewsSurfaces
  <2>5. \A i \in 1..Len(vwMain.tasks) : vwMain.tasks[i].op # "remove" /\ vwMain.tasks[i].op # "create"
    BY <2>3 DEF ViewsIInv, ViewsTasksInOrder
  <2>6. ViewsTasksInOrder'
    BY <2>1, <2>2, <2>4, <2>5 DEF ViewsTasksInOrder
  <2>7. ViewsViewsHeld'
    BY <2>3, <2>4 DEF ViewsViewsHeld
  <2> QED BY <2>6, <2>7
<1> QED BY <1>2, <1>3, <1>4, <1>5, <1>6, <1>7, <1>8, <1>9, <1>10 DEF Views!Next

-----------------------------------------------------------------------------
(* The render thread.                                                      *)

LEMMA ViewsRenderKeeps ==
  ASSUME Views!PresentationAssumption, ViewsIInv, Views!Next PROVE ViewsRenderOrder'
<1>1. vwMpv \in ViewsHandles /\ vwRender \in ViewsRenders
  BY ViewsTypes DEF ViewsIInv
<1>2. ASSUME UNCHANGED <<vwMpv, vwRender>>, vwLife = "closed" => vwLife' = "closed",
             vwLife' \in {"new", "creating", "created"} => vwLife \in {"new", "creating", "created"}
      PROVE  ViewsRenderOrder'
  BY <1>1, <1>2 DEF ViewsIInv, ViewsRenderOrder, Views!Ended
<1>3. CASE \/ Views!OpenBegins \/ Views!CreateLate \/ Views!Started \/ Views!NotStarted \/ Views!CloseHidden \/ Views!Release
           \/ \E b \in BOOLEAN : Views!CloseBegins(b)
           \/ \E c \in vwCallers : Views!Posts(c) \/ Views!Returns(c) \/ \E op \in vwCommands : Views!Begins(c, op)
  <2>1. /\ UNCHANGED <<vwMpv, vwRender>>
        /\ vwLife = "closed" => vwLife' = "closed"
        /\ vwLife' \in {"new", "creating", "created"} => vwLife \in {"new", "creating", "created"}
    BY <1>3 DEF Views!OpenBegins, Views!CreateLate, Views!Started, Views!NotStarted,
      Views!CloseHidden, Views!Release, Views!CloseBegins, Views!Posts, Views!Returns,
      Views!Begins
  <2> QED BY <1>2, <2>1
<1>4. CASE Views!MainRuns
  <2>1. /\ UNCHANGED <<vwMpv, vwRender>>
        /\ vwLife' = vwLife \/ vwLife' = "closed" \/ (vwLife = "creating" /\ vwLife' = "created")
    BY <1>4 DEF Views!MainRuns, Views!Create
  <2> QED BY <1>2, <2>1
<1>5. CASE Views!Starts
  <2>1. vwLife = "created" /\ vwLife' \in {"starting", "closed"} /\ vwRender.pc = "none" /\ vwMpv.handle # "destroyed"
    BY <1>5 DEF Views!Starts, ViewsIInv, ViewsRenderOrder, Views!Ended
  <2>2. CASE UNCHANGED <<vwMpv, vwRender>>
    BY <1>2, <2>1, <2>2
  <2>3. CASE /\ vwMpv' = [vwMpv EXCEPT !.handle = "live"] /\ vwLife' = "starting"
             /\ \/ vwRender' = [vwRender EXCEPT !.pc = "makes"]
                \/ vwRender' = [vwRender EXCEPT !.ready = "yes"]
    <3>1. vwMpv'.handle = "live" /\ vwMpv'.context = vwMpv.context /\ vwMpv'.callback = vwMpv.callback
      BY <1>1, <2>3 DEF ViewsHandles
    <3>2. vwRender'.pc \in {"makes", "none"}
      BY <1>1, <2>1, <2>3 DEF ViewsRenders
    <3>3. ~vwMpv.context /\ ~vwMpv.callback
      BY <2>1 DEF ViewsIInv, ViewsRenderOrder
    <3> QED BY <2>3, <3>1, <3>2, <3>3 DEF ViewsRenderOrder
  <2> QED BY <1>5, <2>2, <2>3 DEF Views!Starts
<1>6. CASE Views!Destroy
  <2>1. vwMpv'.context = vwMpv.context /\ vwMpv'.callback = vwMpv.callback
    BY <1>1, <1>6 DEF Views!Destroy, ViewsHandles
  <2> QED BY <1>1, <1>6, <2>1 DEF Views!Destroy, ViewsIInv, ViewsRenderOrder,
      Views!Ended
<1>7. CASE Views!StopRenderer
  <2>1. vwRender'.pc = vwRender.pc
    BY <1>1, <1>7 DEF Views!StopRenderer, ViewsRenders
  <2> QED BY <1>1, <1>7, <2>1 DEF Views!StopRenderer, ViewsIInv, ViewsRenderOrder,
      Views!Ended
<1>8. CASE Views!Draw \/ Views!Swap \/ Views!FrameFails
  <2>1. /\ vwRender.pc \in {"loop", "draw"} /\ vwRender'.pc \in {"loop", "draw", "failed"}
        /\ UNCHANGED <<vwMpv, vwLife>>
    BY <1>1, <1>8 DEF Views!Draw, Views!Swap, Views!FrameFails, ViewsRenders
  <2> QED BY <1>1, <2>1 DEF ViewsIInv, ViewsRenderOrder, Views!Ended
<1>9. CASE Views!FreeContext
  <2>1. /\ vwRender.pc = "loop" /\ vwRender'.pc = "over" /\ UNCHANGED vwLife
        /\ vwMpv'.handle = vwMpv.handle /\ ~vwMpv'.context /\ ~vwMpv'.callback
    BY <1>1, <1>9 DEF Views!FreeContext, ViewsRenders, Views!Ends, ViewsHandles
  <2> QED BY <1>1, <2>1 DEF ViewsIInv, ViewsRenderOrder, Views!Ended
<1>10. CASE Views!MakeContext
  <2>1. /\ vwRender.pc = "makes" /\ UNCHANGED vwLife /\ vwMpv.handle # "destroyed"
        /\ vwLife \notin {"new", "creating", "created"} /\ ~vwMpv.context /\ ~vwMpv.callback
    BY <1>10 DEF Views!MakeContext, ViewsIInv, ViewsRenderOrder, Views!Ended
  <2>2. CASE /\ vwRender' = [vwRender EXCEPT !.pc = "loop", !.ready = "yes"]
             /\ vwMpv' = [vwMpv EXCEPT !.context = TRUE, !.callback = TRUE]
    <3>1. vwRender'.pc = "loop" /\ vwMpv'.handle = vwMpv.handle
      BY <1>1, <2>2 DEF ViewsRenders, ViewsHandles
    <3> QED BY <2>1, <3>1 DEF ViewsRenderOrder
  <2>3. CASE vwRender' = [Views!Ends(vwRender) EXCEPT !.ready = "failed"] /\ UNCHANGED vwMpv
    <3>1. vwRender'.pc = "over"
      BY <1>1, <2>3 DEF ViewsRenders, Views!Ends
    <3> QED BY <2>1, <2>3, <3>1 DEF ViewsRenderOrder
  <2> QED BY <1>10, <2>2, <2>3 DEF Views!MakeContext
<1> QED BY <1>3, <1>4, <1>5, <1>6, <1>7, <1>8, <1>9, <1>10 DEF Views!Next

-----------------------------------------------------------------------------
(* Commands and the cover.                                                 *)

(* A step that leaves the cover, the commands and the queue alone.         *)
LEMMA ViewsCoverQuiet ==
  ASSUME ViewsIInv, UNCHANGED <<vwKind, vwCall, vwCover>>, vwMain'.tasks = vwMain.tasks
  PROVE  ViewsCommanded' /\ ViewsTasksCurrent' /\ ViewsCoverSettled'
<1>1. ViewsCommanded'
  BY DEF ViewsIInv, ViewsCommanded
<1>2. ViewsTasksCurrent'
  BY DEF ViewsIInv, ViewsTasksCurrent, ViewsCoverTask
<1>3. ViewsCoverSettled'
  BY DEF ViewsIInv, ViewsCoverSettled, ViewsSettled, ViewsPending, ViewsCallPending,
    ViewsTaskPending
<1> QED BY <1>1, <1>2, <1>3

(* A task is posted, and it is none of the cover, or the one that its      *)
(* command asks for.                                                       *)
LEMMA ViewsCoverPost ==
  ASSUME ViewsIInv, UNCHANGED <<vwKind, vwCover>>, ViewsCommanded',
         NEW op, NEW by, NEW gen, Views!Task(op, by, gen) \in Views!Tasks, Views!Post(op, by, gen),
         ViewsCoverTask(Views!Task(op, by, gen)),
         \A c \in vwCallers : ViewsCallPending(c) => ViewsCallPending(c)' \/ ViewsTaskPending(Views!Task(op, by, gen))
  PROVE  ViewsCommanded' /\ ViewsTasksCurrent' /\ ViewsCoverSettled'
<1> DEFINE t == Views!Task(op, by, gen)  n == Len(vwMain.tasks) + 1
<1>1. /\ Len(vwMain.tasks) \in Nat /\ n \in 1..Len(vwMain'.tasks) /\ vwMain'.tasks[n] = t
      /\ \A i \in 1..Len(vwMain.tasks) : vwMain'.tasks[i] = vwMain.tasks[i] /\ i \in 1..Len(vwMain'.tasks)
      /\ \A i \in 1..Len(vwMain'.tasks) : i \in 1..Len(vwMain.tasks) \/ i = n
  BY ViewsTypes, ViewsPostAppends DEF ViewsIInv
<1> HIDE DEF t, n
<1>2. \A u : (ViewsCoverTask(u) => ViewsCoverTask(u)') /\ (ViewsTaskPending(u) => ViewsTaskPending(u)')
  BY DEF ViewsCoverTask, ViewsTaskPending
<1>3. ViewsTasksCurrent'
  <2>1. ASSUME NEW i \in 1..Len(vwMain'.tasks) PROVE ViewsCoverTask(vwMain'.tasks[i])
    <3>1. CASE i = n
      BY <1>1, <3>1 DEF t
    <3>2. CASE i \in 1..Len(vwMain.tasks)
      BY <1>1, <3>2 DEF ViewsIInv, ViewsTasksCurrent
    <3> QED BY <1>1, <3>1, <3>2
  <2> QED BY <2>1 DEF ViewsTasksCurrent, ViewsCoverTask
<1>4. ViewsPending => ViewsPending'
  <2>1. ASSUME NEW c \in vwCallers, ViewsCallPending(c) PROVE ViewsPending'
    <3>1. CASE ViewsCallPending(c)'
      BY <3>1 DEF ViewsPending
    <3>2. CASE ViewsTaskPending(t)
      BY <1>1, <3>2 DEF ViewsPending, ViewsTaskPending
    <3> QED BY <2>1, <3>1, <3>2 DEF t
  <2>2. ASSUME NEW i \in 1..Len(vwMain.tasks), ViewsTaskPending(vwMain.tasks[i]) PROVE ViewsPending'
    BY <1>1, <2>2 DEF ViewsPending, ViewsTaskPending
  <2> QED BY <2>1, <2>2 DEF ViewsPending
<1>5. ViewsCoverSettled'
  <2>1. ViewsSettled => ViewsSettled'
    BY DEF ViewsSettled
  <2> QED BY <1>4, <2>1 DEF ViewsIInv, ViewsCoverSettled
<1> QED BY <1>3, <1>5

(* A task that is none of the cover.                                       *)
LEMMA ViewsCoverOther ==
  ASSUME ViewsIInv, UNCHANGED <<vwKind, vwCall, vwCover>>,
         NEW op, NEW by, NEW gen, Views!Task(op, by, gen) \in Views!Tasks, Views!Post(op, by, gen), op \notin ViewsCoverOps
  PROVE  ViewsCommanded' /\ ViewsTasksCurrent' /\ ViewsCoverSettled'
<1>1. ViewsCoverTask(Views!Task(op, by, gen))
  BY DEF ViewsCoverTask, Views!Task
<1>2. ViewsCommanded'
  BY DEF ViewsIInv, ViewsCommanded
<1>3. \A c \in vwCallers : ViewsCallPending(c) => ViewsCallPending(c)'
  BY DEF ViewsCallPending
<1> QED BY <1>1, <1>2, <1>3, ViewsCoverPost

(* A command begins: of the cover with a generation of its own.            *)
LEMMA ViewsBeginsKeeps ==
  ASSUME Views!PresentationAssumption, ViewsIInv, NEW c \in vwCallers,
         NEW op \in vwCommands, Views!Begins(c, op)
  PROVE  ViewsCommanded' /\ ViewsTasksCurrent' /\ ViewsCoverSettled'
<1>1. /\ vwCall \in [vwCallers -> Views!Calls] /\ vwCover \in ViewsCovers /\ vwMain \in ViewsMains
      /\ vwCall[c] = Views!Idle /\ UNCHANGED <<vwMain, vwKind>>
  BY ViewsTypes DEF ViewsIInv, Views!Begins
<1>2. op # "none" /\ op \in {"geometry", "show", "hide", "cover", "uncover"}
  BY DEF Views!PresentationAssumption
<1>3. PICK g \in Nat :
        /\ vwCall' = [vwCall EXCEPT ![c] = [op |-> op, step |-> "post", gen |-> g]]
        /\ \/ /\ op \in {"cover", "uncover"} /\ g = vwCover.gen + 1
              /\ vwCover' = [vwCover EXCEPT !.gen = g, !.last = op]
           \/ op \notin {"cover", "uncover"} /\ UNCHANGED vwCover
  <2>1. vwCover.gen + 1 \in Nat /\ 0 \in Nat
    BY <1>1 DEF ViewsCovers
  <2> QED BY <2>1 DEF Views!Begins
<1>4. /\ vwCall'[c].op = op /\ vwCall'[c].step = "post" /\ vwCall'[c].gen = g
      /\ \A d \in vwCallers : d # c => vwCall'[d] = vwCall[d]
  BY <1>1, <1>3
<1>5. /\ vwCover.gen \in Nat /\ \A d \in vwCallers : vwCall[d].gen \in Nat
      /\ \A i \in 1..Len(vwMain.tasks) : vwMain.tasks[i].gen \in Nat
  <2>1. vwMain.tasks \in Seq(Views!Tasks)
    BY <1>1 DEF ViewsMains
  <2>2. \A i \in 1..Len(vwMain.tasks) : vwMain.tasks[i] \in Views!Tasks
    BY <2>1
  <2> QED BY <1>1, <2>2 DEF ViewsCovers, Views!Calls, Views!Tasks
<1>6. \A d \in vwCallers :
        /\ vwCall[d].step = "idle" <=> vwCall[d].op = "none"
        /\ vwCall[d].step = "last" => vwCall[d].op = "uncover"
        /\ vwCall[d].op \in {"cover", "uncover"} =>
             vwCall[d].gen <= vwCover.gen /\ (vwCall[d].gen = vwCover.gen => vwCall[d].op = vwCover.last)
  BY DEF ViewsIInv, ViewsCommanded
<1>7. CASE op \in {"cover", "uncover"}
  <2>1. g = vwCover.gen + 1 /\ vwCover'.gen = g /\ vwCover'.last = op
    BY <1>1, <1>3, <1>7 DEF ViewsCovers
  <2>2. ViewsCommanded'
    <3>1. ASSUME NEW d \in vwCallers, d # c, vwCall[d].op \in {"cover", "uncover"}
          PROVE  vwCall[d].gen <= vwCover'.gen /\ vwCall[d].gen # vwCover'.gen
      BY <1>5, <1>6, <2>1, <3>1
    <3> QED BY <1>2, <1>4, <1>6, <2>1, <3>1 DEF ViewsCommanded
  <2>3. ViewsTasksCurrent'
    <3>1. ASSUME NEW i \in 1..Len(vwMain.tasks), vwMain.tasks[i].op \in ViewsCoverOps
          PROVE  vwMain.tasks[i].gen <= vwCover'.gen /\ vwMain.tasks[i].gen # vwCover'.gen
      <4>1. vwMain.tasks[i].gen <= vwCover.gen
        BY <3>1 DEF ViewsIInv, ViewsTasksCurrent, ViewsCoverTask
      <4> QED BY <1>5, <2>1, <4>1
    <3> QED BY <1>1, <3>1 DEF ViewsTasksCurrent, ViewsCoverTask
  <2>4. ViewsCallPending(c)'
    BY <1>4, <1>7, <2>1 DEF ViewsCallPending
  <2> QED BY <2>2, <2>3, <2>4 DEF ViewsCoverSettled, ViewsPending
<1>8. CASE op \notin {"cover", "uncover"}
  <2>1. UNCHANGED vwCover
    BY <1>3, <1>8
  <2>2. ViewsCommanded'
    BY <1>2, <1>4, <1>6, <1>8, <2>1 DEF ViewsCommanded
  <2>3. ViewsTasksCurrent'
    BY <1>1, <2>1 DEF ViewsIInv, ViewsTasksCurrent, ViewsCoverTask
  <2>4. ASSUME NEW d \in vwCallers, ViewsCallPending(d) PROVE ViewsCallPending(d)'
    <3>1. d # c
      BY <1>1, <2>4 DEF ViewsCallPending, Views!Idle
    <3> QED BY <1>4, <2>1, <2>4, <3>1 DEF ViewsCallPending
  <2>5. ViewsSettled => ViewsSettled'
    BY <2>1 DEF ViewsSettled
  <2>6. (\E i \in 1..Len(vwMain.tasks) : ViewsTaskPending(vwMain.tasks[i])) => ViewsPending'
    BY <1>1, <2>1 DEF ViewsPending, ViewsTaskPending
  <2>7. ViewsPending => ViewsPending'
    BY <2>4, <2>6 DEF ViewsPending
  <2>8. ViewsCoverSettled'
    BY <1>1, <2>5, <2>7 DEF ViewsIInv, ViewsCoverSettled
  <2> QED BY <2>2, <2>3, <2>8
<1> QED BY <1>7, <1>8

(* The command itself goes on, with its operation and its generation, or   *)
(* is over.                                                                *)
LEMMA ViewsStepKeeps ==
  ASSUME ViewsIInv, NEW c \in vwCallers, UNCHANGED vwCover, vwCall[c].step # "idle",
         \/ vwCall' = [vwCall EXCEPT ![c].step = "wait"]
         \/ vwCall' = [vwCall EXCEPT ![c].step = "last"] /\ vwCall[c].op = "uncover"
         \/ vwCall' = [vwCall EXCEPT ![c] = Views!Idle]
  PROVE  /\ ViewsCommanded' /\ \A d \in vwCallers : d # c => vwCall'[d] = vwCall[d]
<1>1. vwCall \in [vwCallers -> Views!Calls]
  BY ViewsTypes DEF ViewsIInv
<1>2. \A d \in vwCallers : d # c => vwCall'[d] = vwCall[d]
  BY <1>1
<1>3. \/ /\ vwCall'[c].op = vwCall[c].op /\ vwCall'[c].gen = vwCall[c].gen
         /\ vwCall'[c].step = "wait" \/ (vwCall'[c].step = "last" /\ vwCall[c].op = "uncover")
      \/ vwCall'[c].op = "none" /\ vwCall'[c].step = "idle"
  BY <1>1 DEF Views!Calls, Views!Idle
<1>4. ViewsCommanded'
  BY <1>2, <1>3 DEF ViewsIInv, ViewsCommanded
<1> QED BY <1>2, <1>4

LEMMA ViewsPostsKeeps ==
  ASSUME Views!PresentationAssumption, ViewsIInv, NEW c \in vwCallers, Views!Posts(c)
  PROVE  ViewsCommanded' /\ ViewsTasksCurrent' /\ ViewsCoverSettled'
<1>1. /\ UNCHANGED <<vwKind, vwCover>> /\ vwCall[c].step = "post"
      /\ vwCall' = [vwCall EXCEPT ![c].step = "wait"]
  BY DEF Views!Posts
<1>2. PICK op \in vwCommands \cup {"hide"} :
        /\ Views!Post(op, c, vwCall[c].gen) /\ Views!Task(op, c, vwCall[c].gen) \in Views!Tasks
        /\ op = vwCall[c].op \/ (vwCall[c].op = "show" /\ op = "hide")
  BY ViewsPostTyped
<1>3. ViewsCommanded' /\ \A d \in vwCallers : d # c => vwCall'[d] = vwCall[d]
  BY <1>1, ViewsStepKeeps
<1>4. op # "drop cover"
  BY <1>2 DEF Views!PresentationAssumption
<1> DEFINE t == Views!Task(op, c, vwCall[c].gen)
<1>5. t.op = op /\ t.gen = vwCall[c].gen
  BY DEF Views!Task
<1>6. ViewsCoverTask(t)
  <2>1. op \in {"cover", "uncover"} =>
          /\ op = vwCall[c].op /\ vwCall[c].gen <= vwCover.gen
          /\ vwCall[c].gen = vwCover.gen => op = vwCover.last
    BY <1>2 DEF ViewsIInv, ViewsCommanded
  <2> QED BY <1>4, <1>5, <2>1 DEF ViewsCoverTask, ViewsCoverOps
<1>7. ASSUME NEW d \in vwCallers, ViewsCallPending(d) PROVE ViewsCallPending(d)' \/ ViewsTaskPending(t)
  <2>1. CASE d = c
    BY <1>2, <1>5, <1>7, <2>1 DEF ViewsCallPending, ViewsTaskPending
  <2>2. CASE d # c
    BY <1>1, <1>3, <1>7, <2>2 DEF ViewsCallPending
  <2> QED BY <2>1, <2>2
<1> QED BY <1>1, <1>2, <1>3, <1>6, <1>7, ViewsCoverPost

(* A command returns when none of its tasks is left, or gives up: the task *)
(* of one that gives up stays in the queue.                                *)
LEMMA ViewsReturnsKeeps ==
  ASSUME Views!PresentationAssumption, ViewsIInv, NEW c \in vwCallers, Views!Returns(c)
  PROVE  ViewsCommanded' /\ ViewsTasksCurrent' /\ ViewsCoverSettled'
<1>1. /\ UNCHANGED <<vwKind, vwCover>> /\ vwCall[c].step \in {"wait", "last"}
      /\ vwCall \in [vwCallers -> Views!Calls]
      /\ \/ /\ Views!Fades(c) /\ Views!Post("drop cover", c, vwCall[c].gen)
            /\ vwCall' = [vwCall EXCEPT ![c].step = "last"]
         \/ UNCHANGED vwMain /\ vwCall' = [vwCall EXCEPT ![c] = Views!Idle]
  BY ViewsTypes DEF ViewsIInv, Views!Returns
<1>2. ViewsCommanded' /\ \A d \in vwCallers : d # c => vwCall'[d] = vwCall[d]
  BY <1>1, ViewsStepKeeps DEF Views!Fades
<1>3. ASSUME NEW d \in vwCallers, ViewsCallPending(d) PROVE ViewsCallPending(d)'
  <2>1. d # c
    BY <1>1, <1>3 DEF ViewsCallPending
  <2> QED BY <1>1, <1>2, <1>3, <2>1 DEF ViewsCallPending
<1>4. CASE Views!Fades(c) /\ Views!Post("drop cover", c, vwCall[c].gen)
  <2> DEFINE t == Views!Task("drop cover", c, vwCall[c].gen)
  <2>1. t.op = "drop cover" /\ t.gen = vwCall[c].gen
    BY DEF Views!Task
  <2>2. t \in Views!Tasks
    <3>1. vwCall[c].gen \in Nat
      BY <1>1 DEF Views!Calls
    <3> QED BY <3>1 DEF Views!Task, Views!Tasks
  <2>3. ViewsCoverTask(t)
    <3>1. vwCall[c].gen <= vwCover.gen /\ (vwCall[c].gen = vwCover.gen => vwCover.last = "uncover")
      BY <1>4 DEF Views!Fades, ViewsIInv, ViewsCommanded
    <3> QED BY <2>1, <3>1 DEF ViewsCoverTask
  <2> QED BY <1>1, <1>2, <1>3, <1>4, <2>2, <2>3, ViewsCoverPost
<1>5. CASE UNCHANGED vwMain
  <2>1. ViewsTasksCurrent'
    BY <1>1, <1>5 DEF ViewsIInv, ViewsTasksCurrent, ViewsCoverTask
  <2>2. ViewsPending => ViewsPending'
    BY <1>1, <1>3, <1>5 DEF ViewsPending, ViewsTaskPending
  <2>3. ViewsSettled => ViewsSettled'
    BY <1>1 DEF ViewsSettled
  <2> QED BY <1>1, <1>2, <2>1, <2>2, <2>3 DEF ViewsIInv, ViewsCoverSettled
<1> QED BY <1>1, <1>4, <1>5

(* The main thread does a task of the cover, or another one.               *)
LEMMA ViewsRunKeeps ==
  ASSUME Views!PresentationAssumption, ViewsIInv, Views!MainRuns
  PROVE  ViewsCommanded' /\ ViewsTasksCurrent' /\ ViewsCoverSettled'
<1> DEFINE task == Head(vwMain.tasks)
<1>1. /\ vwMain \in ViewsMains /\ vwCover \in ViewsCovers /\ UNCHANGED <<vwCall, vwKind>>
      /\ vwMain.tasks # <<>> /\ vwMain' = [vwMain EXCEPT !.tasks = Tail(@)]
  BY ViewsTypes DEF ViewsIInv, Views!MainRuns
<1>2. /\ Len(vwMain.tasks) \in Nat \ {0} /\ task = vwMain.tasks[1]
      /\ \A i \in 1..Len(vwMain'.tasks) : vwMain'.tasks[i] = vwMain.tasks[i + 1] /\ i + 1 \in 1..Len(vwMain.tasks)
      /\ \A i \in 1..Len(vwMain.tasks) : i # 1 => i - 1 \in 1..Len(vwMain'.tasks) /\ vwMain'.tasks[i - 1] = vwMain.tasks[i]
  BY <1>1, ViewsRunTakes
<1>3. 1 \in 1..Len(vwMain.tasks)
  BY <1>2
<1>4. ViewsCoverTask(task)
  BY <1>2, <1>3 DEF ViewsIInv, ViewsTasksCurrent
<1>5. /\ task.op \notin ViewsCoverOps => UNCHANGED vwCover
      /\ task.op \in {"cover", "uncover"} /\ vwKind \in {"metal", "gl"} => Views!Fade(task)
      /\ task.op = "drop cover" => Views!HideCover(task)
      /\ task.op \in {"cover", "uncover"} /\ vwKind \notin {"metal", "gl"} => Views!FadeOnWindows(task)
  BY DEF Views!MainRuns, ViewsCoverOps
<1> HIDE DEF task
<1>6. vwCover'.gen = vwCover.gen /\ vwCover'.last = vwCover.last
  <2>1. \/ vwCover' = [vwCover EXCEPT !.alpha = 0, !.hidden = TRUE]
        \/ vwCover' = [vwCover EXCEPT !.made = TRUE, !.hidden = FALSE, !.alpha = 1]
        \/ vwCover' = [vwCover EXCEPT !.made = TRUE, !.alpha = 0]
        \/ vwCover' = vwCover
    BY <1>5 DEF ViewsCoverOps, Views!HideCover, Views!Fade, Views!FadeOnWindows
  <2> QED BY <1>1, <2>1 DEF ViewsCovers
<1>7. ViewsCommanded'
  BY <1>1, <1>6 DEF ViewsIInv, ViewsCommanded
<1>8. ViewsTasksCurrent'
  BY <1>2, <1>6 DEF ViewsIInv, ViewsTasksCurrent, ViewsCoverTask
<1>9. ASSUME ViewsPending, ~ViewsTaskPending(task) PROVE ViewsPending'
  <2>1. ASSUME NEW c \in vwCallers, ViewsCallPending(c) PROVE ViewsCallPending(c)'
    BY <1>1, <1>6, <2>1 DEF ViewsCallPending
  <2>2. ASSUME NEW i \in 1..Len(vwMain.tasks), ViewsTaskPending(vwMain.tasks[i]) PROVE ViewsPending'
    <3>1. i - 1 \in 1..Len(vwMain'.tasks) /\ vwMain'.tasks[i - 1] = vwMain.tasks[i]
      BY <1>2, <1>9, <2>2
    <3> QED BY <1>6, <2>2, <3>1 DEF ViewsPending, ViewsTaskPending
  <2> QED BY <1>9, <2>1, <2>2 DEF ViewsPending
<1>10. ASSUME vwKind \in {"metal", "gl"} PROVE ViewsSettled' \/ ViewsPending'
  <2>1. ViewsSettled \/ ViewsPending
    BY <1>10 DEF ViewsIInv, ViewsCoverSettled
  <2>2. CASE UNCHANGED vwCover /\ ~ViewsTaskPending(task)
    <3>1. ViewsSettled => ViewsSettled'
      BY <2>2 DEF ViewsSettled
    <3> QED BY <1>9, <2>1, <2>2, <3>1
  <2>3. CASE ViewsTaskPending(task)
    <3>1. Views!Fade(task) /\ task.gen = vwCover.gen /\ task.op = vwCover.last /\ task.op \in {"cover", "uncover"}
      BY <1>4, <1>5, <1>10, <2>3 DEF ViewsTaskPending, ViewsCoverTask, ViewsCoverOps
    <3>2. CASE task.op = "cover"
      <4>1. vwCover' = [vwCover EXCEPT !.made = TRUE, !.hidden = FALSE, !.alpha = 1]
        BY <3>1, <3>2 DEF Views!Fade
      <4>2. ~vwCover'.hidden /\ vwCover'.alpha = 1
        BY <1>1, <4>1 DEF ViewsCovers
      <4> QED BY <1>6, <3>1, <3>2, <4>2 DEF ViewsSettled
    <3>3. CASE task.op = "uncover"
      <4>1. vwCover' = [vwCover EXCEPT !.made = TRUE, !.alpha = 0]
        BY <3>1, <3>3 DEF Views!Fade
      <4>2. vwCover'.alpha = 0
        BY <1>1, <4>1 DEF ViewsCovers
      <4> QED BY <1>6, <3>1, <3>3, <4>2 DEF ViewsSettled
    <3> QED BY <3>1, <3>2, <3>3
  <2>4. CASE task.op = "drop cover" /\ vwCover' # vwCover
    <3>1. task.gen = vwCover.gen /\ vwCover' = [vwCover EXCEPT !.alpha = 0, !.hidden = TRUE]
      BY <1>5, <2>4 DEF Views!HideCover
    <3>2. vwCover.last = "uncover"
      <4>1. task.op = vwCover.last \/ vwCover.last = "uncover"
        BY <1>4, <2>4, <3>1 DEF ViewsCoverTask, ViewsCoverOps
      <4>2. vwCover.last \in {"cover", "uncover"}
        BY <1>1 DEF ViewsCovers
      <4> QED BY <2>4, <4>1, <4>2
    <3>3. vwCover'.alpha = 0
      BY <1>1, <3>1 DEF ViewsCovers
    <3> QED BY <1>6, <3>2, <3>3 DEF ViewsSettled
  <2>5. task.op \in {"cover", "uncover"} /\ ~ViewsTaskPending(task) => UNCHANGED vwCover
    BY <1>5, <1>10 DEF Views!Fade, ViewsTaskPending
  <2> QED BY <1>5, <2>2, <2>3, <2>4, <2>5 DEF ViewsCoverOps, ViewsTaskPending
<1>11. ViewsCoverSettled'
  BY <1>1, <1>10 DEF ViewsCoverSettled
<1> QED BY <1>7, <1>8, <1>11

LEMMA ViewsCoverKeeps ==
  ASSUME Views!PresentationAssumption, ViewsIInv, Views!Next
  PROVE  ViewsCommanded' /\ ViewsTasksCurrent' /\ ViewsCoverSettled'
<1>1. vwMain \in ViewsMains
  BY ViewsTypes DEF ViewsIInv
<1>2. CASE \/ Views!CreateLate \/ Views!Started \/ Views!NotStarted \/ Views!CloseHidden \/ Views!Starts
           \/ Views!StopRenderer \/ Views!Draw \/ Views!Swap \/ Views!FrameFails \/ Views!MakeContext \/ Views!FreeContext
  <2>1. UNCHANGED <<vwKind, vwCall, vwCover, vwMain>>
    BY <1>2 DEF Views!CreateLate, Views!Started, Views!NotStarted, Views!CloseHidden,
      Views!Starts, Views!StopRenderer, Views!Draw, Views!Swap, Views!FrameFails,
      Views!MakeContext, Views!FreeContext
  <2> QED BY <1>1, <2>1, ViewsCoverQuiet
<1>3. CASE Views!Destroy \/ \E b \in BOOLEAN : Views!CloseBegins(b)
  <2>1. /\ UNCHANGED <<vwKind, vwCall, vwCover>>
        /\ \/ Views!Post("hide", "close", 0)
           \/ vwMain' = [vwMain EXCEPT !.exiting = TRUE]
           \/ vwMain' = [vwMain EXCEPT !.exiting = FALSE]
    BY <1>3 DEF Views!Destroy, Views!CloseBegins
  <2>2. CASE vwMain' = [vwMain EXCEPT !.exiting = TRUE] \/ vwMain' = [vwMain EXCEPT !.exiting = FALSE]
    <3>1. vwMain'.tasks = vwMain.tasks
      BY <1>1, <2>2 DEF ViewsMains
    <3> QED BY <1>1, <2>1, <3>1, ViewsCoverQuiet
  <2>3. CASE Views!Post("hide", "close", 0)
    <3>1. Views!Task("hide", "close", 0) \in Views!Tasks /\ "hide" \notin ViewsCoverOps
      BY DEF Views!Task, Views!Tasks, ViewsCoverOps
    <3> QED BY <1>1, <2>1, <2>3, <3>1, ViewsCoverOther
  <2> QED BY <2>1, <2>2, <2>3
<1>4. CASE Views!OpenBegins
  <2>1. Views!Task("create", "open", 0) \in Views!Tasks /\ "create" \notin ViewsCoverOps
    BY DEF Views!Task, Views!Tasks, ViewsCoverOps
  <2>2. UNCHANGED <<vwKind, vwCall, vwCover>> /\ Views!Post("create", "open", 0)
    BY <1>4 DEF Views!OpenBegins
  <2> QED BY <1>1, <2>1, <2>2, ViewsCoverOther
<1>5. CASE Views!Release
  <2>1. Views!Task("remove", "drop", 0) \in Views!Tasks /\ "remove" \notin ViewsCoverOps
    BY DEF Views!Task, Views!Tasks, ViewsCoverOps
  <2>2. UNCHANGED <<vwKind, vwCall, vwCover>> /\ Views!Post("remove", "drop", 0)
    BY <1>5 DEF Views!Release
  <2> QED BY <1>1, <2>1, <2>2, ViewsCoverOther
<1> QED BY <1>2, <1>3, <1>4, <1>5, ViewsBeginsKeeps, ViewsPostsKeeps, ViewsReturnsKeeps,
    ViewsRunKeeps DEF Views!Next

-----------------------------------------------------------------------------
LEMMA ViewsStarting == ASSUME Views!PresentationAssumption, Views!Init PROVE ViewsIInv
<1>1. /\ vwMain = [tasks |-> <<>>, exiting |-> FALSE] /\ Len(vwMain.tasks) = 0 /\ vwMain \in ViewsMains
  BY DEF Views!Init, ViewsMains
<1>2. vwSurface \in ViewsSurfaces /\ vwSurface.views = "none" /\ ~vwSurface.released /\ vwLife = "new"
  BY DEF Views!Init, ViewsSurfaces
<1>3. vwMpv \in ViewsHandles /\ vwMpv.handle = "none" /\ ~vwMpv.context /\ ~vwMpv.callback
  BY DEF Views!Init, ViewsHandles
<1>4. vwRender \in ViewsRenders /\ vwRender.pc = "none"
  BY DEF Views!Init, ViewsRenders
<1>5. vwCover \in ViewsCovers /\ vwCover.last = "uncover" /\ vwCover.alpha = 0
  BY DEF Views!Init, ViewsCovers
<1>6. /\ vwCall \in [vwCallers -> Views!Calls]
      /\ \A c \in vwCallers : vwCall[c].op = "none" /\ vwCall[c].step = "idle"
  BY DEF Views!Init, Views!Idle, Views!Calls
<1>7. vwCount \in ViewsCounts /\ vwKind \in vwKinds /\ vwLife \in ViewsLives
  BY DEF Views!Init, ViewsCounts, Views!PresentationAssumption, ViewsLives
<1>8. Views!TypeOK
  BY <1>1, <1>2, <1>3, <1>4, <1>5, <1>6, <1>7, ViewsTypes
<1>9. ViewsTasksInOrder /\ ViewsViewsHeld
  BY <1>1, <1>2, <1>6 DEF ViewsTasksInOrder, ViewsViewsHeld
<1>10. ViewsRenderOrder
  BY <1>3, <1>4 DEF ViewsRenderOrder, Views!Ended
<1>11. ViewsCommanded /\ ViewsTasksCurrent
  BY <1>1, <1>6 DEF ViewsCommanded, ViewsTasksCurrent
<1>12. ViewsCoverSettled
  BY <1>5 DEF ViewsCoverSettled, ViewsSettled
<1> QED BY <1>8, <1>9, <1>10, <1>11, <1>12 DEF ViewsIInv

LEMMA ViewsInvariant == Views!PresentationAssumption => (Views!Spec => []ViewsIInv)
<1> SUFFICES ASSUME Views!PresentationAssumption PROVE Views!Spec => []ViewsIInv
  OBVIOUS
<1>1. Views!Init => ViewsIInv
  BY ViewsStarting
<1>2. ASSUME ViewsIInv, [Views!Next]_Views!vars PROVE ViewsIInv'
  <2>1. CASE Views!Next
    BY <1>2, <2>1, ViewsTypeKeeps, ViewsOrderKeeps, ViewsRenderKeeps, ViewsCoverKeeps
      DEF ViewsIInv
  <2>2. CASE UNCHANGED Views!vars
    <3>1. Views!TypeOK'
      BY <1>2, <2>2 DEF ViewsIInv, Views!TypeOK, Views!vars
    <3>2. ViewsTasksInOrder' /\ ViewsViewsHeld' /\ ViewsRenderOrder'
      BY <1>2, <2>2 DEF ViewsIInv, ViewsTasksInOrder, ViewsViewsHeld, ViewsLive,
        ViewsRenderOrder, Views!Ended, Views!vars
    <3>3. ViewsCommanded' /\ ViewsTasksCurrent' /\ ViewsCoverSettled'
      BY <1>2, <2>2, ViewsCoverQuiet DEF Views!vars
    <3> QED BY <3>1, <3>2, <3>3 DEF ViewsIInv
  <2> QED BY <1>2, <2>1, <2>2
<1> QED BY <1>1, <1>2, PTL DEF Views!Spec

(* The main thread, the surface, mpv, the render thread, the commands and  *)
(* the cover keep their types (mpv/surface_*.rs, render.rs).               *)
THEOREM ViewsTypeCorrect ==
  ASSUME Views!PresentationAssumption
  PROVE  Views!Spec => []Views!TypeOK
<1>1. ViewsIInv => Views!TypeOK
  BY DEF ViewsIInv
<1> QED BY <1>1, ViewsInvariant, PTL

(* No task of the main thread meets views that are gone, however many      *)
(* waits for it ended early (mpv/surface_*.rs: the posted closures).       *)
THEOREM ViewsViewsAreLive ==
  ASSUME Views!PresentationAssumption
  PROVE  Views!Spec => []Views!LiveViews
<1>1. ASSUME ViewsIInv PROVE Views!LiveViews
  <2>1. SUFFICES ASSUME vwMain.tasks # <<>>, Head(vwMain.tasks).op \in {"geometry", "show", "hide", "remove"}
                 PROVE  vwSurface.views = "live"
    BY DEF Views!LiveViews
  <2>2. vwMain.tasks \in Seq(Views!Tasks)
    BY <1>1, ViewsTypes DEF ViewsIInv, ViewsMains
  <2>3. 1 \in 1..Len(vwMain.tasks) /\ Head(vwMain.tasks) = vwMain.tasks[1]
    BY <2>1, <2>2
  <2> QED BY <1>1, <2>1, <2>3 DEF ViewsIInv, ViewsTasksInOrder, ViewsViewOps
<1> QED BY <1>1, ViewsInvariant, PTL

(* The context is freed before mpv is destroyed, however many waits ended  *)
(* early; only a thread whose frame failed leaves it (render.rs:           *)
(* run_renderer, player.rs: the drop of the runtime).                      *)
THEOREM ViewsTeardownInOrder ==
  ASSUME Views!PresentationAssumption
  PROVE  Views!Spec => []Views!TornDownInOrder
<1>1. ViewsIInv => Views!TornDownInOrder
  BY DEF ViewsIInv, ViewsRenderOrder, Views!Ended, Views!TornDownInOrder
<1> QED BY <1>1, ViewsInvariant, PTL

(* On macOS the cover is as the last command wants it, whatever tasks and  *)
(* animations of earlier ones come after it, once the main thread has done *)
(* what it was sent, also for a command that gave up waiting               *)
(* (mpv/transition_cover.rs).                                              *)
THEOREM ViewsCoverIsLast ==
  ASSUME Views!PresentationAssumption
  PROVE  Views!Spec => []Views!CoverFollowsLast
<1>1. ASSUME ViewsIInv PROVE Views!CoverFollowsLast
  <2>1. SUFFICES ASSUME vwKind \in {"metal", "gl"}, \A c \in vwCallers : vwCall[c] = Views!Idle,
                        ~Views!Posted("cover"), ~Views!Posted("uncover")
                 PROVE  vwCover.last = "cover" <=> ~vwCover.hidden /\ vwCover.alpha = 1
    BY DEF Views!CoverFollowsLast
  <2>2. vwMain.tasks \in Seq(Views!Tasks) /\ vwCover \in ViewsCovers
    BY <1>1, ViewsTypes DEF ViewsIInv, ViewsMains
  <2>3. \A i \in 1..Len(vwMain.tasks) : vwMain.tasks[i].op \notin {"cover", "uncover"}
    BY <2>1, <2>2 DEF Views!Posted
  <2>4. ~ViewsPending
    BY <2>1, <2>3 DEF ViewsPending, ViewsCallPending, ViewsTaskPending, Views!Idle
  <2>5. ViewsSettled
    BY <1>1, <2>1, <2>4 DEF ViewsIInv, ViewsCoverSettled
  <2>6. vwCover.last \in {"cover", "uncover"}
    BY <2>2 DEF ViewsCovers
  <2> QED BY <2>5, <2>6 DEF ViewsSettled
<1> QED BY <1>1, ViewsInvariant, PTL

(* A surface that was retired stays hidden (mpv/surface_*.rs: retire).     *)
THEOREM ViewsRetiredHolds ==
  ASSUME Views!PresentationAssumption
  PROVE  Views!Spec => Views!RetiredStaysHidden
<1>1. ASSUME ViewsIInv, [Views!Next]_Views!vars PROVE [vwSurface.retired /\ vwSurface.hidden => vwSurface'.hidden]_Views!vars
  <2>1. SUFFICES ASSUME vwSurface.retired, vwSurface.hidden, Views!Next PROVE vwSurface'.hidden
    BY <1>1 DEF Views!vars
  <2>2. vwSurface \in ViewsSurfaces
    BY <1>1, ViewsTypes DEF ViewsIInv
  <2>3. CASE UNCHANGED vwSurface
    BY <2>1, <2>3
  <2>4. ASSUME NEW b \in BOOLEAN, Views!CloseBegins(b) PROVE vwSurface'.hidden
    <3> DEFINE r == vwKind = "metal"  h == b \/ vwSurface.hidden  f == FALSE
    <3>1. vwSurface' = [vwSurface EXCEPT !.retired = r, !.visible = f, !.hidden = h] /\ h
      BY <2>1, <2>4 DEF Views!CloseBegins
    <3> HIDE DEF r, h, f
    <3> QED BY <2>2, <3>1 DEF ViewsSurfaces
  <2>5. ASSUME NEW c \in vwCallers, Views!Posts(c) PROVE vwSurface'.hidden
    <3> DEFINE v == (IF vwCall[c].op = "show" /\ vwSurface.retired THEN "hide" ELSE vwCall[c].op) = "show"
    <3>1. vwSurface' = [vwSurface EXCEPT !.visible = v] \/ vwSurface' = vwSurface
      BY <2>5 DEF Views!Posts
    <3> HIDE DEF v
    <3> QED BY <2>1, <2>2, <3>1 DEF ViewsSurfaces
  <2>6. CASE Views!MainRuns
    <3> DEFINE task == Head(vwMain.tasks)
               h == ~(task.op = "show") \/ vwSurface.retired
               w == IF vwLife = "creating" THEN "live" ELSE IF vwKind = "metal" THEN "gone" ELSE "left"
               g == "gone"
    <3>1. \/ vwSurface' = [vwSurface EXCEPT !.views = w] \/ vwSurface' = [vwSurface EXCEPT !.views = g]
          \/ vwSurface' = [vwSurface EXCEPT !.hidden = h] \/ vwSurface' = vwSurface
      BY <2>6 DEF Views!MainRuns, Views!Create, Views!ShowViews
    <3>2. h
      BY <2>1
    <3> HIDE DEF task, h, w, g
    <3> QED BY <2>1, <2>2, <3>1, <3>2 DEF ViewsSurfaces
  <2>7. CASE Views!Release
    BY <2>1, <2>2, <2>7 DEF Views!Release, ViewsSurfaces
  <2>8. CASE \/ Views!OpenBegins \/ Views!CreateLate \/ Views!Started \/ Views!NotStarted \/ Views!CloseHidden \/ Views!Starts
             \/ Views!StopRenderer \/ Views!Draw \/ Views!Swap \/ Views!FrameFails \/ Views!Destroy \/ Views!MakeContext \/ Views!FreeContext
             \/ \E c \in vwCallers : Views!Returns(c) \/ \E op \in vwCommands : Views!Begins(c, op)
    BY <2>3, <2>8 DEF Views!OpenBegins, Views!CreateLate, Views!Started,
      Views!NotStarted, Views!CloseHidden, Views!Starts, Views!StopRenderer, Views!Draw,
      Views!Swap, Views!FrameFails, Views!Destroy, Views!MakeContext, Views!FreeContext,
      Views!Returns, Views!Begins
  <2> QED BY <2>1, <2>4, <2>5, <2>6, <2>7, <2>8 DEF Views!Next
<1>2. Views!Spec => []ViewsIInv
  BY ViewsInvariant
<1> QED BY <1>1, <1>2, PTL DEF Views!Spec, Views!RetiredStaysHidden
-----------------------------------------------------------------------------
(* What the parts promise, for Media.                                       *)
LEMMA PlayersPart == Spec => Players!Spec
<1>1. Init => Players!Init
  BY DEF Init
<1>2. [Next]_vars => [Players!Next]_Players!vars
  BY DEF Next, vars, psVars, Players!vars
<1> QED BY <1>1, <1>2, PTL DEF Spec, Players!Spec

(* Of the players of all panels one is heard, a command meets the player of *)
(* its own session, and what was closed stays closed, for any number of     *)
(* panels, sessions, backends and attempts (mpv/player.rs).                 *)
THEOREM PlayersDoBehave == Spec => []PlayersBehave
<1>1. Players!PlayerAssumption
  BY Instances
<1>2. Players!Spec => []Players!TypeOK /\ []Players!OneHeard
  BY <1>1, PlayersTypeCorrect, PlayersOneIsHeard
<1>3. Players!Spec => []Players!OwnPlayerOnly /\ []Players!ClosedForGood
  BY <1>1, PlayersFailedOpenEndsItsOwn, PlayersClosedStaysClosed
<1>4. Players!Spec => []Players!CloseReaches
  BY <1>1, PlayersCloseFindsTheOpen
<1> QED BY <1>2, <1>3, <1>4, PlayersPart, PTL DEF PlayersBehave


LEMMA ThumbsPart == Spec => Thumbs!Spec
<1>1. Init => Thumbs!Init
  BY DEF Init
<1>2. [Next]_vars => [Thumbs!Next]_Thumbs!vars
  BY DEF Next, vars, thVars, Thumbs!vars
<1> QED BY <1>1, <1>2, PTL DEF Spec, Thumbs!Spec

LEMMA ServerPart == Spec => Server!Spec
<1>1. Init => Server!Init
  BY DEF Init
<1>2. [Next]_vars => [Server!Next]_Server!vars
  BY DEF Next, vars, rgVars, Server!vars
<1> QED BY <1>1, <1>2, PTL DEF Spec, Server!Spec

(* What a media element is given is what it asked for, for files of any     *)
(* size and any number of players, streams and requests of thumbnails       *)
(* (media/mod.rs, media/http.rs, mpv/stream.rs, media/thumbnail.rs).        *)
THEOREM MediaIsTrue == Spec => []MediaTrue
<1>1. Thumbs!ThumbnailAssumption /\ Server!ServerAssumption
  BY Instances
<1>2. Thumbs!Spec => []Thumbs!TypeOK /\ []Thumbs!CancelledYieldsNothing /\ []Thumbs!OneDecoder
  BY <1>1, ThumbsTypeCorrect, ThumbsCancelHolds, ThumbsOneDecoderRuns
<1>3. Server!Spec => []Server!TypeOK /\ []Server!RangeIsWanted
  BY <1>1, ServerTypeCorrect, ServerRangesAreWanted
<1>4. Server!Spec => []Server!PiecesTile /\ []Server!QuietAfterCancel
  BY <1>1, ServerPiecesAreWhole, ServerCancelQuiets
<1> QED BY <1>2, <1>3, <1>4, ThumbsPart, ServerPart, PTL DEF MediaTrue

LEMMA ControlPart == Spec => Control!Spec
<1>1. Init => Control!Init
  BY DEF Init
<1>2. [Next]_vars => [Control!Next]_Control!vars
  BY DEF Next, vars, pcVars, Control!vars
<1> QED BY <1>1, <1>2, PTL DEF Spec, Control!Spec

(* A pause holds, the volume comes back and the history is what the last    *)
(* session left, unless a write failed or a pause came while a load with    *)
(* its resume was under way; for files of any length, any volumes and any   *)
(* number of requests, sessions and failures (mpv/player.rs,                *)
(* media/history.rs).                                                       *)
THEOREM PlaybackIsKept == Spec => []PlaybackKept
<1>1. Control!ControlAssumption
  BY Instances
<1>2. Control!Spec => []Control!TypeOK /\ []Control!PauseWins
  BY <1>1, ControlTypeCorrect, ControlPauseHeld
<1>3. Control!Spec => []Control!VolumeRestored /\ []Control!HistoryKept
  BY <1>1, ControlVolumeComesBack, ControlHistoryIsKept
<1>4. Control!Spec => []Control!ResumesThere
  BY <1>1, ControlResumesFromRecord
<1> QED BY <1>2, <1>3, <1>4, ControlPart, PTL DEF PlaybackKept

LEMMA ViewsPart == Spec => Views!Spec
<1>1. Init => Views!Init
  BY DEF Init
<1>2. [Next]_vars => [Views!Next]_Views!vars
  BY DEF Next, vars, vwVars, Views!vars
<1> QED BY <1>1, <1>2, PTL DEF Spec, Views!Spec

(* The views live as long as a task touches them.  The render context goes  *)
(* before its handle, unless a frame of its thread failed, and on macOS the *)
(* cover is as the last command wants it, once the main thread has done the *)
(* tasks that are left: for any number of threads and commands and of waits *)
(* that end early (surface_macos.rs, render.rs, transition_cover.rs).       *)
THEOREM ViewsAreInOrder == Spec => []ViewsInOrder
<1>1. Views!PresentationAssumption
  BY Instances
<1>2. Views!Spec => []Views!TypeOK /\ []Views!LiveViews
  BY <1>1, ViewsTypeCorrect, ViewsViewsAreLive
<1>3. Views!Spec => []Views!TornDownInOrder /\ []Views!CoverFollowsLast
  BY <1>1, ViewsTeardownInOrder, ViewsCoverIsLast
<1> QED BY <1>2, <1>3, ViewsPart, PTL DEF ViewsInOrder
=============================================================================
