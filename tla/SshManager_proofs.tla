-------------------------- MODULE SshManager_proofs --------------------------
(***************************************************************************)
(* Proofs about SshManager, for every number of threads, hosts and         *)
(* attempts: the stored password belongs to the saved profile, a           *)
(* registered connection to the settings it was made with, and no secret   *)
(* is used for a host that is not its own.                                 *)
(***************************************************************************)
EXTENDS SshManager, TLAPS

(* A secret that goes with a profile is one of its host.                   *)
Fits(profile, secret) ==
  profile \in Profiles /\ secret \in {profile.host, None}

(* What a thread connects with, and that a connect that authenticates was  *)
(* compared with settings that cannot change meanwhile.                    *)
RequestsOK ==
  \A t \in Threads :
    /\ pc[t] \in {"connect", "connecting"}
         => Fits(call[t].profile, call[t].secret)
    /\ pc[t] = "connecting"
         => call[t].conn = made /\ made # 0 /\ Bound(call[t].profile)

(* What an established connection keeps for a reconnect.                   *)
ConnsOK ==
  /\ \A c \in 1..MaxConns :
       conn[c].profile # None
         => Fits(conn[c].profile, conn[c].secret) /\ c <= made
  /\ current # 0 => conn[current].profile # None

(* RegisteredMatchesSettings needs only that no update is half done.       *)
MatchOK ==
  /\ \A t \in Threads : pc[t] # "drop"
  /\ current # 0
  /\ conn[current].profile.save
  => settings = conn[current].profile

IInv ==
  TypeOK /\ RequestsOK /\ ConnsOK /\ MatchOK /\ StoreMatchesSettings
    /\ SecretsMatchHost /\ NewestRegistered

-----------------------------------------------------------------------------
LEMMA IdleCall == Idle \in Calls
BY SshAssumption DEF Idle, Calls, Secrets

LEMMA InitIInv == Init => IInv
<1> SUFFICES ASSUME Init PROVE IInv
  OBVIOUS
<1>1. TypeOK
  <2>1. call \in [Threads -> Calls] /\ pc \in [Threads -> Pcs]
    BY IdleCall DEF Init, Pcs
  <2>2. NoConn \in [profile : Profiles \cup {None}, secret : Secrets,
                   connected : BOOLEAN]
    BY DEF NoConn, Secrets
  <2>3. conn \in [1..MaxConns -> [profile : Profiles \cup {None},
                                 secret : Secrets, connected : BOOLEAN]]
    BY <2>2 DEF Init
  <2>4. made \in 0..MaxConns /\ current \in 0..MaxConns
    BY SshAssumption DEF Init
  <2>5. forgotten \in BOOLEAN
    BY Zenon DEF Init
  <2>6. \A t \in Threads : pc[t] \in {"connecting", "drop"} <=> lock = t
    BY SshAssumption DEF Init
  <2> QED BY <2>1, <2>3, <2>4, <2>5, <2>6 DEF Init, TypeOK, Secrets
<1>2. RequestsOK /\ ConnsOK
  BY DEF Init, RequestsOK, ConnsOK, NoConn
<1>3. MatchOK /\ StoreMatchesSettings /\ SecretsMatchHost /\ NewestRegistered
  BY DEF Init, MatchOK, StoreMatchesSettings, SecretsMatchHost,
         NewestRegistered
<1> QED BY <1>1, <1>2, <1>3 DEF IInv

(* A thread that neither owns the lock nor takes it, and that does not     *)
(* come to connect, disturbs nothing but itself.                           *)
LEMMA QuietStep ==
  ASSUME IInv, NEW t \in Threads, pc[t] \notin {"connecting", "drop"},
         NEW next \in Pcs \ {"connect", "connecting", "drop"},
         NEW command \in Calls,
         pc'   = [pc EXCEPT ![t] = next],
         call' = [call EXCEPT ![t] = command],
         UNCHANGED <<settings, store, lock, made, conn, current,
                     forgotten>>,
         astray' \subseteq {"application", "helper"},
         "application" \notin astray'
  PROVE  IInv'
<1>1. TypeOK'
  BY DEF IInv, TypeOK
<1>2. RequestsOK'
  BY DEF IInv, TypeOK, RequestsOK, Bound
<1>3. ConnsOK' /\ StoreMatchesSettings' /\ NewestRegistered'
  BY DEF IInv, ConnsOK, StoreMatchesSettings, NewestRegistered
<1>4. MatchOK'
  BY DEF IInv, TypeOK, MatchOK
<1>5. SecretsMatchHost'
  BY DEF SecretsMatchHost
<1> QED BY <1>1, <1>2, <1>3, <1>4, <1>5 DEF IInv

LEMMA EndsQuiet ==
  ASSUME IInv, NEW t \in Threads, pc[t] \notin {"connecting", "drop"},
         Ends(t),
         UNCHANGED <<settings, store, lock, made, conn, current, ghosts>>
  PROVE  IInv'
<1>1. "idle" \in Pcs \ {"connect", "connecting", "drop"}
  BY DEF Pcs
<1>2. astray' \subseteq {"application", "helper"}
      /\ "application" \notin astray'
  BY DEF IInv, TypeOK, SecretsMatchHost, ghosts
<1> QED BY <1>1, <1>2, IdleCall, QuietStep DEF Ends, ghosts

LEMMA GoesQuiet ==
  ASSUME IInv, NEW t \in Threads, pc[t] \notin {"connecting", "drop"},
         NEW next \in Pcs \ {"connect", "connecting", "drop"},
         Goes(t, next),
         UNCHANGED <<settings, store, lock, made, conn, current, ghosts>>
  PROVE  IInv'
<1>1. call' = [call EXCEPT ![t] = call[t]] /\ call[t] \in Calls
  BY DEF IInv, TypeOK, Goes
<1>2. astray' \subseteq {"application", "helper"}
      /\ "application" \notin astray'
  BY DEF IInv, TypeOK, SecretsMatchHost, ghosts
<1> QED BY <1>1, <1>2, QuietStep DEF Goes, ghosts
-----------------------------------------------------------------------------
(* Calls that begin.                                                       *)
LEMMA CallSteps ==
  ASSUME IInv, NEW t \in Threads, ConnectCalled(t) \/ Called(t)
  PROVE  IInv'
<1>0. pc[t] = "idle" /\ UNCHANGED <<settings, store, lock, made, conn, current,
                                    forgotten, astray>>
  BY DEF ConnectCalled, Called, Begins, ghosts
<1>1. CASE ConnectCalled(t)
  <2>0. PICK p \in Profiles :
          \E s \in {p.host, None} :
            Begins(t, "connect", [Idle EXCEPT !.task = "connect",
                                              !.profile = p, !.secret = s])
    BY <1>1 DEF ConnectCalled
  <2>1. PICK s \in {p.host, None} :
          Begins(t, "connect", [Idle EXCEPT !.task = "connect",
                                            !.profile = p, !.secret = s])
    BY <2>0
  <2> DEFINE command == [Idle EXCEPT !.task = "connect", !.profile = p,
                                     !.secret = s]
  <2>2. p.host \in Hosts
    BY DEF Profiles
  <2>3. command \in Calls /\ command.profile = p /\ command.secret = s
    BY <2>2, IdleCall DEF Idle, Calls, Secrets
  <2> HIDE DEF command
  <2>4. pc' = [pc EXCEPT ![t] = "connect"] /\ call' = [call EXCEPT ![t] = command]
    BY <2>1 DEF Begins, command
  <2>5. TypeOK'
    BY <1>0, <2>3, <2>4 DEF IInv, TypeOK, Pcs
  <2>6. RequestsOK'
    BY <1>0, <2>3, <2>4 DEF IInv, TypeOK, RequestsOK, Bound, Fits
  <2>7. ConnsOK' /\ StoreMatchesSettings' /\ NewestRegistered'
        /\ SecretsMatchHost'
    BY <1>0 DEF IInv, ConnsOK, StoreMatchesSettings, NewestRegistered,
                SecretsMatchHost
  <2>8. MatchOK'
    BY <1>0, <2>4 DEF IInv, TypeOK, MatchOK
  <2> QED BY <2>5, <2>6, <2>7, <2>8 DEF IInv
<1>2. CASE Called(t)
  <2>1. PICK next \in {"get", "snapshot", "update", "forget"},
             task \in {"read", "write", "terminal", "operation", "update",
                      "forget"} :
          Begins(t, next, [Idle EXCEPT !.task = task])
    BY <1>2 DEF Called
  <2>2. [Idle EXCEPT !.task = task] \in Calls
    BY IdleCall DEF Idle, Calls
  <2>3. next \in Pcs \ {"connect", "connecting", "drop"}
    BY DEF Pcs
  <2>4. astray' \subseteq {"application", "helper"}
        /\ "application" \notin astray'
    BY <1>0 DEF IInv, TypeOK, SecretsMatchHost
  <2> QED BY <1>0, <2>1, <2>2, <2>3, <2>4, QuietStep DEF Begins
<1> QED BY <1>1, <1>2

-----------------------------------------------------------------------------
(* connect_with_auth.                                                      *)

(* What a bound profile may use is of its own host.                        *)
LEMMA OwnSecret ==
  ASSUME StoreMatchesSettings, NEW p \in Profiles, Bound(p)
  PROVE  Saved(p) \in {p.host, None}
BY DEF StoreMatchesSettings, Bound, Saved, Profiles

LEMMA AuthenticateStep ==
  ASSUME IInv, NEW t \in Threads, Authenticate(t)
  PROVE  IInv'
<1>1. /\ pc[t] = "connect" /\ lock = None /\ Bound(call[t].profile)
      /\ made < MaxConns /\ made' = made + 1 /\ lock' = t
      /\ pc' = [pc EXCEPT ![t] = "connecting"]
      /\ call' = [call EXCEPT ![t].conn = made + 1]
      /\ UNCHANGED <<settings, store, conn, current, forgotten>>
      /\ Offers("application", {Saved(call[t].profile), call[t].secret},
                call[t].profile.host)
  BY DEF Authenticate, Authenticates
<1>2. Fits(call[t].profile, call[t].secret)
  BY <1>1 DEF IInv, RequestsOK
<1>3. astray' = astray
  <2>1. {Saved(call[t].profile), call[t].secret}
          \subseteq {call[t].profile.host, None}
    BY <1>1, <1>2, OwnSecret DEF IInv, Fits
  <2> QED BY <1>1, <2>1 DEF Offers
<1>4. made + 1 \in 0..MaxConns
  BY <1>1, SshAssumption DEF IInv, TypeOK
<1>5. TypeOK'
  <2>1. call[t] \in Calls
    BY DEF IInv, TypeOK
  <2>2. [call[t] EXCEPT !.conn = made + 1] \in Calls
    BY <1>4, <2>1 DEF Calls
  <2>3. call' \in [Threads -> Calls]
    BY <1>1, <2>2 DEF IInv, TypeOK
  <2>4. \A u \in Threads : pc'[u] \in {"connecting", "drop"} <=> lock' = u
    BY <1>1, SshAssumption DEF IInv, TypeOK
  <2>5. pc' \in [Threads -> Pcs]
    BY <1>1 DEF IInv, TypeOK, Pcs
  <2> QED BY <1>1, <1>3, <1>4, <2>3, <2>4, <2>5 DEF IInv, TypeOK
<1>6. RequestsOK'
  BY <1>1, <1>2, <1>4, SshAssumption
  DEF IInv, TypeOK, RequestsOK, Bound, Calls
<1>7. ConnsOK' /\ StoreMatchesSettings' /\ NewestRegistered'
      /\ SecretsMatchHost'
  BY <1>1, <1>3 DEF IInv, TypeOK, ConnsOK, StoreMatchesSettings,
                   NewestRegistered, SecretsMatchHost
<1>8. MatchOK'
  BY <1>1 DEF IInv, TypeOK, MatchOK
<1> QED BY <1>5, <1>6, <1>7, <1>8 DEF IInv

LEMMA ConnectFailsStep ==
  ASSUME IInv, NEW t \in Threads, ConnectFails(t)
  PROVE  IInv'
<1>1. /\ pc[t] = "connecting" /\ lock = t /\ lock' = None
      /\ pc' = [pc EXCEPT ![t] = "idle"]
      /\ call' = [call EXCEPT ![t] = Idle]
      /\ UNCHANGED <<settings, store, made, conn, current, forgotten,
                     astray>>
  BY DEF ConnectFails, Ends, ghosts, IInv, TypeOK
<1>2. TypeOK'
  BY <1>1, IdleCall, SshAssumption DEF IInv, TypeOK, Pcs
<1>3. RequestsOK'
  BY <1>1 DEF IInv, TypeOK, RequestsOK, Bound
<1>4. ConnsOK' /\ StoreMatchesSettings' /\ NewestRegistered'
      /\ SecretsMatchHost'
  BY <1>1 DEF IInv, ConnsOK, StoreMatchesSettings, NewestRegistered,
             SecretsMatchHost
<1>5. MatchOK'
  BY <1>1 DEF IInv, TypeOK, MatchOK
<1> QED BY <1>2, <1>3, <1>4, <1>5 DEF IInv

LEMMA EstablishStep ==
  ASSUME IInv, NEW t \in Threads, Establish(t)
  PROVE  IInv'
<1> DEFINE p == call[t].profile
           c == call[t].conn
<1>1. pc[t] = "connecting" /\ lock = t /\ lock' = None /\ current' = c
      /\ UNCHANGED <<settings, made, astray>>
  BY DEF Establish, Establishes, IInv, TypeOK
<1>2. c = made /\ made # 0 /\ Bound(p) /\ Fits(p, call[t].secret)
  BY <1>1 DEF IInv, RequestsOK
<1>3. c \in 1..MaxConns /\ p \in Profiles /\ p # None /\ p.host \in Hosts
  BY <1>2, SshAssumption DEF IInv, TypeOK, Fits, Profiles
<1>4. PICK left \in Secrets :
        /\ Kept(p.save, call[t].secret, left)
        /\ conn' = [conn EXCEPT ![c] = [profile |-> p, secret |-> left,
                                        connected |-> TRUE]]
  BY DEF Establish, Establishes
<1>5. Fits(p, left)
  BY <1>2, <1>4 DEF Kept, Fits
<1>6. store' \in {store, p.host} /\ (store' # store => p.save /\ settings = p)
  BY <1>2, <1>3, <1>4 DEF Kept, Fits, Bound
<1>7. /\ pc' \in {[pc EXCEPT ![t] = "idle"], [pc EXCEPT ![t] = "got"]}
      /\ call' \in {[call EXCEPT ![t] = Idle], call}
  BY DEF Establish, Establishes, Ends, Goes
<1>8. forgotten' \in BOOLEAN
  BY Zenon DEF Establish, Establishes, IInv, TypeOK
<1> HIDE DEF p, c
<1>9. TypeOK'
  <2>1. conn' \in [1..MaxConns -> [profile : Profiles \cup {None},
                                  secret : Secrets, connected : BOOLEAN]]
    BY <1>3, <1>4 DEF IInv, TypeOK
  <2>2. call' \in [Threads -> Calls] /\ pc' \in [Threads -> Pcs]
    BY <1>7, IdleCall DEF IInv, TypeOK, Pcs
  <2>3. \A u \in Threads : pc'[u] \in {"connecting", "drop"} <=> lock' = u
    BY <1>1, <1>7, SshAssumption DEF IInv, TypeOK
  <2>4. store' \in Secrets /\ current' \in 0..MaxConns
    BY <1>1, <1>3, <1>6 DEF IInv, TypeOK, Secrets
  <2>5. settings' \in Profiles \cup {None} /\ lock' \in Threads \cup {None}
        /\ made' \in 0..MaxConns /\ astray' \subseteq {"application", "helper"}
    BY <1>1 DEF IInv, TypeOK
  <2> QED BY <1>8, <2>1, <2>2, <2>3, <2>4, <2>5 DEF TypeOK
<1>10. RequestsOK'
  BY <1>1, <1>7 DEF IInv, TypeOK, RequestsOK, Bound
<1>11. ConnsOK'
  BY <1>1, <1>2, <1>3, <1>4, <1>5 DEF IInv, TypeOK, ConnsOK
<1>12. NewestRegistered'
  BY <1>1, <1>2, <1>3, <1>4 DEF IInv, TypeOK, ConnsOK, NewestRegistered
<1>13. StoreMatchesSettings'
  BY <1>1, <1>3, <1>6 DEF IInv, StoreMatchesSettings
<1>14. MatchOK'
  BY <1>1, <1>2, <1>3, <1>4 DEF IInv, TypeOK, MatchOK, Bound
<1>15. SecretsMatchHost'
  BY <1>1 DEF IInv, SecretsMatchHost
<1> QED BY <1>9, <1>10, <1>11, <1>12, <1>13, <1>14, <1>15 DEF IInv
-----------------------------------------------------------------------------
(* Commands that use a connection.                                         *)

(* A connection that is lost, or removed from the map, keeps its rest.     *)
LEMMA SameConns ==
  ASSUME IInv, NEW d \in 1..MaxConns,
         conn' = [conn EXCEPT ![d].connected = FALSE]
  PROVE  /\ conn' \in [1..MaxConns -> [profile : Profiles \cup {None},
                                      secret : Secrets, connected : BOOLEAN]]
         /\ \A c \in 1..MaxConns : conn'[c].profile = conn[c].profile
                                   /\ conn'[c].secret = conn[c].secret
BY DEF IInv, TypeOK

LEMMA RegisteredConn ==
  ASSUME IInv, current # 0
  PROVE  current \in 1..MaxConns /\ conn[current].profile # None
         /\ Fits(conn[current].profile, conn[current].secret)
<1>1. current \in 1..MaxConns
  BY SshAssumption DEF IInv, TypeOK
<1> QED BY <1>1 DEF IInv, ConnsOK

LEMMA RefuseStep ==
  ASSUME IInv, NEW t \in Threads, Refuse(t)
  PROVE  IInv'
BY EndsQuiet DEF Refuse

LEMMA UsesQuiet ==
  ASSUME IInv, NEW t \in Threads, pc[t] \in {"get", "got"}, Uses(t),
         UNCHANGED <<settings, store, lock, made, conn, current, ghosts>>
  PROVE  IInv'
<1> DEFINE command == [call[t] EXCEPT !.conn = current]
<1>1. command \in Calls
  BY DEF IInv, TypeOK, Calls
<1>2. call' = [call EXCEPT ![t] = command]
  BY DEF Uses
<1>3. PICK next \in {"open", "use"} : pc' = [pc EXCEPT ![t] = next]
  BY DEF Uses
<1>4. next \in Pcs \ {"connect", "connecting", "drop"}
  BY DEF Pcs
<1>5. astray' \subseteq {"application", "helper"}
      /\ "application" \notin astray'
  BY DEF IInv, TypeOK, SecretsMatchHost, ghosts
<1> HIDE DEF command
<1> QED BY <1>1, <1>2, <1>3, <1>4, <1>5, QuietStep DEF ghosts

LEMMA GetStep ==
  ASSUME IInv, NEW t \in Threads, Get(t) \/ GetAgain(t) \/ UseEnds(t)
  PROVE  IInv'
<1>1. pc[t] \notin {"connecting", "drop"}
      /\ UNCHANGED <<settings, store, lock, made, conn, current, ghosts>>
  BY DEF Get, GetAgain, UseEnds
<1>2. \/ pc[t] \in {"get", "got"} /\ Uses(t)
      \/ Ends(t)
      \/ Goes(t, "reconnect")
  BY DEF Get, GetAgain, UseEnds
<1>3. "reconnect" \in Pcs \ {"connect", "connecting", "drop"}
  BY DEF Pcs
<1> QED BY <1>1, <1>2, <1>3, UsesQuiet, EndsQuiet, GoesQuiet

LEMMA ReconnectStep ==
  ASSUME IInv, NEW t \in Threads, Reconnect(t)
  PROVE  IInv'
<1>1. CASE current = 0
  BY <1>1, EndsQuiet DEF Reconnect
<1>2. CASE current # 0
  <2>1. /\ pc[t] = "reconnect"
        /\ pc' = [pc EXCEPT ![t] = "connect"]
        /\ call' = [call EXCEPT ![t].profile = conn[current].profile,
                                ![t].secret  = conn[current].secret]
        /\ UNCHANGED <<settings, store, lock, made, conn, current,
                       forgotten, astray>>
    BY <1>2 DEF Reconnect, ghosts
  <2>2. Fits(conn[current].profile, conn[current].secret)
        /\ conn[current].secret \in Secrets
    BY <1>2, RegisteredConn DEF IInv, TypeOK
  <2>3. TypeOK'
    <3>1. call[t] \in Calls
      BY DEF IInv, TypeOK
    <3>2. [call[t] EXCEPT !.profile = conn[current].profile,
                          !.secret  = conn[current].secret] \in Calls
      BY <2>2, <3>1 DEF Calls, Fits
    <3>3. call' \in [Threads -> Calls]
      BY <2>1, <3>2 DEF IInv, TypeOK
    <3> QED BY <2>1, <3>3 DEF IInv, TypeOK, Pcs
  <2>4. RequestsOK'
    BY <2>1, <2>2 DEF IInv, TypeOK, RequestsOK, Bound, Calls
  <2>5. ConnsOK' /\ StoreMatchesSettings' /\ NewestRegistered'
        /\ SecretsMatchHost'
    BY <2>1 DEF IInv, ConnsOK, StoreMatchesSettings, NewestRegistered,
                SecretsMatchHost
  <2>6. MatchOK'
    BY <2>1 DEF IInv, TypeOK, MatchOK
  <2> QED BY <2>3, <2>4, <2>5, <2>6 DEF IInv
<1> QED BY <1>1, <1>2

(* What holds of a step that only loses a connection.                      *)
LEMMA LostStep ==
  ASSUME IInv, NEW c \in 1..MaxConns,
         conn' = [conn EXCEPT ![c].connected = FALSE],
         UNCHANGED <<settings, store, lock, made, current, callers, ghosts>>
  PROVE  IInv'
<1>1. TypeOK'
  BY SameConns DEF IInv, TypeOK, callers, ghosts
<1>2. RequestsOK' /\ StoreMatchesSettings' /\ SecretsMatchHost'
  BY DEF IInv, RequestsOK, Bound, StoreMatchesSettings, SecretsMatchHost,
         callers, ghosts
<1>3. current # 0 => current \in 1..MaxConns
  BY RegisteredConn
<1>4. ConnsOK' /\ NewestRegistered'
  BY <1>3, SameConns DEF IInv, ConnsOK, NewestRegistered
<1>5. MatchOK'
  BY <1>3, SameConns DEF IInv, MatchOK, callers
<1> QED BY <1>1, <1>2, <1>4, <1>5 DEF IInv

LEMMA RetryStep ==
  ASSUME IInv, NEW t \in Threads, Retry(t)
  PROVE  IInv'
<1> DEFINE d == call[t].conn
<1>1. /\ pc[t] = "use"
      /\ conn' = [conn EXCEPT ![d].connected = FALSE]
      /\ pc' = [pc EXCEPT ![t] = "reconnect"]
      /\ call' = [call EXCEPT ![t].again = TRUE]
      /\ UNCHANGED <<settings, store, lock, made, current, forgotten,
                     astray>>
  BY DEF Retry, ghosts
<1>2. /\ conn' \in [1..MaxConns -> [profile : Profiles \cup {None},
                                   secret : Secrets, connected : BOOLEAN]]
      /\ \A c \in 1..MaxConns : conn'[c].profile = conn[c].profile
                                /\ conn'[c].secret = conn[c].secret
  <2>1. CASE d \in 1..MaxConns
    BY <1>1, <2>1, SameConns
  <2>2. CASE d \notin 1..MaxConns
    <3>1. conn' = [c \in 1..MaxConns |-> conn[c]]
      BY <1>1, <2>2 DEF IInv, TypeOK
    <3> QED BY <3>1 DEF IInv, TypeOK
  <2> QED BY <2>1, <2>2
<1>3. TypeOK'
  <2>1. [call[t] EXCEPT !.again = TRUE] \in Calls
    BY DEF IInv, TypeOK, Calls
  <2>2. call' \in [Threads -> Calls]
    BY <1>1, <2>1 DEF IInv, TypeOK
  <2> QED BY <1>1, <1>2, <2>2 DEF IInv, TypeOK, Pcs
<1>4. RequestsOK'
  BY <1>1 DEF IInv, TypeOK, RequestsOK, Bound, Calls
<1>5. current # 0 => current \in 1..MaxConns
  BY RegisteredConn
<1>6. ConnsOK' /\ NewestRegistered'
  BY <1>1, <1>2, <1>5 DEF IInv, ConnsOK, NewestRegistered
<1>7. MatchOK'
  BY <1>1, <1>2, <1>5 DEF IInv, TypeOK, MatchOK
<1>8. StoreMatchesSettings' /\ SecretsMatchHost'
  BY <1>1 DEF IInv, StoreMatchesSettings, SecretsMatchHost
<1> QED BY <1>3, <1>4, <1>6, <1>7, <1>8 DEF IInv

LEMMA OpenTerminalStep ==
  ASSUME IInv, NEW t \in Threads, OpenTerminal(t)
  PROVE  IInv'
<1> DEFINE d == conn[call[t].conn]
<1>1. /\ pc[t] = "open" /\ lock = None /\ Ends(t)
      /\ UNCHANGED <<settings, store, lock, made, conn, current,
                     forgotten>>
      /\ IF Usable /\ current = call[t].conn
           THEN Offers("application", {Saved(d.profile), d.secret},
                       d.profile.host)
           ELSE UNCHANGED astray
  BY DEF OpenTerminal, OpensTerminal
<1>2. astray' = astray
  <2>1. CASE Usable /\ current = call[t].conn
    <3>1. current # 0 /\ d = conn[current]
      BY <2>1 DEF Usable
    <3>2. Fits(d.profile, d.secret)
      BY <3>1, RegisteredConn
    <3>3. \A u \in Threads : pc[u] # "drop"
      BY <1>1, SshAssumption DEF IInv, TypeOK
    <3>4. Bound(d.profile)
      BY <3>1, <3>3 DEF IInv, MatchOK, Bound
    <3>5. {Saved(d.profile), d.secret} \subseteq {d.profile.host, None}
      BY <3>2, <3>4, OwnSecret DEF IInv, Fits
    <3> QED BY <1>1, <2>1, <3>5 DEF Offers
  <2> QED BY <1>1, <2>1
<1> QED BY <1>1, <1>2, EndsQuiet DEF ghosts

LEMMA SnapshotStep ==
  ASSUME IInv, NEW t \in Threads, Snapshot(t)
  PROVE  IInv'
<1> DEFINE d == conn[current]
           s == IF d.secret # None THEN d.secret ELSE Saved(d.profile)
           command == [call[t] EXCEPT !.profile = d.profile, !.secret = s]
<1>1. pc[t] = "snapshot"
      /\ UNCHANGED <<settings, store, lock, made, conn, current,
                     forgotten, astray>>
  BY DEF Snapshot, ghosts
<1>2. CASE Ends(t)
  BY <1>1, <1>2, EndsQuiet DEF ghosts
<1>3. CASE ~Ends(t)
  <2>1. Usable /\ pc' = [pc EXCEPT ![t] = "helper"]
        /\ call' = [call EXCEPT ![t] = command]
    BY <1>3 DEF Snapshot
  <2>2. current # 0
    BY <2>1 DEF Usable
  <2>3. d.profile \in Profiles /\ s \in Secrets
    BY <2>2, RegisteredConn DEF IInv, TypeOK, Fits, Saved
  <2>4. call[t] \in Calls
    BY DEF IInv, TypeOK
  <2>5. command \in Calls
    BY <2>3, <2>4 DEF Calls
  <2>6. "helper" \in Pcs \ {"connect", "connecting", "drop"}
    BY DEF Pcs
  <2>7. astray' \subseteq {"application", "helper"}
        /\ "application" \notin astray'
    BY <1>1 DEF IInv, TypeOK, SecretsMatchHost
  <2> HIDE DEF command
  <2> QED BY <1>1, <2>1, <2>5, <2>6, <2>7, QuietStep
<1> QED BY <1>2, <1>3

LEMMA HelperStep ==
  ASSUME IInv, NEW t \in Threads, HelperConnects(t)
  PROVE  IInv'
<1>1. pc[t] = "helper" /\ Ends(t)
      /\ UNCHANGED <<settings, store, lock, made, conn, current,
                     forgotten>>
  BY DEF HelperConnects
<1>2. astray' \subseteq {"application", "helper"}
      /\ "application" \notin astray'
  BY DEF HelperConnects, Offers, IInv, TypeOK, SecretsMatchHost
<1>3. "idle" \in Pcs \ {"connect", "connecting", "drop"}
  BY DEF Pcs
<1> QED BY <1>1, <1>2, <1>3, IdleCall, QuietStep DEF Ends

-----------------------------------------------------------------------------
(* Disconnect, Forget and the settings.                                    *)

LEMMA RemovedConns ==
  ASSUME IInv, Removed
  PROVE  /\ conn' \in [1..MaxConns -> [profile : Profiles \cup {None},
                                      secret : Secrets, connected : BOOLEAN]]
         /\ \A c \in 1..MaxConns : conn'[c].profile = conn[c].profile
                                   /\ conn'[c].secret = conn[c].secret
         /\ current' = 0
<1>1. CASE current = 0
  BY <1>1 DEF Removed, IInv, TypeOK
<1>2. CASE current # 0
  BY <1>2, RegisteredConn, SameConns DEF Removed
<1> QED BY <1>1, <1>2

LEMMA RemovedOK ==
  ASSUME IInv, Removed, UNCHANGED made
  PROVE  ConnsOK' /\ MatchOK' /\ NewestRegistered'
BY RemovedConns DEF IInv, ConnsOK, MatchOK, NewestRegistered

LEMMA DisconnectStep == IInv /\ Disconnect => IInv'
<1> SUFFICES ASSUME IInv, Disconnect PROVE IInv'
  OBVIOUS
<1>1. Removed /\ UNCHANGED <<settings, store, lock, made, pc, call, forgotten,
                             astray>>
  BY DEF Disconnect, callers
<1>3. TypeOK'
  <2>1. current' \in 0..MaxConns
    BY <1>1, RemovedConns, SshAssumption
  <2> QED BY <1>1, <2>1, RemovedConns DEF IInv, TypeOK
<1>4. RequestsOK' /\ StoreMatchesSettings' /\ SecretsMatchHost'
  BY <1>1 DEF IInv, RequestsOK, Bound, StoreMatchesSettings, SecretsMatchHost
<1> QED BY <1>1, <1>3, <1>4, RemovedOK DEF IInv

LEMMA DropStep ==
  ASSUME IInv, NEW t \in Threads, Drop(t)
  PROVE  IInv'
<1>1. /\ pc[t] = "drop" /\ lock = t /\ Removed /\ lock' = None
      /\ pc' = [pc EXCEPT ![t] = "idle"]
      /\ call' = [call EXCEPT ![t] = Idle]
      /\ UNCHANGED <<settings, store, made, forgotten, astray>>
  BY DEF Drop, Ends, IInv, TypeOK
<1>3. TypeOK'
  <2>1. call' \in [Threads -> Calls] /\ pc' \in [Threads -> Pcs]
    BY <1>1, IdleCall DEF IInv, TypeOK, Pcs
  <2>2. \A u \in Threads : pc'[u] \in {"connecting", "drop"} <=> lock' = u
    BY <1>1, SshAssumption DEF IInv, TypeOK
  <2>3. current' \in 0..MaxConns
    BY <1>1, RemovedConns, SshAssumption
  <2> QED BY <1>1, <2>1, <2>2, <2>3, RemovedConns DEF IInv, TypeOK
<1>4. RequestsOK'
  BY <1>1 DEF IInv, TypeOK, RequestsOK, Bound
<1>5. StoreMatchesSettings' /\ SecretsMatchHost'
  BY <1>1 DEF IInv, StoreMatchesSettings, SecretsMatchHost
<1> QED BY <1>1, <1>3, <1>4, <1>5, RemovedOK DEF IInv

LEMMA ForgetStep ==
  ASSUME IInv, NEW t \in Threads, Forget(t)
  PROVE  IInv'
<1>1. pc[t] = "forget" /\ lock = None
      /\ UNCHANGED <<settings, made, conn, current, astray>>
  BY DEF Forget
<1>2. CASE Ends(t) /\ UNCHANGED <<store, forgotten, lock>>
  BY <1>1, <1>2, EndsQuiet DEF ghosts
<1>3. CASE store' = None /\ forgotten' = TRUE /\ lock' = t /\ Goes(t, "drop")
  <2>1. pc' = [pc EXCEPT ![t] = "drop"] /\ call' = call
    BY <1>3 DEF Goes
  <2>2. forgotten' \in BOOLEAN
    BY <1>3, Zenon
  <2>3. \A u \in Threads : pc'[u] \in {"connecting", "drop"} <=> lock' = u
    BY <1>1, <1>3, <2>1, SshAssumption DEF IInv, TypeOK
  <2>4. TypeOK'
    BY <1>1, <1>3, <2>1, <2>2, <2>3 DEF IInv, TypeOK, Pcs, Secrets
  <2>5. RequestsOK'
    BY <1>1, <2>1 DEF IInv, TypeOK, RequestsOK, Bound
  <2>6. ConnsOK' /\ NewestRegistered' /\ SecretsMatchHost'
        /\ StoreMatchesSettings'
    BY <1>1, <1>3 DEF IInv, ConnsOK, NewestRegistered, SecretsMatchHost,
                     StoreMatchesSettings
  <2>7. MatchOK'
    BY <2>1 DEF IInv, TypeOK, MatchOK
  <2> QED BY <2>4, <2>5, <2>6, <2>7 DEF IInv
<1> QED BY <1>2, <1>3 DEF Forget

LEMMA UpdateStep ==
  ASSUME IInv, NEW t \in Threads, Update(t)
  PROVE  IInv'
<1>1. pc[t] = "update" /\ lock = None
      /\ UNCHANGED <<made, conn, current, forgotten, astray>>
  BY DEF Update, ghosts
<1>2. \A u \in Threads : pc[u] \notin {"connecting", "drop"}
  BY <1>1, SshAssumption DEF IInv, TypeOK
<1>3. \/ lock' = t /\ Goes(t, "drop")
      \/ UNCHANGED lock /\ Ends(t)
         /\ (UNCHANGED settings \/ settings = None)
  BY DEF Update
<1>4. settings' \in Profiles \cup {None} /\ store' \in Secrets
  BY DEF Update, IInv, TypeOK, Secrets
<1>5. StoreMatchesSettings'
  BY <1>4 DEF Update, IInv, TypeOK, StoreMatchesSettings, Cleaned, MovesAway,
              Profiles
<1>6. /\ pc' \in {[pc EXCEPT ![t] = "idle"], [pc EXCEPT ![t] = "drop"]}
      /\ call' \in {call, [call EXCEPT ![t] = Idle]}
  BY <1>3 DEF Goes, Ends
<1>7. TypeOK'
  <2>1. call' \in [Threads -> Calls] /\ pc' \in [Threads -> Pcs]
    BY <1>6, IdleCall DEF IInv, TypeOK, Pcs
  <2>2. \A u \in Threads : pc'[u] \in {"connecting", "drop"} <=> lock' = u
    BY <1>1, <1>2, <1>3, SshAssumption DEF IInv, TypeOK, Goes, Ends
  <2> QED BY <1>1, <1>3, <1>4, <2>1, <2>2 DEF IInv, TypeOK
<1>8. RequestsOK'
  BY <1>1, <1>2, <1>6 DEF IInv, TypeOK, RequestsOK
<1>9. ConnsOK' /\ NewestRegistered' /\ SecretsMatchHost'
  BY <1>1 DEF IInv, ConnsOK, NewestRegistered, SecretsMatchHost
<1>10. MatchOK'
  <2>1. CASE lock' = t /\ Goes(t, "drop")
    BY <2>1 DEF IInv, TypeOK, MatchOK, Goes
  <2>2. CASE UNCHANGED settings /\ Ends(t)
    BY <1>1, <1>2, <2>2 DEF IInv, TypeOK, MatchOK
  <2>3. CASE settings = None /\ Ends(t)
    BY <1>1, <1>2, <2>3, RegisteredConn DEF IInv, TypeOK, MatchOK
  <2> QED BY <1>3, <2>1, <2>2, <2>3
<1> QED BY <1>5, <1>7, <1>8, <1>9, <1>10 DEF IInv

-----------------------------------------------------------------------------
LEMMA NextIInv == IInv /\ [Next]_vars => IInv'
<1> SUFFICES ASSUME IInv, [Next]_vars PROVE IInv'
  OBVIOUS
<1>1. ASSUME NEW t \in Threads,
             ConnectCalled(t) \/ Called(t) \/ Connecting(t) \/ Using(t)
               \/ Changing(t)
      PROVE  IInv'
  BY <1>1, CallSteps, AuthenticateStep, RefuseStep, ConnectFailsStep,
     EstablishStep, GetStep, ReconnectStep, RetryStep, OpenTerminalStep,
     SnapshotStep, HelperStep, ForgetStep, UpdateStep, DropStep
     DEF Connecting, Using, Changing
<1>2. CASE \E c \in 1..MaxConns : Lost(c)
  BY <1>2, LostStep DEF Lost
<1>3. CASE UNCHANGED vars
  <2>1. UNCHANGED <<settings, store, lock, made, conn, current, pc, call,
                    forgotten, astray>>
    BY <1>3 DEF vars, callers, ghosts
  <2> QED BY <2>1 DEF IInv, TypeOK, RequestsOK, ConnsOK, MatchOK, Bound,
             StoreMatchesSettings, SecretsMatchHost, NewestRegistered
<1> QED BY <1>1, <1>2, <1>3, DisconnectStep DEF Next

LEMMA IInvMatches == IInv => RegisteredMatchesSettings
BY SshAssumption DEF IInv, TypeOK, MatchOK, RegisteredMatchesSettings

(* The invariant holds in every reachable state.                           *)
THEOREM Invariant == Spec => []IInv
BY InitIInv, NextIInv, PTL DEF Spec

(* Every variable keeps its type, and profile_updates has an owner exactly *)
(* while a connect, Forget or update is under way.                         *)
THEOREM TypeCorrect == Spec => []TypeOK
BY Invariant, PTL DEF IInv

(* The stored password is that of the saved profile, whatever connects,    *)
(* updates and failures came before (ssh.rs:148, credential_store.rs:710). *)
THEOREM StoreCorrect == Spec => []StoreMatchesSettings
BY Invariant, PTL DEF IInv

(* The application uses each secret for its own host only.                 *)
THEOREM SecretsCorrect == Spec => []SecretsMatchHost
BY Invariant, PTL DEF IInv

(* A registered connection that may use the stored password belongs to the *)
(* saved profile whenever no update is under way.                          *)
THEOREM RegisteredCorrect == Spec => []RegisteredMatchesSettings
BY Invariant, IInvMatches, PTL

(* The map has the newest connection or none.                              *)
THEOREM NewestCorrect == Spec => []NewestRegistered
BY Invariant, PTL DEF IInv
=============================================================================
