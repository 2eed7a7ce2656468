-------------------------- MODULE Services_proofs ---------------------------
(***************************************************************************)
(* Proofs about the watches, the settings file, documents, databases,      *)
(* shells and the connects and listings of FTP, for every value of their   *)
(* constants, and what follows for Services.  Names of the proofs of a part begin with its     *)
(* instance.                                                               *)
(***************************************************************************)
EXTENDS Services, Sequences, FiniteSetTheorems, SequenceTheorems, WellFoundedInduction, TLAPS

-----------------------------------------------------------------------------
(* Proofs about FtpConnect for every set of attempts, profiles and          *)
(* certificates.                                                            *)
\* What a profile accepts, told as the property tells it.
ConnectsGood(p) == IF p.pin = None THEN fmTrusted ELSE {p.pin}

ConnectsKinds == {"connect", "lease", "helper", None}
ConnectsRecords == [stage: Connects!Stages, kind: ConnectsKinds, profile: fmProfiles \cup {None},
            typed: Connects!Passwords \cup {None}, secret: Connects!Passwords \cup {None},
            seen: fmCerts \cup {None}, private: BOOLEAN,
            data: fmCerts \cup {None, "clear"}, moved: BOOLEAN]

ConnectsTypes ==
    /\ fmSaved \in fmProfiles \cup {None}
    /\ fmStore \in Connects!Passwords \cup {None}
    /\ fmLock \in fmAttempts \cup {"update", None}
    /\ fmRegistered \in Connects!Connections \cup {None}
    /\ fmCert \in fmCerts
    /\ fmAt \in [fmAttempts -> ConnectsRecords]

\* How far an attempt has come.
ConnectsKnown == Connects!Stages \ {"idle", "load"}
ConnectsArmed == ConnectsKnown \ {"password"}
ConnectsSending == {"login", "sent", "in", "ready", "proven", "saved"}

\* A connect holds the lock, so its profile is the one that is saved.
ConnectsHoldsLock(a) ==
    /\ fmAt[a].stage \in {"load", "proven", "saved"} => fmAt[a].kind = "connect"
    /\ fmAt[a].stage = "password" => fmAt[a].kind \in {"connect", "lease"}
    /\ fmAt[a].stage # "idle" /\ fmAt[a].kind = "connect" => fmLock = a
    /\ fmAt[a].stage \in ConnectsKnown /\ fmAt[a].kind = "connect" => fmSaved # None /\ fmAt[a].profile = fmSaved

\* The password fits the profile, and was accepted by the server.
ConnectsSecretFits(a) ==
    LET r == fmAt[a]
    IN  /\ r.stage \in ConnectsKnown /\ r.typed # None => r.typed.for = Connects!Endpoint(r.profile)
        /\ r.stage \in ConnectsArmed /\ r.typed # None => r.secret = r.typed
        /\ r.stage \in ConnectsArmed => r.secret.for = Connects!Endpoint(r.profile) \/ (r.kind = "lease" /\ r.moved)
        /\ r.stage \in {"in", "ready", "proven"} => r.secret.right

\* The connection is the one the profile allows.
ConnectsProtected(a) ==
    LET r == fmAt[a]
    IN  /\ r.stage = "idle" => r = Connects!Idle
        /\ r.stage \in ConnectsKnown => r.profile \in fmProfiles
        /\ r.stage \in ConnectsKnown /\ r.profile.mode = "plain" => r.profile.ack
        /\ r.stage \in ConnectsKnown =>
             r.data = None \/ (r.stage = "ready" /\ r.kind # "connect")
        /\ r.stage = "load" => r.data = None /\ r.typed = None
        /\ r.stage \in {"auth", "shake", "protect"} => r.profile.mode # "plain"
        /\ r.stage = "protect" => r.seen \in ConnectsGood(r.profile)
        /\ r.stage \in ConnectsSending /\ r.profile.mode # "plain" =>
             r.private /\ r.seen \in ConnectsGood(r.profile) /\ r.data \in {None} \cup ConnectsGood(r.profile)

ConnectsAttemptOK(a) == ConnectsHoldsLock(a) /\ ConnectsSecretFits(a) /\ ConnectsProtected(a)

\* What a registered connection hands to its leases and to the helper.
ConnectsRegisteredFits ==
    fmRegistered # None =>
        /\ fmRegistered.typed # None => fmRegistered.typed.for = Connects!Endpoint(fmRegistered.profile)
        /\ fmRegistered.profile.mode = "plain" => fmRegistered.profile.ack

ConnectsIInv ==
    /\ ConnectsTypes
    /\ \A a \in fmAttempts : ConnectsAttemptOK(a)
    /\ ConnectsRegisteredFits /\ Connects!SavedIsProven /\ Connects!RegisteredIsCurrent

-----------------------------------------------------------------------------
LEMMA ConnectsInitHolds ==
  ASSUME Connects!ConnectAssumption
  PROVE  Connects!Init => ConnectsIInv
<1> SUFFICES ASSUME Connects!Init PROVE ConnectsIInv
  OBVIOUS
<1> USE DEF Connects!Init
<1>1. Connects!Idle \in ConnectsRecords
  BY DEF Connects!Idle, ConnectsRecords, Connects!Stages, ConnectsKinds
<1>2. ConnectsTypes
  BY <1>1 DEF ConnectsTypes
<1>3. ASSUME NEW a \in fmAttempts PROVE ConnectsAttemptOK(a)
  BY DEF ConnectsAttemptOK, ConnectsHoldsLock, ConnectsSecretFits, ConnectsProtected,
    Connects!Idle, ConnectsKnown, ConnectsArmed, ConnectsSending
<1>4. ConnectsRegisteredFits /\ Connects!SavedIsProven /\ Connects!RegisteredIsCurrent
  BY DEF ConnectsRegisteredFits, Connects!SavedIsProven, Connects!RegisteredIsCurrent
<1> QED BY <1>2, <1>3, <1>4 DEF ConnectsIInv

(* A step of one attempt: the others, and the lock of another one, stay.    *)
ConnectsAlone(a) ==
    /\ fmSaved' = fmSaved /\ fmCert' = fmCert
    /\ fmLock' = fmLock \/ (fmLock \in {None, a} /\ fmLock' \in {None, a})
    /\ fmAt' \in [fmAttempts -> ConnectsRecords]
    /\ \A b \in fmAttempts \ {a} : fmAt'[b] = fmAt[b]

LEMMA ConnectsOthersKept ==
  ASSUME Connects!ConnectAssumption, ConnectsIInv, NEW a \in fmAttempts, ConnectsAlone(a)
  PROVE  \A b \in fmAttempts \ {a} : ConnectsAttemptOK(b)'
<1> SUFFICES ASSUME NEW b \in fmAttempts, b # a PROVE ConnectsAttemptOK(b)'
  OBVIOUS
<1>1. fmAt'[b] = fmAt[b] /\ ConnectsAttemptOK(b)
  BY DEF ConnectsAlone, ConnectsIInv
<1>2. ConnectsHoldsLock(b)'
  BY <1>1 DEF ConnectsHoldsLock, ConnectsAttemptOK, Connects!ConnectAssumption,
    ConnectsAlone
<1>3. ConnectsSecretFits(b)' /\ ConnectsProtected(b)'
  BY <1>1 DEF ConnectsSecretFits, ConnectsProtected, ConnectsAttemptOK
<1> QED BY <1>2, <1>3 DEF ConnectsAttemptOK

\* It is enough to look at the attempt, at the store and at the connection.
LEMMA ConnectsAttemptEnough ==
  ASSUME Connects!ConnectAssumption, ConnectsIInv, NEW a \in fmAttempts, ConnectsAlone(a),
         ConnectsAttemptOK(a)',
         UNCHANGED <<fmStore, fmRegistered>>
  PROVE  ConnectsIInv'
<1>1. ConnectsTypes'
  BY DEF ConnectsIInv, ConnectsTypes, ConnectsAlone
<1>2. \A b \in fmAttempts : ConnectsAttemptOK(b)'
  BY ConnectsOthersKept
<1>3. ConnectsRegisteredFits' /\ Connects!SavedIsProven'
  BY DEF ConnectsIInv, ConnectsAlone, ConnectsRegisteredFits, Connects!SavedIsProven
<1>4. Connects!RegisteredIsCurrent'
  BY DEF ConnectsIInv, ConnectsAlone, Connects!RegisteredIsCurrent,
    Connects!ConnectAssumption
<1> QED BY <1>1, <1>2, <1>3, <1>4 DEF ConnectsIInv

\* The end of an attempt.
LEMMA ConnectsEndKeeps ==
  ASSUME Connects!ConnectAssumption, ConnectsIInv, NEW a \in fmAttempts, Connects!End(a),
         UNCHANGED <<fmSaved, fmCert>>
  PROVE  ConnectsAlone(a) /\ ConnectsAttemptOK(a)'
<1>1. Connects!Idle \in ConnectsRecords
  BY DEF Connects!Idle, ConnectsRecords, Connects!Stages, ConnectsKinds
<1>2. ConnectsAlone(a) /\ fmAt'[a] = Connects!Idle
  BY <1>1 DEF Connects!End, ConnectsAlone, ConnectsIInv, ConnectsTypes
<1>3. ConnectsAttemptOK(a)'
  BY <1>2 DEF ConnectsAttemptOK, ConnectsHoldsLock, ConnectsSecretFits,
    ConnectsProtected, Connects!Idle, ConnectsKnown, ConnectsArmed, ConnectsSending
<1> QED BY <1>2, <1>3

LEMMA ConnectsEndStep ==
  ASSUME Connects!ConnectAssumption, ConnectsIInv, NEW a \in fmAttempts, Connects!End(a),
         UNCHANGED <<fmSaved, fmStore, fmRegistered, fmCert>>
  PROVE  ConnectsIInv'
BY ConnectsEndKeeps, ConnectsAttemptEnough

\* What a record says of itself, without the lock.
LEMMA ConnectsBeginsHold ==
  ASSUME Connects!ConnectAssumption, ConnectsIInv, NEW a \in fmAttempts,
         Connects!Connect(a) \/ Connects!Lease(a) \/ Connects!Snapshot(a)
  PROVE  ConnectsIInv'
<1> USE DEF ConnectsIInv, ConnectsTypes
<1>0. fmAt[a] = Connects!Idle /\ Connects!Idle \in ConnectsRecords /\ ConnectsAttemptOK(a)
  BY DEF Connects!Connect, Connects!Lease, Connects!Snapshot, Connects!Begins,
    ConnectsAttemptOK, ConnectsProtected, ConnectsRecords
<1>1. CASE Connects!Connect(a)
  <2>1. fmAt'[a] = [Connects!Idle EXCEPT !.stage = "load", !.kind = "connect"]
    BY <1>0, <1>1 DEF Connects!Connect
  <2>2. ConnectsAlone(a)
    BY <1>0, <1>1 DEF Connects!Connect, ConnectsAlone, ConnectsRecords, Connects!Stages,
      ConnectsKinds
  <2>3. ConnectsAttemptOK(a)'
    BY <1>1, <2>1 DEF Connects!Connect, Connects!Begins, ConnectsAttemptOK,
      ConnectsHoldsLock, ConnectsSecretFits, ConnectsProtected, Connects!Idle,
      ConnectsKnown, ConnectsArmed, ConnectsSending
  <2> QED BY <1>1, <2>2, <2>3, ConnectsAttemptEnough DEF Connects!Connect
<1>2. CASE Connects!Lease(a)
  <2>1. fmRegistered \in Connects!Connections
    BY <1>2 DEF Connects!Lease
  <2>2. fmAt'[a] = [Connects!Idle EXCEPT !.stage = "password", !.kind = "lease",
                    !.profile = fmRegistered.profile, !.typed = fmRegistered.typed]
    BY <1>0, <1>2 DEF Connects!Lease
  <2>3. ConnectsAlone(a)
    BY <1>0, <1>2, <2>1, ZenonT(60) DEF Connects!Lease, ConnectsAlone, ConnectsRecords,
      Connects!Stages, ConnectsKinds, Connects!Connections
  <2>4. ConnectsAttemptOK(a)'
    BY <1>2, <2>1, <2>2 DEF Connects!Lease, Connects!Begins, ConnectsAttemptOK,
      ConnectsHoldsLock, ConnectsSecretFits, ConnectsProtected, Connects!Idle,
      ConnectsKnown, ConnectsArmed, ConnectsSending, Connects!Connections,
      ConnectsRegisteredFits
  <2> QED BY <1>2, <2>3, <2>4, ConnectsAttemptEnough DEF Connects!Lease
<1>3. CASE Connects!Snapshot(a)
  <2> DEFINE secret == Connects!Password(fmRegistered.profile, fmRegistered.typed)
  <2>1. fmRegistered \in Connects!Connections /\ secret \in Connects!Passwords
    BY <1>3 DEF Connects!Snapshot, Connects!Password, Connects!Connections
  <2>2. fmAt'[a] = [Connects!Idle EXCEPT !.stage = "socket", !.kind = "helper",
                    !.profile = fmRegistered.profile, !.secret = secret]
    BY <1>0, <1>3 DEF Connects!Snapshot
  <2>3. secret.for = Connects!Endpoint(fmRegistered.profile)
    BY <1>3, <2>1, Connects!ConnectAssumption DEF Connects!Snapshot, Connects!Password,
      Connects!SavedIsProven, Connects!RegisteredIsCurrent, ConnectsRegisteredFits,
      Connects!ConnectAssumption
  <2>4. ConnectsAlone(a)
    BY <1>0, <1>3, <2>1, ZenonT(60) DEF Connects!Snapshot, ConnectsAlone,
      ConnectsRecords, Connects!Stages, ConnectsKinds, Connects!Connections
  <2> HIDE DEF secret
  <2>5. ConnectsAttemptOK(a)'
    BY <1>3, <2>1, <2>2, <2>3 DEF Connects!Snapshot, Connects!Begins, ConnectsAttemptOK,
      ConnectsHoldsLock, ConnectsSecretFits, ConnectsProtected, Connects!Idle,
      ConnectsKnown, ConnectsArmed, ConnectsSending, Connects!Connections,
      ConnectsRegisteredFits
  <2> QED BY <1>3, <2>4, <2>5, ConnectsAttemptEnough DEF Connects!Snapshot
<1> QED BY <1>1, <1>2, <1>3

LEMMA ConnectsStutter == ConnectsIInv /\ UNCHANGED Connects!vars => ConnectsIInv'
BY DEF ConnectsIInv, ConnectsTypes, ConnectsAttemptOK, ConnectsHoldsLock,
  ConnectsSecretFits, ConnectsProtected, ConnectsRegisteredFits, Connects!SavedIsProven,
  Connects!RegisteredIsCurrent, Connects!vars

(* The steps of the handshake: only the record of the attempt changes.      *)
LEMMA ConnectsRecordStep ==
  ASSUME Connects!ConnectAssumption, ConnectsIInv, NEW a \in fmAttempts,
         NEW r \in ConnectsRecords,
         fmAt' = [fmAt EXCEPT ![a] = r],
         UNCHANGED <<fmSaved, fmStore, fmLock, fmRegistered, fmCert>>, ConnectsAttemptOK(a)'
  PROVE  ConnectsIInv'
<1>1. ConnectsAlone(a)
  BY DEF ConnectsAlone, ConnectsIInv, ConnectsTypes
<1> QED BY <1>1, ConnectsAttemptEnough

LEMMA ConnectsStageStep ==
  ASSUME Connects!ConnectAssumption, ConnectsIInv, NEW a \in fmAttempts,
         Connects!Socket(a) \/ Connects!AuthTls(a) \/ Connects!Protect(a) \/ Connects!Login(a) \/ Connects!Negotiate(a) \/ Connects!Enter(a)
  PROVE  ConnectsIInv'
<1> DEFINE r == fmAt'[a]
<1>0. fmAt[a] \in ConnectsRecords /\ ConnectsAttemptOK(a)
  BY DEF ConnectsIInv, ConnectsTypes
<1>1. UNCHANGED <<fmSaved, fmStore, fmLock, fmRegistered, fmCert>>
  BY DEF Connects!Socket, Connects!AuthTls, Connects!Protect, Connects!Login,
    Connects!Negotiate, Connects!Enter
<1>2. fmAt[a].stage = "socket" => Connects!First(fmAt[a].profile) \in {"auth", "shake", "login"}
  BY <1>0, Connects!ConnectAssumption DEF Connects!First, ConnectsAttemptOK,
    ConnectsProtected, ConnectsKnown, Connects!Stages, Connects!ConnectAssumption
<1>3. r \in ConnectsRecords /\ fmAt' = [fmAt EXCEPT ![a] = r]
  BY <1>0, <1>2 DEF ConnectsIInv, ConnectsTypes, ConnectsRecords, Connects!Stages,
    Connects!Becomes, Connects!Socket, Connects!AuthTls, Connects!Protect,
    Connects!Login, Connects!Negotiate, Connects!Enter
<1>4. ConnectsHoldsLock(a)'
  BY <1>0, <1>1, <1>2 DEF ConnectsIInv, ConnectsTypes, ConnectsRecords,
    ConnectsAttemptOK, ConnectsHoldsLock, ConnectsKnown, Connects!Stages,
    Connects!Becomes, Connects!Socket, Connects!AuthTls, Connects!Protect,
    Connects!Login, Connects!Negotiate, Connects!Enter
<1>5. ConnectsSecretFits(a)'
  BY <1>0, <1>1, <1>2 DEF ConnectsIInv, ConnectsTypes, ConnectsRecords,
    ConnectsAttemptOK, ConnectsSecretFits, ConnectsKnown, ConnectsArmed,
    Connects!Stages, Connects!Becomes, Connects!Socket, Connects!AuthTls,
    Connects!Protect, Connects!Login, Connects!Negotiate, Connects!Enter
<1>6. ConnectsProtected(a)'
  <2>1. CASE Connects!Socket(a)
    <3>1. fmAt[a].profile \in fmProfiles
      BY <1>0, <2>1 DEF ConnectsAttemptOK, ConnectsProtected, ConnectsKnown,
        Connects!Stages, Connects!Socket
    <3>2. Connects!First(fmAt[a].profile) = "login" => fmAt[a].profile.mode = "plain"
      BY <3>1 DEF Connects!First, Connects!ConnectAssumption
    <3>3. fmAt[a].profile.mode = "plain" => Connects!First(fmAt[a].profile) = "login"
      BY DEF Connects!First
    <3> QED
      BY <1>0, <1>2, <2>1, <3>1, <3>2, <3>3 DEF ConnectsIInv, ConnectsTypes,
        ConnectsRecords, ConnectsAttemptOK, ConnectsProtected, ConnectsKnown,
        Connects!Stages, ConnectsSending, Connects!Becomes, Connects!Socket
  <2>2. CASE Connects!AuthTls(a)
    BY <1>0, <2>2 DEF ConnectsIInv, ConnectsTypes, ConnectsRecords, ConnectsAttemptOK,
      ConnectsProtected, ConnectsKnown, Connects!Stages, ConnectsSending,
      Connects!Becomes, Connects!AuthTls
  <2>3. CASE Connects!Protect(a)
    BY <1>0, <2>3 DEF ConnectsIInv, ConnectsTypes, ConnectsRecords, ConnectsAttemptOK,
      ConnectsProtected, ConnectsKnown, Connects!Stages, ConnectsSending,
      Connects!Protect
  <2>4. CASE Connects!Login(a) \/ Connects!Negotiate(a) \/ Connects!Enter(a)
    BY <1>0, <2>4 DEF ConnectsIInv, ConnectsTypes, ConnectsRecords, ConnectsAttemptOK,
      ConnectsProtected, ConnectsKnown, Connects!Stages, ConnectsSending,
      Connects!Becomes, Connects!Login, Connects!Negotiate, Connects!Enter
  <2> QED BY <2>1, <2>2, <2>3, <2>4
<1> HIDE DEF r
<1> QED BY <1>1, <1>3, <1>4, <1>5, <1>6, ConnectsRecordStep DEF ConnectsAttemptOK

LEMMA ConnectsProfileStep ==
  ASSUME Connects!ConnectAssumption, ConnectsIInv, NEW a \in fmAttempts,
         Connects!Load(a) \/ Connects!Take(a)
  PROVE  ConnectsIInv'
<1>0. fmAt[a] \in ConnectsRecords /\ ConnectsAttemptOK(a)
  BY DEF ConnectsIInv, ConnectsTypes
<1>1. CASE Connects!Load(a) /\ ~Connects!End(a)
  <2>1. PICK t \in {None} \cup [for : {Connects!Endpoint(fmSaved)}, right : BOOLEAN] :
          fmAt' = [fmAt EXCEPT ![a].stage = "password", ![a].profile = fmSaved, ![a].typed = t]
    BY <1>1 DEF Connects!Load
  <2> DEFINE r == [fmAt[a] EXCEPT !.stage = "password", !.profile = fmSaved, !.typed = t]
  <2>2. fmSaved \in fmProfiles /\ fmSaved # None /\ (fmSaved.mode = "plain" => fmSaved.ack)
    BY <1>1 DEF Connects!Load, ConnectsIInv, ConnectsTypes
  <2>3. t # None => t.for = Connects!Endpoint(fmSaved)
    BY <2>1
  <2>4. t \in Connects!Passwords \cup {None}
    BY <2>1, <2>2 DEF Connects!Passwords
  <2>5. r \in ConnectsRecords /\ fmAt' = [fmAt EXCEPT ![a] = r]
    BY <1>0, <2>1, <2>2, <2>4 DEF ConnectsIInv, ConnectsTypes, ConnectsRecords,
      Connects!Stages
  <2>6. UNCHANGED <<fmSaved, fmStore, fmLock, fmRegistered, fmCert>>
    BY <1>1 DEF Connects!Load
  <2>7. ConnectsAttemptOK(a)'
    <3>1. fmAt[a].stage = "load" /\ fmAt'[a] = r
      BY <1>0, <1>1, <2>5 DEF Connects!Load, ConnectsIInv, ConnectsTypes
    <3>2. ConnectsHoldsLock(a)'
      BY <1>0, <2>2, <2>6, <3>1 DEF ConnectsAttemptOK, ConnectsHoldsLock,
        ConnectsRecords
    <3>3. ConnectsSecretFits(a)'
      BY <1>0, <2>3, <3>1 DEF ConnectsSecretFits, ConnectsArmed, ConnectsKnown,
        ConnectsRecords
    <3>4. ConnectsProtected(a)'
      BY <1>0, <2>2, <3>1 DEF ConnectsAttemptOK, ConnectsProtected, ConnectsSending,
        ConnectsRecords
    <3> QED BY <3>2, <3>3, <3>4 DEF ConnectsAttemptOK
  <2> HIDE DEF r
  <2> QED BY <2>5, <2>6, <2>7, ConnectsRecordStep
<1>2. CASE Connects!Take(a) /\ ~Connects!End(a)
  <2> DEFINE p == fmAt[a].profile
             secret == Connects!Password(p, fmAt[a].typed)
             r == [fmAt[a] EXCEPT !.stage = "socket", !.secret = secret,
                                !.moved = fmAt[a].typed = None /\ Connects!Moved(p, fmSaved)]
  <2>1. /\ secret # None /\ fmAt' = [fmAt EXCEPT ![a] = r]
        /\ UNCHANGED <<fmSaved, fmStore, fmLock, fmRegistered, fmCert>>
    BY <1>0, <1>2 DEF Connects!Take, ConnectsIInv, ConnectsTypes, ConnectsRecords
  <2>2. secret \in Connects!Passwords
    BY <1>0, <2>1 DEF Connects!Password, ConnectsIInv, ConnectsTypes, ConnectsRecords
  <2>3. fmAt[a].typed # None => secret = fmAt[a].typed
    BY DEF Connects!Password
  <2>4. secret.for = Connects!Endpoint(p) \/ (fmAt[a].kind = "lease" /\ fmAt[a].typed = None /\ Connects!Moved(p, fmSaved))
    <3>1. CASE fmAt[a].typed # None
      BY <1>0, <1>2, <2>3, <3>1 DEF Connects!Take, ConnectsAttemptOK,
        ConnectsSecretFits, ConnectsKnown, Connects!Stages
    <3>2. CASE fmAt[a].typed = None
      <4>1. secret = fmStore /\ fmStore # None
        BY <2>1, <3>2 DEF Connects!Password
      <4>2. fmAt[a].kind # "lease" => p = fmSaved
        BY <1>0, <1>2 DEF Connects!Take, ConnectsAttemptOK, ConnectsHoldsLock,
          ConnectsKnown, Connects!Stages
      <4>3. fmSaved # None /\ secret.for = Connects!Endpoint(fmSaved)
        BY <4>1 DEF ConnectsIInv, Connects!SavedIsProven
      <4> QED BY <3>2, <4>2, <4>3 DEF Connects!Moved
    <3> QED BY <3>1, <3>2
  <2>5. r \in ConnectsRecords
    BY <1>0, <2>2 DEF ConnectsRecords, Connects!Stages
  <2>7. /\ r.stage = "socket" /\ r.secret = secret /\ r.moved = (fmAt[a].typed = None /\ Connects!Moved(p, fmSaved))
        /\ r.kind = fmAt[a].kind /\ r.profile = p /\ r.typed = fmAt[a].typed /\ r.seen = fmAt[a].seen
        /\ r.private = fmAt[a].private /\ r.data = fmAt[a].data
    BY <1>0 DEF ConnectsRecords
  <2>8. fmAt[a].stage = "password" /\ fmAt'[a] = r
    BY <1>0, <1>2, <2>1 DEF Connects!Take, ConnectsIInv, ConnectsTypes
  <2> HIDE DEF secret, r
  <2>9. ConnectsHoldsLock(a)' /\ ConnectsProtected(a)'
    BY <1>0, <2>1, <2>7, <2>8 DEF ConnectsAttemptOK, ConnectsHoldsLock,
      ConnectsProtected, ConnectsKnown, ConnectsSending, Connects!Stages
  <2>10. ConnectsSecretFits(a)'
    BY <1>0, <2>1, <2>3, <2>4, <2>7, <2>8 DEF ConnectsAttemptOK, ConnectsSecretFits,
      ConnectsKnown, ConnectsArmed, Connects!Stages
  <2>6. ConnectsAttemptOK(a)'
    BY <2>9, <2>10 DEF ConnectsAttemptOK
  <2> QED BY <2>1, <2>5, <2>6, ConnectsRecordStep
<1>3. CASE Connects!End(a)
  BY <1>3, ConnectsEndStep DEF Connects!Load, Connects!Take
<1> QED BY <1>1, <1>2, <1>3

LEMMA ConnectsCheckStep ==
  ASSUME Connects!ConnectAssumption, ConnectsIInv, NEW a \in fmAttempts,
         Connects!Handshake(a) \/ Connects!Answer(a) \/ Connects!Data(a)
  PROVE  ConnectsIInv'
<1>0. fmAt[a] \in ConnectsRecords /\ ConnectsAttemptOK(a)
  BY DEF ConnectsIInv, ConnectsTypes
<1>1. CASE Connects!Handshake(a) /\ ~Connects!End(a)
  <2> DEFINE r == [fmAt[a] EXCEPT !.stage = "protect", !.seen = fmCert]
  <2>1. /\ fmAt' = [fmAt EXCEPT ![a] = r] /\ r \in ConnectsRecords
        /\ UNCHANGED <<fmSaved, fmStore, fmLock, fmRegistered, fmCert>>
        /\ Connects!Accepts(fmAt[a].profile, fmCert)
    BY <1>0, <1>1 DEF Connects!Handshake, ConnectsIInv, ConnectsTypes, ConnectsRecords,
      Connects!Stages
  <2>2. fmCert \in ConnectsGood(fmAt[a].profile)
    BY <2>1 DEF Connects!Accepts, ConnectsGood
  <2>3. ConnectsAttemptOK(a)'
    BY <1>0, <1>1, <2>1, <2>2 DEF Connects!Handshake, ConnectsIInv, ConnectsTypes,
      ConnectsRecords, ConnectsAttemptOK, ConnectsHoldsLock, ConnectsSecretFits,
      ConnectsProtected, ConnectsKnown, ConnectsArmed, ConnectsSending, Connects!Stages
  <2> HIDE DEF r
  <2> QED BY <2>1, <2>3, ConnectsRecordStep
<1>2. CASE Connects!Answer(a) /\ ~Connects!End(a)
  <2> DEFINE r == [fmAt[a] EXCEPT !.stage = "in"]
  <2>1. /\ fmAt' = [fmAt EXCEPT ![a] = r] /\ r \in ConnectsRecords
        /\ UNCHANGED <<fmSaved, fmStore, fmLock, fmRegistered, fmCert>>
    BY <1>0, <1>2 DEF Connects!Answer, Connects!Becomes, ConnectsIInv, ConnectsTypes,
      ConnectsRecords, Connects!Stages
  <2>2. ConnectsAttemptOK(a)'
    BY <1>0, <1>2, <2>1 DEF Connects!Answer, ConnectsIInv, ConnectsTypes,
      ConnectsRecords, ConnectsAttemptOK, ConnectsHoldsLock, ConnectsSecretFits,
      ConnectsProtected, ConnectsKnown, ConnectsArmed, ConnectsSending, Connects!Stages
  <2> HIDE DEF r
  <2> QED BY <2>1, <2>2, ConnectsRecordStep
<1>3. CASE Connects!Data(a) /\ fmAt' # fmAt
  <2> DEFINE d == IF fmAt[a].profile.mode = "plain" THEN "clear" ELSE fmCert
             r == [fmAt[a] EXCEPT !.data = d]
  <2>1. /\ fmAt' = [fmAt EXCEPT ![a] = r] /\ r \in ConnectsRecords
        /\ UNCHANGED <<fmSaved, fmStore, fmLock, fmRegistered, fmCert>>
        /\ fmAt[a].profile.mode # "plain" => Connects!Accepts(fmAt[a].profile, fmCert)
    BY <1>0, <1>3 DEF Connects!Data, ConnectsIInv, ConnectsTypes, ConnectsRecords
  <2>2. fmAt[a].profile.mode # "plain" => d \in ConnectsGood(fmAt[a].profile)
    BY <2>1 DEF Connects!Accepts, ConnectsGood
  <2> HIDE DEF d
  <2>3. ConnectsAttemptOK(a)'
    BY <1>0, <1>3, <2>1, <2>2 DEF Connects!Data, ConnectsIInv, ConnectsTypes,
      ConnectsRecords, ConnectsAttemptOK, ConnectsHoldsLock, ConnectsSecretFits,
      ConnectsProtected, ConnectsKnown, ConnectsArmed, ConnectsSending, Connects!Stages
  <2> HIDE DEF r
  <2> QED BY <2>1, <2>3, ConnectsRecordStep
<1>4. CASE Connects!End(a)
  BY <1>4, ConnectsEndStep DEF Connects!Handshake, Connects!Answer, Connects!Data
<1>5. CASE Connects!Data(a) /\ fmAt' = fmAt
  BY <1>5, ConnectsStutter DEF Connects!Data, Connects!vars
<1> QED BY <1>1, <1>2, <1>3, <1>4, <1>5 DEF Connects!Handshake, Connects!Answer,
    Connects!Data

LEMMA ConnectsSaveStep ==
  ASSUME Connects!ConnectAssumption, ConnectsIInv, NEW a \in fmAttempts, Connects!Save(a)
  PROVE  ConnectsIInv'
<1>0. fmAt[a] \in ConnectsRecords /\ ConnectsAttemptOK(a)
  BY DEF ConnectsIInv, ConnectsTypes
<1>1. CASE fmStore' = fmStore
  <2> DEFINE r == fmAt'[a]
  <2>1. /\ fmAt' = [fmAt EXCEPT ![a] = r] /\ r \in ConnectsRecords
        /\ UNCHANGED <<fmSaved, fmStore, fmLock, fmRegistered, fmCert>>
    BY <1>0, <1>1 DEF Connects!Save, Connects!Becomes, ConnectsIInv, ConnectsTypes,
      ConnectsRecords, Connects!Stages
  <2>2. ConnectsAttemptOK(a)'
    BY <1>0, <1>1 DEF Connects!Save, Connects!Becomes, ConnectsIInv, ConnectsTypes,
      ConnectsRecords, ConnectsAttemptOK, ConnectsHoldsLock, ConnectsSecretFits,
      ConnectsProtected, ConnectsKnown, ConnectsArmed, ConnectsSending, Connects!Stages
  <2> HIDE DEF r
  <2> QED BY <2>1, <2>2, ConnectsRecordStep
<1>2. CASE fmStore' # fmStore
  <2> DEFINE r == [fmAt[a] EXCEPT !.stage = "saved", !.typed = None]
  <2>1. /\ fmAt' = [fmAt EXCEPT ![a] = r] /\ r \in ConnectsRecords
        /\ fmAt[a].typed # None /\ fmAt[a].profile.save /\ fmStore' = fmAt[a].typed
        /\ fmAt[a].stage = "proven"
        /\ UNCHANGED <<fmSaved, fmLock, fmRegistered, fmCert>>
    BY <1>0, <1>2 DEF Connects!Save, ConnectsIInv, ConnectsTypes, ConnectsRecords,
      Connects!Stages
  <2>2. ConnectsAttemptOK(a)'
    BY <1>0, <2>1 DEF ConnectsIInv, ConnectsTypes, ConnectsRecords, ConnectsAttemptOK,
      ConnectsHoldsLock, ConnectsSecretFits, ConnectsProtected, ConnectsKnown,
      ConnectsArmed, ConnectsSending, Connects!Stages
  <2>3. Connects!SavedIsProven'
    BY <1>0, <2>1 DEF Connects!SavedIsProven, ConnectsAttemptOK, ConnectsHoldsLock,
      ConnectsSecretFits, ConnectsKnown, ConnectsArmed, Connects!Stages
  <2>4. ConnectsAlone(a)
    BY <2>1 DEF ConnectsAlone, ConnectsIInv, ConnectsTypes
  <2>5. \A b \in fmAttempts : ConnectsAttemptOK(b)'
    BY <2>2, <2>4, ConnectsOthersKept
  <2>6. ConnectsTypes'
    BY <1>0, <2>1, <2>4 DEF ConnectsTypes, ConnectsIInv, ConnectsAlone, ConnectsRecords
  <2>7. ConnectsRegisteredFits' /\ Connects!RegisteredIsCurrent'
    BY <2>1 DEF ConnectsIInv, ConnectsRegisteredFits, Connects!RegisteredIsCurrent
  <2> QED BY <2>3, <2>5, <2>6, <2>7 DEF ConnectsIInv
<1> QED BY <1>1, <1>2

LEMMA ConnectsRegisterStep ==
  ASSUME Connects!ConnectAssumption, ConnectsIInv, NEW a \in fmAttempts,
         Connects!Register(a)
  PROVE  ConnectsIInv'
<1>0. fmAt[a] \in ConnectsRecords /\ ConnectsAttemptOK(a)
  BY DEF ConnectsIInv, ConnectsTypes
<1>1. /\ fmRegistered' = [profile |-> fmAt[a].profile, typed |-> fmAt[a].typed]
      /\ fmAt[a].stage = "saved" /\ Connects!End(a)
      /\ UNCHANGED <<fmSaved, fmStore, fmCert>>
  BY DEF Connects!Register
<1>2. ConnectsAlone(a) /\ ConnectsAttemptOK(a)'
  BY <1>1, ConnectsEndKeeps
<1>3. \A b \in fmAttempts : ConnectsAttemptOK(b)'
  BY <1>2, ConnectsOthersKept
<1>4. /\ fmAt[a].profile \in fmProfiles /\ fmSaved # None /\ fmAt[a].profile = fmSaved
      /\ fmAt[a].typed # None => fmAt[a].typed.for = Connects!Endpoint(fmAt[a].profile)
      /\ fmAt[a].profile.mode = "plain" => fmAt[a].profile.ack
  BY <1>0, <1>1 DEF ConnectsAttemptOK, ConnectsHoldsLock, ConnectsSecretFits,
    ConnectsProtected, ConnectsKnown, Connects!Stages
<1>5. ConnectsTypes'
  BY <1>0, <1>1, <1>2, <1>4 DEF ConnectsTypes, ConnectsIInv, ConnectsAlone,
    ConnectsRecords, Connects!Connections
<1>6. ConnectsRegisteredFits' /\ Connects!SavedIsProven' /\ Connects!RegisteredIsCurrent'
  BY <1>1, <1>4 DEF ConnectsIInv, ConnectsRegisteredFits, Connects!SavedIsProven,
    Connects!RegisteredIsCurrent
<1> QED BY <1>3, <1>5, <1>6 DEF ConnectsIInv

(* The steps of the settings, the window and the server.                    *)
LEMMA ConnectsSettingsStep ==
  ASSUME Connects!ConnectAssumption, ConnectsIInv, NEW new \in fmProfiles \cup {None},
         Connects!Update(new)
  PROVE  ConnectsIInv'
<1> DEFINE next == IF new = None \/ fmSaved = None THEN new ELSE Connects!Reset(fmSaved, new)
<1>1. /\ fmLock = None /\ fmSaved' = next
      /\ fmStore' = IF fmSaved # None /\ (Connects!Moved(fmSaved, next) \/ ~next.save) THEN None ELSE fmStore
      /\ fmLock' = IF fmSaved # None /\ Connects!EndsSession(fmSaved, next) THEN "update" ELSE None
      /\ UNCHANGED <<fmRegistered, fmCert, fmAt>>
  BY DEF Connects!Update
<1>2. next \in fmProfiles \cup {None}
  BY DEF ConnectsIInv, ConnectsTypes, Connects!ConnectAssumption
<1> HIDE DEF next
<1>3. ConnectsTypes'
  BY <1>1, <1>2 DEF ConnectsIInv, ConnectsTypes
<1>4. ASSUME NEW a \in fmAttempts PROVE ConnectsAttemptOK(a)'
  <2>1. ConnectsAttemptOK(a) /\ fmLock # a
    BY <1>1 DEF ConnectsIInv, Connects!ConnectAssumption
  <2>2. ConnectsHoldsLock(a)'
    BY <1>1, <2>1 DEF ConnectsAttemptOK, ConnectsHoldsLock, ConnectsKnown
  <2>3. ConnectsSecretFits(a)' /\ ConnectsProtected(a)'
    BY <1>1, <2>1 DEF ConnectsAttemptOK, ConnectsSecretFits, ConnectsProtected
  <2> QED BY <2>2, <2>3 DEF ConnectsAttemptOK
<1>5. Connects!SavedIsProven'
  BY <1>1 DEF ConnectsIInv, Connects!SavedIsProven, Connects!Moved
<1>6. ConnectsRegisteredFits'
  BY <1>1 DEF ConnectsIInv, ConnectsRegisteredFits
<1>7. Connects!RegisteredIsCurrent'
  BY <1>1 DEF ConnectsIInv, Connects!RegisteredIsCurrent, Connects!EndsSession,
    Connects!Moved, Connects!ConnectAssumption
<1> QED BY <1>3, <1>4, <1>5, <1>6, <1>7 DEF ConnectsIInv

LEMMA ConnectsWindowStep ==
  ASSUME Connects!ConnectAssumption, ConnectsIInv,
         Connects!UpdateEnds \/ Connects!Disconnect \/ \E c \in fmCerts : Connects!Rotate(c)
  PROVE  ConnectsIInv'
<1>1. CASE Connects!UpdateEnds \/ Connects!Disconnect
  <2>1. /\ UNCHANGED <<fmSaved, fmStore, fmCert, fmAt>> /\ fmRegistered' = None
        /\ fmLock' = fmLock \/ (fmLock = "update" /\ fmLock' = None)
    BY <1>1 DEF Connects!UpdateEnds, Connects!Disconnect, Connects!Unregister
  <2>2. ConnectsTypes'
    BY <2>1 DEF ConnectsIInv, ConnectsTypes
  <2>3. ASSUME NEW a \in fmAttempts PROVE ConnectsAttemptOK(a)'
    BY <2>1 DEF ConnectsIInv, ConnectsAttemptOK, ConnectsHoldsLock, ConnectsSecretFits,
      ConnectsProtected, Connects!ConnectAssumption
  <2>4. ConnectsRegisteredFits' /\ Connects!SavedIsProven' /\ Connects!RegisteredIsCurrent'
    BY <2>1 DEF ConnectsIInv, ConnectsRegisteredFits, Connects!SavedIsProven,
      Connects!RegisteredIsCurrent
  <2> QED BY <2>2, <2>3, <2>4 DEF ConnectsIInv
<1>2. ASSUME NEW c \in fmCerts, Connects!Rotate(c) PROVE ConnectsIInv'
  <2>1. UNCHANGED <<fmSaved, fmStore, fmLock, fmRegistered, fmAt>> /\ fmCert' \in fmCerts
    BY <1>2 DEF Connects!Rotate
  <2> QED BY <2>1 DEF ConnectsIInv, ConnectsTypes, ConnectsAttemptOK, ConnectsHoldsLock,
      ConnectsSecretFits, ConnectsProtected, ConnectsRegisteredFits,
      Connects!SavedIsProven, Connects!RegisteredIsCurrent
<1> QED BY <1>1, <1>2

LEMMA ConnectsStepHolds ==
  ASSUME Connects!ConnectAssumption
  PROVE  ConnectsIInv /\ [Connects!Next]_Connects!vars => ConnectsIInv'
<1> SUFFICES ASSUME ConnectsIInv, [Connects!Next]_Connects!vars PROVE ConnectsIInv'
  OBVIOUS
<1>1. ASSUME NEW a \in fmAttempts, Connects!Done(a) \/ Connects!Fails(a) PROVE ConnectsIInv'
  BY <1>1, ConnectsEndStep DEF Connects!Done, Connects!Fails
<1>2. ASSUME NEW a \in fmAttempts, Connects!Steps(a) PROVE ConnectsIInv'
  BY <1>1, <1>2, ConnectsProfileStep, ConnectsStageStep, ConnectsCheckStep,
    ConnectsSaveStep, ConnectsRegisterStep DEF Connects!Steps
<1> QED
  BY <1>1, <1>2, ConnectsBeginsHold, ConnectsCheckStep, ConnectsSettingsStep,
    ConnectsWindowStep, ConnectsStutter DEF Connects!Next

-----------------------------------------------------------------------------
LEMMA ConnectsInvariance ==
  ASSUME Connects!ConnectAssumption
  PROVE  Connects!Spec => []ConnectsIInv
BY ConnectsInitHolds, ConnectsStepHolds, PTL DEF Connects!Spec

\* Every variable keeps its type, whatever is saved and presented.
THEOREM ConnectsTypeCorrect ==
  ASSUME Connects!ConnectAssumption
  PROVE  Connects!Spec => []Connects!TypeOK
<1>1. ConnectsIInv => Connects!TypeOK
  BY DEF ConnectsIInv, ConnectsTypes, Connects!TypeOK, ConnectsRecords
<1> QED BY <1>1, ConnectsInvariance, PTL

\* A password goes out, and data flows, only as the profile allows
\* (FtpSession::connect, EndpointVerifier, protect_data).
THEOREM ConnectsSecretsAreProtected ==
  ASSUME Connects!ConnectAssumption
  PROVE  Connects!Spec => []Connects!SecretsProtected
<1>1. ConnectsIInv => Connects!SecretsProtected
  <2> SUFFICES ASSUME ConnectsIInv, NEW a \in fmAttempts, Connects!Out(a)
               PROVE  LET p == fmAt[a].profile
                      IN  IF p.mode = "plain" THEN p.ack
                          ELSE /\ fmAt[a].private
                               /\ fmAt[a].seen \in ConnectsGood(p)
                               /\ fmAt[a].data \in {None} \cup ConnectsGood(p)
    BY DEF Connects!SecretsProtected, ConnectsGood
  <2> QED BY DEF ConnectsIInv, ConnectsAttemptOK, ConnectsProtected, Connects!Out,
      ConnectsKnown, ConnectsSending, Connects!Stages
<1> QED BY <1>1, ConnectsInvariance, PTL

\* What is saved was accepted by the server of the endpoint that is saved
\* (FtpManager::connect, reconcile_with_commit).
THEOREM ConnectsSavedWasProven ==
  ASSUME Connects!ConnectAssumption
  PROVE  Connects!Spec => []Connects!SavedIsProven
<1>1. ConnectsIInv => Connects!SavedIsProven
  BY DEF ConnectsIInv
<1> QED BY <1>1, ConnectsInvariance, PTL

\* A password goes to the endpoint it was typed for, unless a further session
\* read it after its profile had moved (Credentials::password,
\* operation_connections, FtpConnection::spec).
THEOREM ConnectsPasswordGoesHome ==
  ASSUME Connects!ConnectAssumption
  PROVE  Connects!Spec => []Connects!PasswordKeepsEndpoint
<1>1. ConnectsIInv => Connects!PasswordKeepsEndpoint
  BY DEF ConnectsIInv, ConnectsAttemptOK, ConnectsSecretFits,
    Connects!PasswordKeepsEndpoint, Connects!Out, ConnectsArmed, ConnectsKnown,
    Connects!Stages
<1> QED BY <1>1, ConnectsInvariance, PTL

\* A connection is registered with the settings that are saved
\* (FtpManager::connect, settings_update).
THEOREM ConnectsRegistrationIsCurrent ==
  ASSUME Connects!ConnectAssumption
  PROVE  Connects!Spec => []Connects!RegisteredIsCurrent
<1>1. ConnectsIInv => Connects!RegisteredIsCurrent
  BY DEF ConnectsIInv
<1> QED BY <1>1, ConnectsInvariance, PTL

-----------------------------------------------------------------------------
(* Proofs about FtpListing for every set of names, every limit and every    *)
(* server.                                                                  *)
ListingsKinds == {"absent", "file", "directory"}

ListingsTypes ==
  /\ liThere \in [liNames -> ListingsKinds]
  /\ liSize \in 0..(liLimit + 1)
  /\ liCaps \subseteq Listings!Commands
  /\ liCall.stage \in Listings!DataStages \cup {"none", "mlst", "done"}

\* A call is a record, and only an item with a safe name is asked for.
ListingsCallOK ==
  /\ liCall = [op |-> liCall.op, name |-> liCall.name, stage |-> liCall.stage,
             passive |-> liCall.passive, known |-> liCall.known, answer |-> liCall.answer]
  /\ liCall.stage # "none" => liCall.op \in Listings!Operations /\ liCall.name \in liNames \ liUnsafe

\* LIST is sent only by a session that has given up MLSD, and each of the
\* other commands only for the calls that are made of it.
ListingsStageFits ==
  /\ liCall.stage = "list" => "mlsd" \notin liCaps
  /\ liCall.stage = "mlst" => liCall.op \in {"stat", "read", "save"}
  /\ liCall.stage = "retr" => liCall.op = "read"
  /\ liCall.stage = "stor" => liCall.op = "save"

ListingsAnswersTrue == Listings!ListingWhole /\ Listings!StatTrue /\ Listings!ReadLimited

ListingsIInv == ListingsTypes /\ ListingsCallOK /\ ListingsStageFits /\ ListingsAnswersTrue

LEMMA ListingsInitHolds ==
  ASSUME Listings!NamesAssumption
  PROVE  Listings!Init => ListingsIInv
  BY DEF Listings!NamesAssumption, Listings!Init, ListingsIInv, ListingsTypes,
    ListingsKinds, ListingsCallOK, ListingsStageFits, ListingsAnswersTrue,
    Listings!Waiting, Listings!Negotiated, Listings!Commands, Listings!DataStages,
    Listings!ListingWhole, Listings!StatTrue, Listings!ReadLimited, Listings!Answered

LEMMA ListingsBeginHolds ==
  ASSUME Listings!NamesAssumption, ListingsIInv, NEW op \in Listings!Operations,
         NEW n \in liNames \ liUnsafe, Listings!Begin(op, n)
  PROVE  ListingsIInv'
<1> DEFINE first == CASE op \in {"list", "complete"} -> Listings!Listing
                      [] op \in {"stat", "read"} -> Listings!Lookup
                      [] op = "save" -> "stor"
<1>1. /\ first \in {"mlsd", "list", "mlst", "stor"}
      /\ first = "list" => "mlsd" \notin liCaps
      /\ first = "mlst" => op \in {"stat", "read"}
      /\ first = "stor" => op = "save"
  BY DEF Listings!Operations, Listings!Lookup, Listings!Listing
<1>2. liCall' = [Listings!Waiting EXCEPT !.op = op, !.name = n, !.stage = first]
  BY DEF Listings!Begin
<1> HIDE DEF first
<1>3. UNCHANGED <<liThere, liSize, liCaps>>
  BY DEF Listings!Begin
<1> QED BY <1>1, <1>2, <1>3 DEF ListingsIInv, ListingsTypes, ListingsCallOK,
    ListingsStageFits, ListingsAnswersTrue, Listings!Waiting, Listings!DataStages,
    Listings!ListingWhole, Listings!StatTrue, Listings!ReadLimited, Listings!Answered

\* A call that goes on has no answer yet.
LEMMA ListingsGoesOn ==
  ASSUME Listings!NamesAssumption, ListingsIInv, ListingsCallOK', ListingsStageFits',
         ListingsTypes',
         liCall'.stage # "done"
  PROVE  ListingsIInv'
  BY DEF ListingsIInv, ListingsAnswersTrue, Listings!ListingWhole, Listings!StatTrue,
    Listings!ReadLimited, Listings!Answered

LEMMA ListingsFailHolds ==
  ASSUME Listings!NamesAssumption, ListingsIInv, liCall.stage # "none", Listings!Fail,
         UNCHANGED <<liThere, liSize>>, liCaps' \subseteq liCaps
  PROVE  ListingsIInv'
<1>1. liCall' = [liCall EXCEPT !.stage = "done", !.passive = FALSE, !.answer = <<"error">>]
  BY DEF Listings!Fail, Listings!Reply
<1>2. liCall'.answer[1] # "ok"
  BY <1>1 DEF ListingsIInv, ListingsCallOK
<1> QED BY <1>1, <1>2 DEF ListingsIInv, ListingsTypes, ListingsCallOK,
    ListingsStageFits, ListingsAnswersTrue, Listings!DataStages, Listings!ListingWhole,
    Listings!StatTrue, Listings!ReadLimited, Listings!Answered

\* An answer holds when it says what is there.
LEMMA ListingsAnswerHolds ==
  ASSUME Listings!NamesAssumption, ListingsIInv, liCall.stage # "none", NEW x,
         Listings!Reply(<<"ok", x>>), UNCHANGED <<liThere, liDenied, liSize, liCaps>>,
         liCall.op \in {"list", "complete"} => x \subseteq Listings!Existing /\ Listings!Existing \ x \subseteq Listings!LeftOut(liCall.op),
         liCall.op = "stat" =>
           \/ x = liThere[liCall.name]
           \/ x = "absent" /\ liCall.name \in liDenied \cup (IF "mlsd" \in liCaps THEN {} ELSE liOdd),
         liCall.op = "read" => x <= liLimit
  PROVE  ListingsIInv'
<1>1. liCall' = [liCall EXCEPT !.stage = "done", !.passive = FALSE, !.answer = <<"ok", x>>]
  BY DEF Listings!Reply
<1>2. /\ liCall'.answer[2] = x /\ liCall'.op = liCall.op /\ liCall'.name = liCall.name
      /\ liCall'.stage = "done"
      /\ liCall' = [op |-> liCall'.op, name |-> liCall'.name, stage |-> liCall'.stage,
                  passive |-> liCall'.passive, known |-> liCall'.known, answer |-> liCall'.answer]
  BY <1>1 DEF ListingsIInv, ListingsCallOK
<1>3. Listings!Existing' = Listings!Existing
  BY DEF Listings!Existing
<1>4. ListingsTypes' /\ ListingsCallOK' /\ ListingsStageFits'
  BY <1>2 DEF ListingsIInv, ListingsTypes, ListingsCallOK, ListingsStageFits,
    Listings!DataStages
<1>5. Listings!ListingWhole' /\ Listings!StatTrue' /\ Listings!ReadLimited'
  BY <1>2, <1>3 DEF Listings!ListingWhole, Listings!StatTrue, Listings!ReadLimited,
    Listings!Answered, Listings!Answer, Listings!LeftOut
<1> QED BY <1>4, <1>5 DEF ListingsIInv, ListingsAnswersTrue

LEMMA ListingsPassiveHolds ==
  ASSUME Listings!NamesAssumption, ListingsIInv, Listings!Passive
  PROVE  ListingsIInv'
<1>1. liCall.stage \in Listings!DataStages
  BY DEF Listings!Passive
<1>2. /\ UNCHANGED <<liThere, liDenied, liSize>> /\ liCaps' \subseteq liCaps
      /\ liCall' = liCall \/ liCall' = [liCall EXCEPT !.passive = TRUE]
  BY DEF Listings!Passive
<1>3. liCall'.stage = liCall.stage /\ liCall'.op = liCall.op /\ liCall'.name = liCall.name
  BY <1>2 DEF ListingsIInv, ListingsCallOK
<1>4. ListingsCallOK' /\ ListingsStageFits' /\ ListingsTypes'
  BY <1>2, <1>3 DEF ListingsIInv, ListingsTypes, ListingsCallOK, ListingsStageFits
<1> QED BY <1>1, <1>3, <1>4, ListingsGoesOn DEF Listings!DataStages

\* What a lookup has found: the item is there, and so are its bytes.
LEMMA ListingsFoundHolds ==
  ASSUME Listings!NamesAssumption, ListingsIInv, liCall.stage \in {"mlst", "mlsd", "list"},
         liCall.op \in {"stat", "read", "save"}, NEW bytes,
         Listings!Found(liThere[liCall.name], bytes), UNCHANGED <<liThere, liDenied, liSize, liCaps>>
  PROVE  ListingsIInv'
<1>1. CASE liCall.op # "read"
  <2> DEFINE x == IF liCall.op = "save" THEN "ok" ELSE liThere[liCall.name]
  <2>1. Listings!Reply(<<"ok", x>>)
    BY <1>1 DEF Listings!Found, Listings!Answers
  <2>2. liCall.op = "stat" => x = liThere[liCall.name]
    OBVIOUS
  <2> HIDE DEF x
  <2> QED BY <1>1, <2>1, <2>2, ListingsAnswerHolds
<1>2. CASE liCall.op = "read"
  <2>1. CASE Listings!Fail
    BY <2>1, ListingsFailHolds
  <2>2. CASE liCall' = [liCall EXCEPT !.stage = "retr", !.passive = FALSE, !.known = bytes]
    <3>1. liCall'.stage = "retr" /\ liCall'.op = "read" /\ liCall'.name = liCall.name
      BY <1>2, <2>2 DEF ListingsIInv, ListingsCallOK
    <3>2. ListingsCallOK'
      BY <2>2, <3>1 DEF ListingsIInv, ListingsCallOK
    <3>3. ListingsStageFits' /\ ListingsTypes'
      BY <3>1 DEF ListingsIInv, ListingsStageFits, ListingsTypes, Listings!DataStages
    <3> QED BY <3>1, <3>2, <3>3, ListingsGoesOn
  <2> QED BY <1>2, <2>1, <2>2 DEF Listings!Found
<1> QED BY <1>1, <1>2

LEMMA ListingsMissingHolds ==
  ASSUME Listings!NamesAssumption, ListingsIInv, liCall.stage \in {"mlst", "mlsd", "list"},
         liCall.op \in {"stat", "read", "save"},
         \/ liThere[liCall.name] = "absent"
         \/ liCall.name \in liDenied \cup (IF "mlsd" \in liCaps THEN {} ELSE liOdd),
         Listings!Missing, UNCHANGED <<liThere, liDenied, liSize, liCaps>>
  PROVE  ListingsIInv'
<1>1. CASE liCall.op = "read"
  BY <1>1, ListingsFailHolds DEF Listings!Missing
<1>2. CASE liCall.op # "read"
  <2> DEFINE x == IF liCall.op = "save" THEN "ok" ELSE "absent"
  <2>1. Listings!Reply(<<"ok", x>>)
    BY <1>2 DEF Listings!Missing, Listings!Answers
  <2>2. liCall.op = "stat" => x = "absent"
    OBVIOUS
  <2> HIDE DEF x
  <2> QED BY <1>2, <2>1, <2>2, ListingsAnswerHolds
<1> QED BY <1>1, <1>2

\* The next command of a call whose command the server does not know.
LEMMA ListingsNextCommand ==
  ASSUME Listings!NamesAssumption, ListingsIInv, NEW s, NEW p,
         liCall' = [liCall EXCEPT !.stage = s, !.passive = p],
         liCall.stage # "none", s \in {"mlsd", "list"}, UNCHANGED <<liThere, liSize>>,
         liCaps' \subseteq liCaps, s = "list" => "mlsd" \notin liCaps'
  PROVE  ListingsIInv'
<1>1. liCall'.stage = s /\ liCall'.op = liCall.op /\ liCall'.name = liCall.name
  BY DEF ListingsIInv, ListingsCallOK
<1>2. ListingsCallOK'
  BY <1>1 DEF ListingsIInv, ListingsCallOK
<1>3. ListingsStageFits' /\ ListingsTypes'
  BY <1>1 DEF ListingsIInv, ListingsStageFits, ListingsTypes, Listings!DataStages
<1> QED BY <1>1, <1>2, <1>3, ListingsGoesOn

LEMMA ListingsMlstHolds ==
  ASSUME Listings!NamesAssumption, ListingsIInv, Listings!Mlst
  PROVE  ListingsIInv'
<1>1. liCall.stage = "mlst" /\ liCall.op \in {"stat", "read", "save"} /\ UNCHANGED <<liThere, liDenied, liSize>>
  BY DEF Listings!Mlst, ListingsIInv, ListingsStageFits
<1>2. CASE liCall' = [liCall EXCEPT !.stage = Listings!Listing] /\ liCaps' \in {liCaps, liCaps \ {"mlst"}}
  <2>1. liCall' = [liCall EXCEPT !.stage = Listings!Listing, !.passive = liCall.passive]
    BY <1>2 DEF ListingsIInv, ListingsCallOK
  <2>2. Listings!Listing \in {"mlsd", "list"} /\ (Listings!Listing = "list" => "mlsd" \notin liCaps')
    BY <1>2 DEF Listings!Listing
  <2> QED BY <1>1, <1>2, <2>1, <2>2, ListingsNextCommand
<1>3. CASE Listings!Missing /\ (liThere[liCall.name] = "absent" \/ liCall.name \in liDenied) /\ liCaps' = liCaps
  BY <1>1, <1>3, ListingsMissingHolds
<1>4. CASE Listings!Found(liThere[liCall.name], liSize) /\ liCaps' = liCaps
  BY <1>1, <1>4, ListingsFoundHolds
<1> QED BY <1>2, <1>3, <1>4 DEF Listings!Mlst

\* What MLSD lists, and what LIST does, is every item but those it may leave out.
LEMMA ListingsListedWhole ==
  ASSUME Listings!NamesAssumption, NEW s \in {"mlsd", "list"},
         s = "list" => "mlsd" \notin liCaps,
         NEW o \in {"list", "complete"}, ~(o = "complete" /\ Listings!Rejected(s))
  PROVE  Listings!Entries(s) \subseteq Listings!Existing /\ Listings!Existing \ Listings!Entries(s) \subseteq Listings!LeftOut(o)
<1>1. CASE s = "mlsd"
  BY <1>1 DEF Listings!Rejected, Listings!Entries, Listings!Existing, Listings!LeftOut
<1>2. CASE s = "list"
  BY <1>2 DEF Listings!Rejected, Listings!Entries, Listings!Existing, Listings!LeftOut
<1> QED BY <1>1, <1>2

LEMMA ListingsListHolds ==
  ASSUME Listings!NamesAssumption, ListingsIInv, Listings!List
  PROVE  ListingsIInv'
<1>1. liCall.stage \in {"mlsd", "list"} /\ UNCHANGED <<liThere, liDenied, liSize>>
  BY DEF Listings!List
<1>2. (liCall.stage = "list" => "mlsd" \notin liCaps) /\ liCall.op \in Listings!Operations
      /\ liCall.name \in liNames \ liUnsafe
  BY <1>1 DEF ListingsIInv, ListingsStageFits, ListingsCallOK
<1>3. CASE liCall.stage = "mlsd" /\ "mlsd" \notin liServer.does
  <2>1. CASE liCaps' = liCaps \ {"epsv"} /\ liCall' = [liCall EXCEPT !.passive = FALSE]
    <3>1. liCall' = [liCall EXCEPT !.stage = "mlsd", !.passive = FALSE]
      BY <1>3, <2>1 DEF ListingsIInv, ListingsCallOK
    <3> QED BY <1>1, <2>1, <3>1, ListingsNextCommand
  <2>2. CASE liCaps' = liCaps \ {"mlsd"} /\ liCall' = [liCall EXCEPT !.stage = "list", !.passive = FALSE]
    BY <1>1, <2>2, ListingsNextCommand
  <2> QED BY <1>3, <2>1, <2>2 DEF Listings!List
<1>4. CASE liCaps' = liCaps /\ liCall.op \in {"list", "complete"} /\ Listings!Reply(Listings!Listed(liCall.op, liCall.stage))
  <2>1. CASE liCall.op = "complete" /\ Listings!Rejected(liCall.stage)
    BY <1>1, <1>4, <2>1, ListingsFailHolds DEF Listings!Listed, Listings!Fail
  <2>2. CASE ~(liCall.op = "complete" /\ Listings!Rejected(liCall.stage))
    <3> DEFINE x == Listings!Entries(liCall.stage)
    <3>1. Listings!Reply(<<"ok", x>>)
      BY <1>4, <2>2 DEF Listings!Listed
    <3>2. x \subseteq Listings!Existing /\ Listings!Existing \ x \subseteq Listings!LeftOut(liCall.op)
      BY <1>1, <1>2, <1>4, <2>2, ListingsListedWhole
    <3> HIDE DEF x
    <3> QED BY <1>1, <1>4, <3>1, <3>2, ListingsAnswerHolds
  <2> QED BY <2>1, <2>2
<1>5. CASE /\ liCaps' = liCaps /\ liCall.op \notin {"list", "complete"}
           /\ liCall.name \notin Listings!Entries(liCall.stage) /\ Listings!Missing
  <2>1. \/ liThere[liCall.name] = "absent"
        \/ liCall.name \in liDenied \cup (IF "mlsd" \in liCaps THEN {} ELSE liOdd)
    BY <1>1, <1>2, <1>5 DEF Listings!Entries, Listings!Existing
  <2> QED BY <1>1, <1>2, <1>5, <2>1, ListingsMissingHolds DEF Listings!Operations
<1>6. CASE /\ liCaps' = liCaps /\ liCall.op \notin {"list", "complete"}
           /\ Listings!Found(liThere[liCall.name], IF liThere[liCall.name] = "file" THEN liSize ELSE None)
  BY <1>1, <1>2, <1>6, ListingsFoundHolds DEF Listings!Operations
<1> QED BY <1>3, <1>4, <1>5, <1>6 DEF Listings!List

LEMMA ListingsRetrieveHolds ==
  ASSUME Listings!NamesAssumption, ListingsIInv, Listings!Retrieve
  PROVE  ListingsIInv'
<1>1. liCall.stage = "retr" /\ liCall.op = "read" /\ UNCHANGED <<liThere, liDenied, liSize, liCaps>>
  BY DEF Listings!Retrieve, ListingsIInv, ListingsStageFits
<1>2. CASE liSize > liLimit
  BY <1>1, <1>2, ListingsFailHolds DEF Listings!Retrieve
<1>3. CASE ~(liSize > liLimit)
  <2>1. liSize \in Nat /\ liLimit \in Nat
    BY DEF ListingsIInv, ListingsTypes, Listings!NamesAssumption
  <2>2. Listings!Reply(<<"ok", liSize>>) /\ liSize <= liLimit
    BY <1>3, <2>1 DEF Listings!Retrieve, Listings!Answers
  <2> QED BY <1>1, <2>2, ListingsAnswerHolds
<1> QED BY <1>2, <1>3

LEMMA ListingsStoreHolds ==
  ASSUME Listings!NamesAssumption, ListingsIInv, Listings!Store
  PROVE  ListingsIInv'
<1>1. liCall.stage = "stor" /\ liCall.op = "save" /\ UNCHANGED <<liDenied, liSize>>
  BY DEF Listings!Store, ListingsIInv, ListingsStageFits
<1>2. CASE /\ liThere' = [liThere EXCEPT ![liCall.name] = "file"] /\ liCaps' = liCaps
           /\ liCall' = [liCall EXCEPT !.stage = Listings!Lookup, !.passive = FALSE]
  <2>1. /\ liCall'.stage = Listings!Lookup /\ liCall'.op = "save" /\ liCall'.name = liCall.name
        /\ Listings!Lookup \in {"mlst", "mlsd", "list"} /\ (Listings!Lookup = "list" => "mlsd" \notin liCaps)
    BY <1>1, <1>2 DEF ListingsIInv, ListingsCallOK, Listings!Lookup, Listings!Listing
  <2>2. ListingsCallOK'
    BY <1>1, <1>2, <2>1 DEF ListingsIInv, ListingsCallOK
  <2>3. ListingsStageFits' /\ ListingsTypes'
    BY <1>1, <1>2, <2>1 DEF ListingsIInv, ListingsStageFits, ListingsTypes,
      Listings!DataStages, ListingsKinds
  <2> QED BY <2>1, <2>2, <2>3, ListingsGoesOn
<1>3. CASE UNCHANGED liThere /\ liCaps' = liCaps \ {"epsv"} /\ liCall' = [liCall EXCEPT !.passive = FALSE]
  <2>1. liCall'.stage = "stor" /\ liCall'.op = "save" /\ liCall'.name = liCall.name
    BY <1>1, <1>3 DEF ListingsIInv, ListingsCallOK
  <2>2. ListingsCallOK'
    BY <1>1, <1>3, <2>1 DEF ListingsIInv, ListingsCallOK
  <2>3. ListingsStageFits' /\ ListingsTypes'
    BY <1>1, <1>3, <2>1 DEF ListingsIInv, ListingsStageFits, ListingsTypes,
      Listings!DataStages
  <2> QED BY <2>1, <2>2, <2>3, ListingsGoesOn
<1>4. CASE Listings!Fail /\ UNCHANGED <<liCaps, liThere>>
  BY <1>1, <1>4, ListingsFailHolds
<1> QED BY <1>2, <1>3, <1>4 DEF Listings!Store

LEMMA ListingsGrowHolds ==
  ASSUME Listings!NamesAssumption, ListingsIInv, Listings!Grow
  PROVE  ListingsIInv'
<1>1. liSize' \in 0..(liLimit + 1)
  BY DEF Listings!Grow, ListingsIInv, ListingsTypes, Listings!NamesAssumption
<1> QED BY <1>1 DEF Listings!Grow, ListingsIInv, ListingsTypes, ListingsCallOK,
    ListingsStageFits, ListingsAnswersTrue, Listings!ListingWhole, Listings!LeftOut,
    Listings!StatTrue, Listings!ReadLimited, Listings!Answered, Listings!Answer,
    Listings!Existing

LEMMA ListingsInvariance ==
  ASSUME Listings!NamesAssumption
  PROVE  Listings!Spec => []ListingsIInv
<1>1. ListingsIInv /\ [Listings!Next]_Listings!vars => ListingsIInv'
  <2> SUFFICES ASSUME ListingsIInv, [Listings!Next]_Listings!vars PROVE ListingsIInv'
    OBVIOUS
  <2>1. CASE UNCHANGED Listings!vars
    BY <2>1 DEF Listings!vars, ListingsIInv, ListingsTypes, ListingsCallOK,
      ListingsStageFits, ListingsAnswersTrue, Listings!ListingWhole, Listings!LeftOut,
      Listings!StatTrue, Listings!ReadLimited, Listings!Answered, Listings!Answer,
      Listings!Existing
  <2>2. CASE Listings!Next
    BY <2>2, ListingsBeginHolds, ListingsPassiveHolds, ListingsMlstHolds,
      ListingsListHolds, ListingsRetrieveHolds, ListingsStoreHolds, ListingsGrowHolds
      DEF Listings!Next, Listings!Works
  <2> QED BY <2>1, <2>2
<1> QED BY ListingsInitHolds, <1>1, PTL DEF Listings!Spec

(* What a session knows of a folder, a file and its server has its type.    *)
THEOREM ListingsTypeCorrect ==
  ASSUME Listings!NamesAssumption
  PROVE  Listings!Spec => []Listings!TypeOK
<1>1. ListingsIInv => Listings!TypeOK
  BY DEF ListingsIInv, ListingsTypes, Listings!TypeOK, ListingsKinds
<1> QED BY ListingsInvariance, <1>1, PTL

(* A recursive operation sees every item of the folder or an error, but for *)
(* those on lines of LIST that no parser reads; the panel sees them but for *)
(* unsafe names.                                                            *)
THEOREM ListingsListingsAreWhole ==
  ASSUME Listings!NamesAssumption
  PROVE  Listings!Spec => []Listings!ListingWhole
<1>1. ListingsIInv => Listings!ListingWhole
  BY DEF ListingsIInv, ListingsAnswersTrue
<1> QED BY ListingsInvariance, <1>1, PTL

(* An item that is there is not reported missing because the server lacks   *)
(* a command or answers it in its own way, unless it is denied to the user  *)
(* or on a line of LIST that no parser reads.                               *)
THEOREM ListingsStatsAreTrue ==
  ASSUME Listings!NamesAssumption
  PROVE  Listings!Spec => []Listings!StatTrue
<1>1. ListingsIInv => Listings!StatTrue
  BY DEF ListingsIInv, ListingsAnswersTrue
<1> QED BY ListingsInvariance, <1>1, PTL

(* A read returns no more than the limit, however the file grows.           *)
THEOREM ListingsReadsAreLimited ==
  ASSUME Listings!NamesAssumption
  PROVE  Listings!Spec => []Listings!ReadLimited
<1>1. ListingsIInv => Listings!ReadLimited
  BY DEF ListingsIInv, ListingsAnswersTrue
<1> QED BY ListingsInvariance, <1>1, PTL

-----------------------------------------------------------------------------
(* Proofs about SettingsFile for every set of lists and files.             *)

\* What the instance calls finite, and counts, is what this module does.
LEMMA SettingsFinite ==
  \A S : (Settings!IsFiniteSet(S) <=> IsFiniteSet(S)) /\ Settings!Cardinality(S) = Cardinality(S)
<1>1. \A S : Settings!IsFiniteSet(S) <=> IsFiniteSet(S)
  BY DEF Settings!IsFiniteSet, IsFiniteSet
<1>2. \A S : Settings!Cardinality(S) = Cardinality(S)
  BY <1>1 DEF Settings!Cardinality, Cardinality, Settings!IsFiniteSet, IsFiniteSet
<1> QED BY <1>1, <1>2

\* How Kept picks: at[k] is the k-th of the places, with k of them up to it.
SettingsUpTo(places, p) == {j \in places : j =< p}
SettingsPicks(s, places, at) ==
  /\ at \in [1..Cardinality(places) -> places]
  /\ Settings!Kept(s, places) = [k \in 1..Cardinality(places) |-> s[at[k]]]
  /\ \A k, l \in 1..Cardinality(places) : at[k] = at[l] => k = l
  /\ \A k \in 1..Cardinality(places) : Cardinality(SettingsUpTo(places, at[k])) = k
  /\ \A i \in places : \E k \in 1..Cardinality(places) : at[k] = i

LEMMA SettingsKeptFacts ==
  ASSUME NEW s, NEW places \in SUBSET Nat, IsFiniteSet(places)
  PROVE  Cardinality(places) \in Nat /\ \E at : SettingsPicks(s, places, at)
<1> DEFINE n == Cardinality(places)
           rank == [p \in places |-> Cardinality(SettingsUpTo(places, p))]
           at == [k \in 1..n |-> CHOOSE i \in places : Settings!Cardinality({j \in places : j =< i}) = k]
<1>1. n \in Nat
  BY FS_CardinalityType
<1>2. \A p \in places : /\ IsFiniteSet(SettingsUpTo(places, p)) /\ Cardinality(SettingsUpTo(places, p)) \in 1..n
                        /\ p \in SettingsUpTo(places, p)
  <2> SUFFICES ASSUME NEW p \in places
               PROVE  /\ IsFiniteSet(SettingsUpTo(places, p)) /\ Cardinality(SettingsUpTo(places, p)) \in 1..n
                      /\ p \in SettingsUpTo(places, p)
    OBVIOUS
  <2>1. SettingsUpTo(places, p) \in SUBSET places /\ p \in SettingsUpTo(places, p)
    <3>1. p \in Nat /\ p =< p
      OBVIOUS
    <3> QED BY <3>1 DEF SettingsUpTo
  <2>2. IsFiniteSet(SettingsUpTo(places, p)) /\ Cardinality(SettingsUpTo(places, p)) =< n
    BY <2>1, FS_Subset
  <2>3. Cardinality(SettingsUpTo(places, p)) \in Nat /\ Cardinality(SettingsUpTo(places, p)) # 0
    BY <2>1, <2>2, FS_CardinalityType, FS_EmptySet
  <2> QED BY <1>1, <2>1, <2>2, <2>3
<1>3. \A p, q \in places : p < q => Cardinality(SettingsUpTo(places, p)) # Cardinality(SettingsUpTo(places, q))
  <2> SUFFICES ASSUME NEW p \in places, NEW q \in places, p < q
               PROVE  Cardinality(SettingsUpTo(places, p)) # Cardinality(SettingsUpTo(places, q))
    OBVIOUS
  <2>1. p \in Nat /\ q \in Nat /\ \A j \in places : j \in Nat
    OBVIOUS
  <2>2. \A j \in places : j =< p => j =< q
    BY <2>1
  <2>3. q =< q /\ ~(q =< p)
    BY <2>1
  <2>4. SettingsUpTo(places, p) \in SUBSET SettingsUpTo(places, q) /\ q \notin SettingsUpTo(places, p) /\ q \in SettingsUpTo(places, q)
    BY <2>2, <2>3 DEF SettingsUpTo
  <2> QED BY <1>2, <2>4, FS_Subset
<1>4. rank \in Injection(places, 1..n)
  <2>1. rank \in [places -> 1..n]
    BY <1>2
  <2>2. \A p, q \in places : rank[p] = rank[q] => p = q
    BY <1>3
  <2> QED BY <2>1, <2>2 DEF Injection, IsInjective
<1>5. rank \in Surjection(places, 1..n)
  <2>1. IsFiniteSet(1..n) /\ Cardinality(1..n) = n
    BY <1>1, FS_Interval
  <2> QED BY <1>4, <2>1, FS_Injection
<1>6. \A k \in 1..n : at[k] \in places /\ Cardinality(SettingsUpTo(places, at[k])) = k
  <2> SUFFICES ASSUME NEW k \in 1..n
               PROVE  at[k] \in places /\ Cardinality(SettingsUpTo(places, at[k])) = k
    OBVIOUS
  <2>1. \E i \in places : Cardinality(SettingsUpTo(places, i)) = k
    BY <1>5 DEF Surjection
  <2>2. \A i \in places : Settings!Cardinality({j \in places : j =< i}) = Cardinality(SettingsUpTo(places, i))
    BY SettingsFinite DEF SettingsUpTo
  <2>3. at[k] = CHOOSE i \in places : Settings!Cardinality({j \in places : j =< i}) = k
    OBVIOUS
  <2> QED BY <2>1, <2>2, <2>3
<1>7. at \in [1..n -> places]
  BY <1>6
<1>8. Settings!Kept(s, places) = [k \in 1..n |-> s[at[k]]]
  BY SettingsFinite DEF Settings!Kept
<1>9. \A k, l \in 1..n : at[k] = at[l] => k = l
  BY <1>6
<1>11. \A i \in places : \E k \in 1..n : at[k] = i
  <2> SUFFICES ASSUME NEW i \in places PROVE \E k \in 1..n : at[k] = i
    OBVIOUS
  <2> DEFINE k == Cardinality(SettingsUpTo(places, i))
  <2>1. k \in 1..n
    BY <1>2
  <2>2. at[k] \in places /\ Cardinality(SettingsUpTo(places, at[k])) = k
    BY <1>6, <2>1
  <2>3. rank[at[k]] = rank[i]
    BY <2>2
  <2>4. at[k] = i
    BY <1>4, <2>2, <2>3 DEF Injection, IsInjective
  <2> QED BY <2>1, <2>4
<1>10. SettingsPicks(s, places, at)
  BY <1>6, <1>7, <1>8, <1>9, <1>11 DEF SettingsPicks
<1> QED BY <1>1, <1>10

LEMMA SettingsIntervalSize ==
  ASSUME NEW n \in Nat PROVE IsFiniteSet(1..n) /\ Cardinality(1..n) = n
BY FS_Interval

\* A list of which every entry is kept stays as it is.
LEMMA SettingsKeptAll ==
  ASSUME NEW n \in Nat, NEW s, s = [k \in 1..n |-> s[k]]
  PROVE  Settings!Kept(s, 1..n) = s
<1>1. IsFiniteSet(1..n) /\ Cardinality(1..n) = n
  BY SettingsIntervalSize
<1>2. 1..n \in SUBSET Nat
  OBVIOUS
<1>3. PICK at : SettingsPicks(s, 1..n, at)
  BY <1>1, <1>2, SettingsKeptFacts
<1>4. /\ at \in [1..n -> 1..n]
      /\ Settings!Kept(s, 1..n) = [k \in 1..n |-> s[at[k]]]
      /\ \A k \in 1..n : Cardinality(SettingsUpTo(1..n, at[k])) = k
  BY <1>1, <1>3 DEF SettingsPicks
<1>5. \A k \in 1..n : at[k] = k
  <2> SUFFICES ASSUME NEW k \in 1..n PROVE at[k] = k
    OBVIOUS
  <2>1. at[k] \in 1..n /\ at[k] \in Nat /\ at[k] >= 1 /\ at[k] =< n
    BY <1>4
  <2>2. SettingsUpTo(1..n, at[k]) = 1..at[k]
    <3>1. \A j : (j \in 1..n /\ j =< at[k]) <=> j \in 1..at[k]
      BY <2>1
    <3> QED BY <3>1 DEF SettingsUpTo
  <2>3. Cardinality(1..at[k]) = at[k]
    BY <2>1, SettingsIntervalSize
  <2> QED BY <1>4, <2>2, <2>3
<1> QED BY <1>4, <1>5

LEMMA SettingsReadFinite ==
  ASSUME Settings!SettingsFileAssumption, NEW s, NEW P \in SUBSET Settings!Read(s)
  PROVE  P \in SUBSET Nat /\ IsFiniteSet(P) /\ Cardinality(P) \in Nat /\ Cardinality(P) =< sfLimit
<1>1. sfLimit \in Nat /\ P \in SUBSET (1..sfLimit)
  BY DEF Settings!SettingsFileAssumption, Settings!Read
<1>2. IsFiniteSet(1..sfLimit) /\ Cardinality(1..sfLimit) = sfLimit
  BY <1>1, FS_Interval
<1>3. IsFiniteSet(P) /\ Cardinality(P) =< sfLimit
  BY <1>1, <1>2, FS_Subset
<1>4. P \in SUBSET Nat
  BY <1>1
<1>5. Cardinality(P) \in Nat
  BY <1>3, FS_CardinalityType
<1> QED BY <1>3, <1>4, <1>5

-----------------------------------------------------------------------------
(* What the normalisation of a profile yields.                             *)

SettingsIsProfile(p) == p = [x \in Settings!Fields |-> p[x]]

\* A profile that was normalised changes no more, but for a blank at the end of its name.
SettingsSettled(p) ==
  /\ SettingsIsProfile(p) /\ Settings!Usable(p) /\ ~p.secret
  /\ Settings!Connection(p) = [p EXCEPT !.name = IF p.protocol \in Settings!Known THEN Settings!Name(p) ELSE p.name]
  /\ p.protocol \in Settings!Known => p.name # "long"
  /\ p.protocol = "sftp" => p.trust = None
  /\ p.protocol = "ftp" => p.tls = ""

\* What the trust of a profile is made of.
SettingsSameTrust(p, c) ==
  c.protocol \in Settings!Known =>
    /\ c.host = p.host /\ (c.trust = None \/ c.trust = p.trust)
    /\ p.protocol \in {"ftp", "ftps"} => c.protocol = p.protocol

LEMMA SettingsConnectionFacts ==
  ASSUME NEW p, SettingsIsProfile(p), Settings!Usable(p)
  PROVE  /\ SettingsSettled(Settings!Connection(p)) /\ SettingsSameTrust(p, Settings!Connection(p))
         /\ Settings!Endpoint(Settings!Connection(p)) = Settings!Endpoint(p) /\ (Settings!Connection(p)).id = p.id
<1> DEFINE c == Settings!Connection(p)
<1>1. p.id # "bad id" /\ Settings!Protocol(p) # "none"
  BY DEF Settings!Usable
<1>2. CASE p.protocol \notin Settings!Known \cup {""}
  <2>1. c = [p EXCEPT !.secret = FALSE] /\ p.protocol # "none" /\ Settings!Protocol(p) = p.protocol
    BY <1>1, <1>2 DEF Settings!Connection, Settings!Known, Settings!Protocol
  <2>2. SettingsIsProfile(c) /\ c.protocol = p.protocol /\ c.id = p.id /\ c.host = p.host /\ c.secret = FALSE
        /\ c.name = p.name
    BY <2>1 DEF SettingsIsProfile, Settings!Fields
  <2>3. Settings!Protocol(c) = c.protocol /\ c.protocol \notin Settings!Known
    BY <1>2, <2>2 DEF Settings!Protocol
  <2> HIDE DEF c
  <2>4. Settings!Connection(c) = [c EXCEPT !.secret = FALSE]
    BY <2>3, Zenon DEF Settings!Connection, Settings!Known
  <2>5. [c EXCEPT !.secret = FALSE] = [c EXCEPT !.name = c.name]
    BY <2>2 DEF SettingsIsProfile, Settings!Fields
  <2>6. Settings!Usable(c) /\ Settings!Endpoint(c) = Settings!Endpoint(p)
    BY <1>1, <2>1, <2>2, <2>3 DEF Settings!Usable, Settings!Endpoint
  <2> QED BY <2>2, <2>3, <2>4, <2>5, <2>6 DEF SettingsSettled, SettingsSameTrust,
      Settings!Known, c
<1>3. CASE p.protocol \in Settings!Known \cup {""}
  <2> DEFINE protocol == Settings!Protocol(p)
  <2>1. protocol \in Settings!Known /\ p.host # ""
    BY <1>3 DEF Settings!Protocol, Settings!Known, Settings!Usable
  <2>2. CASE protocol = "sftp"
    <3> DEFINE sftp == Settings!Oneof(p.auth, {"auto", "agent", "password", "privateKey"}, "privateKey")
    <3>1. c = [p EXCEPT !.protocol = "sftp", !.name = Settings!Name(p), !.secret = FALSE, !.auth = sftp,
                        !.save = p.save /\ sftp \in {"auto", "password"}, !.tls = "", !.trust = None]
      BY <2>1, <2>2 DEF Settings!Connection, Settings!Known, SettingsIsProfile,
        Settings!Fields
    <3>2. /\ sftp \in {"auto", "agent", "password", "privateKey"}
          /\ Settings!Oneof(sftp, {"auto", "agent", "password", "privateKey"}, "privateKey") = sftp
      BY DEF Settings!Oneof
    <3> HIDE DEF sftp, c
    <3>3. /\ SettingsIsProfile(c) /\ c.id = p.id /\ c.host = p.host /\ c.secret = FALSE /\ c.name = Settings!Name(p)
          /\ c.protocol = "sftp" /\ c.tls = "" /\ c.trust = None /\ c.auth = sftp
          /\ c.save = (p.save /\ sftp \in {"auto", "password"})
      BY <3>1 DEF SettingsIsProfile, Settings!Fields
    <3>10. Settings!Protocol(c) = "sftp" /\ "sftp" \in Settings!Known
      BY <3>3 DEF Settings!Protocol, Settings!Known
    <3>4. Settings!Connection(c) = [c EXCEPT !.protocol = "sftp", !.name = Settings!Name(c), !.secret = FALSE, !.auth = sftp,
                        !.save = c.save /\ sftp \in {"auto", "password"}, !.tls = "", !.trust = None]
      BY <3>2, <3>3, <3>10 DEF Settings!Connection, Settings!Known
    <3>5. (c.save /\ sftp \in {"auto", "password"}) = c.save
      BY <3>3
    <3>6. Settings!Connection(c) = [c EXCEPT !.name = Settings!Name(c)]
      BY <3>3, <3>4, <3>5, ZenonT(60) DEF SettingsIsProfile, Settings!Fields
    <3>7. c.name # "long"
      BY <3>3 DEF Settings!Name
    <3>8. Settings!Usable(c) /\ Settings!Endpoint(c) = Settings!Endpoint(p)
      BY <1>1, <2>1, <2>2, <3>3, <3>10 DEF Settings!Usable, Settings!Endpoint,
        Settings!Protocol
    <3> QED BY <1>1, <1>3, <2>2, <3>3, <3>6, <3>7, <3>8 DEF SettingsSettled,
        SettingsSameTrust, Settings!Known, Settings!Protocol, c
  <2>3. CASE protocol \in {"ftp", "ftps"}
    <3> DEFINE ftp == Settings!Oneof(p.auth, {"password", "anonymous"}, "password")
               tls == IF protocol = "ftps" THEN Settings!Oneof(p.tls, {"explicit", "implicit"}, "explicit") ELSE ""
               trust == IF p.trust # None /\ p.trust.protocol = protocol THEN p.trust ELSE None
    <3>1. c = [p EXCEPT !.protocol = protocol, !.name = Settings!Name(p), !.secret = FALSE, !.auth = ftp,
                        !.save = p.save /\ ftp = "password", !.ssh = FALSE, !.tls = tls, !.trust = trust]
      BY <2>1, <2>3 DEF Settings!Connection, Settings!Known, SettingsIsProfile,
        Settings!Fields
    <3>2. ftp \in {"password", "anonymous"} /\ Settings!Oneof(ftp, {"password", "anonymous"}, "password") = ftp
      BY DEF Settings!Oneof
    <3>3. /\ (IF protocol = "ftps" THEN Settings!Oneof(tls, {"explicit", "implicit"}, "explicit") ELSE "") = tls
          /\ protocol = "ftp" => tls = ""
      BY <2>3 DEF Settings!Oneof
    <3>4. /\ (IF trust # None /\ trust.protocol = protocol THEN trust ELSE None) = trust
          /\ trust = None \/ trust = p.trust
      OBVIOUS
    <3>5. (p.protocol \in {"ftp", "ftps"} => protocol = p.protocol) /\ protocol = p.protocol
      BY <2>3 DEF Settings!Protocol
    <3> HIDE DEF protocol, ftp, tls, trust, c
    <3>6. /\ SettingsIsProfile(c) /\ c.id = p.id /\ c.host = p.host /\ c.secret = FALSE /\ c.name = Settings!Name(p)
          /\ c.protocol = protocol /\ c.tls = tls /\ c.trust = trust /\ c.auth = ftp /\ c.ssh = FALSE
          /\ c.save = (p.save /\ ftp = "password")
      BY <3>1 DEF SettingsIsProfile, Settings!Fields
    <3>12. Settings!Protocol(c) = protocol /\ protocol \in Settings!Known /\ protocol # "sftp"
      BY <2>1, <2>3, <3>6 DEF Settings!Protocol
    <3>7. Settings!Connection(c) = [c EXCEPT !.protocol = protocol, !.name = Settings!Name(c), !.secret = FALSE, !.auth = ftp,
                        !.save = c.save /\ ftp = "password", !.ssh = FALSE, !.tls = tls, !.trust = trust]
      BY <2>3, <3>2, <3>3, <3>4, <3>6, <3>12, ZenonT(60) DEF Settings!Connection,
        SettingsIsProfile, Settings!Fields
    <3>8. (c.save /\ ftp = "password") = c.save
      BY <3>6
    <3>9. Settings!Connection(c) = [c EXCEPT !.name = Settings!Name(c)]
      BY <3>6, <3>7, <3>8 DEF SettingsIsProfile, Settings!Fields
    <3>10. c.name # "long"
      BY <3>6 DEF Settings!Name
    <3>11. Settings!Usable(c) /\ Settings!Endpoint(c) = Settings!Endpoint(p)
      BY <1>1, <2>1, <2>3, <3>5, <3>6, <3>12 DEF Settings!Usable, Settings!Endpoint,
        protocol
    <3> QED BY <1>1, <2>1, <2>3, <3>3, <3>4, <3>5, <3>6, <3>9, <3>10, <3>11
        DEF SettingsSettled, SettingsSameTrust, Settings!Known, c
  <2> QED BY <2>1, <2>2, <2>3 DEF Settings!Known
<1> QED BY <1>2, <1>3

\* Without its trust it is still usable, and a second normalisation brings no trust back.
LEMMA SettingsSettledWithoutTrust ==
  ASSUME NEW p, SettingsSettled(p), p.protocol \in {"ftp", "ftps"}
  PROVE  LET q == [p EXCEPT !.trust = None]
         IN /\ SettingsIsProfile(q) /\ Settings!Usable(q) /\ Settings!Endpoint(q) = Settings!Endpoint(p) /\ q.id = p.id
            /\ (Settings!Connection(q)).trust = None
<1> DEFINE q == [p EXCEPT !.trust = None]
<1>1. SettingsIsProfile(p) /\ Settings!Usable(p) /\ p.protocol \in {"ftp", "ftps"}
  BY DEF SettingsSettled
<1>2. SettingsIsProfile(q) /\ q.id = p.id /\ q.protocol = p.protocol /\ q.host = p.host /\ q.trust = None
  BY <1>1 DEF SettingsIsProfile, Settings!Fields
<1> HIDE DEF q
<1>3. Settings!Usable(q) /\ Settings!Endpoint(q) = Settings!Endpoint(p)
  BY <1>1, <1>2 DEF Settings!Usable, Settings!Protocol, Settings!Endpoint
<1>4. Settings!Protocol(q) = q.protocol /\ q.protocol \in {"ftp", "ftps"} /\ q.protocol \in Settings!Known /\ q.protocol # "sftp"
  BY <1>1, <1>2 DEF Settings!Protocol, Settings!Known
<1>5. (IF q.trust # None /\ q.trust.protocol = q.protocol THEN q.trust ELSE None) = None
  BY <1>2
<1>6. (Settings!Connection(q)).trust = None
  BY <1>2, <1>4, <1>5 DEF Settings!Connection, SettingsIsProfile, Settings!Fields
<1> QED BY <1>2, <1>3, <1>6 DEF q

LEMMA SettingsSettledTrust ==
  ASSUME NEW p, SettingsSettled(p), Settings!TrustFits(p)
  PROVE  Settings!TrustFits(Settings!Connection(p)) /\ SettingsIsProfile(p) /\ Settings!Usable(p)
<1>1. /\ SettingsIsProfile(p) /\ Settings!Usable(p)
      /\ Settings!Connection(p) = [p EXCEPT !.name = IF p.protocol \in Settings!Known THEN Settings!Name(p) ELSE p.name]
  BY DEF SettingsSettled
<1> DEFINE c == Settings!Connection(p)
<1>2. c.protocol = p.protocol /\ c.host = p.host /\ c.tls = p.tls /\ c.trust = p.trust
  BY <1>1 DEF SettingsIsProfile, Settings!Fields
<1> QED BY <1>1, <1>2 DEF Settings!TrustFits

\* The profiles that are kept are those that are not lost.
LEMMA SettingsUsableIsNotLost ==
  ASSUME NEW p PROVE Settings!Usable(p) <=> ~Settings!Lost(p)
BY DEF Settings!Usable, Settings!Lost, Settings!Protocol, Settings!Known

-----------------------------------------------------------------------------
(* Lists of profiles.                                                      *)

LEMMA SettingsIntervals == \A m, n \in Nat : m =< n => 1..m \in SUBSET (1..n)
OBVIOUS

LEMMA SettingsOrdered == \A i, j \in Nat : i < j \/ j < i \/ i = j
OBVIOUS

LEMMA SettingsOneMore == \A n \in Nat : \A i \in 1..(n + 1) : i \in 1..n \/ i = n + 1
OBVIOUS

LEMMA SettingsUnequal == \A n \in Nat : \A i, j \in 1..n : j < i => i # j
OBVIOUS

SettingsRow(s, n) == n \in Nat /\ s = [k \in 1..n |-> s[k]]

SettingsListOK(list) ==
  \E n \in Nat :
    /\ n =< sfLimit /\ SettingsRow(list, n)
    /\ \A k \in 1..n : SettingsSettled(list[k]) /\ Settings!TrustFits(list[k])
    /\ \A k, l \in 1..n : list[k].id = list[l].id => k = l

\* What a raw list must be like, for its trusts to fit.
SettingsProfiles(list) == \A i \in Settings!Read(list) : SettingsIsProfile(list[i])
SettingsHonest(list) ==
  /\ SettingsProfiles(list)
  /\ \A i \in Settings!Read(list) : Settings!Usable(list[i]) => Settings!TrustFits(Settings!Connection(list[i]))

\* The entries of a normalised list come from the first usable ones of their ids, each from one.
SettingsSources(list, n, from) ==
  /\ n \in Nat /\ n =< sfLimit /\ from \in [1..n -> Settings!Firsts(list)]
  /\ Settings!Connections(list) = [k \in 1..n |-> Settings!Connection(list[from[k]])]
  /\ \A k, l \in 1..n : from[k] = from[l] => k = l
  /\ \A i \in Settings!Firsts(list) : \E k \in 1..n : from[k] = i

LEMMA SettingsFirstsAre ==
  ASSUME NEW list
  PROVE  LET usable == {i \in Settings!Read(list) : Settings!Usable(list[i])}
         IN {i \in usable : \A j \in usable : j < i => list[j].id # list[i].id} = Settings!Firsts(list)
BY SettingsUsableIsNotLost DEF Settings!Firsts

LEMMA SettingsFirstsFacts ==
  ASSUME Settings!SettingsFileAssumption, NEW list
  PROVE  /\ Settings!Firsts(list) \in SUBSET Settings!Read(list)
         /\ \A i \in Settings!Firsts(list) : Settings!Usable(list[i])
         /\ \A i, j \in Settings!Firsts(list) : list[i].id = list[j].id => i = j
<1>1. Settings!Firsts(list) \in SUBSET Settings!Read(list)
  BY DEF Settings!Firsts
<1>2. Settings!Firsts(list) \in SUBSET Nat
  BY <1>1, SettingsReadFinite
<1>3. \A i, j \in Settings!Firsts(list) : j < i => list[j].id # list[i].id
  BY DEF Settings!Firsts
<1>4. ASSUME NEW i \in Settings!Firsts(list), NEW j \in Settings!Firsts(list), list[i].id = list[j].id PROVE i = j
  <2>1. i \in Nat /\ j \in Nat
    BY <1>2
  <2> QED BY <1>3, <1>4, <2>1, SettingsOrdered
<1>5. \A i \in Settings!Firsts(list) : Settings!Usable(list[i])
  BY SettingsUsableIsNotLost DEF Settings!Firsts
<1> QED BY <1>1, <1>4, <1>5

LEMMA SettingsConnectionsFrom ==
  ASSUME Settings!SettingsFileAssumption, NEW list
  PROVE  \E n, from : SettingsSources(list, n, from)
<1> DEFINE read == [i \in Settings!Read(list) |-> Settings!Connection(list[i])]
           places == Settings!Firsts(list)
           n == Cardinality(places)
<1>1. places \in SUBSET Settings!Read(list)
  BY SettingsFirstsFacts
<1>2. places \in SUBSET Nat /\ IsFiniteSet(places) /\ n \in Nat /\ n =< sfLimit
  BY <1>1, SettingsReadFinite
<1>3. Settings!Connections(list) = Settings!Kept(read, places)
  BY SettingsFirstsAre DEF Settings!Connections
<1>4. \A i \in places : read[i] = Settings!Connection(list[i])
  BY <1>1
<1> HIDE DEF places
<1>5. PICK at : SettingsPicks(read, places, at)
  BY <1>2, SettingsKeptFacts
<1>6. /\ at \in [1..n -> places] /\ Settings!Connections(list) = [k \in 1..n |-> read[at[k]]]
      /\ \A k, l \in 1..n : at[k] = at[l] => k = l
      /\ \A i \in places : \E k \in 1..n : at[k] = i
  BY <1>3, <1>5 DEF SettingsPicks
<1> HIDE DEF n, read
<1>7. Settings!Connections(list) = [k \in 1..n |-> Settings!Connection(list[at[k]])]
  BY <1>4, <1>6
<1>8. SettingsSources(list, n, at)
  BY <1>2, <1>6, <1>7 DEF SettingsSources, places
<1> QED BY <1>8

LEMMA SettingsSourcesFacts ==
  ASSUME Settings!SettingsFileAssumption, NEW list, SettingsProfiles(list), NEW n, NEW from,
         SettingsSources(list, n, from)
  PROVE  /\ n \in Nat /\ n =< sfLimit /\ SettingsRow(Settings!Connections(list), n)
         /\ \A k \in 1..n :
              /\ from[k] \in Settings!Read(list) /\ Settings!Usable(list[from[k]]) /\ SettingsIsProfile(list[from[k]])
              /\ Settings!Connections(list)[k] = Settings!Connection(list[from[k]])
              /\ SettingsSettled(Settings!Connections(list)[k])
              /\ Settings!Endpoint(Settings!Connections(list)[k]) = Settings!Endpoint(list[from[k]])
              /\ Settings!Connections(list)[k].id = list[from[k]].id
         /\ \A k, l \in 1..n : Settings!Connections(list)[k].id = Settings!Connections(list)[l].id => k = l
<1>1. n \in Nat /\ n =< sfLimit /\ SettingsRow(Settings!Connections(list), n)
  BY DEF SettingsSources, SettingsRow
<1>2. ASSUME NEW k \in 1..n
      PROVE  /\ from[k] \in Settings!Firsts(list) /\ from[k] \in Settings!Read(list) /\ Settings!Usable(list[from[k]])
             /\ SettingsIsProfile(list[from[k]]) /\ Settings!Connections(list)[k] = Settings!Connection(list[from[k]])
  BY SettingsFirstsFacts DEF SettingsSources, SettingsProfiles
<1>3. ASSUME NEW k \in 1..n
      PROVE  /\ SettingsSettled(Settings!Connections(list)[k])
             /\ Settings!Endpoint(Settings!Connections(list)[k]) = Settings!Endpoint(list[from[k]])
             /\ Settings!Connections(list)[k].id = list[from[k]].id
  BY <1>2, SettingsConnectionFacts
<1>4. \A k, l \in 1..n : Settings!Connections(list)[k].id = Settings!Connections(list)[l].id => k = l
  <2> SUFFICES ASSUME NEW k \in 1..n, NEW l \in 1..n, Settings!Connections(list)[k].id = Settings!Connections(list)[l].id
               PROVE  k = l
    OBVIOUS
  <2>1. list[from[k]].id = list[from[l]].id /\ from[k] \in Settings!Firsts(list) /\ from[l] \in Settings!Firsts(list)
    BY <1>2, <1>3
  <2>2. from[k] = from[l]
    BY <2>1, SettingsFirstsFacts
  <2> QED BY <2>2 DEF SettingsSources
<1> QED BY <1>1, <1>2, <1>3, <1>4

LEMMA SettingsConnectionsOK ==
  ASSUME Settings!SettingsFileAssumption, NEW list, SettingsHonest(list)
  PROVE  SettingsListOK(Settings!Connections(list))
<1>1. PICK n, from : SettingsSources(list, n, from)
  BY SettingsConnectionsFrom
<1>2. SettingsProfiles(list) /\ \A i \in Settings!Read(list) : Settings!Usable(list[i]) => Settings!TrustFits(Settings!Connection(list[i]))
  BY DEF SettingsHonest
<1>3. \A k \in 1..n : Settings!TrustFits(Settings!Connections(list)[k])
  BY <1>1, <1>2, SettingsSourcesFacts
<1> QED BY <1>1, <1>2, <1>3, SettingsSourcesFacts DEF SettingsListOK

\* A normalised list has the endpoints of the list it is made from.
LEMMA SettingsConnectionsKeep ==
  ASSUME Settings!SettingsFileAssumption, NEW list, SettingsProfiles(list)
  PROVE  Settings!Keeps(list, Settings!Connections(list))
<1>1. PICK n, from : SettingsSources(list, n, from)
  BY SettingsConnectionsFrom
<1>2. /\ DOMAIN Settings!Connections(list) = 1..n
      /\ \A k \in 1..n : Settings!Endpoint(Settings!Connections(list)[k]) = Settings!Endpoint(list[from[k]])
  BY <1>1, SettingsSourcesFacts DEF SettingsRow
<1>3. /\ \A k \in 1..n : from[k] \in Settings!Firsts(list)
      /\ \A i \in Settings!Firsts(list) : \E k \in 1..n : from[k] = i
  BY <1>1 DEF SettingsSources
<1> QED BY <1>2, <1>3 DEF Settings!Keeps

\* A row of usable profiles of different ids is kept as a whole.
LEMMA SettingsFirstsOfRow ==
  ASSUME Settings!SettingsFileAssumption, NEW n \in Nat,
         n =< sfLimit, NEW list, SettingsRow(list, n),
         \A k \in 1..n : Settings!Usable(list[k]),
         \A k, l \in 1..n : list[k].id = list[l].id => k = l
  PROVE  Settings!Read(list) = 1..n /\ Settings!Firsts(list) = 1..n
<1>1. Settings!Read(list) = 1..n
  <2>1. 1..n \in SUBSET (1..sfLimit)
    BY SettingsIntervals DEF Settings!SettingsFileAssumption
  <2> QED BY <2>1 DEF Settings!Read, SettingsRow
<1>2. \A i, j \in 1..n : j < i => list[j].id # list[i].id
  <2> SUFFICES ASSUME NEW i \in 1..n, NEW j \in 1..n, j < i PROVE list[j].id # list[i].id
    OBVIOUS
  <2>1. i # j
    BY SettingsUnequal
  <2> QED BY <2>1
<1> QED BY <1>1, <1>2, SettingsUsableIsNotLost DEF Settings!Firsts

\* A list that is normal stays as it is, unless a name was cut at a blank.
LEMMA SettingsConnectionsFixed ==
  ASSUME Settings!SettingsFileAssumption, NEW list, SettingsListOK(list),
         \A k \in DOMAIN list : list[k].name # "cut "
  PROVE  Settings!Connections(list) = list
<1>1. PICK n \in Nat :
        /\ n =< sfLimit /\ SettingsRow(list, n)
        /\ \A k \in 1..n : SettingsSettled(list[k])
        /\ \A k, l \in 1..n : list[k].id = list[l].id => k = l
  BY DEF SettingsListOK
<1>2. list = [k \in 1..n |-> list[k]] /\ DOMAIN list = 1..n
  BY <1>1 DEF SettingsRow
<1>3. Settings!Read(list) = 1..n /\ Settings!Firsts(list) = 1..n
  BY <1>1, SettingsFirstsOfRow DEF SettingsSettled
<1>4. \A k \in 1..n : Settings!Connection(list[k]) = list[k]
  <2> SUFFICES ASSUME NEW k \in 1..n PROVE Settings!Connection(list[k]) = list[k]
    OBVIOUS
  <2>1. SettingsSettled(list[k]) /\ list[k].name # "cut "
    BY <1>1, <1>2
  <2>2. (IF list[k].protocol \in Settings!Known THEN Settings!Name(list[k]) ELSE list[k].name) = list[k].name
    BY <2>1 DEF SettingsSettled, Settings!Name
  <2>3. [list[k] EXCEPT !.name = list[k].name] = list[k]
    BY <2>1 DEF SettingsSettled, SettingsIsProfile, Settings!Fields
  <2> QED BY <2>1, <2>2, <2>3 DEF SettingsSettled
<1> DEFINE read == [i \in Settings!Read(list) |-> Settings!Connection(list[i])]
<1>5. read = list
  BY <1>2, <1>3, <1>4
<1>6. Settings!Connections(list) = Settings!Kept(read, Settings!Firsts(list))
  BY SettingsFirstsAre DEF Settings!Connections
<1> HIDE DEF read
<1> QED BY <1>1, <1>2, <1>3, <1>5, <1>6, SettingsKeptAll

-----------------------------------------------------------------------------
(* Lists of files.                                                         *)

SettingsClean(s, n) ==
  /\ n \in Nat /\ SettingsRow(s, n)
  /\ \A k \in 1..n : s[k] # "" /\ Settings!Item(s[k]) = s[k]
  /\ \A k, l \in 1..n : Settings!Lower(s[k]) = Settings!Lower(s[l]) => k = l
SettingsAsFormer(files) ==
  /\ Len(files) = Len(Settings!Former)
  /\ \A i \in DOMAIN Settings!Former : \E j \in DOMAIN files : Settings!Lower(files[j]) = Settings!Former[i]
SettingsFilesOK(files) == (\E n \in Nat : SettingsClean(files, n)) /\ ~SettingsAsFormer(files)

LEMMA SettingsRowLength ==
  ASSUME NEW n \in Nat, NEW s, SettingsRow(s, n)
  PROVE  Len(s) = n /\ DOMAIN s = 1..n /\ s \in Seq({s[k] : k \in 1..n})
<1>1. s = [k \in 1..n |-> s[k]]
  BY DEF SettingsRow
<1>2. s \in [1..n -> {s[k] : k \in 1..n}]
  BY <1>1
<1> QED BY <1>2

\* What Caseless keeps is not empty and differs in more than case.
LEMMA SettingsCaselessClean ==
  ASSUME NEW s, DOMAIN s \in SUBSET Nat, IsFiniteSet(DOMAIN s),
         \A i \in DOMAIN s : Settings!Item(s[i]) = s[i]
  PROVE  \E n \in Nat : SettingsClean(Settings!Caseless(s), n)
<1> DEFINE places == {i \in DOMAIN s : s[i] # "" /\ \A j \in DOMAIN s : j < i => Settings!Lower(s[j]) # Settings!Lower(s[i])}
           n == Cardinality(places)
<1>1. places \in SUBSET DOMAIN s
  OBVIOUS
<1>2. places \in SUBSET Nat /\ IsFiniteSet(places)
  BY <1>1, FS_Subset
<1>3. n \in Nat
  BY <1>2, FS_CardinalityType
<1>4. \A i, j \in places : Settings!Lower(s[i]) = Settings!Lower(s[j]) => i = j
  <2> SUFFICES ASSUME NEW i \in places, NEW j \in places, Settings!Lower(s[i]) = Settings!Lower(s[j]) PROVE i = j
    OBVIOUS
  <2>1. ~(i < j) /\ ~(j < i)
    BY <1>1
  <2>2. i \in Nat /\ j \in Nat
    BY <1>2
  <2> QED BY <2>1, <2>2, SettingsOrdered
<1>5. \A i \in places : s[i] # "" /\ Settings!Item(s[i]) = s[i]
  OBVIOUS
<1>6. Settings!Caseless(s) = Settings!Kept(s, places)
  BY DEF Settings!Caseless
<1> HIDE DEF places
<1>7. PICK at : SettingsPicks(s, places, at)
  BY <1>2, SettingsKeptFacts
<1>8. /\ at \in [1..n -> places] /\ Settings!Caseless(s) = [k \in 1..n |-> s[at[k]]]
      /\ \A k, l \in 1..n : at[k] = at[l] => k = l
  BY <1>6, <1>7 DEF SettingsPicks
<1> HIDE DEF n
<1>9. SettingsClean(Settings!Caseless(s), n)
  <2>1. SettingsRow(Settings!Caseless(s), n)
    BY <1>8, <1>3 DEF SettingsRow
  <2>2. \A k \in 1..n : at[k] \in places /\ Settings!Caseless(s)[k] = s[at[k]]
    BY <1>8
  <2>3. \A k \in 1..n : Settings!Caseless(s)[k] # "" /\ Settings!Item(Settings!Caseless(s)[k]) = Settings!Caseless(s)[k]
    BY <1>5, <2>2
  <2>4. \A k, l \in 1..n : Settings!Lower(Settings!Caseless(s)[k]) = Settings!Lower(Settings!Caseless(s)[l]) => k = l
    BY <1>4, <1>8, <2>2
  <2> QED BY <1>3, <2>1, <2>3, <2>4 DEF SettingsClean
<1> QED BY <1>3, <1>9

LEMMA SettingsCaselessFixed ==
  ASSUME NEW s, NEW n, SettingsClean(s, n)
  PROVE  Settings!Caseless(s) = s
<1>1. n \in Nat /\ s = [k \in 1..n |-> s[k]] /\ DOMAIN s = 1..n
  BY DEF SettingsClean, SettingsRow
<1>2. {i \in DOMAIN s : s[i] # "" /\ \A j \in DOMAIN s : j < i => Settings!Lower(s[j]) # Settings!Lower(s[i])} = 1..n
  <2>1. \A i, j \in 1..n : j < i => Settings!Lower(s[j]) # Settings!Lower(s[i])
    <3> SUFFICES ASSUME NEW i \in 1..n, NEW j \in 1..n, j < i PROVE Settings!Lower(s[j]) # Settings!Lower(s[i])
      OBVIOUS
    <3>1. i # j
      BY <1>1, SettingsUnequal
    <3> QED BY <3>1 DEF SettingsClean
  <2> QED BY <1>1, <2>1 DEF SettingsClean
<1> QED BY <1>1, <1>2, SettingsKeptAll DEF Settings!Caseless

LEMMA SettingsDefaultOK == SettingsFilesOK(Settings!Default)
<1>1. Len(Settings!Former) = 2 /\ Len(Settings!Default) = 3
  BY DEF Settings!Former, Settings!Default
<1>2. SettingsClean(Settings!Default, 3)
  BY DEF Settings!Default, SettingsClean, SettingsRow, Settings!Item, Settings!Lower
<1> QED BY <1>1, <1>2 DEF SettingsFilesOK, SettingsAsFormer

LEMMA SettingsEditableFilesOK ==
  ASSUME Settings!SettingsFileAssumption, NEW raw
  PROVE  SettingsFilesOK(Settings!EditableFiles(raw))
<1> DEFINE items == [i \in Settings!Read(raw.files) |-> Settings!Item(raw.files[i])]
           read == Settings!Caseless(items)
           files == IF raw.version < 6 THEN Settings!Caseless(read \o Settings!AddedBy6) ELSE read
<1>1. DOMAIN items \in SUBSET Nat /\ IsFiniteSet(DOMAIN items) /\ \A i \in DOMAIN items : Settings!Item(items[i]) = items[i]
  <2>1. \A f : Settings!Item(Settings!Item(f)) = Settings!Item(f)
    BY DEF Settings!Item
  <2>2. DOMAIN items = Settings!Read(raw.files)
    OBVIOUS
  <2> QED BY <2>1, <2>2, SettingsReadFinite
<1>2. PICK n \in Nat : SettingsClean(read, n)
  BY <1>1, SettingsCaselessClean
<1> HIDE DEF items
<1>3. \E m \in Nat : SettingsClean(Settings!Caseless(read \o Settings!AddedBy6), m)
  <2> DEFINE S == {read[k] : k \in 1..n} \cup {".rs"}
  <2>1. Len(read) = n /\ DOMAIN read = 1..n /\ read \in Seq({read[k] : k \in 1..n})
    BY <1>2, SettingsRowLength DEF SettingsClean
  <2>2. read \in Seq(S) /\ Settings!AddedBy6 \in Seq(S) /\ Len(Settings!AddedBy6) = 1 /\ Settings!AddedBy6[1] = ".rs"
    BY <2>1 DEF Settings!AddedBy6
  <2> HIDE DEF S, read
  <2>3. /\ DOMAIN (read \o Settings!AddedBy6) = 1..(n + 1)
        /\ \A i \in 1..(n + 1) : (read \o Settings!AddedBy6)[i] = IF i =< n THEN read[i] ELSE Settings!AddedBy6[i - n]
    <3>1. read \o Settings!AddedBy6 \in Seq(S) /\ Len(read \o Settings!AddedBy6) = Len(read) + Len(Settings!AddedBy6)
      BY <2>2, ConcatProperties
    <3>2. read \o Settings!AddedBy6 \in Seq(S) /\ Len(read \o Settings!AddedBy6) = n + 1
      BY <2>1, <2>2, <3>1
    <3>3. \A i \in 1..(n + 1) : (read \o Settings!AddedBy6)[i] = IF i =< Len(read) THEN read[i] ELSE Settings!AddedBy6[i - Len(read)]
      BY <2>1, <2>2, ConcatProperties
    <3> QED BY <2>1, <3>2, <3>3
  <2>4. \A i \in 1..(n + 1) : Settings!Item((read \o Settings!AddedBy6)[i]) = (read \o Settings!AddedBy6)[i]
    <3> SUFFICES ASSUME NEW i \in 1..(n + 1)
                 PROVE  Settings!Item((read \o Settings!AddedBy6)[i]) = (read \o Settings!AddedBy6)[i]
      OBVIOUS
    <3>1. CASE i \in 1..n
      <4>1. i =< n
        BY <3>1
      <4> QED BY <1>2, <2>3, <3>1, <4>1 DEF SettingsClean
    <3>2. CASE i = n + 1
      <4>1. i - n = 1 /\ ~(i =< n)
        BY <3>2
      <4> QED BY <2>2, <2>3, <3>2, <4>1 DEF Settings!Item
    <3> QED BY <3>1, <3>2, SettingsOneMore
  <2>5. 1..(n + 1) \in SUBSET Nat /\ IsFiniteSet(1..(n + 1))
    BY SettingsIntervalSize
  <2> QED BY <2>3, <2>4, <2>5, SettingsCaselessClean
<1>4. \E m \in Nat : SettingsClean(files, m)
  BY <1>2, <1>3
<1>5. Settings!EditableFiles(raw) = IF SettingsAsFormer(files) THEN Settings!Default ELSE files
  BY DEF Settings!EditableFiles, SettingsAsFormer, items
<1> HIDE DEF files
<1> QED BY <1>4, <1>5, SettingsDefaultOK DEF SettingsFilesOK

\* The files of this build are read back as they are, if they are not too many.
LEMMA SettingsFilesFixed ==
  ASSUME Settings!SettingsFileAssumption, NEW raw, raw.version = Settings!Version,
         SettingsFilesOK(raw.files),
         Len(raw.files) =< sfLimit
  PROVE  Settings!EditableFiles(raw) = raw.files
<1>1. PICK n \in Nat : SettingsClean(raw.files, n)
  BY DEF SettingsFilesOK
<1>2. Len(raw.files) = n /\ DOMAIN raw.files = 1..n /\ raw.files = [k \in 1..n |-> raw.files[k]]
  BY <1>1, SettingsRowLength DEF SettingsClean, SettingsRow
<1>3. Settings!Read(raw.files) = 1..n
  <2>1. 1..n \in SUBSET (1..sfLimit)
    BY <1>2, SettingsIntervals DEF Settings!SettingsFileAssumption
  <2> QED BY <1>2, <2>1 DEF Settings!Read
<1>4. [i \in Settings!Read(raw.files) |-> Settings!Item(raw.files[i])] = raw.files
  BY <1>1, <1>2, <1>3 DEF SettingsClean
<1>5. Settings!Caseless(raw.files) = raw.files
  BY <1>1, SettingsCaselessFixed
<1>6. ~(raw.version < 6)
  BY DEF Settings!Version
<1> QED BY <1>4, <1>5, <1>6 DEF Settings!EditableFiles, SettingsFilesOK,
    SettingsAsFormer

-----------------------------------------------------------------------------
(* Trust after an update.                                                  *)

LEMMA SettingsHonestOfListOK ==
  ASSUME NEW list, SettingsListOK(list)
  PROVE  SettingsHonest(list) /\ \A k \in DOMAIN list : SettingsSettled(list[k]) /\ Settings!TrustFits(list[k])
<1>1. \A k \in DOMAIN list : SettingsSettled(list[k]) /\ Settings!TrustFits(list[k])
  BY DEF SettingsListOK, SettingsRow
<1>2. Settings!Read(list) \in SUBSET DOMAIN list
  BY DEF Settings!Read
<1> QED BY <1>1, <1>2, SettingsSettledTrust DEF SettingsHonest, SettingsProfiles

\* An edit of a profile leaves its id and its trust.
LEMMA SettingsEditedFacts ==
  ASSUME SettingsListOK(sfCached.list), NEW list \in Settings!Edited
  PROVE  /\ DOMAIN list = DOMAIN sfCached.list
         /\ \A j \in DOMAIN list : /\ SettingsIsProfile(list[j])
                                   /\ list[j].id = sfCached.list[j].id
                                   /\ list[j].trust = sfCached.list[j].trust
<1>1. \A j \in DOMAIN sfCached.list : SettingsIsProfile(sfCached.list[j])
  BY SettingsHonestOfListOK DEF SettingsSettled
<1>2. sfCached.list = [j \in DOMAIN sfCached.list |-> sfCached.list[j]]
  BY DEF SettingsListOK, SettingsRow
<1>3. PICK i \in DOMAIN sfCached.list :
        \/ list = [sfCached.list EXCEPT ![i].host = "g"]
        \/ list = [sfCached.list EXCEPT ![i].tls = "implicit"]
        \/ list = [sfCached.list EXCEPT ![i].protocol = "ftps"]
        \/ list = [sfCached.list EXCEPT ![i].protocol = "ftp"]
  BY DEF Settings!Edited
<1>4. DOMAIN list = DOMAIN sfCached.list
  BY <1>2, <1>3
<1>5. ASSUME NEW j \in DOMAIN list
      PROVE  SettingsIsProfile(list[j]) /\ list[j].id = sfCached.list[j].id /\ list[j].trust = sfCached.list[j].trust
  <2>1. \/ list[j] = sfCached.list[j]
        \/ list[j] = [sfCached.list[j] EXCEPT !.host = "g"]
        \/ list[j] = [sfCached.list[j] EXCEPT !.tls = "implicit"]
        \/ list[j] = [sfCached.list[j] EXCEPT !.protocol = "ftps"]
        \/ list[j] = [sfCached.list[j] EXCEPT !.protocol = "ftp"]
    BY <1>2, <1>3, <1>4
  <2>2. SettingsIsProfile(sfCached.list[j])
    BY <1>1, <1>4
  <2> QED BY <2>1, <2>2 DEF SettingsIsProfile, Settings!Fields
<1> QED BY <1>4, <1>5

\* A profile that did not move keeps a trust that fits it.
LEMMA SettingsUnmovedTrust ==
  ASSUME NEW p, SettingsSettled(p), Settings!TrustFits(p),
         NEW q, SettingsIsProfile(q), q.trust = p.trust, Settings!Usable(q),
         Settings!Connection(q).protocol \in {"ftp", "ftps"} => ~Settings!Moved(p, Settings!Connection(q))
  PROVE  Settings!TrustFits(Settings!Connection(q))
<1> DEFINE c == Settings!Connection(q)
<1>1. SettingsSettled(c) /\ SettingsSameTrust(q, c)
  BY SettingsConnectionFacts
<1>2. CASE c.protocol \in {"ftp", "ftps"}
  <2>1. p.protocol = c.protocol /\ p.host = c.host /\ (c.protocol = "ftps" => p.tls = c.tls)
    BY <1>2 DEF Settings!Moved
  <2>2. p.tls = c.tls
    BY <1>1, <1>2, <2>1 DEF SettingsSettled
  <2>3. c.trust = None \/ c.trust = p.trust
    BY <1>1, <1>2 DEF SettingsSameTrust, Settings!Known
  <2> QED BY <1>2, <2>1, <2>2, <2>3 DEF Settings!TrustFits, Settings!Known
<1>3. CASE c.protocol \notin {"ftp", "ftps"}
  BY <1>1, <1>3 DEF SettingsSettled, Settings!TrustFits, Settings!Known
<1> QED BY <1>2, <1>3

\* A list that is sent is one of profiles.
LEMMA SettingsSentProfiles ==
  ASSUME Settings!SettingsFileAssumption, SettingsListOK(sfCached.list),
         NEW list \in sfLists \cup Settings!Edited
  PROVE  SettingsProfiles(list)
<1>1. CASE list \in sfLists
  BY <1>1 DEF Settings!SettingsFileAssumption, SettingsIsProfile, SettingsProfiles
<1>2. CASE list \in Settings!Edited
  BY <1>2, SettingsEditedFacts DEF Settings!Read, SettingsProfiles
<1> QED BY <1>1, <1>2

\* What an update writes has trusts that fit, whatever it was sent.
LEMMA SettingsResetTrustHonest ==
  ASSUME Settings!SettingsFileAssumption, SettingsListOK(sfCached.list),
         NEW list \in sfLists \cup Settings!Edited
  PROVE  SettingsHonest(Settings!ResetTrust(sfCached.list, Settings!Connections(list)))
<1> DEFINE L == Settings!Connections(list)
           R == Settings!ResetTrust(sfCached.list, L)
           Untrusted(i) == /\ L[i].protocol \in {"ftp", "ftps"}
                       /\ \E j \in DOMAIN sfCached.list : sfCached.list[j].id = L[i].id /\ Settings!Moved(sfCached.list[j], L[i])
<1>1. PICK n, from : SettingsSources(list, n, from)
  BY SettingsConnectionsFrom
<1>2. /\ DOMAIN L = 1..n
      /\ \A i \in 1..n : /\ from[i] \in Settings!Read(list) /\ Settings!Usable(list[from[i]]) /\ L[i] = Settings!Connection(list[from[i]])
                         /\ SettingsSettled(L[i]) /\ L[i].id = list[from[i]].id
  BY <1>1, SettingsSourcesFacts, SettingsSentProfiles DEF SettingsRow
<1>3. DOMAIN R = 1..n /\ \A i \in 1..n : R[i] = IF Untrusted(i) THEN [L[i] EXCEPT !.trust = None] ELSE L[i]
  BY <1>2 DEF Settings!ResetTrust
<1> HIDE DEF L
<1>7. ASSUME NEW i \in 1..n, ~Untrusted(i) PROVE Settings!TrustFits(L[i])
  <2>1. CASE list \in sfLists
    BY <1>2, <2>1 DEF Settings!SettingsFileAssumption
  <2>2. CASE list \in Settings!Edited
    <3> DEFINE q == list[from[i]]
               p == sfCached.list[from[i]]
    <3>1. from[i] \in DOMAIN sfCached.list /\ SettingsIsProfile(q) /\ q.id = p.id /\ q.trust = p.trust
      BY <1>2, <2>2, SettingsEditedFacts DEF Settings!Read
    <3>2. SettingsSettled(p) /\ Settings!TrustFits(p)
      BY <3>1, SettingsHonestOfListOK
    <3>3. L[i].protocol \in {"ftp", "ftps"} => ~Settings!Moved(p, L[i])
      BY <1>2, <1>7, <3>1
    <3>4. L[i] = Settings!Connection(q) /\ Settings!Usable(q)
      BY <1>2
    <3> QED BY <3>1, <3>2, <3>3, <3>4, SettingsUnmovedTrust
  <2> QED BY <2>1, <2>2
<1>8. ASSUME NEW i \in 1..n
      PROVE  SettingsIsProfile(R[i]) /\ (Settings!Usable(R[i]) => Settings!TrustFits(Settings!Connection(R[i])))
  <2>1. CASE Untrusted(i)
    <3>1. R[i] = [L[i] EXCEPT !.trust = None] /\ L[i].protocol \in {"ftp", "ftps"} /\ SettingsSettled(L[i])
      BY <1>2, <1>3, <2>1
    <3> QED BY <3>1, SettingsSettledWithoutTrust, ZenonT(60) DEF Settings!TrustFits
  <2>2. CASE ~Untrusted(i)
    <3>1. R[i] = L[i] /\ SettingsSettled(L[i])
      BY <1>2, <1>3, <2>2
    <3> QED BY <1>7, <2>2, <3>1, SettingsSettledTrust
  <2> QED BY <2>1, <2>2
<1> HIDE DEF R
<1>9. SettingsHonest(R)
  BY <1>3, <1>8 DEF SettingsHonest, SettingsProfiles, Settings!Read
<1> QED BY <1>9 DEF R, L

\* A trust that is dropped changes no endpoint, and the second normalisation none either.
LEMMA SettingsUpdateKeeps ==
  ASSUME Settings!SettingsFileAssumption, SettingsListOK(sfCached.list),
         NEW list \in sfLists \cup Settings!Edited
  PROVE  Settings!Keeps(list, Settings!Connections(Settings!ResetTrust(sfCached.list, Settings!Connections(list))))
<1> DEFINE L == Settings!Connections(list)
           R == Settings!ResetTrust(sfCached.list, L)
           N == Settings!Connections(R)
           Untrusted(i) == /\ L[i].protocol \in {"ftp", "ftps"}
                       /\ \E j \in DOMAIN sfCached.list : sfCached.list[j].id = L[i].id /\ Settings!Moved(sfCached.list[j], L[i])
<1>1. PICK n, from : SettingsSources(list, n, from)
  BY SettingsConnectionsFrom
<1>2. /\ n \in Nat /\ n =< sfLimit /\ DOMAIN L = 1..n /\ \A i \in 1..n : SettingsSettled(L[i])
      /\ \A k, l \in 1..n : L[k].id = L[l].id => k = l
  BY <1>1, SettingsSourcesFacts, SettingsSentProfiles DEF SettingsRow
<1>3. R = [i \in 1..n |-> R[i]]
      /\ \A i \in 1..n : R[i] = IF Untrusted(i) THEN [L[i] EXCEPT !.trust = None] ELSE L[i]
  BY <1>2 DEF Settings!ResetTrust
<1>4. Settings!Keeps(list, L)
  BY SettingsSentProfiles, SettingsConnectionsKeep
<1> HIDE DEF L
<1>5. ASSUME NEW i \in 1..n
      PROVE  SettingsIsProfile(R[i]) /\ Settings!Usable(R[i]) /\ Settings!Endpoint(R[i]) = Settings!Endpoint(L[i]) /\ R[i].id = L[i].id
  <2>1. CASE Untrusted(i)
    <3>1. R[i] = [L[i] EXCEPT !.trust = None] /\ L[i].protocol \in {"ftp", "ftps"} /\ SettingsSettled(L[i])
      BY <1>2, <1>3, <2>1
    <3> QED BY <3>1, SettingsSettledWithoutTrust, ZenonT(60)
  <2>2. CASE ~Untrusted(i)
    <3>1. R[i] = L[i] /\ SettingsSettled(L[i])
      BY <1>2, <1>3, <2>2
    <3> QED BY <3>1 DEF SettingsSettled
  <2> QED BY <2>1, <2>2
<1> HIDE DEF R
<1>6. SettingsRow(R, n) /\ (\A k, l \in 1..n : R[k].id = R[l].id => k = l)
  BY <1>2, <1>3, <1>5 DEF SettingsRow
<1>7. Settings!Read(R) = 1..n /\ Settings!Firsts(R) = 1..n
  BY <1>2, <1>5, <1>6, SettingsFirstsOfRow
<1>8. SettingsProfiles(R)
  BY <1>5, <1>7 DEF SettingsProfiles
<1>9. Settings!Keeps(R, N)
  BY <1>8, SettingsConnectionsKeep
<1> HIDE DEF N
<1>10. {Settings!Endpoint(R[i]) : i \in 1..n} = {Settings!Endpoint(L[i]) : i \in 1..n}
  BY <1>5
<1>11. {Settings!Endpoint(N[k]) : k \in DOMAIN N} = {Settings!Endpoint(L[i]) : i \in 1..n}
  BY <1>7, <1>9, <1>10 DEF Settings!Keeps
<1>12. Settings!Keeps(list, N)
  BY <1>2, <1>4, <1>11 DEF Settings!Keeps
<1> QED BY <1>12 DEF N, R, L

-----------------------------------------------------------------------------
(* The invariant.                                                          *)

SettingsNormal(c) ==
  /\ c = [version |-> Settings!Version, files |-> c.files, list |-> c.list]
  /\ SettingsFilesOK(c.files) /\ SettingsListOK(c.list)

\* Whatever is in memory is normal, and so is what is about to be written; the window's list is
\* one of its own or an edit of the one in memory.
SettingsIInv ==
  /\ sfOp = [step |-> sfOp.step, sent |-> sfOp.sent, value |-> sfOp.value]
  /\ sfOp.step \in {"idle", "load", "prepare", "persist"}
  /\ sfTouched \in BOOLEAN /\ sfWrites \in 0..sfMaxWrites
  /\ sfFile \in {sfMissing, sfBroken} \cup Settings!Raws \/ SettingsNormal(sfFile)
  /\ sfCached # None => SettingsNormal(sfCached)
  /\ sfCached # None /\ ~sfTouched => sfFile = sfCached
  /\ sfOp.sent \in sfLists \cup {sfReset, None} \/ sfOp.sent \in Settings!Edited
  /\ sfOp.step = "persist" => SettingsNormal(sfOp.value) /\ sfOp.sent \in sfLists \cup {sfReset, None}
  /\ sfOp.step = "prepare" => SettingsNormal(sfCached) /\ sfOp.sent # None

LEMMA SettingsNormalFields ==
  ASSUME NEW c, SettingsNormal(c)
  PROVE  c.version = Settings!Version /\ SettingsFilesOK(c.files) /\ SettingsListOK(c.list)
BY DEF SettingsNormal

LEMMA SettingsNormalOf ==
  ASSUME Settings!SettingsFileAssumption, NEW raw, SettingsHonest(raw.list)
  PROVE  SettingsNormal(Settings!Normalize(raw))
BY SettingsEditableFilesOK, SettingsConnectionsOK DEF SettingsNormal, Settings!Normalize

LEMMA SettingsNormalDefaults ==
  ASSUME Settings!SettingsFileAssumption
  PROVE  SettingsNormal(Settings!Defaults) /\ SettingsNormal(Settings!Normalize(Settings!Defaults))
<1>1. SettingsRow(<<>>, 0) /\ 1..0 = {} /\ 0 \in Nat /\ 0 =< sfLimit
  BY DEF SettingsRow, Settings!SettingsFileAssumption
<1>2. SettingsListOK(<<>>)
  BY <1>1 DEF SettingsListOK
<1>3. SettingsHonest(<<>>)
  BY <1>2, SettingsHonestOfListOK
<1>4. SettingsNormal(Settings!Defaults)
  BY <1>2, SettingsDefaultOK DEF SettingsNormal, Settings!Defaults
<1>5. SettingsNormal(Settings!Normalize(Settings!Defaults))
  BY <1>3, SettingsNormalOf DEF Settings!Defaults
<1> QED BY <1>4, <1>5

LEMMA SettingsNormalFile ==
  ASSUME Settings!SettingsFileAssumption, NEW raw,
         raw \in Settings!Raws \/ SettingsNormal(raw)
  PROVE  SettingsHonest(raw.list)
<1>1. CASE raw \in Settings!Raws
  BY <1>1 DEF Settings!Raws, SettingsHonest, SettingsProfiles,
    Settings!SettingsFileAssumption, SettingsIsProfile
<1>2. CASE SettingsNormal(raw)
  BY <1>2, SettingsHonestOfListOK DEF SettingsNormal
<1> QED BY <1>1, <1>2

LEMMA SettingsNormalFixed ==
  ASSUME Settings!SettingsFileAssumption, NEW c, SettingsNormal(c), Len(c.files) =< sfLimit,
         \A i \in DOMAIN c.list : c.list[i].name # "cut "
  PROVE  Settings!Normalize(c) = c
<1>1. c.version = Settings!Version /\ SettingsFilesOK(c.files) /\ SettingsListOK(c.list)
  BY SettingsNormalFields
<1>2. Settings!EditableFiles(c) = c.files
  BY <1>1, SettingsFilesFixed
<1>3. Settings!Connections(c.list) = c.list
  BY <1>1, SettingsConnectionsFixed
<1> QED BY <1>2, <1>3 DEF Settings!Normalize, SettingsNormal

LEMMA SettingsSettingsKeptOfIInv ==
  ASSUME Settings!SettingsFileAssumption, SettingsIInv
  PROVE  Settings!TypeOK /\ Settings!ProfilesApart /\ Settings!TrustStaysWithEndpoint /\ Settings!RestartLoadsSame
<1>1. Settings!TypeOK
  BY DEF SettingsIInv, Settings!TypeOK, SettingsNormal
<1>2. sfCached # None => \A i \in DOMAIN sfCached.list : SettingsSettled(sfCached.list[i]) /\ Settings!TrustFits(sfCached.list[i])
  BY SettingsHonestOfListOK DEF SettingsIInv, SettingsNormal
<1>3. sfCached # None => \A i, j \in DOMAIN sfCached.list : sfCached.list[i].id = sfCached.list[j].id => i = j
  BY DEF SettingsIInv, SettingsNormal, SettingsListOK, SettingsRow
<1>4. Settings!ProfilesApart /\ Settings!TrustStaysWithEndpoint
  BY <1>2, <1>3 DEF Settings!ProfilesApart, Settings!TrustStaysWithEndpoint,
    SettingsSettled
<1>5. Settings!RestartLoadsSame
  BY SettingsNormalFixed DEF SettingsIInv, Settings!RestartLoadsSame
<1> QED BY <1>1, <1>4, <1>5

LEMMA SettingsIInvInit ==
  ASSUME Settings!SettingsFileAssumption, Settings!Init PROVE SettingsIInv
<1>1. sfWrites \in 0..sfMaxWrites
  BY DEF Settings!Init, Settings!SettingsFileAssumption
<1> QED BY <1>1 DEF Settings!Init, SettingsIInv, Settings!Idle

LEMMA SettingsIInvNext ==
  ASSUME Settings!SettingsFileAssumption, SettingsIInv, [Settings!Next]_Settings!vars
  PROVE  SettingsIInv'
<1>1. CASE Settings!WrittenByOthers
  <2>1. /\ sfFile' \in Settings!Raws /\ sfTouched' = TRUE /\ sfWrites' \in 0..sfMaxWrites
        /\ sfCached' = sfCached /\ sfOp' = sfOp
    BY <1>1 DEF Settings!WrittenByOthers, Settings!Counted, SettingsIInv,
      Settings!SettingsFileAssumption
  <2>2. Settings!Edited' = Settings!Edited /\ Settings!Raws' = Settings!Raws
    BY <2>1 DEF Settings!Edited, Settings!Raws
  <2> QED BY <2>1, <2>2 DEF SettingsIInv
<1>2. CASE Settings!Begin
  <2>1. /\ sfWrites' \in 0..sfMaxWrites /\ sfFile' = sfFile /\ sfCached' = sfCached /\ sfTouched' = sfTouched
    BY <1>2 DEF Settings!Begin, Settings!Counted, SettingsIInv,
      Settings!SettingsFileAssumption
  <2>2. \E list \in sfLists \cup Settings!Edited \cup {sfReset, None} : sfOp' = [step |-> "load", sent |-> list, value |-> None]
    BY <1>2 DEF Settings!Begin, Settings!Idle
  <2>3. Settings!Edited' = Settings!Edited /\ Settings!Raws' = Settings!Raws
    BY <2>1 DEF Settings!Edited, Settings!Raws
  <2> QED BY <2>1, <2>2, <2>3 DEF SettingsIInv
<1>3. CASE Settings!Load
  <2>1. sfFile' = sfFile /\ sfWrites' = sfWrites /\ sfOp.step = "load"
    BY <1>3 DEF Settings!Load
  <2>2. CASE sfCached # None /\ sfOp' = Settings!Loaded /\ UNCHANGED <<sfCached, sfTouched>>
    <3>1. Settings!Edited' = Settings!Edited /\ Settings!Raws' = Settings!Raws
      BY <2>2 DEF Settings!Edited, Settings!Raws
    <3> QED BY <2>1, <2>2, <3>1 DEF SettingsIInv, Settings!Loaded, Settings!Idle
  <2>3. CASE sfCached = None /\ (sfFile = sfBroken \/ Settings!Newer) /\ sfTouched' = FALSE /\ sfOp' = Settings!Idle /\ UNCHANGED sfCached
    BY <2>1, <2>3 DEF SettingsIInv, Settings!Idle, Settings!Raws
  <2>4. CASE /\ sfCached = None /\ sfFile # sfBroken /\ ~Settings!Newer /\ sfTouched' = FALSE
             /\ LET value == IF sfFile = sfMissing THEN Settings!Defaults ELSE Settings!Normalize(sfFile)
                IN IF sfFile = value
                   THEN sfCached' = value /\ sfOp' = Settings!Loaded
                   ELSE sfOp' = [sfOp EXCEPT !.step = "persist", !.value = value] /\ UNCHANGED sfCached
    <3> DEFINE value == IF sfFile = sfMissing THEN Settings!Defaults ELSE Settings!Normalize(sfFile)
    <3>1. SettingsNormal(value)
      <4>1. CASE sfFile = sfMissing
        BY <4>1, SettingsNormalDefaults
      <4>2. CASE sfFile # sfMissing
        <5>1. sfFile \in Settings!Raws \/ SettingsNormal(sfFile)
          BY <2>4, <4>2 DEF SettingsIInv
        <5> QED BY <4>2, <5>1, SettingsNormalFile, SettingsNormalOf
      <4> QED BY <4>1, <4>2
    <3>2. sfOp.sent \in sfLists \cup {sfReset, None}
      BY <2>4 DEF SettingsIInv, Settings!Edited
    <3>3. Settings!Raws' = Settings!Raws
      BY DEF Settings!Raws
    <3> HIDE DEF value
    <3>4. CASE sfFile = value
      <4>1. sfCached' = value /\ sfTouched' = FALSE /\ sfOp' = Settings!Loaded
        BY <2>4, <3>4 DEF value
      <4> QED BY <2>1, <3>1, <3>2, <3>3, <3>4, <4>1 DEF SettingsIInv, Settings!Loaded,
          Settings!Idle
    <3>5. CASE sfFile # value
      <4>1. sfOp' = [sfOp EXCEPT !.step = "persist", !.value = value] /\ sfCached' = sfCached /\ sfTouched' = FALSE
        BY <2>4, <3>5 DEF value
      <4> QED BY <2>1, <2>4, <3>1, <3>2, <3>3, <4>1 DEF SettingsIInv
    <3> QED BY <3>4, <3>5
  <2> QED BY <1>3, <2>2, <2>3, <2>4 DEF Settings!Load
<1>4. CASE Settings!Prepare
  <2> DEFINE next == Settings!Normalize([sfCached EXCEPT !.list = sfOp.sent])
             value == IF sfOp.sent = sfReset THEN Settings!Normalize(Settings!Defaults)
                      ELSE Settings!Normalize([next EXCEPT !.list = Settings!ResetTrust(sfCached.list, @)])
  <2>1. /\ sfFile' = sfFile /\ sfCached' = sfCached /\ sfTouched' = sfTouched /\ sfWrites' = sfWrites
        /\ sfOp' = [step |-> "persist", sent |-> None, value |-> value]
    BY <1>4 DEF Settings!Prepare
  <2>2. SettingsNormal(sfCached) /\ sfOp.sent # None /\ sfOp.sent \in sfLists \cup Settings!Edited \cup {sfReset, None}
    BY <1>4 DEF SettingsIInv, Settings!Prepare
  <2>3. SettingsNormal(value)
    <3>1. CASE sfOp.sent = sfReset
      BY <3>1, SettingsNormalDefaults
    <3>2. CASE sfOp.sent # sfReset
      <4>1. sfOp.sent \in sfLists \cup Settings!Edited
        BY <2>2, <3>2
      <4> DEFINE raw == [next EXCEPT !.list = Settings!ResetTrust(sfCached.list, @)]
      <4>2. raw.list = Settings!ResetTrust(sfCached.list, Settings!Connections(sfOp.sent))
        BY <2>2 DEF SettingsNormal, Settings!Normalize
      <4>3. SettingsHonest(raw.list)
        BY <2>2, <4>1, <4>2, SettingsResetTrustHonest DEF SettingsNormal
      <4> HIDE DEF raw
      <4>4. SettingsNormal(Settings!Normalize(raw))
        BY <4>3, SettingsNormalOf
      <4> QED BY <3>2, <4>4 DEF raw
    <3> QED BY <3>1, <3>2
  <2>4. Settings!Raws' = Settings!Raws
    BY DEF Settings!Raws
  <2> HIDE DEF value
  <2> QED BY <2>1, <2>3, <2>4 DEF SettingsIInv
<1>5. CASE Settings!Persist
  <2>1. sfWrites' = sfWrites /\ sfOp.step = "persist" /\ Settings!Raws' = Settings!Raws
    BY <1>5 DEF Settings!Persist, Settings!Raws
  <2>2. CASE sfFile' = sfOp.value /\ sfCached' = sfOp.value /\ sfTouched' = FALSE /\ sfOp' = Settings!Loaded
    BY <2>1, <2>2 DEF SettingsIInv, Settings!Loaded, Settings!Idle
  <2>3. CASE sfOp' = Settings!Idle /\ UNCHANGED <<sfFile, sfCached, sfTouched>>
    BY <2>1, <2>3 DEF SettingsIInv, Settings!Idle
  <2> QED BY <1>5, <2>2, <2>3 DEF Settings!Persist
<1>6. CASE Settings!Die
  <2>1. sfCached' = None /\ sfOp' = Settings!Idle /\ sfTouched' = TRUE /\ sfFile' = sfFile /\ sfWrites' \in 0..sfMaxWrites
    BY <1>6 DEF Settings!Die, Settings!Counted, SettingsIInv,
      Settings!SettingsFileAssumption
  <2> QED BY <2>1 DEF SettingsIInv, Settings!Idle, Settings!Raws
<1>7. CASE UNCHANGED Settings!vars
  <2>1. Settings!Edited' = Settings!Edited /\ Settings!Raws' = Settings!Raws
    BY <1>7 DEF Settings!Edited, Settings!Raws, Settings!vars
  <2> QED BY <1>7, <2>1 DEF SettingsIInv, Settings!vars
<1> QED BY <1>1, <1>2, <1>3, <1>4, <1>5, <1>6, <1>7 DEF Settings!Next

LEMMA SettingsInvariance ==
  ASSUME Settings!SettingsFileAssumption
  PROVE  Settings!Spec => []SettingsIInv
BY SettingsIInvInit, SettingsIInvNext, PTL DEF Settings!Spec

(* The request, and the settings in memory, are of this build.              *)
THEOREM SettingsTypeCorrect ==
  ASSUME Settings!SettingsFileAssumption
  PROVE  Settings!Spec => []Settings!TypeOK
BY SettingsInvariance, SettingsSettingsKeptOfIInv, PTL

(* No two profiles share an id, and none has a secret.                      *)
THEOREM SettingsProfilesAreApart ==
  ASSUME Settings!SettingsFileAssumption
  PROVE  Settings!Spec => []Settings!ProfilesApart
BY SettingsInvariance, SettingsSettingsKeptOfIInv, PTL

(* A trust stands beside the endpoint that it was given for.                *)
THEOREM SettingsTrustStays ==
  ASSUME Settings!SettingsFileAssumption
  PROVE  Settings!Spec => []Settings!TrustStaysWithEndpoint
BY SettingsInvariance, SettingsSettingsKeptOfIInv, PTL

(* The file holds what is in memory, and loading it again changes nothing.  *)
THEOREM SettingsRestartsLoadSame ==
  ASSUME Settings!SettingsFileAssumption
  PROVE  Settings!Spec => []Settings!RestartLoadsSame
BY SettingsInvariance, SettingsSettingsKeptOfIInv, PTL

\* What a load or an update is about to write has the profiles it was given.
LEMMA SettingsLoadKeeps ==
  ASSUME Settings!SettingsFileAssumption, SettingsIInv, Settings!Load,
         sfOp'.step = "persist", sfFile # sfMissing
  PROVE  Settings!Keeps(sfFile.list, sfOp'.value.list)
<1>1. sfOp.step = "load" /\ (Settings!Idle).step = "idle"
  BY DEF Settings!Load, Settings!Idle
<1>2. sfOp = [step |-> sfOp.step, sent |-> sfOp.sent, value |-> sfOp.value] /\ (Settings!Loaded).step # "persist"
  BY <1>1 DEF SettingsIInv, Settings!Loaded, Settings!Idle
<1>3. sfCached = None /\ sfFile # sfBroken /\ sfOp' = [sfOp EXCEPT !.step = "persist", !.value = Settings!Normalize(sfFile)]
  BY <1>1, <1>2 DEF Settings!Load
<1>4. sfOp'.value = Settings!Normalize(sfFile)
  BY <1>2, <1>3
<1>5. sfOp'.value.list = Settings!Connections(sfFile.list)
  BY <1>4 DEF Settings!Normalize
<1>6. SettingsProfiles(sfFile.list)
  BY <1>3, SettingsNormalFile DEF SettingsIInv, SettingsHonest
<1> QED BY <1>5, <1>6, SettingsConnectionsKeep

LEMMA SettingsPrepareKeeps ==
  ASSUME Settings!SettingsFileAssumption, SettingsIInv, Settings!Prepare,
         sfOp.sent # sfReset
  PROVE  Settings!Keeps(sfOp.sent, sfOp'.value.list)
<1> DEFINE next == Settings!Normalize([sfCached EXCEPT !.list = sfOp.sent])
           raw == [next EXCEPT !.list = Settings!ResetTrust(sfCached.list, @)]
<1>1. SettingsNormal(sfCached) /\ sfOp.sent \in sfLists \cup Settings!Edited
  BY DEF SettingsIInv, Settings!Prepare
<1>2. raw.list = Settings!ResetTrust(sfCached.list, Settings!Connections(sfOp.sent))
  BY <1>1 DEF SettingsNormal, Settings!Normalize
<1>3. sfOp'.value = Settings!Normalize(raw)
  BY DEF Settings!Prepare
<1> HIDE DEF raw
<1>4. sfOp'.value.list = Settings!Connections(raw.list)
  BY <1>3 DEF Settings!Normalize
<1> QED BY <1>1, <1>2, <1>4, SettingsUpdateKeeps DEF SettingsNormal

(* The profiles of a file that is loaded, and of a list that is sent, are   *)
(* kept with their endpoints, but for those without a valid id, without a   *)
(* host or with values that are not supported, and later ones of an id.     *)
THEOREM SettingsProfilesAreKept ==
  ASSUME Settings!SettingsFileAssumption
  PROVE  Settings!Spec => Settings!ProfilesKept
<1> DEFINE Held == sfOp'.step = "persist" =>
                     /\ sfOp.step = "load" /\ sfFile # sfMissing => Settings!Keeps(sfFile.list, sfOp'.value.list)
                     /\ sfOp.step = "prepare" /\ sfOp.sent # sfReset => Settings!Keeps(sfOp.sent, sfOp'.value.list)
<1>1. ASSUME SettingsIInv, [Settings!Next]_Settings!vars PROVE [Held]_Settings!vars
  <2>1. CASE Settings!WrittenByOthers
    BY <2>1, <1>1 DEF Settings!WrittenByOthers, SettingsIInv
  <2>2. CASE Settings!Begin
    BY <2>2 DEF Settings!Begin, Settings!Idle
  <2>3. CASE Settings!Load
    BY <1>1, <2>3, SettingsLoadKeeps DEF Settings!Load
  <2>4. CASE Settings!Prepare
    BY <1>1, <2>4, SettingsPrepareKeeps DEF Settings!Prepare
  <2>5. CASE Settings!Persist
    BY <2>5 DEF Settings!Persist
  <2>6. CASE Settings!Die
    BY <2>6 DEF Settings!Die, Settings!Idle
  <2>7. CASE UNCHANGED Settings!vars
    BY <2>7
  <2> QED BY <1>1, <2>1, <2>2, <2>3, <2>4, <2>5, <2>6, <2>7 DEF Settings!Next
<1> QED BY <1>1, SettingsInvariance, PTL DEF Settings!Spec, Settings!ProfilesKept

\* Until another build writes again, a file of a later version that was looked at stops the request.
SettingsOwnIInv == ~sfTouched /\ (sfCached # None \/ sfOp.step \in {"prepare", "persist"}) => ~Settings!Newer

LEMMA SettingsOwnNext ==
  ASSUME Settings!SettingsFileAssumption, SettingsIInv, SettingsOwnIInv,
         [Settings!Next]_Settings!vars
  PROVE  SettingsOwnIInv' /\ (Settings!Newer /\ ~sfTouched => sfFile' = sfFile \/ sfTouched')
<1>1. \A c : SettingsNormal(c) => ~(c.version > Settings!Version)
  BY SettingsNormalFields DEF Settings!Version
<1>2. CASE Settings!WrittenByOthers
  BY <1>2 DEF Settings!WrittenByOthers, SettingsOwnIInv
<1>3. CASE Settings!Begin
  BY <1>3 DEF Settings!Begin, SettingsOwnIInv, Settings!Newer, Settings!Idle
<1>4. CASE Settings!Load
  <2>1. sfFile' = sfFile
    BY <1>4 DEF Settings!Load
  <2>2. CASE sfCached # None
    <3>1. sfTouched' = sfTouched
      BY <1>4, <2>2 DEF Settings!Load
    <3> QED BY <2>1, <2>2, <3>1 DEF SettingsOwnIInv, Settings!Newer
  <2>3. CASE sfCached = None /\ (sfFile = sfBroken \/ Settings!Newer)
    BY <1>4, <2>1, <2>3 DEF Settings!Load, SettingsOwnIInv, Settings!Newer,
      Settings!Idle
  <2>4. CASE sfCached = None /\ ~Settings!Newer
    BY <2>1, <2>4 DEF SettingsOwnIInv, Settings!Newer
  <2> QED BY <1>4, <2>2, <2>3, <2>4 DEF Settings!Load
<1>5. CASE Settings!Prepare
  BY <1>5 DEF Settings!Prepare, SettingsOwnIInv, Settings!Newer
<1>6. CASE Settings!Persist
  <2>1. SettingsNormal(sfOp.value) /\ (~sfTouched => ~Settings!Newer)
    BY <1>6 DEF Settings!Persist, SettingsOwnIInv, SettingsIInv
  <2>2. CASE sfFile' = sfOp.value
    <3>1. ~Settings!Newer'
      BY <1>1, <2>1, <2>2 DEF Settings!Newer
    <3> QED BY <2>1, <3>1 DEF SettingsOwnIInv
  <2>3. CASE sfFile' = sfFile /\ sfOp' = Settings!Idle /\ UNCHANGED <<sfCached, sfTouched>>
    BY <2>1, <2>3 DEF SettingsOwnIInv, Settings!Newer, Settings!Idle
  <2> QED BY <1>6, <2>2, <2>3 DEF Settings!Persist
<1>7. CASE Settings!Die
  BY <1>7 DEF Settings!Die, SettingsOwnIInv, Settings!Idle
<1>8. CASE UNCHANGED Settings!vars
  BY <1>8 DEF Settings!vars, SettingsOwnIInv, Settings!Newer
<1> QED BY <1>2, <1>3, <1>4, <1>5, <1>6, <1>7, <1>8 DEF Settings!Next

(* A file of a later version that this process has looked at is left as it  *)
(* is, until another build writes again.                                    *)
THEOREM SettingsNewerIsKept ==
  ASSUME Settings!SettingsFileAssumption
  PROVE  Settings!Spec => Settings!NewerKept
<1>1. Settings!Init => SettingsOwnIInv
  BY DEF Settings!Init, SettingsOwnIInv, Settings!Idle
<1>2. SettingsIInv /\ SettingsOwnIInv /\ [Settings!Next]_Settings!vars => SettingsOwnIInv' /\ [Settings!Newer /\ ~sfTouched => sfFile' = sfFile \/ sfTouched']_Settings!vars
  BY SettingsOwnNext
<1> QED BY <1>1, <1>2, SettingsInvariance, PTL DEF Settings!Spec, Settings!NewerKept

-----------------------------------------------------------------------------
(* Proofs about Watches for every set of panels and paths.                   *)
FoldersOrders == {"watch", "unwatch"}

FoldersTypes ==
  /\ foConsumers \in [foPaths -> SUBSET foPanels]
  /\ foRequests \in [foPaths -> Seq(FoldersOrders)]
  /\ foRecord \in Nat /\ foCreated \in Nat /\ foRemovers \in Nat
  /\ foWatched \subseteq foPaths /\ foTimer \in [foPaths -> {"off", "running", "due"}]
  /\ foLost \in [foPaths -> {"no", "refused", "removed"}]

FoldersRecordHolds == foRecord # 0 <=> foWatched # {}

\* What the last request of a path asks for, or what the registry has when
\* none waits, is what its panels want, unless the watch was lost.
FoldersWanted(l) ==
  IF foRequests[l] = <<>>
  THEN /\ l \in foWatched => foConsumers[l] # {}
       /\ foConsumers[l] # {} => l \in foWatched \/ foLost[l] # "no"
  ELSE foRequests[l][Len(foRequests[l])] = "watch" <=> foConsumers[l] # {}

FoldersWantedOK == \A l \in foPaths : FoldersWanted(l)

FoldersIInv == FoldersTypes /\ FoldersRecordHolds /\ FoldersWantedOK

\* What a queue ends with: an order that is added, and the same after the first is taken.
LEMMA FoldersAddedLast ==
  ASSUME NEW s \in Seq(FoldersOrders), NEW x \in FoldersOrders
  PROVE  Append(s, x) # <<>> /\ Append(s, x)[Len(Append(s, x))] = x
  OBVIOUS

LEMMA FoldersNoneLong == ASSUME NEW S, NEW t \in Seq(S), t = <<>> PROVE Len(t) = 0
  OBVIOUS

LEMMA FoldersTakenFirst ==
  ASSUME NEW s \in Seq(FoldersOrders), s # <<>>
  PROVE  /\ Tail(s) \in Seq(FoldersOrders)
         /\ Tail(s) = <<>> => s[Len(s)] = Head(s)
         /\ Tail(s) # <<>> => Tail(s)[Len(Tail(s))] = s[Len(s)]
<1>1. Tail(s) \in Seq(FoldersOrders) /\ Len(Tail(s)) = Len(s) - 1 /\ Len(s) \in Nat \ {0}
  OBVIOUS
<1>0. Head(s) = s[1]
  OBVIOUS
<1>2. ASSUME Tail(s) = <<>> PROVE s[Len(s)] = Head(s)
  <2>1. Len(Tail(s)) = 0
    BY <1>1, <1>2, FoldersNoneLong
  <2>2. Len(s) \in Nat /\ 0 = Len(s) - 1
    BY <1>1, <2>1
  <2>3. Len(s) = 1
    BY <2>2
  <2> QED BY <1>0, <2>3
<1>3. ASSUME Tail(s) # <<>> PROVE Tail(s)[Len(Tail(s))] = s[Len(s)]
  <2>1. Len(Tail(s)) \in 1..Len(Tail(s)) /\ Len(Tail(s)) + 1 = Len(s)
    BY <1>1, <1>3
  <2> QED BY <1>1, <2>1
<1> QED BY <1>1, <1>2, <1>3

LEMMA FoldersInitHolds == ASSUME Folders!WatchAssumption PROVE Folders!Init => FoldersIInv
  BY DEF Folders!Init, FoldersIInv, FoldersTypes, FoldersRecordHolds, FoldersWantedOK,
    FoldersWanted, FoldersOrders

LEMMA FoldersSubscribeHolds ==
  ASSUME FoldersIInv, NEW l \in foPaths, NEW p \in foPanels, Folders!Subscribe(l, p)
  PROVE  FoldersIInv'
<1>1. foConsumers' = [foConsumers EXCEPT ![l] = @ \cup {p}]
      /\ UNCHANGED <<foTimer, foRecord, foWatched, foRemovers, foCreated, foLost>>
  BY DEF Folders!Subscribe
<1>2. CASE foConsumers[l] = {}
  <2>1. foRequests' = [foRequests EXCEPT ![l] = Append(@, "watch")]
    BY <1>2 DEF Folders!Subscribe
  <2>2. foRequests[l] \in Seq(FoldersOrders) /\ "watch" \in FoldersOrders
    BY DEF FoldersIInv, FoldersTypes, FoldersOrders
  <2>3. foRequests'[l] # <<>> /\ foRequests'[l][Len(foRequests'[l])] = "watch" /\ foConsumers'[l] # {}
    BY <1>1, <2>1, <2>2, FoldersAddedLast DEF FoldersIInv, FoldersTypes
  <2>4. FoldersTypes'
    BY <1>1, <2>1, <2>2 DEF FoldersIInv, FoldersTypes
  <2>5. FoldersWantedOK'
    BY <1>1, <2>1, <2>3 DEF FoldersIInv, FoldersWantedOK, FoldersWanted, FoldersTypes
  <2> QED BY <1>1, <2>4, <2>5 DEF FoldersIInv, FoldersRecordHolds
<1>3. CASE foConsumers[l] # {}
  <2>1. foRequests' = foRequests
    BY <1>3 DEF Folders!Subscribe
  <2> QED BY <1>1, <1>3, <2>1 DEF FoldersIInv, FoldersTypes, FoldersRecordHolds,
      FoldersWantedOK, FoldersWanted
<1> QED BY <1>2, <1>3

LEMMA FoldersUnsubscribeHolds ==
  ASSUME FoldersIInv, NEW l \in foPaths, NEW p \in foPanels, Folders!Unsubscribe(l, p)
  PROVE  FoldersIInv'
<1>1. p \in foConsumers[l] /\ foConsumers' = [foConsumers EXCEPT ![l] = @ \ {p}]
      /\ UNCHANGED <<foRecord, foWatched, foRemovers, foCreated, foLost>>
  BY DEF Folders!Unsubscribe
<1>2. CASE foConsumers[l] = {p}
  <2>1. foRequests' = [foRequests EXCEPT ![l] = Append(@, "unwatch")] /\ foTimer' = [foTimer EXCEPT ![l] = "off"]
    BY <1>2 DEF Folders!Unsubscribe
  <2>2. foRequests[l] \in Seq(FoldersOrders) /\ "unwatch" \in FoldersOrders
    BY DEF FoldersIInv, FoldersTypes, FoldersOrders
  <2>3. /\ foRequests'[l] # <<>> /\ foRequests'[l][Len(foRequests'[l])] = "unwatch"
        /\ foConsumers'[l] = {}
    BY <1>1, <1>2, <2>1, <2>2, FoldersAddedLast DEF FoldersIInv, FoldersTypes
  <2>4. FoldersTypes'
    BY <1>1, <2>1, <2>2 DEF FoldersIInv, FoldersTypes
  <2>5. FoldersWantedOK'
    BY <1>1, <2>1, <2>3 DEF FoldersIInv, FoldersWantedOK, FoldersWanted, FoldersTypes
  <2> QED BY <1>1, <2>4, <2>5 DEF FoldersIInv, FoldersRecordHolds
<1>3. CASE foConsumers[l] # {p}
  <2>1. foRequests' = foRequests /\ foTimer' = foTimer
    BY <1>3 DEF Folders!Unsubscribe
  <2>2. foConsumers'[l] # {}
    BY <1>1, <1>3 DEF FoldersIInv, FoldersTypes
  <2> QED BY <1>1, <2>1, <2>2 DEF FoldersIInv, FoldersTypes, FoldersRecordHolds,
      FoldersWantedOK, FoldersWanted
<1> QED BY <1>2, <1>3

\* What the registry does for one path leaves the wishes for the others alone.
LEMMA FoldersTakenHolds ==
  ASSUME FoldersIInv, NEW l \in foPaths, foRequests[l] # <<>>,
         foRequests' = [foRequests EXCEPT ![l] = Tail(@)],
         l \in foWatched' => Head(foRequests[l]) = "watch",
         Head(foRequests[l]) = "watch" => l \in foWatched' \/ foLost'[l] # "no",
         \A m \in foPaths \ {l} : (m \in foWatched' <=> m \in foWatched) /\ foLost'[m] = foLost[m],
         UNCHANGED foConsumers
  PROVE  FoldersWantedOK'
<1>1. foRequests[l] \in Seq(FoldersOrders) /\ foRequests'[l] = Tail(foRequests[l])
  BY DEF FoldersIInv, FoldersTypes
<1>2. /\ Tail(foRequests[l]) = <<>> => foRequests[l][Len(foRequests[l])] = Head(foRequests[l])
      /\ Tail(foRequests[l]) # <<>> =>
           Tail(foRequests[l])[Len(Tail(foRequests[l]))] = foRequests[l][Len(foRequests[l])]
  BY <1>1, FoldersTakenFirst
<1>3. FoldersWanted(l)'
  BY <1>1, <1>2 DEF FoldersIInv, FoldersWantedOK, FoldersWanted
<1>4. ASSUME NEW m \in foPaths \ {l} PROVE FoldersWanted(m)'
  BY DEF FoldersIInv, FoldersTypes, FoldersWantedOK, FoldersWanted
<1> QED BY <1>3, <1>4 DEF FoldersWantedOK

LEMMA FoldersWatchHolds ==
  ASSUME FoldersIInv, NEW l \in foPaths, Folders!Watch(l)
  PROVE  FoldersIInv'
<1>1. foRequests[l] # <<>> /\ Head(foRequests[l]) = "watch"
      /\ foRequests' = [foRequests EXCEPT ![l] = Tail(@)]
      /\ UNCHANGED <<foConsumers, foTimer, foRemovers>>
  BY DEF Folders!Watch
<1>2. Tail(foRequests[l]) \in Seq(FoldersOrders)
  BY <1>1, FoldersTakenFirst DEF FoldersIInv, FoldersTypes
<1>3. CASE foWatched' = foWatched \cup {l} /\ foLost' = [foLost EXCEPT ![l] = "no"]
           /\ (IF foRecord # 0 THEN UNCHANGED <<foRecord, foCreated>>
               ELSE foCreated' = foCreated + 1 /\ foRecord' = foCreated + 1)
  <2>1. foRecord' \in Nat \ {0} /\ foCreated' \in Nat
    BY <1>3 DEF FoldersIInv, FoldersTypes
  <2>2. FoldersTypes'
    BY <1>1, <1>2, <1>3, <2>1 DEF FoldersIInv, FoldersTypes
  <2>3. \A m \in foPaths \ {l} : (m \in foWatched' <=> m \in foWatched) /\ foLost'[m] = foLost[m]
    BY <1>3 DEF FoldersIInv, FoldersTypes
  <2>4. FoldersWantedOK'
    BY <1>1, <1>3, <2>3, FoldersTakenHolds
  <2> QED BY <1>3, <2>1, <2>2, <2>4 DEF FoldersIInv, FoldersRecordHolds
<1>4. CASE foLost' = [foLost EXCEPT ![l] = "refused"] /\ UNCHANGED <<foRecord, foWatched, foCreated>>
  <2>1. FoldersTypes'
    BY <1>1, <1>2, <1>4 DEF FoldersIInv, FoldersTypes
  <2>2. foLost'[l] # "no" /\ \A m \in foPaths \ {l} : (m \in foWatched' <=> m \in foWatched) /\ foLost'[m] = foLost[m]
    BY <1>4 DEF FoldersIInv, FoldersTypes
  <2>3. FoldersWantedOK'
    BY <1>1, <1>4, <2>2, FoldersTakenHolds
  <2> QED BY <1>4, <2>1, <2>3 DEF FoldersIInv, FoldersRecordHolds
<1> QED BY <1>3, <1>4 DEF Folders!Watch

LEMMA FoldersUnwatchHolds ==
  ASSUME FoldersIInv, NEW l \in foPaths, Folders!Unwatch(l)
  PROVE  FoldersIInv'
<1>1. foRequests[l] # <<>> /\ Head(foRequests[l]) = "unwatch"
      /\ foRequests' = [foRequests EXCEPT ![l] = Tail(@)] /\ foWatched' = foWatched \ {l}
      /\ foRecord' = (IF foWatched \subseteq {l} THEN 0 ELSE foRecord)
      /\ foLost' = [foLost EXCEPT ![l] = "no"]
      /\ UNCHANGED <<foConsumers, foTimer, foRemovers, foCreated>>
  BY DEF Folders!Unwatch, Folders!Leave
<1>2. Tail(foRequests[l]) \in Seq(FoldersOrders)
  BY <1>1, FoldersTakenFirst DEF FoldersIInv, FoldersTypes
<1>3. FoldersTypes'
  BY <1>1, <1>2 DEF FoldersIInv, FoldersTypes
<1>4. \A m \in foPaths \ {l} : (m \in foWatched' <=> m \in foWatched) /\ foLost'[m] = foLost[m]
  BY <1>1 DEF FoldersIInv, FoldersTypes
<1>5. FoldersWantedOK'
  BY <1>1, <1>4, FoldersTakenHolds
<1>6. FoldersRecordHolds'
  BY <1>1 DEF FoldersIInv, FoldersRecordHolds
<1> QED BY <1>3, <1>5, <1>6 DEF FoldersIInv

LEMMA FoldersCallbackHolds ==
  ASSUME FoldersIInv, NEW c \in foCallbacks, Folders!Callback(c)
  PROVE  FoldersIInv'
  BY DEF Folders!Callback, FoldersIInv, FoldersTypes, FoldersRecordHolds,
    FoldersWantedOK, FoldersWanted

LEMMA FoldersSystemHolds ==
  ASSUME FoldersIInv, Folders!Change \/ Folders!Fail
  PROVE  FoldersIInv'
  BY DEF Folders!Change, Folders!Fail, FoldersIInv, FoldersTypes, FoldersRecordHolds,
    FoldersWantedOK, FoldersWanted

\* Every path that the record held is told apart from then on.
LEMMA FoldersRemoveHolds == ASSUME FoldersIInv, Folders!Remove PROVE FoldersIInv'
<1>1. /\ foRemovers' \in Nat /\ foRecord' = 0 /\ foWatched' = {}
      /\ foLost' = [l \in foPaths |-> IF l \in foWatched THEN "removed" ELSE foLost[l]]
      /\ UNCHANGED <<foConsumers, foRequests, foTimer, foCreated>>
  BY DEF Folders!Remove, FoldersIInv, FoldersTypes
<1>2. foLost' \in [foPaths -> {"no", "refused", "removed"}]
  BY <1>1 DEF FoldersIInv, FoldersTypes
<1>3. ASSUME NEW l \in foPaths PROVE FoldersWanted(l)'
  BY <1>1 DEF FoldersIInv, FoldersWantedOK, FoldersWanted
<1> QED BY <1>1, <1>2, <1>3 DEF FoldersIInv, FoldersTypes, FoldersRecordHolds,
    FoldersWantedOK

LEMMA FoldersWindowHolds ==
  ASSUME FoldersIInv, NEW l \in foPaths,
         Folders!EventArrives(l) \/ Folders!Elapse(l) \/ Folders!Refresh(l)
  PROVE  FoldersIInv'
<1>1. foTimer' \in [foPaths -> {"off", "running", "due"}]
  BY DEF Folders!EventArrives, Folders!Elapse, Folders!Refresh, FoldersIInv,
    FoldersTypes
<1> QED BY <1>1 DEF Folders!EventArrives, Folders!Elapse, Folders!Refresh, FoldersIInv,
    FoldersTypes, FoldersRecordHolds, FoldersWantedOK, FoldersWanted

LEMMA FoldersInvariance ==
  ASSUME Folders!WatchAssumption
  PROVE  Folders!Spec => []FoldersIInv
<1>1. FoldersIInv /\ [Folders!Next]_Folders!vars => FoldersIInv'
  <2> SUFFICES ASSUME FoldersIInv, [Folders!Next]_Folders!vars PROVE FoldersIInv'
    OBVIOUS
  <2>1. CASE UNCHANGED Folders!vars
    BY <2>1 DEF Folders!vars, FoldersIInv, FoldersTypes, FoldersRecordHolds,
      FoldersWantedOK, FoldersWanted
  <2>2. CASE Folders!Next
    BY <2>2, FoldersSubscribeHolds, FoldersUnsubscribeHolds, FoldersWatchHolds,
      FoldersUnwatchHolds, FoldersCallbackHolds, FoldersSystemHolds, FoldersRemoveHolds,
      FoldersWindowHolds DEF Folders!Next
  <2> QED BY <2>1, <2>2
<1> QED BY FoldersInitHolds, <1>1, PTL DEF Folders!Spec

(* The registries of the window and of the program have their types.        *)
THEOREM FoldersTypeCorrect ==
  ASSUME Folders!WatchAssumption
  PROVE  Folders!Spec => []Folders!TypeOK
<1>1. FoldersIInv => Folders!TypeOK
  BY DEF FoldersIInv, FoldersTypes, Folders!TypeOK, FoldersOrders
<1> QED BY FoldersInvariance, <1>1, PTL

(* Once its requests are through, the native registry holds a path exactly  *)
(* while some panel shows it, unless its request to watch was refused or    *)
(* the record was removed behind a failure, and one watcher exactly while   *)
(* it holds a path.                                                         *)
THEOREM FoldersWatchesFollow ==
  ASSUME Folders!WatchAssumption
  PROVE  Folders!Spec => []Folders!WatchedIffShown
<1>1. FoldersIInv => Folders!WatchedIffShown
  BY DEF FoldersIInv, Folders!WatchedIffShown, FoldersWantedOK, FoldersWanted,
    FoldersRecordHolds
<1> QED BY FoldersInvariance, <1>1, PTL

-----------------------------------------------------------------------------
(* Proofs about GitWatch for every set of viewers and directories.           *)
RepositoryOrders == {"watch", "unwatch"}
RepositorySteps == {"none", "create", "loop", "register", "over"}
RepositoryChannels == {"empty", "change", "error"}
RepositoryMonitors ==
  [pc : RepositorySteps, stopped : BOOLEAN, dirty : BOOLEAN, desired : SUBSET reDirectories,
   watched : SUBSET reDirectories, live : SUBSET reDirectories, channel : RepositoryChannels]

RepositoryTypes ==
  /\ reConsumers \subseteq rePanels /\ reRequests \in Seq(RepositoryOrders)
  /\ reRecord \in 0..reMaxThreads
  /\ reThread \in [Repository!Threads -> RepositoryMonitors]
  /\ reDirs \subseteq reDirectories /\ reRoot \in reDirs

\* The system watches no directory that the thread does not know of.
RepositoryLiveKnown == \A t \in Repository!Threads : reThread[t].live \subseteq reThread[t].watched

\* What the last request asks for, or what the registry has when none waits,
\* is what the viewers want, unless the last answer was an error.
RepositoryWanted ==
  IF reRequests = <<>>
  THEN /\ reRecord # 0 => reConsumers # {}
       /\ reConsumers # {} => reRecord # 0 \/ reRefused
  ELSE reRequests[Len(reRequests)] = "watch" <=> reConsumers # {}

RepositoryGoing(r) == r.pc \notin {"none", "over"} /\ ~r.stopped
RepositoryOneGoes == \A t \in Repository!Threads : RepositoryGoing(reThread[t]) => t = reRecord

RepositoryIInv == RepositoryTypes /\ RepositoryLiveKnown /\ RepositoryWanted /\ RepositoryOneGoes

\* What a queue ends with: an order that is added, and the same after the first is taken.
LEMMA RepositoryAddedLast ==
  ASSUME NEW s \in Seq(RepositoryOrders), NEW x \in RepositoryOrders
  PROVE  Append(s, x) # <<>> /\ Append(s, x)[Len(Append(s, x))] = x
  OBVIOUS

LEMMA RepositoryNoneLong == ASSUME NEW S, NEW t \in Seq(S), t = <<>> PROVE Len(t) = 0
  OBVIOUS

LEMMA RepositoryTakenFirst ==
  ASSUME NEW s \in Seq(RepositoryOrders), s # <<>>
  PROVE  /\ Tail(s) \in Seq(RepositoryOrders)
         /\ Tail(s) = <<>> => s[Len(s)] = Head(s)
         /\ Tail(s) # <<>> => Tail(s)[Len(Tail(s))] = s[Len(s)]
<1>1. Tail(s) \in Seq(RepositoryOrders) /\ Len(Tail(s)) = Len(s) - 1 /\ Len(s) \in Nat \ {0}
  OBVIOUS
<1>2. Head(s) = s[1]
  OBVIOUS
<1>3. ASSUME Tail(s) = <<>> PROVE s[Len(s)] = Head(s)
  <2>1. Len(Tail(s)) = 0
    BY <1>1, <1>3, RepositoryNoneLong
  <2>2. Len(s) \in Nat /\ 0 = Len(s) - 1
    BY <1>1, <2>1
  <2>3. Len(s) = 1
    BY <2>2
  <2> QED BY <1>2, <2>3
<1>4. ASSUME Tail(s) # <<>> PROVE Tail(s)[Len(Tail(s))] = s[Len(s)]
  <2>1. Len(Tail(s)) \in 1..Len(Tail(s)) /\ Len(Tail(s)) + 1 = Len(s)
    BY <1>1, <1>4
  <2> QED BY <1>1, <2>1
<1> QED BY <1>1, <1>3, <1>4

LEMMA RepositoryFreshTyped == Repository!Fresh \in RepositoryMonitors /\ Repository!Fresh.live = {} /\ Repository!Fresh.watched = {}
  BY DEF Repository!Fresh, RepositoryMonitors, RepositorySteps, RepositoryChannels

LEMMA RepositoryInitHolds ==
  ASSUME Repository!GitAssumption
  PROVE  Repository!Init => RepositoryIInv
<1> SUFFICES ASSUME Repository!Init PROVE RepositoryIInv
  OBVIOUS
<1>1. reMaxThreads \in Nat /\ 0 \in 0..reMaxThreads
  BY DEF Repository!GitAssumption
<1>2. reThread = [t \in Repository!Threads |-> Repository!Fresh] /\ reConsumers = {} /\ reRequests = <<>> /\ reRecord = 0
      /\ reDirs = {reRoot}
  BY DEF Repository!Init
<1>3. RepositoryTypes
  BY <1>1, <1>2, RepositoryFreshTyped DEF RepositoryTypes, Repository!GitAssumption,
    RepositoryOrders
<1>4. RepositoryLiveKnown
  BY <1>2, RepositoryFreshTyped DEF RepositoryLiveKnown
<1>5. RepositoryOneGoes
  BY <1>2 DEF RepositoryOneGoes, RepositoryGoing, Repository!Fresh
<1> QED BY <1>2, <1>3, <1>4, <1>5 DEF RepositoryIInv, RepositoryWanted

\* A step of one thread.
LEMMA RepositoryPutHolds ==
  ASSUME RepositoryIInv, NEW t \in Repository!Threads, NEW r \in RepositoryMonitors,
         Repository!Put(t, r),
         r.live \subseteq r.watched, RepositoryGoing(r) => RepositoryGoing(reThread[t]),
         UNCHANGED <<reRecord, reRequests, reConsumers, reRefused, reDirs>>
  PROVE  RepositoryIInv'
<1>1. reThread \in [Repository!Threads -> RepositoryMonitors] /\ reThread' = [reThread EXCEPT ![t] = r]
  BY DEF RepositoryIInv, RepositoryTypes, Repository!Put
<1>2. reThread' \in [Repository!Threads -> RepositoryMonitors] /\ reThread'[t] = r
      /\ \A u \in Repository!Threads \ {t} : reThread'[u] = reThread[u]
  BY <1>1
<1>3. RepositoryTypes'
  BY <1>2 DEF RepositoryIInv, RepositoryTypes
<1>4. RepositoryLiveKnown'
  BY <1>2 DEF RepositoryIInv, RepositoryLiveKnown
<1>5. RepositoryOneGoes'
  BY <1>2 DEF RepositoryIInv, RepositoryOneGoes
<1>6. RepositoryWanted'
  BY DEF RepositoryIInv, RepositoryWanted
<1> QED BY <1>3, <1>4, <1>5, <1>6 DEF RepositoryIInv

\* A step of the window that leaves the registry and the threads alone.
LEMMA RepositoryWindowHolds ==
  ASSUME RepositoryIInv, UNCHANGED <<reRecord, reRefused, reThread, reDirs>>,
         reConsumers' \subseteq rePanels, reRequests' \in Seq(RepositoryOrders), RepositoryWanted'
  PROVE  RepositoryIInv'
  BY DEF RepositoryIInv, RepositoryTypes, RepositoryLiveKnown, RepositoryOneGoes

LEMMA RepositorySubscribeHolds ==
  ASSUME RepositoryIInv, NEW p \in rePanels, Repository!Subscribe(p)
  PROVE  RepositoryIInv'
<1>1. UNCHANGED <<reRecord, reRefused, reThread, reDirs>> /\ reConsumers' = reConsumers \cup {p}
      /\ reRequests' = IF reConsumers = {} THEN Append(reRequests, "watch") ELSE reRequests
  BY DEF Repository!Subscribe
<1>2. reRequests \in Seq(RepositoryOrders) /\ "watch" \in RepositoryOrders /\ reConsumers \subseteq rePanels
  BY DEF RepositoryIInv, RepositoryTypes, RepositoryOrders
<1>3. RepositoryWanted'
  <2>1. CASE reConsumers = {}
    BY <1>1, <1>2, <2>1, RepositoryAddedLast DEF RepositoryWanted
  <2>2. CASE reConsumers # {}
    BY <1>1, <2>2 DEF RepositoryIInv, RepositoryWanted
  <2> QED BY <2>1, <2>2
<1> QED BY <1>1, <1>2, <1>3, RepositoryWindowHolds

LEMMA RepositoryUnsubscribeHolds ==
  ASSUME RepositoryIInv, NEW p \in rePanels, Repository!Unsubscribe(p)
  PROVE  RepositoryIInv'
<1>1. UNCHANGED <<reRecord, reRefused, reThread, reDirs>> /\ reConsumers' = reConsumers \ {p} /\ p \in reConsumers
      /\ reRequests' = IF reConsumers = {p} THEN Append(reRequests, "unwatch") ELSE reRequests
  BY DEF Repository!Unsubscribe
<1>2. reRequests \in Seq(RepositoryOrders) /\ "unwatch" \in RepositoryOrders /\ reConsumers \subseteq rePanels
  BY DEF RepositoryIInv, RepositoryTypes, RepositoryOrders
<1>3. RepositoryWanted'
  <2>1. CASE reConsumers = {p}
    BY <1>1, <1>2, <2>1, RepositoryAddedLast DEF RepositoryWanted
  <2>2. CASE reConsumers # {p}
    BY <1>1, <2>2 DEF RepositoryIInv, RepositoryWanted
  <2> QED BY <2>1, <2>2
<1> QED BY <1>1, <1>2, <1>3, RepositoryWindowHolds

LEMMA RepositoryFocusHolds == ASSUME RepositoryIInv, Repository!Focus PROVE RepositoryIInv'
<1>1. UNCHANGED <<reRecord, reRefused, reThread, reDirs, reConsumers>> /\ reConsumers # {}
      /\ reRequests' = Append(reRequests, "watch")
  BY DEF Repository!Focus
<1>2. reRequests \in Seq(RepositoryOrders) /\ "watch" \in RepositoryOrders /\ reConsumers \subseteq rePanels
  BY DEF RepositoryIInv, RepositoryTypes, RepositoryOrders
<1>3. RepositoryWanted'
  BY <1>1, <1>2, RepositoryAddedLast DEF RepositoryWanted
<1> QED BY <1>1, <1>2, <1>3, RepositoryWindowHolds

\* What the registry does with a request answers it.
LEMMA RepositoryTakenWanted ==
  ASSUME RepositoryIInv, reRequests # <<>>, reRequests' = Tail(reRequests),
         UNCHANGED reConsumers,
         reRecord' # 0 => Head(reRequests) = "watch",
         Head(reRequests) = "watch" => reRecord' # 0 \/ reRefused'
  PROVE  RepositoryWanted' /\ reRequests' \in Seq(RepositoryOrders)
<1>1. reRequests \in Seq(RepositoryOrders)
  BY DEF RepositoryIInv, RepositoryTypes
<1>2. /\ Tail(reRequests) \in Seq(RepositoryOrders)
      /\ Tail(reRequests) = <<>> => reRequests[Len(reRequests)] = Head(reRequests)
      /\ Tail(reRequests) # <<>> =>
           Tail(reRequests)[Len(Tail(reRequests))] = reRequests[Len(reRequests)]
  BY <1>1, RepositoryTakenFirst
<1>3. reRequests[Len(reRequests)] = "watch" <=> reConsumers # {}
  BY DEF RepositoryIInv, RepositoryWanted
<1> QED BY <1>2, <1>3 DEF RepositoryWanted

LEMMA RepositoryWatchHolds ==
  ASSUME Repository!GitAssumption, RepositoryIInv, Repository!Watch
  PROVE  RepositoryIInv'
<1>1. reRequests # <<>> /\ Head(reRequests) = "watch" /\ reRequests' = Tail(reRequests)
      /\ UNCHANGED <<reConsumers, reDirs>>
  BY DEF Repository!Watch
<1>2. reThread \in [Repository!Threads -> RepositoryMonitors] /\ reRecord \in 0..reMaxThreads
      /\ reDirs \subseteq reDirectories /\ reRoot \in reDirs /\ reConsumers \subseteq rePanels
  BY DEF RepositoryIInv, RepositoryTypes
<1>3. CASE Repository!HasMonitor
  <2>1. reRecord' = reRecord /\ Repository!Put(reRecord, [reThread[reRecord] EXCEPT !.dirty = TRUE])
        /\ reRecord \in Repository!Threads
    BY <1>3 DEF Repository!Watch, Repository!HasMonitor
  <2>2. reRecord' # 0
    BY <2>1 DEF Repository!Threads
  <2> DEFINE r == [reThread[reRecord] EXCEPT !.dirty = TRUE]
  <2>3. r \in RepositoryMonitors /\ r.live = reThread[reRecord].live /\ r.watched = reThread[reRecord].watched
        /\ r.pc = reThread[reRecord].pc /\ r.stopped = reThread[reRecord].stopped
    BY <1>2, <2>1 DEF RepositoryMonitors
  <2>4. reThread' = [reThread EXCEPT ![reRecord] = r]
    BY <2>1 DEF Repository!Put
  <2> HIDE DEF r
  <2>5. reThread' \in [Repository!Threads -> RepositoryMonitors] /\ reThread'[reRecord] = r
        /\ \A u \in Repository!Threads \ {reRecord} : reThread'[u] = reThread[u]
    BY <1>2, <2>1, <2>3, <2>4
  <2>6. RepositoryWanted' /\ reRequests' \in Seq(RepositoryOrders)
    BY <1>1, <2>2, RepositoryTakenWanted
  <2>7. RepositoryTypes'
    BY <1>1, <1>2, <2>1, <2>5, <2>6 DEF RepositoryTypes
  <2>8. RepositoryLiveKnown'
    BY <2>3, <2>5 DEF RepositoryIInv, RepositoryLiveKnown
  <2>9. RepositoryOneGoes'
    BY <2>1, <2>5 DEF RepositoryIInv, RepositoryOneGoes
  <2> QED BY <2>6, <2>7, <2>8, <2>9 DEF RepositoryIInv
<1>4. CASE ~Repository!HasMonitor
  <2>1. PICK t \in Repository!Unused : reRecord' = t /\ Repository!Put(t, [Repository!Fresh EXCEPT !.pc = "create"])
    BY <1>4 DEF Repository!Watch
  <2>2. t \in Repository!Threads /\ reRecord' # 0 /\ reRecord' \in 0..reMaxThreads
    BY <2>1 DEF Repository!Unused, Repository!Threads, Repository!GitAssumption
  <2> DEFINE r == [Repository!Fresh EXCEPT !.pc = "create"]
  <2>3. r \in RepositoryMonitors /\ r.live \subseteq r.watched
    BY RepositoryFreshTyped DEF RepositoryMonitors, RepositorySteps
  <2>4. reThread' = [reThread EXCEPT ![t] = r]
    BY <2>1 DEF Repository!Put
  <2> HIDE DEF r
  <2>5. reThread' \in [Repository!Threads -> RepositoryMonitors] /\ reThread'[t] = r
        /\ \A u \in Repository!Threads \ {t} : reThread'[u] = reThread[u]
    BY <1>2, <2>2, <2>3, <2>4
  <2>6. RepositoryWanted' /\ reRequests' \in Seq(RepositoryOrders)
    BY <1>1, <2>2, RepositoryTakenWanted
  <2>7. RepositoryTypes'
    BY <1>1, <1>2, <2>2, <2>5, <2>6 DEF RepositoryTypes
  <2>8. RepositoryLiveKnown'
    BY <2>3, <2>5 DEF RepositoryIInv, RepositoryLiveKnown
  <2>9. \A u \in Repository!Threads : ~RepositoryGoing(reThread[u])
    BY <1>4 DEF RepositoryIInv, RepositoryOneGoes, RepositoryGoing,
      Repository!HasMonitor
  <2>10. RepositoryOneGoes'
    BY <2>1, <2>5, <2>9 DEF RepositoryOneGoes
  <2> QED BY <2>6, <2>7, <2>8, <2>10 DEF RepositoryIInv
<1> QED BY <1>3, <1>4

\* An error leaves the record, or removes that of a thread that has ended.
LEMMA RepositoryRefuseHolds ==
  ASSUME Repository!GitAssumption, RepositoryIInv, Repository!Refuse
  PROVE  RepositoryIInv'
<1>1. reRequests # <<>> /\ Head(reRequests) = "watch" /\ reRequests' = Tail(reRequests) /\ reRefused'
      /\ UNCHANGED <<reConsumers, reThread, reDirs>>
      /\ (reRecord' = reRecord \/ (~Repository!HasMonitor /\ reRecord' = 0))
  BY DEF Repository!Refuse
<1>2. RepositoryWanted' /\ reRequests' \in Seq(RepositoryOrders)
  BY <1>1, RepositoryTakenWanted
<1>3. RepositoryTypes'
  BY <1>1, <1>2 DEF RepositoryIInv, RepositoryTypes, Repository!GitAssumption
<1>4. RepositoryOneGoes'
  BY <1>1 DEF RepositoryIInv, RepositoryOneGoes, RepositoryGoing, Repository!HasMonitor
<1> QED BY <1>1, <1>2, <1>3, <1>4 DEF RepositoryIInv, RepositoryLiveKnown

LEMMA RepositoryUnwatchHolds ==
  ASSUME Repository!GitAssumption, RepositoryIInv, Repository!Unwatch
  PROVE  RepositoryIInv'
<1>1. reRequests # <<>> /\ Head(reRequests) = "unwatch" /\ reRequests' = Tail(reRequests)
      /\ reRecord' = 0 /\ UNCHANGED <<reConsumers, reDirs>>
  BY DEF Repository!Unwatch
<1>2. reThread \in [Repository!Threads -> RepositoryMonitors] /\ reRecord \in 0..reMaxThreads
      /\ reDirs \subseteq reDirectories /\ reRoot \in reDirs /\ reConsumers \subseteq rePanels
  BY DEF RepositoryIInv, RepositoryTypes
<1>3. RepositoryWanted' /\ reRequests' \in Seq(RepositoryOrders)
  BY <1>1, RepositoryTakenWanted
<1>4. reRecord' \in 0..reMaxThreads
  BY <1>1 DEF Repository!GitAssumption
<1>5. /\ reThread' \in [Repository!Threads -> RepositoryMonitors]
      /\ \A u \in Repository!Threads : /\ reThread'[u].live = reThread[u].live
                                       /\ reThread'[u].watched = reThread[u].watched
                                       /\ ~RepositoryGoing(reThread'[u])
  <2>1. CASE reRecord = 0
    <3>1. reThread' = reThread
      BY <2>1 DEF Repository!Unwatch
    <3>2. \A u \in Repository!Threads : u # 0
      BY DEF Repository!Threads
    <3> QED BY <1>2, <2>1, <3>1, <3>2 DEF RepositoryIInv, RepositoryOneGoes
  <2>2. CASE reRecord # 0
    <3> DEFINE r == [reThread[reRecord] EXCEPT !.stopped = TRUE]
    <3>1. reThread' = [reThread EXCEPT ![reRecord] = r] /\ reRecord \in Repository!Threads
      BY <1>2, <2>2 DEF Repository!Unwatch, Repository!Put, Repository!Threads,
        Repository!GitAssumption
    <3>2. r \in RepositoryMonitors /\ r.live = reThread[reRecord].live
          /\ r.watched = reThread[reRecord].watched /\ ~RepositoryGoing(r)
      BY <1>2, <3>1 DEF RepositoryMonitors, RepositoryGoing
    <3> HIDE DEF r
    <3>3. reThread' \in [Repository!Threads -> RepositoryMonitors] /\ reThread'[reRecord] = r
          /\ \A u \in Repository!Threads \ {reRecord} : reThread'[u] = reThread[u]
      BY <1>2, <3>1, <3>2
    <3> QED BY <3>2, <3>3 DEF RepositoryIInv, RepositoryOneGoes
  <2> QED BY <2>1, <2>2
<1>6. RepositoryTypes'
  BY <1>1, <1>2, <1>3, <1>4, <1>5 DEF RepositoryTypes
<1>7. RepositoryLiveKnown' /\ RepositoryOneGoes'
  BY <1>5 DEF RepositoryIInv, RepositoryLiveKnown, RepositoryOneGoes
<1> QED BY <1>3, <1>6, <1>7 DEF RepositoryIInv

LEMMA RepositoryCreateHolds ==
  ASSUME RepositoryIInv, NEW t \in Repository!Threads, Repository!Create(t)
  PROVE  RepositoryIInv'
<1>1. UNCHANGED <<reRecord, reRequests, reConsumers, reRefused, reDirs>> /\ reThread[t].pc = "create"
  BY DEF Repository!Create, Repository!outside
<1>2. reThread[t] \in RepositoryMonitors /\ reThread[t].live \subseteq reThread[t].watched
  BY DEF RepositoryIInv, RepositoryTypes, RepositoryLiveKnown
<1>3. CASE Repository!Put(t, [reThread[t] EXCEPT !.pc = "loop"])
  <2> DEFINE r == [reThread[t] EXCEPT !.pc = "loop"]
  <2>1. r \in RepositoryMonitors /\ r.live \subseteq r.watched /\ (RepositoryGoing(r) => RepositoryGoing(reThread[t]))
    BY <1>1, <1>2 DEF RepositoryMonitors, RepositorySteps, RepositoryGoing
  <2> HIDE DEF r
  <2>2. Repository!Put(t, r)
    BY <1>3 DEF r
  <2> QED BY <1>1, <2>1, <2>2, RepositoryPutHolds
<1>4. CASE Repository!Put(t, Repository!Over)
  <2>1. Repository!Over \in RepositoryMonitors /\ Repository!Over.live \subseteq Repository!Over.watched /\ ~RepositoryGoing(Repository!Over)
    BY RepositoryFreshTyped DEF Repository!Over, RepositoryMonitors, RepositorySteps,
      RepositoryGoing
  <2> QED BY <1>1, <1>4, <2>1, RepositoryPutHolds
<1> QED BY <1>3, <1>4 DEF Repository!Create

LEMMA RepositoryEndsHolds ==
  ASSUME RepositoryIInv, NEW t \in Repository!Threads, Repository!Ends(t)
  PROVE  RepositoryIInv'
<1>1. UNCHANGED <<reRecord, reRequests, reConsumers, reRefused, reDirs>> /\ Repository!Put(t, Repository!Over)
  BY DEF Repository!Ends, Repository!outside
<1>2. Repository!Over \in RepositoryMonitors /\ Repository!Over.live \subseteq Repository!Over.watched /\ ~RepositoryGoing(Repository!Over)
  BY RepositoryFreshTyped DEF Repository!Over, RepositoryMonitors, RepositorySteps,
    RepositoryGoing
<1> QED BY <1>1, <1>2, RepositoryPutHolds

LEMMA RepositoryLooksHolds ==
  ASSUME RepositoryIInv, NEW t \in Repository!Threads, Repository!Looks(t)
  PROVE  RepositoryIInv'
<1> DEFINE r == [reThread[t] EXCEPT !.pc = "register", !.dirty = FALSE, !.desired = reDirs]
<1>1. UNCHANGED <<reRecord, reRequests, reConsumers, reRefused, reDirs>> /\ reThread[t].pc = "loop" /\ Repository!Put(t, r)
  BY DEF Repository!Looks, Repository!outside
<1>2. reThread[t] \in RepositoryMonitors /\ reThread[t].live \subseteq reThread[t].watched
      /\ reDirs \subseteq reDirectories
  BY DEF RepositoryIInv, RepositoryTypes, RepositoryLiveKnown
<1>3. r \in RepositoryMonitors /\ r.live \subseteq r.watched /\ (RepositoryGoing(r) => RepositoryGoing(reThread[t]))
  BY <1>1, <1>2 DEF RepositoryMonitors, RepositorySteps, RepositoryGoing
<1> HIDE DEF r
<1> QED BY <1>1, <1>3, RepositoryPutHolds

LEMMA RepositoryRegisterHolds ==
  ASSUME RepositoryIInv, NEW t \in Repository!Threads, Repository!Register(t)
  PROVE  RepositoryIInv'
<1> DEFINE o == reThread[t]
           r == [o EXCEPT !.pc = "loop", !.watched = o.desired, !.desired = {},
                   !.live = (o.live \cap o.desired) \cup (o.desired \ o.watched)]
<1>1. UNCHANGED <<reRecord, reRequests, reConsumers, reRefused, reDirs>> /\ o.pc = "register" /\ Repository!Put(t, r)
  BY DEF Repository!Register, Repository!outside
<1>2. o \in RepositoryMonitors
  BY DEF RepositoryIInv, RepositoryTypes
<1> HIDE DEF o
<1>3. o.desired \subseteq reDirectories
      /\ (o.live \cap o.desired) \cup (o.desired \ o.watched) \subseteq reDirectories
  BY <1>2 DEF RepositoryMonitors
<1>4. r \in RepositoryMonitors
  BY <1>2, <1>3 DEF RepositoryMonitors, RepositorySteps
<1>5. r.live \subseteq r.watched /\ (RepositoryGoing(r) => RepositoryGoing(o))
  BY <1>1, <1>2 DEF RepositoryMonitors, RepositoryGoing
<1> HIDE DEF r
<1>6. RepositoryGoing(r) => RepositoryGoing(reThread[t])
  BY <1>5 DEF o
<1> QED BY <1>1, <1>4, <1>5, <1>6, RepositoryPutHolds

LEMMA RepositoryWakesHolds ==
  ASSUME RepositoryIInv, NEW t \in Repository!Threads, NEW late \in BOOLEAN,
         Repository!Wakes(t, late)
  PROVE  RepositoryIInv'
<1> DEFINE o == reThread[t]
           again == o.channel = "error" \/ late
           r == [o EXCEPT !.channel = "empty", !.dirty = TRUE,
                   !.watched = IF again THEN {} ELSE @,
                   !.live = IF again THEN {} ELSE @]
<1>1. UNCHANGED <<reRecord, reRequests, reConsumers, reRefused, reDirs>> /\ o.pc = "loop" /\ Repository!Put(t, r)
  BY DEF Repository!Wakes, Repository!outside
<1>2. o \in RepositoryMonitors /\ o.live \subseteq o.watched
  BY DEF RepositoryIInv, RepositoryTypes, RepositoryLiveKnown
<1> HIDE DEF o, again
<1>3. r \in RepositoryMonitors
  <2>1. CASE again
    BY <1>2, <2>1 DEF RepositoryMonitors, RepositoryChannels
  <2>2. CASE ~again
    BY <1>2, <2>2 DEF RepositoryMonitors, RepositoryChannels
  <2> QED BY <2>1, <2>2
<1>4. r.live \subseteq r.watched /\ (RepositoryGoing(r) => RepositoryGoing(o))
  BY <1>1, <1>2 DEF RepositoryMonitors, RepositoryGoing
<1> HIDE DEF r
<1>5. RepositoryGoing(r) => RepositoryGoing(reThread[t])
  BY <1>4 DEF o
<1> QED BY <1>1, <1>3, <1>4, <1>5, RepositoryPutHolds

LEMMA RepositoryFailsHolds ==
  ASSUME RepositoryIInv, NEW t \in Repository!Threads, Repository!WatcherFails(t)
  PROVE  RepositoryIInv'
<1> DEFINE o == reThread[t]
           r == [o EXCEPT !.live = {}, !.channel = IF @ = "empty" THEN "error" ELSE @]
<1>1. UNCHANGED <<reRecord, reRequests, reConsumers, reRefused, reDirs>> /\ Repository!Put(t, r)
  BY DEF Repository!WatcherFails, Repository!outside
<1>2. o \in RepositoryMonitors
  BY DEF RepositoryIInv, RepositoryTypes
<1> HIDE DEF o
<1>3. r \in RepositoryMonitors
  BY <1>2 DEF RepositoryMonitors, RepositoryChannels
<1>4. r.live \subseteq r.watched /\ (RepositoryGoing(r) => RepositoryGoing(o))
  BY <1>2 DEF RepositoryMonitors, RepositoryGoing
<1> HIDE DEF r
<1>5. RepositoryGoing(r) => RepositoryGoing(reThread[t])
  BY <1>4 DEF o
<1> QED BY <1>1, <1>3, <1>4, <1>5, RepositoryPutHolds

LEMMA RepositorySendsKeeps ==
  ASSUME RepositoryIInv, NEW t \in Repository!Threads, NEW d
  PROVE  /\ Repository!Sends(t, d, "change") \in RepositoryMonitors
         /\ Repository!Sends(t, d, "change").live = reThread[t].live
         /\ Repository!Sends(t, d, "change").watched = reThread[t].watched
         /\ Repository!Sends(t, d, "change").pc = reThread[t].pc
         /\ Repository!Sends(t, d, "change").stopped = reThread[t].stopped
<1>1. reThread[t] \in RepositoryMonitors
  BY DEF RepositoryIInv, RepositoryTypes
<1>2. CASE d \in reThread[t].live /\ reThread[t].channel = "empty"
  <2>1. Repository!Sends(t, d, "change") = [reThread[t] EXCEPT !.channel = "change"]
    BY <1>2 DEF Repository!Sends
  <2> QED BY <1>1, <2>1 DEF RepositoryMonitors, RepositoryChannels
<1>3. CASE ~(d \in reThread[t].live /\ reThread[t].channel = "empty")
  <2>1. Repository!Sends(t, d, "change") = reThread[t]
    BY <1>3 DEF Repository!Sends
  <2> QED BY <1>1, <2>1
<1> QED BY <1>2, <1>3

LEMMA RepositoryChangeHolds ==
  ASSUME RepositoryIInv, NEW d \in reDirectories, Repository!Change(d)
  PROVE  RepositoryIInv'
<1>1. UNCHANGED <<reRecord, reRequests, reConsumers, reRefused>>
      /\ reThread' = [t \in Repository!Threads |-> Repository!Sends(t, d, "change")]
  BY DEF Repository!Change, Repository!window
<1>2. reDirs' \subseteq reDirectories /\ reRoot \in reDirs'
  BY DEF Repository!Change, RepositoryIInv, RepositoryTypes
<1>3. \A t \in Repository!Threads : /\ reThread'[t] \in RepositoryMonitors
                                    /\ reThread'[t].live = reThread[t].live
                                    /\ reThread'[t].watched = reThread[t].watched
                                    /\ reThread'[t].pc = reThread[t].pc
                                    /\ reThread'[t].stopped = reThread[t].stopped
  BY <1>1, RepositorySendsKeeps
<1>4. reThread' \in [Repository!Threads -> RepositoryMonitors]
  BY <1>1, <1>3
<1>5. RepositoryTypes'
  BY <1>1, <1>2, <1>4 DEF RepositoryIInv, RepositoryTypes
<1>6. RepositoryLiveKnown' /\ RepositoryOneGoes' /\ RepositoryWanted'
  BY <1>1, <1>3 DEF RepositoryIInv, RepositoryLiveKnown, RepositoryOneGoes,
    RepositoryGoing, RepositoryWanted
<1> QED BY <1>5, <1>6 DEF RepositoryIInv

\* What leaves the registry, the threads and the queue alone.
LEMMA RepositoryOtherHolds ==
  ASSUME RepositoryIInv, Repository!Refresh \/ Repository!WatchReturns
  PROVE  RepositoryIInv'
<1>1. UNCHANGED <<reRecord, reRequests, reConsumers, reRefused, reThread, reDirs>>
  BY DEF Repository!Refresh, Repository!WatchReturns
<1> QED BY <1>1 DEF RepositoryIInv, RepositoryTypes, RepositoryLiveKnown,
    RepositoryOneGoes, RepositoryWanted

LEMMA RepositoryInvariance ==
  ASSUME Repository!GitAssumption
  PROVE  Repository!Spec => []RepositoryIInv
<1>1. RepositoryIInv /\ [Repository!Next]_Repository!vars => RepositoryIInv'
  <2> SUFFICES ASSUME RepositoryIInv, [Repository!Next]_Repository!vars PROVE RepositoryIInv'
    OBVIOUS
  <2>1. CASE UNCHANGED Repository!vars
    BY <2>1 DEF Repository!vars, Repository!window, RepositoryIInv, RepositoryTypes,
      RepositoryLiveKnown, RepositoryOneGoes, RepositoryWanted
  <2>2. ASSUME NEW p \in rePanels, Repository!Subscribe(p) \/ Repository!Unsubscribe(p) PROVE RepositoryIInv'
    BY <2>2, RepositorySubscribeHolds, RepositoryUnsubscribeHolds
  <2>3. CASE Repository!Focus \/ Repository!Refresh \/ Repository!Watch \/ Repository!Refuse \/ Repository!WatchReturns \/ Repository!Unwatch
    BY <2>3, RepositoryFocusHolds, RepositoryWatchHolds, RepositoryRefuseHolds,
      RepositoryUnwatchHolds, RepositoryOtherHolds
  <2>4. ASSUME NEW t \in Repository!Threads, Repository!Monitor(t) \/ Repository!WatcherFails(t) PROVE RepositoryIInv'
    <3>1. Repository!Wakes(t, FALSE) \/ Repository!Wakes(t, TRUE) => RepositoryIInv'
      BY RepositoryWakesHolds
    <3> QED BY <2>4, <3>1, RepositoryCreateHolds, RepositoryEndsHolds,
        RepositoryLooksHolds, RepositoryRegisterHolds, RepositoryFailsHolds
        DEF Repository!Monitor, Repository!Receive, Repository!Recover
  <2>5. ASSUME NEW d \in reDirectories, Repository!Change(d) PROVE RepositoryIInv'
    BY <2>5, RepositoryChangeHolds
  <2> QED BY <2>1, <2>2, <2>3, <2>4, <2>5 DEF Repository!Next
<1> QED BY RepositoryInitHolds, <1>1, PTL DEF Repository!Spec

(* The registry, the repository and what its threads watch have their types. *)
THEOREM RepositoryTypeCorrect ==
  ASSUME Repository!GitAssumption
  PROVE  Repository!Spec => []Repository!TypeOK
<1>1. RepositoryIInv => Repository!TypeOK
  BY DEF RepositoryIInv, RepositoryTypes, RepositoryLiveKnown, Repository!TypeOK,
    RepositoryMonitors, RepositoryChannels
<1> QED BY RepositoryInvariance, <1>1, PTL

(* A repository has one thread that goes on watching, the one of its record. *)
THEOREM RepositoryOneWatches ==
  ASSUME Repository!GitAssumption
  PROVE  Repository!Spec => []Repository!OneMonitor
<1>1. RepositoryIInv => Repository!OneMonitor
  BY DEF RepositoryIInv, RepositoryOneGoes, RepositoryGoing, Repository!OneMonitor,
    Repository!Running
<1> QED BY RepositoryInvariance, <1>1, PTL

(* Once the requests are through, a repository has a record exactly while    *)
(* somebody views it, unless the last request was answered by an error.      *)
THEOREM RepositoryRecordFollows ==
  ASSUME Repository!GitAssumption
  PROVE  Repository!Spec => []Repository!RecordIffShown
<1>1. RepositoryIInv => Repository!RecordIffShown
  BY DEF RepositoryIInv, RepositoryWanted, Repository!RecordIffShown
<1> QED BY RepositoryInvariance, <1>1, PTL

-----------------------------------------------------------------------------
(* Proofs about Sqlite for every set of sessions, requests and scripts.      *)
DatabaseSessionFields == {"pc", "user", "vacuum", "tx", "pending", "shows"}
DatabaseRunFields == {"pc", "of", "script", "at", "watched", "late", "failed", "answer"}

DatabaseSessionOK(s) ==
  /\ DOMAIN s = DatabaseSessionFields
  /\ s.pc \in {"new", "opening", "open", "closed", "gone"}
  /\ s.user \in dbRequests \cup {"nobody"}
  /\ s.pending \subseteq dbRequests \X Nat
  /\ s.tx \in BOOLEAN /\ s.shows \in BOOLEAN /\ s.vacuum = FALSE
DatabaseRunOK(x) ==
  /\ DOMAIN x = DatabaseRunFields
  /\ x.pc \in {"new", "look", "run", "end", "done"} /\ x.at \in Nat

DatabaseSessionsOK == DOMAIN dbSession = dbSessions /\ \A s \in dbSessions : DatabaseSessionOK(dbSession[s])
DatabaseRunsOK == DOMAIN dbRun = dbRequests /\ \A r \in dbRequests : DatabaseRunOK(dbRun[r])
DatabaseFilesOK == dbDisk \subseteq dbRequests \X Nat /\ dbForeign = FALSE

-----------------------------------------------------------------------------
(* Who uses a session, and who holds it.                                    *)

DatabaseHolds(r) == dbRun[r].pc \in {"look", "run", "end"}

DatabaseUserServes ==
  \A s \in dbSessions : dbSession[s].user # "nobody" =>
    dbRun[dbSession[s].user].of = s /\ Database!Serves(dbSession[s].user)
DatabaseServerUses == \A r \in dbRequests : Database!Serves(r) => dbSession[dbRun[r].of].user = r
DatabaseHeldIsThere ==
  \A r \in dbRequests : DatabaseHolds(r) =>
    dbRun[r].of \in dbSessions /\ dbSession[dbRun[r].of].pc \in {"open", "closed"}
DatabaseClosedIsHeld ==
  \A s \in dbSessions : dbSession[s].pc = "closed" => \E r \in dbRequests : DatabaseHolds(r) /\ dbRun[r].of = s

DatabaseOwned == DatabaseUserServes /\ DatabaseServerUses /\ DatabaseHeldIsThere /\ DatabaseClosedIsHeld

-----------------------------------------------------------------------------
(* What a session keeps.                                                    *)

DatabaseGoneKeepsNothing ==
  \A s \in dbSessions : dbSession[s].pc \in {"new", "opening", "gone"} => dbSession[s].pending = {}
DatabaseToolbarTrue ==
  \A s \in dbSessions :
    dbSession[s].pc \in {"new", "opening", "open"} /\ dbSession[s].user = "nobody"
      => dbSession[s].shows = dbSession[s].tx
DatabaseCancelledEnds ==
  \A r \in dbRequests : dbRun[r].answer = "cancelled" =>
    /\ dbRun[r].pc = "done" /\ dbRun[r].of \in dbSessions
    /\ dbSession[dbRun[r].of].pc \in {"closed", "gone"}
\* Behind a request that was cancelled nobody goes on in its session.
DatabaseNoneAfter ==
  \A q, r \in dbRequests :
    dbRun[q].answer = "cancelled" /\ dbRun[r].pc = "run" => dbRun[r].of # dbRun[q].of

DatabaseKept == DatabaseGoneKeepsNothing /\ DatabaseToolbarTrue /\ DatabaseCancelledEnds /\ DatabaseNoneAfter

-----------------------------------------------------------------------------
(* What a script has done.                                                  *)

DatabaseCursor ==
  \A r \in dbRequests :
    /\ dbRun[r].pc \in {"look", "run"} => Len(dbRun[r].script) \in Nat /\ dbRun[r].at \in 1..Len(dbRun[r].script)
    /\ dbRun[r].pc = "look" => dbRun[r].at = 1
\* Since a BEGIN of its own a script that runs is in its transaction.
DatabaseInTransaction ==
  \A r \in dbRequests : dbRun[r].pc = "run" =>
    \A b \in 1..(dbRun[r].at - 1) :
      /\ dbRun[r].script[b] = "begin"
      /\ \A k \in b..(dbRun[r].at - 1) : dbRun[r].script[k] \notin {"commit", "rollback"}
      => dbSession[dbRun[r].of].tx
DatabaseBegan(q, i) == dbRun[q].pc \notin {"new", "look"} /\ i < dbRun[q].at
\* A change comes from a statement that is behind its request, in its session.
DatabaseTraced ==
  \A q \in dbRequests, i \in Nat :
    /\ <<q, i>> \in dbDisk => DatabaseBegan(q, i)
    /\ \A s \in dbSessions : <<q, i>> \in dbSession[s].pending => DatabaseBegan(q, i) /\ dbRun[q].of = s
DatabaseProtected(r) == dbRun[r].pc # "done" \/ dbRun[r].answer = "cancelled"
DatabaseRolled == \A r \in dbRequests : DatabaseProtected(r) => Database!Uncommitted(r) \cap dbDisk = {}

DatabaseDone1 == DatabaseCursor /\ DatabaseInTransaction /\ DatabaseTraced /\ DatabaseRolled

DatabaseTypes == DatabaseSessionsOK /\ DatabaseRunsOK /\ DatabaseFilesOK
DatabaseIInv == DatabaseTypes /\ DatabaseOwned /\ DatabaseKept /\ DatabaseDone1

-----------------------------------------------------------------------------
LEMMA DatabaseInitHolds ==
  ASSUME Database!SqliteAssumption
  PROVE  Database!Init => DatabaseIInv
<1> SUFFICES ASSUME Database!Init PROVE DatabaseIInv
  OBVIOUS
<1>1. \A s \in dbSessions : /\ DatabaseSessionOK(dbSession[s]) /\ dbSession[s].pc = "new"
                            /\ dbSession[s].user = "nobody" /\ dbSession[s].pending = {}
                            /\ dbSession[s].shows = dbSession[s].tx
  BY DEF Database!Init, DatabaseSessionOK, DatabaseSessionFields
<1>2. \A r \in dbRequests : /\ DatabaseRunOK(dbRun[r]) /\ dbRun[r].pc = "new" /\ dbRun[r].answer = "none"
  BY DEF Database!Init, DatabaseRunOK, DatabaseRunFields
<1>3. DOMAIN dbSession = dbSessions /\ DOMAIN dbRun = dbRequests /\ dbDisk = {} /\ dbForeign = FALSE
  BY DEF Database!Init
<1>4. DatabaseTypes
  BY <1>1, <1>2, <1>3 DEF DatabaseTypes, DatabaseSessionsOK, DatabaseRunsOK,
    DatabaseFilesOK
<1>5. DatabaseOwned
  BY <1>1, <1>2 DEF DatabaseOwned, DatabaseUserServes, DatabaseServerUses,
    DatabaseHeldIsThere, DatabaseClosedIsHeld, DatabaseHolds, Database!Serves
<1>6. DatabaseKept
  BY <1>1, <1>2 DEF DatabaseKept, DatabaseGoneKeepsNothing, DatabaseToolbarTrue,
    DatabaseCancelledEnds, DatabaseNoneAfter
<1>7. DatabaseDone1
  BY <1>1, <1>2, <1>3 DEF DatabaseDone1, DatabaseCursor, DatabaseInTransaction,
    DatabaseTraced, DatabaseRolled
<1> QED BY <1>4, <1>5, <1>6, <1>7 DEF DatabaseIInv

\* A step of one session, of one request.
LEMMA DatabaseSessionPut ==
  ASSUME DatabaseSessionsOK, NEW s \in dbSessions, NEW n,
         dbSession' = [dbSession EXCEPT ![s] = n]
  PROVE  /\ DOMAIN dbSession' = dbSessions /\ dbSession'[s] = n
         /\ \A t \in dbSessions : t # s => dbSession'[t] = dbSession[t]
  BY DEF DatabaseSessionsOK

LEMMA DatabaseRunPut ==
  ASSUME DatabaseRunsOK, NEW r \in dbRequests, NEW x, dbRun' = [dbRun EXCEPT ![r] = x]
  PROVE  /\ DOMAIN dbRun' = dbRequests /\ dbRun'[r] = x
         /\ \A q \in dbRequests : q # r => dbRun'[q] = dbRun[q]
  BY DEF DatabaseRunsOK

\* Steps that add nothing to a file or a transaction and start no script.
DatabaseQuiet ==
  /\ dbDisk' = dbDisk
  /\ \A s \in dbSessions : dbSession'[s].pending \subseteq dbSession[s].pending
  /\ \A q \in dbRequests :
       /\ dbRun'[q].script = dbRun[q].script /\ dbRun'[q].at = dbRun[q].at /\ dbRun'[q].of = dbRun[q].of
       /\ dbRun'[q].pc \in {"look", "run"} => dbRun[q].pc \in {"look", "run"}
       /\ dbRun'[q].pc = "look" => dbRun[q].pc = "look"
       /\ dbRun[q].pc \notin {"new", "look"} => dbRun'[q].pc \notin {"new", "look"}
       /\ dbRun'[q].pc # "done" \/ dbRun'[q].answer = "cancelled" => DatabaseProtected(q)
       /\ dbRun'[q].pc = "run" => \/ dbRun[q].pc = "look"
                                  \/ /\ dbRun[q].pc = "run"
                                     /\ dbSession'[dbRun[q].of].tx = dbSession[dbRun[q].of].tx

LEMMA DatabaseQuietHolds == ASSUME DatabaseIInv, DatabaseQuiet PROVE DatabaseDone1'
<1>1. DatabaseCursor'
  BY DEF DatabaseIInv, DatabaseDone1, DatabaseCursor, DatabaseQuiet
<1>2. DatabaseInTransaction'
  <2> SUFFICES ASSUME NEW r \in dbRequests, dbRun'[r].pc = "run",
                      NEW b \in 1..(dbRun'[r].at - 1), dbRun'[r].script[b] = "begin",
                      \A k \in b..(dbRun'[r].at - 1) : dbRun'[r].script[k] \notin {"commit", "rollback"}
               PROVE  dbSession'[dbRun'[r].of].tx
    BY DEF DatabaseInTransaction
  <2>1. dbRun'[r].script = dbRun[r].script /\ dbRun'[r].at = dbRun[r].at /\ dbRun'[r].of = dbRun[r].of
    BY DEF DatabaseQuiet
  <2>2. CASE dbRun[r].pc = "look"
    <3>1. dbRun[r].at = 1
      BY <2>2 DEF DatabaseIInv, DatabaseDone1, DatabaseCursor
    <3> QED BY <2>1, <3>1
  <2>3. CASE dbRun[r].pc = "run" /\ dbSession'[dbRun[r].of].tx = dbSession[dbRun[r].of].tx
    BY <2>1, <2>3 DEF DatabaseIInv, DatabaseDone1, DatabaseInTransaction
  <2> QED BY <2>2, <2>3 DEF DatabaseQuiet
<1>3. DatabaseTraced'
  <2>1. \A q \in dbRequests, i \in Nat : DatabaseBegan(q, i) => DatabaseBegan(q, i)'
    BY DEF DatabaseBegan, DatabaseQuiet
  <2>2. \A q \in dbRequests, i \in Nat : <<q, i>> \in dbDisk' => DatabaseBegan(q, i)'
    BY <2>1 DEF DatabaseIInv, DatabaseDone1, DatabaseTraced, DatabaseQuiet
  <2>3. ASSUME NEW q \in dbRequests, NEW i \in Nat, NEW s \in dbSessions,
               <<q, i>> \in dbSession'[s].pending
        PROVE  DatabaseBegan(q, i)' /\ dbRun'[q].of = s
    <3>1. <<q, i>> \in dbSession[s].pending /\ dbRun'[q].of = dbRun[q].of
      BY <2>3 DEF DatabaseQuiet
    <3> QED BY <2>1, <3>1 DEF DatabaseIInv, DatabaseDone1, DatabaseTraced
  <2> QED BY <2>2, <2>3 DEF DatabaseTraced
<1>4. DatabaseRolled'
  <2> SUFFICES ASSUME NEW r \in dbRequests, DatabaseProtected(r)' PROVE Database!Uncommitted(r)' \cap dbDisk' = {}
    BY DEF DatabaseRolled
  <2>1. DatabaseProtected(r) /\ dbRun'[r].script = dbRun[r].script /\ dbDisk' = dbDisk
    BY DEF DatabaseProtected, DatabaseQuiet
  <2>2. Database!Uncommitted(r)' = Database!Uncommitted(r)
    BY <2>1 DEF Database!Uncommitted
  <2> QED BY <2>1, <2>2 DEF DatabaseIInv, DatabaseDone1, DatabaseRolled
<1> QED BY <1>1, <1>2, <1>3, <1>4 DEF DatabaseDone1

\* Of a session that no request looks at, only where it is changes.
LEMMA DatabaseMovesHold ==
  ASSUME DatabaseIInv, NEW s \in dbSessions, UNCHANGED <<dbRun, dbDisk, dbForeign>>,
         DOMAIN dbSession' = dbSessions,
         \A t \in dbSessions : t # s => dbSession'[t] = dbSession[t],
         DatabaseSessionOK(dbSession'[s]),
         dbSession'[s].user = dbSession[s].user,
         dbSession'[s].pc \in {"new", "opening", "open"} =>
           /\ dbSession[s].pc \in {"new", "opening", "open"}
           /\ dbSession'[s].tx = dbSession[s].tx /\ dbSession'[s].shows = dbSession[s].shows,
         dbSession'[s].tx = dbSession[s].tx \/ ~Database!Held(s, "nobody"),
         dbSession'[s].pending \subseteq dbSession[s].pending,
         dbSession[s].pc \in {"closed", "gone"} => dbSession'[s].pc \in {"closed", "gone"},
         Database!Held(s, "nobody") => dbSession'[s].pc \in {"open", "closed"},
         dbSession'[s].pc = "closed" => Database!Held(s, "nobody"),
         dbSession'[s].pc \in {"new", "opening", "gone"} => dbSession'[s].pending = {},
         "nobody" \notin dbRequests
  PROVE  DatabaseIInv'
<1>1. DatabaseTypes'
  BY DEF DatabaseIInv, DatabaseTypes, DatabaseSessionsOK, DatabaseRunsOK,
    DatabaseFilesOK
<1>2. Database!Held(s, "nobody") <=> \E r \in dbRequests : DatabaseHolds(r) /\ dbRun[r].of = s
  BY DEF Database!Held, DatabaseHolds
<1>3. DatabaseUserServes' /\ DatabaseServerUses'
  <2>1. \A t \in dbSessions : dbSession'[t].user = dbSession[t].user
    OBVIOUS
  <2>2. \A r \in dbRequests : Database!Serves(r) => dbRun[r].of \in dbSessions
    BY DEF DatabaseIInv, DatabaseOwned, DatabaseHeldIsThere, DatabaseHolds,
      Database!Serves
  <2> QED BY <2>1, <2>2 DEF DatabaseIInv, DatabaseOwned, DatabaseUserServes,
      DatabaseServerUses, Database!Serves
<1>4. DatabaseHeldIsThere' /\ DatabaseClosedIsHeld'
  BY <1>2 DEF DatabaseIInv, DatabaseOwned, DatabaseHeldIsThere, DatabaseClosedIsHeld,
    DatabaseHolds
<1>5. DatabaseGoneKeepsNothing' /\ DatabaseToolbarTrue'
  BY DEF DatabaseIInv, DatabaseKept, DatabaseGoneKeepsNothing, DatabaseToolbarTrue
<1>6. DatabaseCancelledEnds' /\ DatabaseNoneAfter'
  BY DEF DatabaseIInv, DatabaseKept, DatabaseCancelledEnds, DatabaseNoneAfter
<1>7. DatabaseQuiet
  <2>1. \A q \in dbRequests : dbRun[q].pc = "run" => dbSession'[dbRun[q].of].tx = dbSession[dbRun[q].of].tx
    BY <1>2 DEF DatabaseHolds, DatabaseIInv, DatabaseOwned, DatabaseHeldIsThere
  <2>2. \A t \in dbSessions : dbSession'[t].pending \subseteq dbSession[t].pending
    OBVIOUS
  <2> QED BY <2>1, <2>2 DEF DatabaseQuiet, DatabaseProtected
<1> QED BY <1>1, <1>3, <1>4, <1>5, <1>6, <1>7, DatabaseQuietHolds DEF DatabaseIInv,
    DatabaseOwned, DatabaseKept

LEMMA DatabaseOpenHolds ==
  ASSUME Database!SqliteAssumption, DatabaseIInv, NEW s \in dbSessions,
         Database!OpenDatabase(s)
  PROVE  DatabaseIInv'
<1> DEFINE n == [dbSession[s] EXCEPT !.pc = "opening"]
<1>1. dbSession[s].pc = "new" /\ dbSession' = [dbSession EXCEPT ![s] = n]
      /\ UNCHANGED <<dbRun, dbDisk, dbForeign>>
  BY DEF Database!OpenDatabase
<1>2. DatabaseSessionOK(n) /\ n.pc = "opening" /\ n.user = dbSession[s].user /\ n.tx = dbSession[s].tx
      /\ n.shows = dbSession[s].shows /\ n.pending = dbSession[s].pending
  BY DEF DatabaseIInv, DatabaseTypes, DatabaseSessionsOK, DatabaseSessionOK,
    DatabaseSessionFields
<1>3. ~Database!Held(s, "nobody") /\ dbSession[s].pending = {}
  BY <1>1 DEF DatabaseIInv, DatabaseOwned, DatabaseHeldIsThere, DatabaseHolds,
    Database!Held, DatabaseKept, DatabaseGoneKeepsNothing
<1> HIDE DEF n
<1>4. DOMAIN dbSession' = dbSessions /\ dbSession'[s] = n
      /\ \A t \in dbSessions : t # s => dbSession'[t] = dbSession[t]
  BY <1>1, DatabaseSessionPut DEF DatabaseIInv, DatabaseTypes
<1> QED BY <1>1, <1>2, <1>3, <1>4, DatabaseMovesHold DEF Database!SqliteAssumption

LEMMA DatabaseInsertHolds ==
  ASSUME Database!SqliteAssumption, DatabaseIInv, NEW s \in dbSessions, Database!Insert(s)
  PROVE  DatabaseIInv'
<1>1. PICK at \in {"gone", "open"} :
        dbSession' = [dbSession EXCEPT ![s].pc = at]
  BY DEF Database!Insert
<1> DEFINE n == [dbSession[s] EXCEPT !.pc = at]
<1>2. dbSession[s].pc = "opening" /\ dbSession' = [dbSession EXCEPT ![s] = n]
      /\ UNCHANGED <<dbRun, dbDisk, dbForeign>>
  BY <1>1 DEF Database!Insert
<1>3. DatabaseSessionOK(n) /\ n.pc = at /\ n.user = dbSession[s].user /\ n.tx = dbSession[s].tx
      /\ n.shows = dbSession[s].shows /\ n.pending = dbSession[s].pending
  BY DEF DatabaseIInv, DatabaseTypes, DatabaseSessionsOK, DatabaseSessionOK,
    DatabaseSessionFields
<1>4. ~Database!Held(s, "nobody")
  BY <1>2 DEF DatabaseIInv, DatabaseOwned, DatabaseHeldIsThere, DatabaseHolds,
    Database!Held
<1>5. dbSession[s].pending = {}
  BY <1>2 DEF DatabaseIInv, DatabaseKept, DatabaseGoneKeepsNothing
<1> HIDE DEF n
<1>6. DOMAIN dbSession' = dbSessions /\ dbSession'[s] = n
      /\ \A t \in dbSessions : t # s => dbSession'[t] = dbSession[t]
  BY <1>2, DatabaseSessionPut DEF DatabaseIInv, DatabaseTypes
<1> QED BY <1>2, <1>3, <1>4, <1>5, <1>6, DatabaseMovesHold DEF Database!SqliteAssumption

LEMMA DatabaseCloseHolds ==
  ASSUME Database!SqliteAssumption, DatabaseIInv, NEW s \in dbSessions, Database!Close(s)
  PROVE  DatabaseIInv'
<1>1. dbSession[s].pc = "open" /\ dbSession' = [dbSession EXCEPT ![s] = Database!Removed(s)]
      /\ UNCHANGED <<dbRun, dbDisk, dbForeign>>
  BY DEF Database!Close
<1>2. DatabaseSessionOK(dbSession[s])
  BY DEF DatabaseIInv, DatabaseTypes, DatabaseSessionsOK
<1>3. DOMAIN dbSession' = dbSessions /\ dbSession'[s] = Database!Removed(s)
      /\ \A t \in dbSessions : t # s => dbSession'[t] = dbSession[t]
  BY <1>1, DatabaseSessionPut DEF DatabaseIInv, DatabaseTypes
<1>4. CASE Database!Held(s, "nobody")
  <2>1. Database!Removed(s) = [dbSession[s] EXCEPT !.pc = "closed"]
    BY <1>4 DEF Database!Removed
  <2> DEFINE n == Database!Removed(s)
  <2>2. DatabaseSessionOK(n) /\ n.pc = "closed" /\ n.user = dbSession[s].user /\ n.tx = dbSession[s].tx
        /\ n.shows = dbSession[s].shows /\ n.pending = dbSession[s].pending
    BY <1>2, <2>1 DEF DatabaseSessionOK, DatabaseSessionFields
  <2> QED BY <1>1, <1>3, <1>4, <2>2, DatabaseMovesHold DEF Database!SqliteAssumption
<1>5. CASE ~Database!Held(s, "nobody")
  <2>1. Database!Removed(s) = Database!Dropped(dbSession[s])
    BY <1>5 DEF Database!Removed
  <2>2. dbSession[s].user = "nobody"
    <3>1. dbSession[s].user # "nobody" => dbSession[s].user \in dbRequests
      BY <1>2 DEF DatabaseSessionOK
    <3> QED BY <1>5, <3>1 DEF Database!Held, DatabaseIInv, DatabaseOwned,
        DatabaseUserServes, Database!Serves, Database!SqliteAssumption
  <2> DEFINE n == Database!Removed(s)
  <2>3. DatabaseSessionOK(n) /\ n.pc = "gone" /\ n.user = "nobody" /\ n.pending = {}
    BY <1>2, <2>1 DEF Database!Dropped, DatabaseSessionOK, DatabaseSessionFields
  <2> QED BY <1>1, <1>3, <1>5, <2>2, <2>3, DatabaseMovesHold
      DEF Database!SqliteAssumption
<1> QED BY <1>4, <1>5

\* A request that takes its share of an open session, or is told that there is none.
LEMMA DatabaseLookHolds ==
  ASSUME Database!SqliteAssumption, DatabaseIInv, NEW r \in dbRequests, Database!Look(r)
  PROVE  DatabaseIInv'
<1>1. dbRun[r].pc = "new" /\ UNCHANGED <<dbSession, dbDisk, dbForeign>>
  BY DEF Database!Look
<1>2. DatabaseRunOK(dbRun[r]) /\ DatabaseSessionsOK /\ DatabaseRunsOK
  BY DEF DatabaseIInv, DatabaseTypes, DatabaseRunsOK
<1>3. ASSUME NEW s \in Database!Open, NEW script \in dbScripts,
             dbRun' = [dbRun EXCEPT ![r].pc = "look", ![r].of = s, ![r].script = script, ![r].at = 1]
      PROVE  DatabaseIInv'
  <2> DEFINE x == [dbRun[r] EXCEPT !.pc = "look", !.of = s, !.script = script, !.at = 1]
  <2>1. DatabaseRunOK(x) /\ x.pc = "look" /\ x.of = s /\ x.script = script /\ x.at = 1
        /\ x.answer = dbRun[r].answer
    BY <1>2 DEF DatabaseRunOK, DatabaseRunFields
  <2>2. dbRun' = [dbRun EXCEPT ![r] = x]
    BY <1>2, <1>3 DEF DatabaseRunsOK
  <2> HIDE DEF x
  <2>3. DOMAIN dbRun' = dbRequests /\ dbRun'[r] = x /\ \A q \in dbRequests : q # r => dbRun'[q] = dbRun[q]
    BY <1>2, <2>2, DatabaseRunPut
  <2>4. s \in dbSessions /\ dbSession[s].pc = "open"
    BY DEF Database!Open
  <2>5. DatabaseTypes'
    BY <1>1, <2>1, <2>3 DEF DatabaseIInv, DatabaseTypes, DatabaseSessionsOK,
      DatabaseRunsOK, DatabaseFilesOK
  <2>6. dbRun[r].answer # "cancelled"
    BY <1>1 DEF DatabaseIInv, DatabaseKept, DatabaseCancelledEnds
  <2>7. DatabaseOwned'
    <3>1. \A q \in dbRequests : Database!Serves(q)' <=> Database!Serves(q)
      BY <1>1, <2>1, <2>3 DEF Database!Serves
    <3>2. \A q \in dbRequests : Database!Serves(q) => dbRun'[q].of = dbRun[q].of
      BY <1>1, <2>3 DEF Database!Serves
    <3>3. DatabaseUserServes'
      BY <1>1, <1>2, <3>1, <3>2 DEF DatabaseIInv, DatabaseOwned, DatabaseUserServes,
        DatabaseSessionsOK, DatabaseSessionOK
    <3>4. DatabaseServerUses'
      BY <1>1, <3>1, <3>2 DEF DatabaseIInv, DatabaseOwned, DatabaseServerUses
    <3>5. DatabaseHeldIsThere'
      BY <1>1, <2>1, <2>3, <2>4 DEF DatabaseIInv, DatabaseOwned, DatabaseHeldIsThere,
        DatabaseHolds
    <3>6. \A q \in dbRequests : DatabaseHolds(q) => DatabaseHolds(q)' /\ dbRun'[q].of = dbRun[q].of
      BY <1>1, <2>3 DEF DatabaseHolds
    <3>7. DatabaseClosedIsHeld'
      BY <1>1, <3>6 DEF DatabaseIInv, DatabaseOwned, DatabaseClosedIsHeld
    <3> QED BY <3>3, <3>4, <3>5, <3>7 DEF DatabaseOwned
  <2>8. DatabaseKept'
    BY <1>1, <2>1, <2>3, <2>6 DEF DatabaseIInv, DatabaseKept, DatabaseGoneKeepsNothing,
      DatabaseToolbarTrue, DatabaseCancelledEnds, DatabaseNoneAfter
  <2>9. Len(script) \in Nat \ {0}
    BY DEF Database!SqliteAssumption
  <2>10. DatabaseCursor'
    BY <2>1, <2>3, <2>9 DEF DatabaseIInv, DatabaseDone1, DatabaseCursor
  <2>11. DatabaseInTransaction'
    BY <1>1, <2>1, <2>3 DEF DatabaseIInv, DatabaseDone1, DatabaseInTransaction
  <2>12. \A i \in Nat : <<r, i>> \notin dbDisk /\ \A t \in dbSessions : <<r, i>> \notin dbSession[t].pending
    BY <1>1 DEF DatabaseIInv, DatabaseDone1, DatabaseTraced, DatabaseBegan
  <2>13. DatabaseTraced'
    <3>1. \A q \in dbRequests, i \in Nat : DatabaseBegan(q, i) => DatabaseBegan(q, i)' /\ dbRun'[q].of = dbRun[q].of
      BY <1>1, <2>3 DEF DatabaseBegan
    <3>2. \A q \in dbRequests, i \in Nat : <<q, i>> \in dbDisk' => DatabaseBegan(q, i)'
      BY <1>1, <3>1 DEF DatabaseIInv, DatabaseDone1, DatabaseTraced
    <3>3. \A q \in dbRequests, i \in Nat : \A c \in dbSessions :
            <<q, i>> \in dbSession'[c].pending => DatabaseBegan(q, i)' /\ dbRun'[q].of = c
      BY <1>1, <3>1 DEF DatabaseIInv, DatabaseDone1, DatabaseTraced
    <3> QED BY <3>2, <3>3 DEF DatabaseTraced
  <2>14. DatabaseRolled'
    <3> SUFFICES ASSUME NEW q \in dbRequests, DatabaseProtected(q)' PROVE Database!Uncommitted(q)' \cap dbDisk = {}
      BY <1>1 DEF DatabaseRolled
    <3>1. CASE q = r
      <4>1. \A c \in dbDisk : c[1] # r
        <5> SUFFICES ASSUME NEW c \in dbDisk, c[1] = r PROVE FALSE
          OBVIOUS
        <5>1. c \in dbRequests \X Nat
          BY DEF DatabaseIInv, DatabaseTypes, DatabaseFilesOK
        <5>2. c = <<r, c[2]>> /\ c[2] \in Nat
          BY <5>1
        <5> QED BY <2>12, <5>2
      <4>2. \A c \in Database!Uncommitted(q)' : c[1] = r
        BY <3>1 DEF Database!Uncommitted
      <4> QED BY <4>1, <4>2
    <3>2. CASE q # r
      <4>1. dbRun'[q] = dbRun[q]
        BY <2>3, <3>2
      <4>2. DatabaseProtected(q) /\ Database!Uncommitted(q)' = Database!Uncommitted(q)
        BY <4>1 DEF DatabaseProtected, Database!Uncommitted
      <4> QED BY <4>2 DEF DatabaseIInv, DatabaseDone1, DatabaseRolled
    <3> QED BY <3>1, <3>2
  <2> QED BY <2>5, <2>7, <2>8, <2>10, <2>11, <2>13, <2>14 DEF DatabaseIInv,
      DatabaseDone1
<1>4. ASSUME Database!Answers(r, "gone") PROVE DatabaseIInv'
  <2> DEFINE x == [dbRun[r] EXCEPT !.pc = "done", !.answer = "gone"]
  <2>1. DatabaseRunOK(x) /\ x.pc = "done" /\ x.of = dbRun[r].of /\ x.script = dbRun[r].script
        /\ x.at = dbRun[r].at /\ x.answer = "gone"
    BY <1>2 DEF DatabaseRunOK, DatabaseRunFields
  <2>2. dbRun' = [dbRun EXCEPT ![r] = x]
    BY <1>2, <1>4 DEF DatabaseRunsOK, Database!Answers
  <2> HIDE DEF x
  <2>3. DOMAIN dbRun' = dbRequests /\ dbRun'[r] = x /\ \A q \in dbRequests : q # r => dbRun'[q] = dbRun[q]
    BY <1>2, <2>2, DatabaseRunPut
  <2>4. DatabaseTypes'
    BY <1>1, <2>1, <2>3 DEF DatabaseIInv, DatabaseTypes, DatabaseSessionsOK,
      DatabaseRunsOK, DatabaseFilesOK
  <2>5. \A q \in dbRequests : /\ Database!Serves(q)' <=> Database!Serves(q)
                              /\ DatabaseHolds(q)' <=> DatabaseHolds(q)
                              /\ dbRun'[q].of = dbRun[q].of
    BY <1>1, <2>1, <2>3 DEF Database!Serves, DatabaseHolds
  <2>6. DatabaseOwned'
    <3>1. DatabaseUserServes'
      BY <1>1, <1>2, <2>5 DEF DatabaseIInv, DatabaseOwned, DatabaseUserServes,
        DatabaseSessionsOK, DatabaseSessionOK
    <3> QED BY <1>1, <2>5, <3>1 DEF DatabaseIInv, DatabaseOwned, DatabaseServerUses,
        DatabaseHeldIsThere, DatabaseClosedIsHeld
  <2>7. DatabaseKept'
    BY <1>1, <2>1, <2>3 DEF DatabaseIInv, DatabaseKept, DatabaseGoneKeepsNothing,
      DatabaseToolbarTrue, DatabaseCancelledEnds, DatabaseNoneAfter
  <2>8. DatabaseQuiet
    BY <1>1, <2>1, <2>3 DEF DatabaseQuiet, DatabaseProtected
  <2> QED BY <2>4, <2>6, <2>7, <2>8, DatabaseQuietHolds DEF DatabaseIInv
<1> QED BY <1>3, <1>4 DEF Database!Look

LEMMA DatabaseExpireHolds ==
  ASSUME DatabaseIInv, NEW r \in dbRequests, Database!Expire(r)
  PROVE  DatabaseIInv'
<1> DEFINE x == [dbRun[r] EXCEPT !.late = TRUE]
<1>1. dbRun' = [dbRun EXCEPT ![r] = x] /\ UNCHANGED <<dbSession, dbDisk, dbForeign>>
  BY DEF Database!Expire
<1>2. DatabaseRunOK(dbRun[r]) /\ DatabaseSessionsOK /\ DatabaseRunsOK
  BY DEF DatabaseIInv, DatabaseTypes, DatabaseRunsOK
<1>3. DatabaseRunOK(x) /\ x.pc = dbRun[r].pc /\ x.of = dbRun[r].of /\ x.script = dbRun[r].script
      /\ x.at = dbRun[r].at /\ x.answer = dbRun[r].answer
  BY <1>2 DEF DatabaseRunOK, DatabaseRunFields
<1> HIDE DEF x
<1>4. DOMAIN dbRun' = dbRequests /\ dbRun'[r] = x /\ \A q \in dbRequests : q # r => dbRun'[q] = dbRun[q]
  BY <1>1, <1>2, DatabaseRunPut
<1>5. DatabaseTypes'
  BY <1>1, <1>3, <1>4 DEF DatabaseIInv, DatabaseTypes, DatabaseSessionsOK,
    DatabaseRunsOK, DatabaseFilesOK
<1>6. \A q \in dbRequests : /\ dbRun'[q].pc = dbRun[q].pc /\ dbRun'[q].of = dbRun[q].of
                            /\ dbRun'[q].answer = dbRun[q].answer
                            /\ dbRun'[q].script = dbRun[q].script /\ dbRun'[q].at = dbRun[q].at
  BY <1>3, <1>4
<1>7. DatabaseOwned'
  <2>1. DatabaseUserServes'
    BY <1>1, <1>2, <1>6 DEF DatabaseIInv, DatabaseOwned, DatabaseUserServes,
      Database!Serves, DatabaseSessionsOK, DatabaseSessionOK
  <2> QED BY <1>1, <1>6, <2>1 DEF DatabaseIInv, DatabaseOwned, DatabaseServerUses,
      Database!Serves, DatabaseHeldIsThere, DatabaseClosedIsHeld, DatabaseHolds
<1>8. DatabaseKept'
  BY <1>1, <1>6 DEF DatabaseIInv, DatabaseKept, DatabaseGoneKeepsNothing,
    DatabaseToolbarTrue, DatabaseCancelledEnds, DatabaseNoneAfter
<1>9. DatabaseQuiet
  BY <1>1, <1>6 DEF DatabaseQuiet, DatabaseProtected
<1> QED BY <1>5, <1>7, <1>8, <1>9, DatabaseQuietHolds DEF DatabaseIInv

\* What Owned says of one request that has the connection.
LEMMA DatabaseOneServes ==
  ASSUME DatabaseIInv, NEW r \in dbRequests, NEW q \in dbRequests, Database!Serves(r),
         Database!Serves(q),
         dbRun[r].of = dbRun[q].of
  PROVE  r = q
  BY DEF DatabaseIInv, DatabaseOwned, DatabaseServerUses

\* A request that goes on with its session.
LEMMA DatabaseServingKeeps ==
  ASSUME DatabaseIInv, Database!SqliteAssumption, NEW r \in dbRequests, dbRun[r].pc = "run",
         dbRun'[r].pc \in {"run", "end"}, dbRun'[r].of = dbRun[r].of,
         dbRun'[r].answer = dbRun[r].answer,
         \A q \in dbRequests : q # r => dbRun'[q] = dbRun[q],
         \A t \in dbSessions : t # dbRun[r].of => dbSession'[t] = dbSession[t],
         dbSession'[dbRun[r].of].pc = dbSession[dbRun[r].of].pc,
         dbSession'[dbRun[r].of].user = dbSession[dbRun[r].of].user
  PROVE  DatabaseOwned' /\ DatabaseKept'
<1> DEFINE s == dbRun[r].of
<1>1. s \in dbSessions /\ dbSession[s].pc \in {"open", "closed"} /\ dbSession[s].user = r
  BY DEF DatabaseIInv, DatabaseOwned, DatabaseHeldIsThere, DatabaseServerUses,
    DatabaseHolds, Database!Serves
<1>2. \A q \in dbRequests : /\ Database!Serves(q)' <=> Database!Serves(q)
                            /\ DatabaseHolds(q)' <=> DatabaseHolds(q)
                            /\ dbRun'[q].of = dbRun[q].of /\ dbRun'[q].answer = dbRun[q].answer
                            /\ dbRun'[q].pc = "run" => dbRun[q].pc = "run"
                            /\ dbRun[q].pc = "done" => dbRun'[q].pc = "done"
  BY DEF Database!Serves, DatabaseHolds
<1>3. \A t \in dbSessions : dbSession'[t].pc = dbSession[t].pc /\ dbSession'[t].user = dbSession[t].user
  OBVIOUS
<1>4. DatabaseUserServes'
  <2>1. \A t \in dbSessions : dbSession[t].user # "nobody" => dbSession[t].user \in dbRequests
    BY DEF DatabaseIInv, DatabaseTypes, DatabaseSessionsOK, DatabaseSessionOK
  <2> QED BY <1>2, <1>3, <2>1 DEF DatabaseIInv, DatabaseOwned, DatabaseUserServes
<1>5. DatabaseServerUses' /\ DatabaseHeldIsThere' /\ DatabaseClosedIsHeld'
  <2>1. \A q \in dbRequests : Database!Serves(q) => dbRun[q].of \in dbSessions
    BY DEF DatabaseIInv, DatabaseOwned, DatabaseHeldIsThere, DatabaseHolds,
      Database!Serves
  <2> QED BY <1>2, <1>3, <2>1 DEF DatabaseIInv, DatabaseOwned, DatabaseServerUses,
      DatabaseHeldIsThere, DatabaseClosedIsHeld
<1>6. DatabaseGoneKeepsNothing'
  BY <1>1 DEF DatabaseIInv, DatabaseKept, DatabaseGoneKeepsNothing
<1>7. DatabaseToolbarTrue'
  BY <1>1 DEF DatabaseIInv, DatabaseKept, DatabaseToolbarTrue, Database!SqliteAssumption
<1>8. DatabaseCancelledEnds' /\ DatabaseNoneAfter'
  BY <1>2, <1>3 DEF DatabaseIInv, DatabaseKept, DatabaseCancelledEnds, DatabaseNoneAfter
<1> QED BY <1>4, <1>5, <1>6, <1>7, <1>8 DEF DatabaseOwned, DatabaseKept

\* The script ends there.
LEMMA DatabaseFailingHolds ==
  ASSUME DatabaseIInv, Database!SqliteAssumption, NEW r \in dbRequests, dbRun[r].pc = "run",
         Database!Fails(r),
         UNCHANGED <<dbDisk, dbForeign>>, DOMAIN dbSession' = dbSessions,
         DatabaseSessionOK(dbSession'[dbRun[r].of]),
         \A t \in dbSessions : t # dbRun[r].of => dbSession'[t] = dbSession[t],
         dbSession'[dbRun[r].of].pc = dbSession[dbRun[r].of].pc,
         dbSession'[dbRun[r].of].user = dbSession[dbRun[r].of].user,
         dbSession'[dbRun[r].of].pending \subseteq dbSession[dbRun[r].of].pending
  PROVE  DatabaseIInv'
<1> DEFINE x == [dbRun[r] EXCEPT !.pc = "end", !.failed = TRUE]
<1>1. DatabaseRunOK(dbRun[r]) /\ DatabaseRunsOK
  BY DEF DatabaseIInv, DatabaseTypes, DatabaseRunsOK
<1>2. dbRun' = [dbRun EXCEPT ![r] = x]
  BY <1>1 DEF Database!Fails, DatabaseRunsOK
<1>3. DatabaseRunOK(x) /\ x.pc = "end" /\ x.of = dbRun[r].of /\ x.script = dbRun[r].script
      /\ x.at = dbRun[r].at /\ x.answer = dbRun[r].answer
  BY <1>1 DEF DatabaseRunOK, DatabaseRunFields
<1> HIDE DEF x
<1>4. DOMAIN dbRun' = dbRequests /\ dbRun'[r] = x /\ \A q \in dbRequests : q # r => dbRun'[q] = dbRun[q]
  BY <1>1, <1>2, DatabaseRunPut
<1>5. DatabaseTypes'
  BY <1>3, <1>4 DEF DatabaseIInv, DatabaseTypes, DatabaseSessionsOK, DatabaseRunsOK,
    DatabaseFilesOK
<1>6. DatabaseOwned' /\ DatabaseKept'
  BY <1>3, <1>4, DatabaseServingKeeps
<1>7. DatabaseQuiet
  <2>1. \A t \in dbSessions : dbSession'[t].pending \subseteq dbSession[t].pending
    OBVIOUS
  <2>2. ASSUME NEW q \in dbRequests, dbRun'[q].pc = "run"
        PROVE  dbRun[q].pc = "run" /\ dbSession'[dbRun[q].of].tx = dbSession[dbRun[q].of].tx
    <3>1. q # r /\ dbRun[q].pc = "run"
      BY <1>3, <1>4, <2>2
    <3>2. dbRun[q].of # dbRun[r].of /\ dbRun[q].of \in dbSessions
      BY <3>1, DatabaseOneServes DEF Database!Serves, DatabaseIInv, DatabaseOwned,
        DatabaseHeldIsThere, DatabaseHolds
    <3> QED BY <3>1, <3>2
  <2>3. \A q \in dbRequests :
          /\ dbRun'[q].script = dbRun[q].script /\ dbRun'[q].at = dbRun[q].at /\ dbRun'[q].of = dbRun[q].of
          /\ dbRun'[q].pc \in {"look", "run"} => dbRun[q].pc \in {"look", "run"}
          /\ dbRun'[q].pc = "look" => dbRun[q].pc = "look"
          /\ dbRun[q].pc \notin {"new", "look"} => dbRun'[q].pc \notin {"new", "look"}
          /\ dbRun'[q].pc # "done" \/ dbRun'[q].answer = "cancelled" => DatabaseProtected(q)
    BY <1>3, <1>4 DEF DatabaseProtected
  <2> QED BY <2>1, <2>2, <2>3 DEF DatabaseQuiet
<1> QED BY <1>5, <1>6, <1>7, DatabaseQuietHolds DEF DatabaseIInv

LEMMA DatabaseFailsAtHolds ==
  ASSUME DatabaseIInv, Database!SqliteAssumption, NEW r \in dbRequests, Database!FailsAt(r)
  PROVE  DatabaseIInv'
<1>1. dbRun[r].pc = "run" /\ Database!Fails(r) /\ UNCHANGED <<dbSession, dbDisk, dbForeign>>
  BY DEF Database!FailsAt
<1>2. DOMAIN dbSession' = dbSessions /\ DatabaseSessionOK(dbSession'[dbRun[r].of])
  BY <1>1 DEF DatabaseIInv, DatabaseTypes, DatabaseSessionsOK, DatabaseOwned,
    DatabaseHeldIsThere, DatabaseHolds
<1> QED BY <1>1, <1>2, DatabaseFailingHolds

LEMMA DatabaseInterruptedHolds ==
  ASSUME DatabaseIInv, Database!SqliteAssumption, NEW r \in dbRequests,
         Database!Interrupted(r)
  PROVE  DatabaseIInv'
<1> DEFINE s == dbRun[r].of
           n == IF Database!Statement(r) = "write" /\ dbSession[s].tx
                THEN [dbSession[s] EXCEPT !.tx = FALSE, !.pending = {}] ELSE dbSession[s]
<1>1. dbRun[r].pc = "run" /\ Database!Fails(r) /\ UNCHANGED <<dbDisk, dbForeign>>
      /\ dbSession' = [dbSession EXCEPT ![s] = n]
  BY DEF Database!Interrupted
<1>2. s \in dbSessions /\ DatabaseSessionsOK /\ DatabaseSessionOK(dbSession[s])
  BY <1>1 DEF DatabaseIInv, DatabaseTypes, DatabaseSessionsOK, DatabaseOwned,
    DatabaseHeldIsThere, DatabaseHolds
<1>3. DatabaseSessionOK(n) /\ n.pc = dbSession[s].pc /\ n.user = dbSession[s].user
      /\ n.pending \subseteq dbSession[s].pending
  <2>1. CASE Database!Statement(r) = "write" /\ dbSession[s].tx
    <3>1. n = [dbSession[s] EXCEPT !.tx = FALSE, !.pending = {}]
      BY <2>1
    <3> HIDE DEF n
    <3> QED BY <1>2, <3>1 DEF DatabaseSessionOK, DatabaseSessionFields
  <2>2. CASE ~(Database!Statement(r) = "write" /\ dbSession[s].tx)
    <3>1. n = dbSession[s]
      BY <2>2
    <3> HIDE DEF n
    <3> QED BY <1>2, <3>1
  <2> QED BY <2>1, <2>2
<1> HIDE DEF n
<1>4. DOMAIN dbSession' = dbSessions /\ dbSession'[s] = n
      /\ \A t \in dbSessions : t # s => dbSession'[t] = dbSession[t]
  BY <1>1, <1>2, DatabaseSessionPut
<1> QED BY <1>1, <1>3, <1>4, DatabaseFailingHolds

\* A request that leaves its session, and takes the connection along when it was the
\* last one of a closed session.
DatabaseLeaving(r) ==
  LET s == dbRun[r].of  n == dbSession'[s]
  IN /\ dbRun'[r].pc = "done" /\ dbRun'[r].of = s /\ DatabaseRunOK(dbRun'[r])
     /\ dbRun'[r].script = dbRun[r].script /\ dbRun'[r].at = dbRun[r].at
     /\ DOMAIN dbRun' = dbRequests /\ \A q \in dbRequests : q # r => dbRun'[q] = dbRun[q]
     /\ DOMAIN dbSession' = dbSessions /\ \A t \in dbSessions : t # s => dbSession'[t] = dbSession[t]
     /\ dbDisk' = dbDisk /\ dbForeign' = dbForeign
     /\ DatabaseSessionOK(n) /\ n.pending \subseteq dbSession[s].pending
     /\ n.user = IF Database!Serves(r) THEN "nobody" ELSE dbSession[s].user
     /\ \/ n.pc = "gone" /\ ~Database!Held(s, r) /\ n.pending = {}
        \/ n.pc = "closed" /\ Database!Held(s, r)
        \/ n.pc = "open" /\ dbSession[s].pc = "open"
     /\ n.pc = "open" /\ n.user = "nobody" => n.shows = n.tx
     /\ dbRun'[r].answer = "cancelled" => Database!Serves(r) /\ n.pc \in {"closed", "gone"}
     /\ ~Database!Serves(r) => n.tx = dbSession[s].tx

LEMMA DatabaseLeavingHolds ==
  ASSUME DatabaseIInv, Database!SqliteAssumption, NEW r \in dbRequests, DatabaseHolds(r),
         DatabaseLeaving(r)
  PROVE  DatabaseIInv'
<1> DEFINE s == dbRun[r].of  n == dbSession'[s]
<1>1. s \in dbSessions /\ dbSession[s].pc \in {"open", "closed"} /\ dbRun[r].pc # "done"
  BY DEF DatabaseIInv, DatabaseOwned, DatabaseHeldIsThere, DatabaseHolds
<1>a. /\ dbRun'[r].pc = "done" /\ dbRun'[r].of = s
      /\ dbRun'[r].script = dbRun[r].script /\ dbRun'[r].at = dbRun[r].at
      /\ dbDisk' = dbDisk /\ dbForeign' = dbForeign
  BY DEF DatabaseLeaving
<1>b. DOMAIN dbRun' = dbRequests /\ \A q \in dbRequests : q # r => dbRun'[q] = dbRun[q]
  BY DEF DatabaseLeaving
<1>c. DOMAIN dbSession' = dbSessions /\ \A t \in dbSessions : t # s => dbSession'[t] = dbSession[t]
  BY DEF DatabaseLeaving
<1>d. (Database!Serves(r) => n.user = "nobody") /\ (~Database!Serves(r) => n.user = dbSession[s].user)
  BY DEF DatabaseLeaving
<1>e. \/ n.pc = "gone" /\ ~Database!Held(s, r) /\ n.pending = {}
      \/ n.pc = "closed" /\ Database!Held(s, r)
      \/ n.pc = "open" /\ dbSession[s].pc = "open"
  BY DEF DatabaseLeaving
<1>f. n.pc = "open" /\ n.user = "nobody" => n.shows = n.tx
  BY DEF DatabaseLeaving
<1>g. dbRun'[r].answer = "cancelled" => Database!Serves(r) /\ n.pc \in {"closed", "gone"}
  BY DEF DatabaseLeaving
<1>h. DatabaseRunOK(dbRun'[r]) /\ DatabaseSessionOK(n) /\ n.pending \subseteq dbSession[s].pending
      /\ (~Database!Serves(r) => n.tx = dbSession[s].tx)
  BY DEF DatabaseLeaving
<1>2. Database!Held(s, r) <=> \E q \in dbRequests : q # r /\ DatabaseHolds(q) /\ dbRun[q].of = s
  BY DEF Database!Held, DatabaseHolds
<1>3. \A q \in dbRequests : q # r =>
        /\ (Database!Serves(q)' <=> Database!Serves(q)) /\ (DatabaseHolds(q)' <=> DatabaseHolds(q))
        /\ dbRun'[q].of = dbRun[q].of
  BY <1>b DEF Database!Serves, DatabaseHolds
<1>4. ~Database!Serves(r)' /\ ~DatabaseHolds(r)'
  BY <1>a DEF Database!Serves, DatabaseHolds
<1>5. DatabaseTypes'
  BY <1>a, <1>b, <1>c, <1>h DEF DatabaseIInv, DatabaseTypes, DatabaseSessionsOK,
    DatabaseRunsOK, DatabaseFilesOK
<1>6. \A q \in dbRequests : Database!Serves(q) => DatabaseHolds(q) /\ dbRun[q].of \in dbSessions
  BY DEF DatabaseIInv, DatabaseOwned, DatabaseHeldIsThere, DatabaseHolds,
    Database!Serves
<1>7. \A t \in dbSessions : dbSession[t].user # "nobody" => dbSession[t].user \in dbRequests
  BY DEF DatabaseIInv, DatabaseTypes, DatabaseSessionsOK, DatabaseSessionOK
<1>8. DatabaseUserServes'
  <2> SUFFICES ASSUME NEW t \in dbSessions, dbSession'[t].user # "nobody"
               PROVE  /\ dbRun'[dbSession'[t].user].of = t
                      /\ dbRun'[dbSession'[t].user].pc \in {"run", "end"}
    BY DEF DatabaseUserServes, Database!Serves
  <2>1. dbSession'[t].user = dbSession[t].user /\ (t = s => ~Database!Serves(r))
    BY <1>c, <1>d
  <2>2. dbSession[t].user \in dbRequests /\ dbRun[dbSession[t].user].of = t /\ Database!Serves(dbSession[t].user)
    BY <1>7, <2>1 DEF DatabaseIInv, DatabaseOwned, DatabaseUserServes
  <2>3. dbSession[t].user # r
    <3>1. Database!Serves(r) => t # s
      BY <2>1
    <3> QED BY <2>2, <3>1
  <2>4. dbRun'[dbSession[t].user] = dbRun[dbSession[t].user]
    BY <1>b, <2>2, <2>3
  <2> QED BY <2>1, <2>2, <2>4 DEF Database!Serves
<1>9. DatabaseServerUses'
  <2> SUFFICES ASSUME NEW q \in dbRequests, Database!Serves(q)' PROVE dbSession'[dbRun'[q].of].user = q
    BY DEF DatabaseServerUses
  <2>1. q # r /\ Database!Serves(q) /\ dbRun'[q].of = dbRun[q].of /\ dbSession[dbRun[q].of].user = q
    BY <1>3, <1>4 DEF DatabaseIInv, DatabaseOwned, DatabaseServerUses
  <2>2. CASE dbRun[q].of = s
    <3>1. ~Database!Serves(r)
      BY <2>1, <2>2, DatabaseOneServes
    <3> QED BY <1>d, <2>1, <2>2, <3>1
  <2>3. CASE dbRun[q].of # s
    BY <1>6, <1>c, <2>1, <2>3
  <2> QED BY <2>2, <2>3
<1>10. DatabaseHeldIsThere'
  <2> SUFFICES ASSUME NEW q \in dbRequests, DatabaseHolds(q)'
               PROVE  dbRun'[q].of \in dbSessions /\ dbSession'[dbRun'[q].of].pc \in {"open", "closed"}
    BY DEF DatabaseHeldIsThere
  <2>1. q # r /\ DatabaseHolds(q) /\ dbRun'[q].of = dbRun[q].of /\ dbRun[q].of \in dbSessions
        /\ dbSession[dbRun[q].of].pc \in {"open", "closed"}
    BY <1>3, <1>4 DEF DatabaseIInv, DatabaseOwned, DatabaseHeldIsThere
  <2>2. CASE dbRun[q].of = s
    BY <1>2, <1>e, <2>1, <2>2
  <2>3. CASE dbRun[q].of # s
    BY <1>c, <2>1, <2>3
  <2> QED BY <2>2, <2>3
<1>11. DatabaseClosedIsHeld'
  <2> SUFFICES ASSUME NEW t \in dbSessions, dbSession'[t].pc = "closed"
               PROVE  \E q \in dbRequests : DatabaseHolds(q)' /\ dbRun'[q].of = t
    BY DEF DatabaseClosedIsHeld
  <2>1. CASE t = s
    BY <1>2, <1>3, <1>e, <2>1, <1>1
  <2>2. CASE t # s
    <3>1. PICK q \in dbRequests : DatabaseHolds(q) /\ dbRun[q].of = t
      BY <1>c, <2>2 DEF DatabaseIInv, DatabaseOwned, DatabaseClosedIsHeld
    <3> QED BY <1>3, <2>2, <3>1
  <2> QED BY <2>1, <2>2
<1>12. DatabaseGoneKeepsNothing' /\ DatabaseToolbarTrue'
  BY <1>c, <1>e, <1>f DEF DatabaseIInv, DatabaseKept, DatabaseGoneKeepsNothing,
    DatabaseToolbarTrue
<1>13. DatabaseCancelledEnds'
  <2> SUFFICES ASSUME NEW q \in dbRequests, dbRun'[q].answer = "cancelled"
               PROVE  /\ dbRun'[q].pc = "done" /\ dbRun'[q].of \in dbSessions
                      /\ dbSession'[dbRun'[q].of].pc \in {"closed", "gone"}
    BY DEF DatabaseCancelledEnds
  <2>1. CASE q = r
    BY <1>1, <1>a, <1>g, <2>1
  <2>2. CASE q # r
    <3>1. dbRun'[q] = dbRun[q] /\ dbRun[q].pc = "done" /\ dbRun[q].of \in dbSessions
          /\ dbSession[dbRun[q].of].pc \in {"closed", "gone"}
      BY <1>b, <2>2 DEF DatabaseIInv, DatabaseKept, DatabaseCancelledEnds
    <3>2. dbRun[q].of = s => n.pc \in {"closed", "gone"}
      BY <1>e, <3>1
    <3> QED BY <1>c, <3>1, <3>2
  <2> QED BY <2>1, <2>2
<1>14. DatabaseNoneAfter'
  <2> SUFFICES ASSUME NEW q \in dbRequests, NEW o \in dbRequests, dbRun'[q].answer = "cancelled",
                      dbRun'[o].pc = "run"
               PROVE  dbRun'[o].of # dbRun'[q].of
    BY DEF DatabaseNoneAfter
  <2>1. o # r /\ dbRun'[o] = dbRun[o]
    BY <1>a, <1>b
  <2>2. CASE q = r
    <3>1. Database!Serves(r) /\ Database!Serves(o)
      BY <1>g, <2>1, <2>2 DEF Database!Serves
    <3> QED BY <1>a, <2>1, <2>2, <3>1, DatabaseOneServes
  <2>3. CASE q # r
    BY <1>b, <2>1, <2>3 DEF DatabaseIInv, DatabaseKept, DatabaseNoneAfter
  <2> QED BY <2>2, <2>3
<1>15. DatabaseQuiet
  <2>1. \A t \in dbSessions : dbSession'[t].pending \subseteq dbSession[t].pending
    BY <1>c, <1>h
  <2>2. ASSUME NEW q \in dbRequests, dbRun'[q].pc = "run"
        PROVE  dbRun[q].pc = "run" /\ dbSession'[dbRun[q].of].tx = dbSession[dbRun[q].of].tx
    <3>1. q # r /\ dbRun[q].pc = "run" /\ Database!Serves(q) /\ dbRun[q].of \in dbSessions
      BY <1>6, <1>a, <1>b, <2>2 DEF Database!Serves
    <3>2. CASE dbRun[q].of = s
      <4>1. ~Database!Serves(r)
        BY <3>1, <3>2, DatabaseOneServes
      <4> QED BY <1>h, <3>1, <3>2, <4>1
    <3>3. CASE dbRun[q].of # s
      BY <1>c, <3>1, <3>3
    <3> QED BY <3>2, <3>3
  <2>3. \A q \in dbRequests :
          /\ dbRun'[q].script = dbRun[q].script /\ dbRun'[q].at = dbRun[q].at /\ dbRun'[q].of = dbRun[q].of
          /\ dbRun'[q].pc \in {"look", "run"} => dbRun[q].pc \in {"look", "run"}
          /\ dbRun'[q].pc = "look" => dbRun[q].pc = "look"
          /\ dbRun[q].pc \notin {"new", "look"} => dbRun'[q].pc \notin {"new", "look"}
          /\ dbRun'[q].pc # "done" \/ dbRun'[q].answer = "cancelled" => DatabaseProtected(q)
    BY <1>1, <1>a, <1>b DEF DatabaseProtected
  <2> QED BY <1>a, <2>1, <2>2, <2>3 DEF DatabaseQuiet
<1> QED BY <1>5, <1>8, <1>9, <1>10, <1>11, <1>12, <1>13, <1>14, <1>15,
    DatabaseQuietHolds DEF DatabaseIInv, DatabaseOwned, DatabaseKept

LEMMA DatabaseLockHolds ==
  ASSUME DatabaseIInv, Database!SqliteAssumption, NEW r \in dbRequests, Database!Lock(r)
  PROVE  DatabaseIInv'
<1> DEFINE s == dbRun[r].of
<1>1. dbRun[r].pc = "look" /\ DatabaseHolds(r) /\ ~Database!Serves(r) /\ UNCHANGED <<dbDisk, dbForeign>>
  BY DEF Database!Lock, DatabaseHolds, Database!Serves
<1>2. s \in dbSessions /\ dbSession[s].pc \in {"open", "closed"} /\ DatabaseSessionsOK /\ DatabaseRunsOK
      /\ DatabaseSessionOK(dbSession[s]) /\ DatabaseRunOK(dbRun[r])
  BY <1>1 DEF DatabaseIInv, DatabaseOwned, DatabaseHeldIsThere, DatabaseTypes,
    DatabaseSessionsOK, DatabaseRunsOK
<1>3. CASE dbSession[s].user # "nobody"
  <2> DEFINE x == [dbRun[r] EXCEPT !.pc = "done", !.answer = "busy"]
  <2>1. dbRun' = [dbRun EXCEPT ![r] = x]
    BY <1>2, <1>3 DEF Database!Lock, Database!Answers, DatabaseRunsOK
  <2>2. DatabaseRunOK(x) /\ x.pc = "done" /\ x.of = s /\ x.script = dbRun[r].script /\ x.at = dbRun[r].at
        /\ x.answer = "busy"
    BY <1>2 DEF DatabaseRunOK, DatabaseRunFields
  <2> HIDE DEF x
  <2>3. DOMAIN dbRun' = dbRequests /\ dbRun'[r] = x /\ \A q \in dbRequests : q # r => dbRun'[q] = dbRun[q]
    BY <1>2, <2>1, DatabaseRunPut
  <2>4. Database!Held(s, r)
    <3>1. dbSession[s].user \in dbRequests /\ dbRun[dbSession[s].user].of = s /\ Database!Serves(dbSession[s].user)
      BY <1>2, <1>3 DEF DatabaseSessionOK, DatabaseIInv, DatabaseOwned,
        DatabaseUserServes
    <3> QED BY <1>1, <3>1 DEF Database!Held, Database!Serves
  <2>5. Database!Leaves(r, dbSession[s]) = dbSession[s]
    BY <2>4 DEF Database!Leaves
  <2>6. dbSession' = [dbSession EXCEPT ![s] = dbSession[s]]
    BY <1>3, <2>5 DEF Database!Lock
  <2>7. DOMAIN dbSession' = dbSessions /\ dbSession'[s] = dbSession[s]
        /\ \A t \in dbSessions : t # s => dbSession'[t] = dbSession[t]
    BY <1>2, <2>6, DatabaseSessionPut
  <2>8. DatabaseLeaving(r)
    BY <1>1, <1>2, <1>3, <2>2, <2>3, <2>4, <2>7 DEF DatabaseLeaving
  <2> QED BY <1>1, <2>8, DatabaseLeavingHolds
<1>4. CASE dbSession[s].user = "nobody"
  <2> DEFINE p == IF dbSession[s].pc = "closed" THEN "end" ELSE "run"
             x == [dbRun[r] EXCEPT !.pc = p, !.watched = TRUE]
             n == [dbSession[s] EXCEPT !.user = r]
  <2>1. dbRun' = [dbRun EXCEPT ![r] = x] /\ dbSession' = [dbSession EXCEPT ![s] = n]
    BY <1>2, <1>4 DEF Database!Lock, DatabaseRunsOK
  <2>2. p \in {"run", "end"} /\ (p = "run" => dbSession[s].pc = "open")
    BY <1>2
  <2> HIDE DEF p
  <2>3. DatabaseRunOK(x) /\ x.pc = p /\ x.of = s /\ x.script = dbRun[r].script /\ x.at = dbRun[r].at
        /\ x.answer = dbRun[r].answer
    BY <1>2, <2>2 DEF DatabaseRunOK, DatabaseRunFields
  <2>4. DatabaseSessionOK(n) /\ n.pc = dbSession[s].pc /\ n.user = r /\ n.tx = dbSession[s].tx
        /\ n.shows = dbSession[s].shows /\ n.pending = dbSession[s].pending
    BY <1>2 DEF DatabaseSessionOK, DatabaseSessionFields
  <2> HIDE DEF x, n
  <2>5. DOMAIN dbRun' = dbRequests /\ dbRun'[r] = x /\ \A q \in dbRequests : q # r => dbRun'[q] = dbRun[q]
    BY <1>2, <2>1, DatabaseRunPut
  <2>6. DOMAIN dbSession' = dbSessions /\ dbSession'[s] = n
        /\ \A t \in dbSessions : t # s => dbSession'[t] = dbSession[t]
    BY <1>2, <2>1, DatabaseSessionPut
  <2>7. DatabaseTypes'
    BY <1>1, <2>3, <2>4, <2>5, <2>6 DEF DatabaseIInv, DatabaseTypes, DatabaseSessionsOK,
      DatabaseRunsOK, DatabaseFilesOK
  <2>8. \A q \in dbRequests : Database!Serves(q) => dbRun[q].of \in dbSessions /\ dbRun[q].of # s
    <3>1. \A q \in dbRequests : Database!Serves(q) => q # "nobody" /\ dbSession[dbRun[q].of].user = q
                                            /\ dbRun[q].of \in dbSessions
      BY DEF DatabaseIInv, DatabaseOwned, DatabaseServerUses, DatabaseHeldIsThere,
        DatabaseHolds, Database!Serves, Database!SqliteAssumption
    <3> QED BY <1>4, <3>1
  <2>9. \A q \in dbRequests : (DatabaseHolds(q)' <=> DatabaseHolds(q)) /\ dbRun'[q].of = dbRun[q].of
    BY <1>1, <2>2, <2>3, <2>5 DEF DatabaseHolds
  <2>10. DatabaseUserServes'
    <3> SUFFICES ASSUME NEW t \in dbSessions, dbSession'[t].user # "nobody"
                 PROVE  /\ dbRun'[dbSession'[t].user].of = t
                        /\ dbRun'[dbSession'[t].user].pc \in {"run", "end"}
      BY DEF DatabaseUserServes, Database!Serves
    <3>1. CASE t = s
      BY <2>2, <2>3, <2>4, <2>5, <2>6, <3>1
    <3>2. CASE t # s
      <4>1. dbSession'[t] = dbSession[t] /\ dbSession[t].user \in dbRequests
        BY <2>6, <3>2 DEF DatabaseIInv, DatabaseTypes, DatabaseSessionsOK,
          DatabaseSessionOK
      <4>2. dbRun[dbSession[t].user].of = t /\ dbRun[dbSession[t].user].pc \in {"run", "end"}
        BY <4>1 DEF DatabaseIInv, DatabaseOwned, DatabaseUserServes, Database!Serves
      <4>3. dbSession[t].user # r
        BY <1>1, <4>2
      <4> QED BY <2>5, <4>1, <4>2, <4>3
    <3> QED BY <3>1, <3>2
  <2>11. DatabaseServerUses'
    <3> SUFFICES ASSUME NEW q \in dbRequests, Database!Serves(q)' PROVE dbSession'[dbRun'[q].of].user = q
      BY DEF DatabaseServerUses
    <3>1. CASE q = r
      BY <2>3, <2>4, <2>5, <2>6, <3>1
    <3>2. CASE q # r
      <4>1. Database!Serves(q) /\ dbRun'[q] = dbRun[q]
        BY <2>5, <3>2 DEF Database!Serves
      <4> QED BY <2>6, <2>8, <4>1 DEF DatabaseIInv, DatabaseOwned, DatabaseServerUses
    <3> QED BY <3>1, <3>2
  <2>12. \A t \in dbSessions : dbSession'[t].pc = dbSession[t].pc /\ dbSession'[t].tx = dbSession[t].tx
           /\ dbSession'[t].shows = dbSession[t].shows /\ dbSession'[t].pending = dbSession[t].pending
    BY <2>4, <2>6
  <2>13. DatabaseHeldIsThere' /\ DatabaseClosedIsHeld'
    BY <2>9, <2>12 DEF DatabaseIInv, DatabaseOwned, DatabaseHeldIsThere,
      DatabaseClosedIsHeld
  <2>14. DatabaseGoneKeepsNothing'
    BY <2>12 DEF DatabaseIInv, DatabaseKept, DatabaseGoneKeepsNothing
  <2>15. DatabaseToolbarTrue'
    BY <2>4, <2>6 DEF DatabaseIInv, DatabaseKept, DatabaseToolbarTrue,
      Database!SqliteAssumption
  <2>16. DatabaseCancelledEnds'
    <3>1. \A q \in dbRequests : dbRun'[q].answer = dbRun[q].answer
      BY <2>3, <2>5
    <3>2. \A q \in dbRequests : dbRun[q].pc = "done" => dbRun'[q].pc = "done"
      BY <1>1, <2>5
    <3> QED BY <2>9, <2>12, <3>1, <3>2 DEF DatabaseIInv, DatabaseKept,
        DatabaseCancelledEnds
  <2>17. DatabaseNoneAfter'
    <3> SUFFICES ASSUME NEW q \in dbRequests, NEW o \in dbRequests, dbRun'[q].answer = "cancelled",
                        dbRun'[o].pc = "run"
                 PROVE  dbRun'[o].of # dbRun'[q].of
      BY DEF DatabaseNoneAfter
    <3>1. dbRun[q].answer = "cancelled" /\ dbRun'[o].of = dbRun[o].of /\ dbRun'[q].of = dbRun[q].of
      BY <2>3, <2>5
    <3>2. CASE o = r
      <4>1. dbSession[s].pc = "open"
        BY <2>2, <2>3, <2>5, <3>2
      <4> QED BY <3>1, <3>2, <4>1 DEF DatabaseIInv, DatabaseKept, DatabaseCancelledEnds
    <3>3. CASE o # r
      BY <2>5, <3>1, <3>3 DEF DatabaseIInv, DatabaseKept, DatabaseNoneAfter
    <3> QED BY <3>2, <3>3
  <2>18. DatabaseQuiet
    <3>1. \A q \in dbRequests :
            /\ dbRun'[q].script = dbRun[q].script /\ dbRun'[q].at = dbRun[q].at /\ dbRun'[q].of = dbRun[q].of
            /\ dbRun'[q].pc \in {"look", "run"} => dbRun[q].pc \in {"look", "run"}
            /\ dbRun'[q].pc = "look" => dbRun[q].pc = "look"
            /\ dbRun[q].pc \notin {"new", "look"} => dbRun'[q].pc \notin {"new", "look"}
            /\ dbRun'[q].pc # "done" \/ dbRun'[q].answer = "cancelled" => DatabaseProtected(q)
      BY <1>1, <2>2, <2>3, <2>5 DEF DatabaseProtected
    <3>2. \A q \in dbRequests : dbRun'[q].pc = "run" => \/ dbRun[q].pc = "look"
                                \/ /\ dbRun[q].pc = "run"
                                   /\ dbSession'[dbRun[q].of].tx = dbSession[dbRun[q].of].tx
      <4> SUFFICES ASSUME NEW q \in dbRequests, dbRun'[q].pc = "run", q # r
                   PROVE  dbRun[q].pc = "run" /\ dbSession'[dbRun[q].of].tx = dbSession[dbRun[q].of].tx
        BY <1>1
      <4>1. dbRun[q].pc = "run"
        BY <2>5
      <4> QED BY <2>8, <2>12, <4>1 DEF Database!Serves
    <3> QED BY <1>1, <2>12, <3>1, <3>2 DEF DatabaseQuiet
  <2> QED BY <2>7, <2>10, <2>11, <2>13, <2>14, <2>15, <2>16, <2>17, <2>18,
      DatabaseQuietHolds DEF DatabaseIInv, DatabaseOwned, DatabaseKept
<1> QED BY <1>3, <1>4

LEMMA DatabaseEndsHolds ==
  ASSUME DatabaseIInv, Database!SqliteAssumption, NEW r \in dbRequests, Database!Ends(r)
  PROVE  DatabaseIInv'
<1> DEFINE s == dbRun[r].of
           now == [dbSession[s] EXCEPT !.user = "nobody"]
<1>1. dbRun[r].pc = "end" /\ DatabaseHolds(r) /\ Database!Serves(r) /\ UNCHANGED <<dbDisk, dbForeign>>
  BY DEF Database!Ends, DatabaseHolds, Database!Serves
<1>2. s \in dbSessions /\ dbSession[s].pc \in {"open", "closed"} /\ DatabaseSessionsOK /\ DatabaseRunsOK
      /\ DatabaseSessionOK(dbSession[s]) /\ DatabaseRunOK(dbRun[r])
  BY <1>1 DEF DatabaseIInv, DatabaseOwned, DatabaseHeldIsThere, DatabaseTypes,
    DatabaseSessionsOK, DatabaseRunsOK
<1>3. DatabaseSessionOK(now) /\ now.pc = dbSession[s].pc /\ now.user = "nobody" /\ now.tx = dbSession[s].tx
      /\ now.pending = dbSession[s].pending
  BY <1>2 DEF DatabaseSessionOK, DatabaseSessionFields
<1>4. PICK answer \in {"cancelled", "error", "ok"} :
        /\ Database!Answers(r, answer)
        /\ \/ /\ now.pc = "closed" \/ dbRun[r].late
              /\ dbSession' = [dbSession EXCEPT ![s] = Database!Leaves(r, [now EXCEPT !.pc = "closed", !.shows = FALSE])]
           \/ /\ now.pc # "closed" /\ answer # "cancelled"
              /\ dbSession' = [dbSession EXCEPT ![s] = [now EXCEPT !.shows = now.tx]]
  BY DEF Database!Ends
<1> DEFINE x == [dbRun[r] EXCEPT !.pc = "done", !.answer = answer]
<1>5. dbRun' = [dbRun EXCEPT ![r] = x]
  BY <1>2, <1>4 DEF Database!Answers, DatabaseRunsOK
<1>6. DatabaseRunOK(x) /\ x.pc = "done" /\ x.of = s /\ x.script = dbRun[r].script /\ x.at = dbRun[r].at
      /\ x.answer = answer
  BY <1>2 DEF DatabaseRunOK, DatabaseRunFields
<1> HIDE DEF x, now
<1>7. DOMAIN dbRun' = dbRequests /\ dbRun'[r] = x /\ \A q \in dbRequests : q # r => dbRun'[q] = dbRun[q]
  BY <1>2, <1>5, DatabaseRunPut
<1>8. ASSUME dbSession' = [dbSession EXCEPT ![s] = Database!Leaves(r, [now EXCEPT !.pc = "closed", !.shows = FALSE])]
      PROVE  DatabaseLeaving(r)
  <2> DEFINE c == [now EXCEPT !.pc = "closed", !.shows = FALSE]
  <2>1. DatabaseSessionOK(c) /\ c.pc = "closed" /\ c.user = "nobody" /\ c.pending = now.pending
    BY <1>3 DEF DatabaseSessionOK, DatabaseSessionFields
  <2>2. dbSession' = [dbSession EXCEPT ![s] = Database!Leaves(r, c)]
    BY <1>8
  <2> HIDE DEF c
  <2>3. DOMAIN dbSession' = dbSessions /\ dbSession'[s] = Database!Leaves(r, c)
        /\ \A t \in dbSessions : t # s => dbSession'[t] = dbSession[t]
    BY <1>2, <2>2, DatabaseSessionPut
  <2>4. CASE Database!Held(s, r)
    <3>1. Database!Leaves(r, c) = c
      BY <2>4 DEF Database!Leaves
    <3> QED BY <1>1, <1>3, <1>6, <1>7, <2>1, <2>3, <2>4, <3>1 DEF DatabaseLeaving
  <2>5. CASE ~Database!Held(s, r)
    <3> DEFINE d == Database!Dropped(c)
    <3>1. Database!Leaves(r, c) = d
      BY <2>1, <2>5 DEF Database!Leaves
    <3>2. DatabaseSessionOK(d) /\ d.pc = "gone" /\ d.user = "nobody" /\ d.pending = {}
      BY <2>1 DEF Database!Dropped, DatabaseSessionOK, DatabaseSessionFields
    <3> HIDE DEF d
    <3> QED BY <1>1, <1>6, <1>7, <2>3, <2>5, <3>1, <3>2 DEF DatabaseLeaving
  <2> QED BY <2>4, <2>5
<1>9. ASSUME now.pc # "closed", answer # "cancelled",
             dbSession' = [dbSession EXCEPT ![s] = [now EXCEPT !.shows = now.tx]]
      PROVE  DatabaseLeaving(r)
  <2> DEFINE c == [now EXCEPT !.shows = now.tx]
  <2>1. DatabaseSessionOK(c) /\ c.pc = "open" /\ c.user = "nobody" /\ c.pending = now.pending
        /\ c.tx = now.tx /\ c.shows = now.tx
    BY <1>2, <1>3, <1>9 DEF DatabaseSessionOK, DatabaseSessionFields
  <2>2. dbSession' = [dbSession EXCEPT ![s] = c]
    BY <1>9
  <2> HIDE DEF c
  <2>3. DOMAIN dbSession' = dbSessions /\ dbSession'[s] = c
        /\ \A t \in dbSessions : t # s => dbSession'[t] = dbSession[t]
    BY <1>2, <2>2, DatabaseSessionPut
  <2>4. dbSession[s].pc = "open"
    BY <1>2, <1>3, <1>9
  <2> QED BY <1>1, <1>3, <1>6, <1>7, <1>9, <2>1, <2>3, <2>4 DEF DatabaseLeaving
<1>10. DatabaseLeaving(r)
  BY <1>4, <1>8, <1>9
<1> QED BY <1>1, <1>10, DatabaseLeavingHolds

\* What a statement does to the transaction, and what it puts into the file.
DatabaseEffect(r, s, n, c) ==
  LET st == Database!Statement(r)
  IN \/ st = "begin" /\ n.tx = TRUE /\ n.pending = s.pending /\ c = {}
     \/ st = "write" /\ s.tx /\ n.tx = s.tx /\ n.pending = s.pending \cup {Database!Change(r)} /\ c = {}
     \/ st = "write" /\ ~s.tx /\ n.tx = s.tx /\ n.pending = s.pending /\ c = {Database!Change(r)}
     \/ st = "commit" /\ n.tx = FALSE /\ n.pending = {} /\ c = s.pending
     \/ st = "rollback" /\ n.tx = FALSE /\ n.pending = {} /\ c = {}
     \/ /\ st \notin {"begin", "write", "commit", "rollback"}
        /\ n.tx = s.tx /\ n.pending = s.pending /\ c = {}

LEMMA DatabaseStatementDoes ==
  ASSUME NEW r \in dbRequests, NEW s, DatabaseSessionOK(s), DatabaseRunOK(dbRun[r])
  PROVE  /\ DatabaseSessionOK(Database!After(r, Database!Done(r, s)))
         /\ Database!After(r, Database!Done(r, s)).pc = s.pc /\ Database!After(r, Database!Done(r, s)).user = s.user
         /\ DatabaseEffect(r, s, Database!After(r, Database!Done(r, s)), Database!Committed(r, s))
<1> DEFINE st == Database!Statement(r)  d == Database!Done(r, s)  n == Database!After(r, d)  c == Database!Committed(r, s)
<1> DEFINE Goal == DatabaseSessionOK(n) /\ n.pc = s.pc /\ n.user = s.user /\ DatabaseEffect(r, s, n, c)
<1>1. Database!Change(r) \in dbRequests \X Nat
  BY DEF Database!Change, DatabaseRunOK
<1>2. ASSUME NEW e, DOMAIN e = DatabaseSessionFields, d = e
      PROVE  /\ DOMAIN n = DatabaseSessionFields /\ n.vacuum = FALSE /\ n.pc = e.pc /\ n.user = e.user
             /\ n.tx = e.tx /\ n.pending = e.pending /\ n.shows = e.shows
  <2>1. n = [e EXCEPT !.vacuum = FALSE]
    BY <1>2 DEF Database!After
  <2> HIDE DEF d, n
  <2> QED BY <1>2, <2>1 DEF DatabaseSessionFields
<1>3. ASSUME st = "begin" PROVE Goal
  <2> DEFINE e == [s EXCEPT !.tx = TRUE]
  <2>1. d = e /\ c = {}
    BY <1>3 DEF Database!Done, Database!Committed
  <2>2. /\ DOMAIN e = DatabaseSessionFields /\ e.pc = s.pc /\ e.user = s.user /\ e.tx = TRUE
        /\ e.pending = s.pending /\ e.shows = s.shows
    BY DEF DatabaseSessionOK, DatabaseSessionFields
  <2> HIDE DEF d, e, n
  <2> QED BY <1>2, <1>3, <2>1, <2>2 DEF DatabaseSessionOK, DatabaseEffect
<1>4. ASSUME st = "write" /\ s.tx PROVE Goal
  <2> DEFINE e == [s EXCEPT !.pending = @ \cup {Database!Change(r)}]
  <2>1. d = e /\ c = {}
    BY <1>4 DEF Database!Done, Database!Committed
  <2>2. /\ DOMAIN e = DatabaseSessionFields /\ e.pc = s.pc /\ e.user = s.user /\ e.tx = s.tx
        /\ e.pending = s.pending \cup {Database!Change(r)} /\ e.shows = s.shows
    BY DEF DatabaseSessionOK, DatabaseSessionFields
  <2> HIDE DEF d, e, n
  <2> QED BY <1>1, <1>2, <1>4, <2>1, <2>2 DEF DatabaseSessionOK, DatabaseEffect
<1>5. ASSUME st = "write" /\ ~s.tx PROVE Goal
  <2>1. d = s /\ c = {Database!Change(r)}
    BY <1>5 DEF Database!Done, Database!Committed
  <2> HIDE DEF d, n
  <2> QED BY <1>2, <1>5, <2>1 DEF DatabaseSessionOK, DatabaseEffect
<1>6. ASSUME st \in {"commit", "rollback"} PROVE Goal
  <2> DEFINE e == [s EXCEPT !.tx = FALSE, !.pending = {}]
  <2>1. d = e /\ c = IF st = "commit" THEN s.pending ELSE {}
    BY <1>6 DEF Database!Done, Database!Committed
  <2>2. /\ DOMAIN e = DatabaseSessionFields /\ e.pc = s.pc /\ e.user = s.user /\ e.tx = FALSE
        /\ e.pending = {} /\ e.shows = s.shows
    BY DEF DatabaseSessionOK, DatabaseSessionFields
  <2> HIDE DEF d, e, n
  <2> QED BY <1>2, <1>6, <2>1, <2>2 DEF DatabaseSessionOK, DatabaseEffect
<1>7. ASSUME st \notin {"begin", "write", "commit", "rollback"} PROVE Goal
  <2>1. d = s /\ c = {}
    BY <1>7 DEF Database!Done, Database!Committed
  <2> HIDE DEF d, n
  <2> QED BY <1>2, <1>7, <2>1 DEF DatabaseSessionOK, DatabaseEffect
<1>8. s.tx \in BOOLEAN
  BY DEF DatabaseSessionOK
<1>9. Goal
  BY <1>3, <1>4, <1>5, <1>6, <1>7, <1>8
<1> QED BY <1>9

LEMMA DatabaseUncommittedIs ==
  ASSUME NEW q \in dbRequests, NEW c \in Database!Uncommitted(q)
  PROVE  \E i : /\ c = <<q, i>> /\ dbRun[q].script[i] = "write"
                /\ \E b \in 1..i : /\ dbRun[q].script[b] = "begin"
                                   /\ \A k \in b..i : dbRun[q].script[k] # "rollback"
                                   /\ \A k \in b..Len(dbRun[q].script) : dbRun[q].script[k] # "commit"
  BY DEF Database!Uncommitted

LEMMA DatabaseExecutesHolds ==
  ASSUME DatabaseIInv, Database!SqliteAssumption, NEW r \in dbRequests, Database!Executes(r)
  PROVE  DatabaseIInv'
<1> DEFINE s == dbRun[r].of  at == dbRun[r].at  st == Database!Statement(r)  script == dbRun[r].script
           n == Database!After(r, Database!Done(r, dbSession[s]))
           p == IF Database!More(r) THEN "run" ELSE "end"
           x == [dbRun[r] EXCEPT !.at = @ + 1, !.pc = p]
<1>1. dbRun[r].pc = "run" /\ ~Database!Refused(r, dbSession[s]) /\ dbSession' = [dbSession EXCEPT ![s] = n]
      /\ dbDisk' = dbDisk \cup Database!Committed(r, dbSession[s])
      /\ dbForeign' = (dbForeign \/ st = "attach") /\ Database!Next1(r)
  BY DEF Database!Executes
<1>2. s \in dbSessions /\ dbSession[s].pc \in {"open", "closed"} /\ DatabaseSessionsOK /\ DatabaseRunsOK
      /\ DatabaseSessionOK(dbSession[s]) /\ DatabaseRunOK(dbRun[r]) /\ Database!Serves(r)
  BY <1>1 DEF DatabaseIInv, DatabaseOwned, DatabaseHeldIsThere, DatabaseHolds,
    Database!Serves, DatabaseTypes, DatabaseSessionsOK, DatabaseRunsOK
<1>3. Len(script) \in Nat /\ at \in 1..Len(script) /\ st = script[at]
  BY <1>1 DEF DatabaseIInv, DatabaseDone1, DatabaseCursor, Database!Statement
<1>4. DatabaseSessionOK(n) /\ n.pc = dbSession[s].pc /\ n.user = dbSession[s].user
      /\ DatabaseEffect(r, dbSession[s], n, Database!Committed(r, dbSession[s]))
  BY <1>2, DatabaseStatementDoes
<1>5. dbForeign' = FALSE
  BY <1>1, <1>2 DEF Database!Refused, Database!Denied, DatabaseSessionOK, DatabaseIInv,
    DatabaseTypes, DatabaseFilesOK
<1>6. p \in {"run", "end"} /\ (p = "run" => at < Len(script))
  BY DEF Database!More
<1>7. dbRun' = [dbRun EXCEPT ![r] = x]
  BY <1>1, <1>2 DEF Database!Next1, DatabaseRunsOK
<1> HIDE DEF n, p
<1>8. DatabaseRunOK(x) /\ x.pc = p /\ x.of = s /\ x.script = script /\ x.at = at + 1
      /\ x.answer = dbRun[r].answer
  BY <1>2, <1>6 DEF DatabaseRunOK, DatabaseRunFields
<1> HIDE DEF x
<1>9. DOMAIN dbRun' = dbRequests /\ dbRun'[r] = x /\ \A q \in dbRequests : q # r => dbRun'[q] = dbRun[q]
  BY <1>2, <1>7, DatabaseRunPut
<1>10. DOMAIN dbSession' = dbSessions /\ dbSession'[s] = n
       /\ \A t \in dbSessions : t # s => dbSession'[t] = dbSession[t]
  BY <1>1, <1>2, DatabaseSessionPut
<1> DEFINE c == Database!Committed(r, dbSession[s])
<1>11. dbDisk' = dbDisk \cup c /\ DatabaseEffect(r, dbSession[s], n, c)
  BY <1>1, <1>4
<1> HIDE DEF c
<1>12. Database!Change(r) = <<r, at>> /\ Database!Change(r) \in dbRequests \X Nat
  BY <1>2 DEF Database!Change, DatabaseRunOK
<1>13. DatabaseTypes'
  <2>1. c \subseteq dbRequests \X Nat
    BY <1>2, <1>11, <1>12 DEF DatabaseEffect, DatabaseSessionOK
  <2> QED BY <1>4, <1>5, <1>8, <1>9, <1>10, <1>11, <2>1 DEF DatabaseIInv, DatabaseTypes,
      DatabaseSessionsOK, DatabaseRunsOK, DatabaseFilesOK
<1>14. DatabaseOwned' /\ DatabaseKept'
  BY <1>1, <1>4, <1>6, <1>8, <1>9, <1>10, DatabaseServingKeeps
<1>15. DatabaseCursor'
  BY <1>3, <1>6, <1>8, <1>9 DEF DatabaseIInv, DatabaseDone1, DatabaseCursor
<1>16. DatabaseInTransaction'
  <2> SUFFICES ASSUME NEW q \in dbRequests, dbRun'[q].pc = "run",
                      NEW b \in 1..(dbRun'[q].at - 1), dbRun'[q].script[b] = "begin",
                      \A k \in b..(dbRun'[q].at - 1) : dbRun'[q].script[k] \notin {"commit", "rollback"}
               PROVE  dbSession'[dbRun'[q].of].tx
    BY DEF DatabaseInTransaction
  <2>1. CASE q = r
    <3>1. dbRun'[q].script = script /\ dbRun'[q].at = at + 1 /\ dbRun'[q].of = s
      BY <1>8, <1>9, <2>1
    <3>2. b \in 1..at /\ \A k \in b..at : script[k] \notin {"commit", "rollback"}
      BY <1>3, <3>1
    <3>3. st \notin {"commit", "rollback"}
      BY <1>3, <3>2
    <3>4. CASE b = at
      <4>1. n.tx = TRUE
        BY <1>3, <1>11, <3>1, <3>4 DEF DatabaseEffect
      <4> QED BY <1>10, <3>1, <4>1
    <3>5. CASE b # at
      <4>1. b \in 1..(at - 1) /\ \A k \in b..(at - 1) : script[k] \notin {"commit", "rollback"}
        BY <1>3, <3>2, <3>5
      <4>2. dbSession[s].tx
        BY <1>1, <3>1, <4>1 DEF DatabaseIInv, DatabaseDone1, DatabaseInTransaction
      <4>3. n.tx
        BY <1>11, <3>3, <4>2 DEF DatabaseEffect
      <4> QED BY <1>10, <3>1, <4>3
    <3> QED BY <3>4, <3>5
  <2>2. CASE q # r
    <3>1. dbRun'[q] = dbRun[q] /\ dbRun[q].pc = "run" /\ Database!Serves(q)
      BY <1>9, <2>2 DEF Database!Serves
    <3>2. dbRun[q].of # s /\ dbRun[q].of \in dbSessions
      BY <1>2, <2>2, <3>1, DatabaseOneServes DEF DatabaseIInv, DatabaseOwned,
        DatabaseHeldIsThere, DatabaseHolds
    <3> QED BY <1>10, <3>1, <3>2 DEF DatabaseIInv, DatabaseDone1, DatabaseInTransaction
  <2> QED BY <2>1, <2>2
<1>17. \A q \in dbRequests, i \in Nat :
         (DatabaseBegan(q, i) \/ (q = r /\ i = at)) => DatabaseBegan(q, i)' /\ dbRun'[q].of = dbRun[q].of
  BY <1>1, <1>2, <1>6, <1>8, <1>9 DEF DatabaseBegan, DatabaseRunOK
<1>18. DatabaseTraced'
  <2>1. ASSUME NEW q \in dbRequests, NEW i \in Nat, <<q, i>> \in dbDisk' PROVE DatabaseBegan(q, i)'
    <3>1. CASE <<q, i>> \in dbDisk \/ <<q, i>> \in dbSession[s].pending
      BY <1>2, <1>17, <3>1 DEF DatabaseIInv, DatabaseDone1, DatabaseTraced
    <3>2. CASE <<q, i>> = Database!Change(r)
      BY <1>12, <1>17, <3>2
    <3> QED BY <1>11, <2>1, <3>1, <3>2 DEF DatabaseEffect
  <2>2. ASSUME NEW q \in dbRequests, NEW i \in Nat, NEW t \in dbSessions,
               <<q, i>> \in dbSession'[t].pending
        PROVE  DatabaseBegan(q, i)' /\ dbRun'[q].of = t
    <3>1. CASE <<q, i>> \in dbSession[t].pending
      BY <1>17, <3>1 DEF DatabaseIInv, DatabaseDone1, DatabaseTraced
    <3>2. CASE <<q, i>> \notin dbSession[t].pending
      <4>1. t = s /\ <<q, i>> \in n.pending
        BY <1>10, <2>2, <3>2
      <4>2. <<q, i>> = Database!Change(r)
        BY <1>11, <3>2, <4>1 DEF DatabaseEffect
      <4> QED BY <1>12, <1>17, <4>1, <4>2
    <3> QED BY <3>1, <3>2
  <2> QED BY <2>1, <2>2 DEF DatabaseTraced
<1>19. DatabaseRolled'
  <2> SUFFICES ASSUME NEW q \in dbRequests, DatabaseProtected(q)',
                      NEW d \in Database!Uncommitted(q)', d \in dbDisk'
               PROVE  FALSE
    BY DEF DatabaseRolled
  <2>1. dbRun'[q].script = dbRun[q].script
    BY <1>8, <1>9
  <2>2. DatabaseProtected(q) /\ d \in Database!Uncommitted(q)
    <3>1. DatabaseProtected(q)
      BY <1>1, <1>9 DEF DatabaseProtected
    <3>2. Database!Uncommitted(q)' = Database!Uncommitted(q)
      BY <2>1 DEF Database!Uncommitted
    <3> QED BY <3>1, <3>2
  <2>3. d \notin dbDisk
    BY <2>2 DEF DatabaseIInv, DatabaseDone1, DatabaseRolled
  <2>4. PICK i : /\ d = <<q, i>> /\ dbRun[q].script[i] = "write"
                 /\ \E b \in 1..i :
                      /\ dbRun[q].script[b] = "begin"
                      /\ \A k \in b..i : dbRun[q].script[k] # "rollback"
                      /\ \A k \in b..Len(dbRun[q].script) : dbRun[q].script[k] # "commit"
    BY <2>2, DatabaseUncommittedIs
  <2>5. PICK b \in 1..i : /\ dbRun[q].script[b] = "begin"
                          /\ \A k \in b..i : dbRun[q].script[k] # "rollback"
                          /\ \A k \in b..Len(dbRun[q].script) : dbRun[q].script[k] # "commit"
    BY <2>4
  <2>6. i \in Nat
    BY <1>13, <2>4 DEF DatabaseTypes, DatabaseFilesOK
  <2>7. CASE st = "write" /\ ~dbSession[s].tx /\ c = {Database!Change(r)}
    <3>1. q = r /\ i = at
      BY <1>11, <1>12, <2>3, <2>4, <2>7
    <3>2. b # at
      BY <1>3, <2>5, <2>7, <3>1
    <3>3. b \in 1..(at - 1) /\ \A k \in b..(at - 1) : script[k] \notin {"commit", "rollback"}
      BY <1>3, <2>5, <3>1, <3>2
    <3>4. dbSession[s].tx
      BY <1>1, <2>5, <3>1, <3>3 DEF DatabaseIInv, DatabaseDone1, DatabaseInTransaction
    <3> QED BY <2>7, <3>4
  <2>8. CASE st = "commit" /\ c = dbSession[s].pending
    <3>1. DatabaseBegan(q, i) /\ dbRun[q].of = s
      BY <1>2, <1>11, <2>3, <2>4, <2>6, <2>8 DEF DatabaseIInv, DatabaseDone1,
        DatabaseTraced
    <3>2. CASE q = r
      <4>1. i < at
        BY <3>1, <3>2 DEF DatabaseBegan
      <4>2. at \in b..Len(script)
        BY <1>3, <2>6, <4>1
      <4> QED BY <1>3, <2>5, <2>8, <3>2, <4>2
    <3>3. CASE q # r
      <4>1. dbRun[q].pc = "done"
        <5>1. dbRun[q].pc \in {"run", "end", "done"}
          BY <3>1 DEF DatabaseBegan, DatabaseIInv, DatabaseTypes, DatabaseRunsOK,
            DatabaseRunOK
        <5>2. ~Database!Serves(q)
          BY <1>2, <3>1, <3>3, DatabaseOneServes
        <5> QED BY <5>1, <5>2 DEF Database!Serves
      <4>2. dbRun[q].answer = "cancelled"
        BY <2>2, <4>1 DEF DatabaseProtected
      <4> QED BY <1>1, <3>1, <4>2 DEF DatabaseIInv, DatabaseKept, DatabaseNoneAfter
    <3> QED BY <3>2, <3>3
  <2>9. c = {} \/ (st = "write" /\ ~dbSession[s].tx /\ c = {Database!Change(r)})
        \/ (st = "commit" /\ c = dbSession[s].pending)
    BY <1>11 DEF DatabaseEffect
  <2> QED BY <1>11, <2>3, <2>7, <2>8, <2>9
<1> QED BY <1>13, <1>14, <1>15, <1>16, <1>18, <1>19 DEF DatabaseIInv, DatabaseDone1

LEMMA DatabaseInvariance ==
  ASSUME Database!SqliteAssumption
  PROVE  Database!Spec => []DatabaseIInv
<1>1. DatabaseIInv /\ [Database!Next]_Database!vars => DatabaseIInv'
  <2> SUFFICES ASSUME DatabaseIInv, [Database!Next]_Database!vars PROVE DatabaseIInv'
    OBVIOUS
  <2>1. CASE UNCHANGED Database!vars
    <3>1. DatabaseTypes' /\ DatabaseOwned' /\ DatabaseKept'
      BY <2>1 DEF Database!vars, DatabaseIInv, DatabaseTypes, DatabaseSessionsOK,
        DatabaseRunsOK, DatabaseFilesOK, DatabaseOwned, DatabaseUserServes,
        DatabaseServerUses, DatabaseHeldIsThere, DatabaseClosedIsHeld, DatabaseHolds,
        Database!Serves, DatabaseKept, DatabaseGoneKeepsNothing, DatabaseToolbarTrue,
        DatabaseCancelledEnds, DatabaseNoneAfter
    <3>2. DatabaseQuiet
      BY <2>1 DEF Database!vars, DatabaseQuiet, DatabaseProtected
    <3> QED BY <3>1, <3>2, DatabaseQuietHolds DEF DatabaseIInv
  <2>2. ASSUME NEW s \in dbSessions, Database!OpenDatabase(s) \/ Database!Insert(s) \/ Database!Close(s) PROVE DatabaseIInv'
    BY <2>2, DatabaseOpenHolds, DatabaseInsertHolds, DatabaseCloseHolds
  <2>3. ASSUME NEW r \in dbRequests, Database!Look(r) \/ Database!Expire(r) \/ Database!Runs(r) PROVE DatabaseIInv'
    BY <2>3, DatabaseLookHolds, DatabaseExpireHolds, DatabaseLockHolds,
      DatabaseExecutesHolds, DatabaseFailsAtHolds, DatabaseInterruptedHolds,
      DatabaseEndsHolds DEF Database!Runs
  <2> QED BY <2>1, <2>2, <2>3 DEF Database!Next
<1> QED BY DatabaseInitHolds, <1>1, PTL DEF Database!Spec

(* The sessions, the requests and the changes have their types.             *)
THEOREM DatabaseTypeCorrect ==
  ASSUME Database!SqliteAssumption
  PROVE  Database!Spec => []Database!TypeOK
<1>1. DatabaseIInv => Database!TypeOK
  BY DEF DatabaseIInv, DatabaseTypes, DatabaseSessionsOK, DatabaseSessionOK,
    DatabaseRunsOK, DatabaseRunOK, DatabaseFilesOK, Database!TypeOK
<1> QED BY DatabaseInvariance, <1>1, PTL

(* While nobody uses an open session, the last answer tells whether its     *)
(* transaction is open; and the session of a request that was cancelled is  *)
(* gone and keeps nothing, unless another request still has to find out.    *)
THEOREM DatabaseAnswersTell ==
  ASSUME Database!SqliteAssumption
  PROVE  Database!Spec => []Database!AnswerTellsTransaction
<1>1. ASSUME DatabaseIInv PROVE Database!AnswerTellsTransaction
  <2>1. \A s \in Database!Open : dbSession[s].user = "nobody" => dbSession[s].shows = dbSession[s].tx
    BY <1>1 DEF DatabaseIInv, DatabaseKept, DatabaseToolbarTrue, Database!Open
  <2>2. ASSUME NEW r \in dbRequests, dbRun[r].answer = "cancelled"
        PROVE  /\ dbSession[dbRun[r].of].pc \in {"closed", "gone"}
               /\ dbSession[dbRun[r].of].pending # {} => Database!Held(dbRun[r].of, r)
    <3>1. dbRun[r].pc = "done" /\ dbRun[r].of \in dbSessions
          /\ dbSession[dbRun[r].of].pc \in {"closed", "gone"}
      BY <1>1, <2>2 DEF DatabaseIInv, DatabaseKept, DatabaseCancelledEnds
    <3>2. CASE dbSession[dbRun[r].of].pc = "closed"
      <4>1. PICK q \in dbRequests : DatabaseHolds(q) /\ dbRun[q].of = dbRun[r].of
        BY <1>1, <3>1, <3>2 DEF DatabaseIInv, DatabaseOwned, DatabaseClosedIsHeld
      <4>2. q # r
        BY <3>1, <4>1 DEF DatabaseHolds
      <4> QED BY <3>1, <4>1, <4>2 DEF Database!Held, DatabaseHolds
    <3>3. CASE dbSession[dbRun[r].of].pc = "gone"
      BY <1>1, <3>1, <3>3 DEF DatabaseIInv, DatabaseKept, DatabaseGoneKeepsNothing
    <3> QED BY <3>1, <3>2, <3>3
  <2> QED BY <2>1, <2>2 DEF Database!AnswerTellsTransaction
<1> QED BY DatabaseInvariance, <1>1, PTL

(* Of a request that is answered as stopped, no write behind its BEGIN is   *)
(* in the file, unless the script itself committed it or ended its          *)
(* transaction before it.                                                   *)
THEOREM DatabaseStopsRollBack ==
  ASSUME Database!SqliteAssumption
  PROVE  Database!Spec => []Database!StoppedRollsBack
<1>1. DatabaseIInv => Database!StoppedRollsBack
  BY DEF DatabaseIInv, DatabaseDone1, DatabaseRolled, DatabaseProtected,
    Database!StoppedRollsBack
<1> QED BY DatabaseInvariance, <1>1, PTL

(* A script reaches no other file, and a connection serves one request.     *)
THEOREM DatabaseScriptsStay ==
  ASSUME Database!SqliteAssumption
  PROVE  Database!Spec => []Database!ScopedToFile
<1>1. DatabaseIInv => Database!ScopedToFile
  BY DatabaseOneServes DEF DatabaseIInv, DatabaseTypes, DatabaseFilesOK,
    Database!ScopedToFile
<1> QED BY DatabaseInvariance, <1>1, PTL

-----------------------------------------------------------------------------
(* Proofs about Office for every set of requests and any number of engines.  *)
DocumentsBrokerFields == {"session", "last", "stuck", "shutdown", "idle", "retiring"}
DocumentsEngineFields == {"view", "closed", "job", "fatal", "page", "current"}
DocumentsJobFields == {"id", "result", "by"}
DocumentsReqFields == {"pc", "cancel", "engine", "answer", "why"}
DocumentsOrders == [op : {"create", "destroy"}, of : Documents!Engines]

DocumentsEngineOK(e) ==
  DOMAIN e = DocumentsEngineFields /\ DOMAIN e.job = DocumentsJobFields /\ e.view \in {"none", "live", "gone"}
DocumentsReqOK(x) ==
  /\ DOMAIN x = DocumentsReqFields
  /\ x.pc \in {"new", "gate", "session", "create", "convert", "destroy", "done"}

DocumentsGateOK == ofGate \in ofRequests \cup {Documents!Idler, None}
DocumentsBrokerOK ==
  /\ DOMAIN ofBroker = DocumentsBrokerFields /\ ofBroker.last \in 0..ofMaxEngines
  /\ ofBroker.session \in Documents!Engines \cup {None} /\ ofBroker.retiring \in Documents!Engines \cup {None}
DocumentsEnginesOK == DOMAIN ofEngine = Documents!Engines /\ \A g \in Documents!Engines : DocumentsEngineOK(ofEngine[g])
DocumentsReqsOK == DOMAIN ofReq = ofRequests /\ \A r \in ofRequests : DocumentsReqOK(ofReq[r])
DocumentsCountOK == ofTasks \in Seq(DocumentsOrders) /\ ofFaults \in Nat

DocumentsTypes == DocumentsGateOK /\ DocumentsBrokerOK /\ DocumentsEnginesOK /\ DocumentsReqsOK /\ DocumentsCountOK

-----------------------------------------------------------------------------
(* Who has the gate, and what it is about to do with which engine.          *)

DocumentsGateHeld ==
  \A r \in ofRequests : ofReq[r].pc \in {"session", "create", "convert", "destroy"} => ofGate = r
DocumentsHasEngine ==
  \A r \in ofRequests : ofReq[r].pc \in {"create", "convert", "destroy"} => ofReq[r].engine \in Documents!Engines
DocumentsMaking ==
  \A r \in ofRequests : ofReq[r].pc = "create" => ofBroker.session = None
DocumentsConverting ==
  \A r \in ofRequests : ofReq[r].pc = "convert" =>
    /\ ofBroker.session \in {None, ofReq[r].engine}
    /\ ofEngine[ofReq[r].engine].job.id = r
DocumentsDestroying ==
  \A r \in ofRequests : ofReq[r].pc = "destroy" =>
    ofBroker.session = None /\ ofEngine[ofReq[r].engine].closed
DocumentsIdling ==
  ofBroker.retiring # None =>
    ofGate = Documents!Idler /\ ofBroker.session = None /\ ofEngine[ofBroker.retiring].closed

DocumentsTurns == DocumentsGateHeld /\ DocumentsHasEngine /\ DocumentsMaking /\ DocumentsConverting /\ DocumentsDestroying /\ DocumentsIdling

-----------------------------------------------------------------------------
(* An engine that shows, or that may still be built, is accounted for.      *)

DocumentsAlive(g) == ofEngine[g].view = "live" \/ (Documents!Posted("create", g) /\ ~ofEngine[g].closed)
DocumentsOwner(g) ==
  \/ ofBroker.stuck \/ ofBroker.session = g \/ ofBroker.retiring = g
  \/ \E r \in ofRequests : ofReq[r].pc \in {"create", "destroy"} /\ ofReq[r].engine = g
DocumentsAccounted == \A g \in Documents!Engines : DocumentsAlive(g) => DocumentsOwner(g)
DocumentsOneAlive == \A g, h \in Documents!Engines : DocumentsAlive(g) /\ DocumentsAlive(h) => g = h
DocumentsDestroyedClosed == \A g \in Documents!Engines : Documents!Posted("destroy", g) => ofEngine[g].closed

DocumentsCounted == DocumentsAccounted /\ DocumentsOneAlive /\ DocumentsDestroyedClosed

-----------------------------------------------------------------------------
(* Whose result it is.                                                      *)

DocumentsAnswerEnds ==
  \A r \in ofRequests : /\ ofReq[r].answer # "none" => ofReq[r].pc = "done"
                        /\ ofReq[r].pc = "destroy" => ofReq[r].why # "document"
DocumentsResults == Documents!OwnResult /\ DocumentsAnswerEnds

-----------------------------------------------------------------------------
(* What holds until something fails.                                        *)

DocumentsWhole ==
  /\ ~ofBroker.stuck
  /\ \A g \in Documents!Engines : /\ ~ofEngine[g].fatal /\ ofEngine[g].job.result # "failed"
                                  /\ ofEngine[g].closed => /\ g <= ofBroker.last
                                                           /\ Documents!Posted("destroy", g) \/ ofEngine[g].view # "live"
  /\ ofBroker.session # None =>
       ofBroker.session <= ofBroker.last /\ ~ofEngine[ofBroker.session].closed
  /\ \A r \in ofRequests :
       /\ ofReq[r].pc = "create" =>
            /\ ofReq[r].engine <= ofBroker.last /\ ~ofEngine[ofReq[r].engine].closed
            /\ Documents!Posted("create", ofReq[r].engine) \/ ofEngine[ofReq[r].engine].view = "live"
       /\ ofReq[r].pc = "convert" => ofBroker.session = ofReq[r].engine \/ ofBroker.shutdown
       /\ ofReq[r].pc = "destroy" => ofReq[r].cancel \/ ofBroker.shutdown
DocumentsFaultless == ofFaults = 0 => DocumentsWhole

DocumentsIInv == DocumentsTypes /\ DocumentsTurns /\ DocumentsCounted /\ DocumentsResults /\ DocumentsFaultless /\ Documents!NoWorkLost

-----------------------------------------------------------------------------
DocumentsWorking == {"session", "create", "convert", "destroy"}

LEMMA DocumentsInitHolds ==
  ASSUME Documents!OfficeAssumption
  PROVE  Documents!Init => DocumentsIInv
<1> SUFFICES ASSUME Documents!Init PROVE DocumentsIInv
  OBVIOUS
<1>1. /\ \A r \in ofRequests : /\ DocumentsReqOK(ofReq[r]) /\ ofReq[r].pc = "new" /\ ofReq[r].answer = "none"
      /\ DOMAIN ofReq = ofRequests
  BY DEF Documents!Init, DocumentsReqOK, DocumentsReqFields
<1>2. /\ \A g \in Documents!Engines : /\ DocumentsEngineOK(ofEngine[g]) /\ ofEngine[g].view = "none"
                                      /\ ofEngine[g].closed = FALSE /\ ofEngine[g].fatal = FALSE
                                      /\ ofEngine[g].job.result = "none"
      /\ DOMAIN ofEngine = Documents!Engines
  BY DEF Documents!Init, DocumentsEngineOK, DocumentsEngineFields, DocumentsJobFields,
    Documents!Unborn, Documents!NoJob
<1>3. /\ DOMAIN ofBroker = DocumentsBrokerFields /\ ofBroker.last = 0 /\ ofBroker.session = None
      /\ ofBroker.retiring = None /\ ofBroker.stuck = FALSE
  BY DEF Documents!Init, DocumentsBrokerFields
<1>4. ofGate = None /\ ofTasks = <<>> /\ ofFaults = 0 /\ 0 \in 0..ofMaxEngines
  BY DEF Documents!Init, Documents!OfficeAssumption
<1>5. \A op, g : ~Documents!Posted(op, g)
  BY <1>4 DEF Documents!Posted
<1>6. DocumentsTypes
  BY <1>1, <1>2, <1>3, <1>4 DEF DocumentsTypes, DocumentsGateOK, DocumentsBrokerOK,
    DocumentsEnginesOK, DocumentsReqsOK, DocumentsCountOK
<1>7. DocumentsTurns
  BY <1>1, <1>3 DEF DocumentsTurns, DocumentsGateHeld, DocumentsHasEngine,
    DocumentsMaking, DocumentsConverting, DocumentsDestroying, DocumentsIdling
<1>8. DocumentsCounted
  BY <1>2, <1>5 DEF DocumentsCounted, DocumentsAccounted, DocumentsOneAlive,
    DocumentsDestroyedClosed, DocumentsAlive
<1>9. DocumentsResults /\ Documents!NoWorkLost
  BY <1>1, <1>2 DEF DocumentsResults, Documents!OwnResult, DocumentsAnswerEnds,
    Documents!NoWorkLost
<1>10. DocumentsFaultless
  BY <1>1, <1>2, <1>3 DEF DocumentsFaultless, DocumentsWhole
<1> QED BY <1>6, <1>7, <1>8, <1>9, <1>10 DEF DocumentsIInv

\* One request, one engine, the broker.
LEMMA DocumentsReqPut ==
  ASSUME DocumentsReqsOK, NEW r \in ofRequests, NEW x, ofReq' = [ofReq EXCEPT ![r] = x]
  PROVE  DOMAIN ofReq' = ofRequests /\ ofReq'[r] = x /\ \A q \in ofRequests : q # r => ofReq'[q] = ofReq[q]
  BY DEF DocumentsReqsOK

LEMMA DocumentsEnginePut ==
  ASSUME DocumentsEnginesOK, NEW g \in Documents!Engines, NEW e,
         ofEngine' = [ofEngine EXCEPT ![g] = e]
  PROVE  /\ DOMAIN ofEngine' = Documents!Engines /\ ofEngine'[g] = e
         /\ \A h \in Documents!Engines : h # g => ofEngine'[h] = ofEngine[h]
  BY DEF DocumentsEnginesOK

\* The tasks of the main thread.
LEMMA DocumentsAppended ==
  ASSUME ofTasks \in Seq(DocumentsOrders), NEW o \in {"create", "destroy"},
         NEW g \in Documents!Engines,
         ofTasks' = Append(ofTasks, [op |-> o, of |-> g])
  PROVE  /\ ofTasks' \in Seq(DocumentsOrders)
         /\ \A op, h : Documents!Posted(op, h)' <=> Documents!Posted(op, h) \/ (op = o /\ h = g)
<1> DEFINE x == [op |-> o, of |-> g]
<1>1. x \in DocumentsOrders
  BY DEF DocumentsOrders
<1>2. \A op, h : [op |-> op, of |-> h] = x <=> op = o /\ h = g
  BY DEF DocumentsOrders
<1> HIDE DEF x
<1>3. ofTasks' = Append(ofTasks, x)
  BY DEF x
<1>4. ofTasks' \in Seq(DocumentsOrders) /\ DOMAIN ofTasks' = 1..(Len(ofTasks) + 1) /\ Len(ofTasks) \in Nat
      /\ DOMAIN ofTasks = 1..Len(ofTasks) /\ ofTasks'[Len(ofTasks) + 1] = x
      /\ \A i \in 1..Len(ofTasks) : ofTasks'[i] = ofTasks[i]
  BY <1>1, <1>3
<1>5. \A y : (\E i \in DOMAIN ofTasks' : ofTasks'[i] = y) <=>
             (\E i \in DOMAIN ofTasks : ofTasks[i] = y) \/ y = x
  BY <1>4
<1> QED BY <1>2, <1>4, <1>5 DEF Documents!Posted

LEMMA DocumentsTaken ==
  ASSUME ofTasks \in Seq(DocumentsOrders), ofTasks # <<>>, ofTasks' = Tail(ofTasks)
  PROVE  /\ ofTasks' \in Seq(DocumentsOrders) /\ Head(ofTasks) \in DocumentsOrders
         /\ \A op, h : Documents!Posted(op, h)' => Documents!Posted(op, h)
         /\ \A op, h : Documents!Posted(op, h) => Documents!Posted(op, h)' \/ Head(ofTasks) = [op |-> op, of |-> h]
         /\ Documents!Posted(Head(ofTasks).op, Head(ofTasks).of)
<1>1. ofTasks' \in Seq(DocumentsOrders) /\ Len(ofTasks) \in Nat \ {0} /\ DOMAIN ofTasks = 1..Len(ofTasks)
      /\ DOMAIN ofTasks' = 1..(Len(ofTasks) - 1) /\ Head(ofTasks) = ofTasks[1] /\ Head(ofTasks) \in DocumentsOrders
      /\ \A i \in 1..(Len(ofTasks) - 1) : ofTasks'[i] = ofTasks[i + 1]
  OBVIOUS
<1>2. ASSUME NEW y PROVE
        /\ (\E i \in DOMAIN ofTasks' : ofTasks'[i] = y) => (\E i \in DOMAIN ofTasks : ofTasks[i] = y)
        /\ (\E i \in DOMAIN ofTasks : ofTasks[i] = y) =>
             (\E i \in DOMAIN ofTasks' : ofTasks'[i] = y) \/ Head(ofTasks) = y
  <2>1. ASSUME NEW i \in DOMAIN ofTasks', ofTasks'[i] = y
        PROVE  \E j \in DOMAIN ofTasks : ofTasks[j] = y
    <3>1. i + 1 \in DOMAIN ofTasks /\ ofTasks[i + 1] = y
      BY <1>1, <2>1
    <3> QED BY <3>1
  <2>2. ASSUME NEW i \in DOMAIN ofTasks, ofTasks[i] = y, i # 1
        PROVE  \E j \in DOMAIN ofTasks' : ofTasks'[j] = y
    <3>1. i - 1 \in DOMAIN ofTasks' /\ ofTasks'[i - 1] = y
      BY <1>1, <2>2
    <3> QED BY <3>1
  <2> QED BY <1>1, <2>1, <2>2
<1>3. \A op, h : (Documents!Posted(op, h)' => Documents!Posted(op, h)) /\
                 (Documents!Posted(op, h) => Documents!Posted(op, h)' \/ Head(ofTasks) = [op |-> op, of |-> h])
  BY <1>2 DEF Documents!Posted
<1>4. Documents!Posted(Head(ofTasks).op, Head(ofTasks).of)
  <2>1. Head(ofTasks) = [op |-> Head(ofTasks).op, of |-> Head(ofTasks).of]
    BY <1>1 DEF DocumentsOrders
  <2> QED BY <1>1, <2>1 DEF Documents!Posted
<1> QED BY <1>1, <1>3, <1>4

LEMMA DocumentsFaultCounts ==
  ASSUME DocumentsIInv, Documents!Fault
  PROVE  ofFaults' \in Nat /\ ofFaults' # 0
  BY DEF DocumentsIInv, DocumentsTypes, DocumentsCountOK, Documents!Fault

\* Who works has the gate, and is the only one who does.
LEMMA DocumentsAlone ==
  ASSUME DocumentsIInv, Documents!OfficeAssumption, NEW r \in ofRequests,
         ofReq[r].pc \in DocumentsWorking
  PROVE  /\ ofGate = r /\ ofBroker.retiring = None
         /\ \A q \in ofRequests : q # r => ofReq[q].pc \notin DocumentsWorking
  BY DEF DocumentsIInv, DocumentsTurns, DocumentsGateHeld, DocumentsIdling,
    Documents!OfficeAssumption, DocumentsWorking

LEMMA DocumentsSameTasks ==
  ASSUME ofTasks' = ofTasks
  PROVE  \A op, g : Documents!Posted(op, g)' <=> Documents!Posted(op, g)
  BY DEF Documents!Posted

\* No engine comes up, and what shows or is coming up still has its owner.
LEMMA DocumentsStillCounted ==
  ASSUME DocumentsCounted,
         \A h \in Documents!Engines : DocumentsAlive(h)' => DocumentsAlive(h) /\ DocumentsOwner(h)',
         \A h \in Documents!Engines : Documents!Posted("destroy", h)' => ofEngine'[h].closed
  PROVE  DocumentsCounted'
  BY DEF DocumentsCounted, DocumentsAccounted, DocumentsOneAlive,
    DocumentsDestroyedClosed

\* After the one who worked nobody works, and nobody retires an engine.
LEMMA DocumentsTurnEnds ==
  ASSUME DocumentsIInv, Documents!OfficeAssumption, NEW r \in ofRequests,
         ofReq[r].pc \in DocumentsWorking, NEW x,
         ofReq' = [ofReq EXCEPT ![r] = x], x.pc = "done", ofBroker'.retiring = None
  PROVE  DocumentsTurns'
<1>1. /\ DOMAIN ofReq' = ofRequests /\ ofReq'[r] = x
      /\ \A q \in ofRequests : q # r => ofReq'[q] = ofReq[q]
  BY DocumentsReqPut DEF DocumentsIInv, DocumentsTypes
<1>2. \A q \in ofRequests : ofReq'[q].pc \notin DocumentsWorking
  BY <1>1, DocumentsAlone DEF DocumentsWorking
<1> QED BY <1>2 DEF DocumentsTurns, DocumentsGateHeld, DocumentsHasEngine,
    DocumentsMaking, DocumentsConverting, DocumentsDestroying, DocumentsIdling,
    DocumentsWorking

\* A request that does not work, or that is only told to stop.
DocumentsAside(r, x) ==
  /\ DocumentsReqOK(x)
  /\ x.pc \in DocumentsWorking => x.pc = ofReq[r].pc /\ x.engine = ofReq[r].engine /\ x.why = ofReq[r].why
  /\ ofReq[r].pc \in DocumentsWorking => x.pc = ofReq[r].pc
  /\ ofReq[r].cancel => x.cancel
  /\ x.answer # "none" => x.pc = "done"
  /\ x.answer # "document"
  /\ x.pc = "done" => x.cancel \/ ofBroker.shutdown \/ ofFaults' # 0
  /\ ofFaults' \in Nat /\ (ofFaults' = 0 => ofFaults = 0)

LEMMA DocumentsAsideHolds ==
  ASSUME DocumentsIInv, Documents!OfficeAssumption, NEW r \in ofRequests, NEW x,
         DocumentsAside(r, x),
         ofReq' = [ofReq EXCEPT ![r] = x], UNCHANGED <<ofGate, ofBroker, ofEngine, ofTasks>>
  PROVE  DocumentsIInv'
<1>1. /\ DOMAIN ofReq' = ofRequests /\ ofReq'[r] = x
      /\ \A q \in ofRequests : q # r => ofReq'[q] = ofReq[q]
  BY DocumentsReqPut DEF DocumentsIInv, DocumentsTypes
<1>2. \A op, g : Documents!Posted(op, g)' <=> Documents!Posted(op, g)
  BY DocumentsSameTasks
<1>3. \A q \in ofRequests : ofReq'[q].pc \in DocumentsWorking =>
        /\ ofReq'[q].pc = ofReq[q].pc /\ ofReq'[q].engine = ofReq[q].engine /\ ofReq'[q].why = ofReq[q].why
        /\ ofReq[q].cancel => ofReq'[q].cancel
  BY <1>1 DEF DocumentsAside
<1>4. \A q \in ofRequests : ofReq[q].pc \in DocumentsWorking =>
        ofReq'[q].pc = ofReq[q].pc /\ ofReq'[q].engine = ofReq[q].engine
  BY <1>1 DEF DocumentsAside
<1>5. DocumentsTypes'
  BY <1>1 DEF DocumentsIInv, DocumentsTypes, DocumentsGateOK, DocumentsBrokerOK,
    DocumentsEnginesOK, DocumentsReqsOK, DocumentsCountOK, DocumentsAside
<1>6. DocumentsTurns'
  BY <1>3 DEF DocumentsIInv, DocumentsTurns, DocumentsGateHeld, DocumentsHasEngine,
    DocumentsMaking, DocumentsConverting, DocumentsDestroying, DocumentsIdling,
    DocumentsWorking
<1>7. DocumentsCounted'
  <2>1. \A h \in Documents!Engines : (DocumentsAlive(h)' <=> DocumentsAlive(h)) /\ (DocumentsOwner(h) => DocumentsOwner(h)')
    BY <1>2, <1>4 DEF DocumentsAlive, DocumentsOwner, DocumentsWorking
  <2> QED BY <1>2, <2>1, DocumentsStillCounted DEF DocumentsIInv, DocumentsCounted,
      DocumentsAccounted, DocumentsDestroyedClosed
<1>8. DocumentsResults'
  BY <1>1 DEF DocumentsIInv, DocumentsResults, Documents!OwnResult, DocumentsAnswerEnds,
    DocumentsAside, DocumentsWorking
<1>9. DocumentsFaultless'
  BY <1>2, <1>3 DEF DocumentsIInv, DocumentsFaultless, DocumentsWhole, DocumentsAside,
    DocumentsWorking
<1>10. Documents!NoWorkLost'
  BY <1>1 DEF DocumentsIInv, Documents!NoWorkLost, DocumentsAside
<1> QED BY <1>5, <1>6, <1>7, <1>8, <1>9, <1>10 DEF DocumentsIInv

LEMMA DocumentsTerminalTells ==
  ASSUME DocumentsIInv, NEW r \in ofRequests, Documents!Terminal(r)
  PROVE  ofFaults' \in Nat /\ (ofFaults' = 0 => ofFaults = 0 /\ Documents!Stopped(r))
<1>1. CASE Documents!Stopped(r)
  BY <1>1 DEF Documents!Terminal, DocumentsIInv, DocumentsTypes, DocumentsCountOK
<1>2. CASE ~Documents!Stopped(r)
  BY <1>2, DocumentsFaultCounts DEF Documents!Terminal
<1> QED BY <1>1, <1>2

LEMMA DocumentsWaitingHolds ==
  ASSUME DocumentsIInv, Documents!OfficeAssumption, NEW r \in ofRequests,
         Documents!Convert(r) \/ Documents!Cancel(r) \/ Documents!GivesUp(r)
  PROVE  DocumentsIInv'
<1>0. DocumentsReqOK(ofReq[r]) /\ ofFaults \in Nat /\ (ofReq[r].answer # "none" => ofReq[r].pc = "done")
  BY DEF DocumentsIInv, DocumentsTypes, DocumentsReqsOK, DocumentsCountOK,
    DocumentsResults, DocumentsAnswerEnds
<1>1. CASE Documents!Convert(r)
  <2> DEFINE x == [ofReq[r] EXCEPT !.pc = "gate"]
  <2>1. ofReq' = [ofReq EXCEPT ![r] = x] /\ UNCHANGED <<ofGate, ofBroker, ofEngine, ofTasks, ofFaults>>
    BY <1>1 DEF Documents!Convert, Documents!At
  <2>2. DocumentsAside(r, x)
    BY <1>0, <1>1, <2>1 DEF Documents!Convert, DocumentsAside, DocumentsReqOK,
      DocumentsReqFields, DocumentsWorking
  <2> HIDE DEF x
  <2> QED BY <2>1, <2>2, DocumentsAsideHolds
<1>2. CASE Documents!Cancel(r)
  <2> DEFINE x == [ofReq[r] EXCEPT !.cancel = TRUE]
  <2>1. ofReq' = [ofReq EXCEPT ![r] = x] /\ UNCHANGED <<ofGate, ofBroker, ofEngine, ofTasks, ofFaults>>
    BY <1>2 DEF Documents!Cancel
  <2>2. DocumentsAside(r, x)
    BY <1>0, <1>2, <2>1 DEF Documents!Cancel, DocumentsAside, DocumentsReqOK,
      DocumentsReqFields, DocumentsWorking
  <2> HIDE DEF x
  <2> QED BY <2>1, <2>2, DocumentsAsideHolds
<1>3. CASE Documents!GivesUp(r)
  <2> DEFINE x == [ofReq[r] EXCEPT !.pc = "done", !.answer = "stopped"]
  <2>1. ofReq' = [ofReq EXCEPT ![r] = x] /\ UNCHANGED <<ofGate, ofBroker, ofEngine, ofTasks>>
    BY <1>3 DEF Documents!GivesUp, Documents!Ends
  <2>2. DocumentsAside(r, x)
    <3>1. ofFaults' \in Nat /\ (ofFaults' = 0 => ofFaults = 0 /\ Documents!Stopped(r)) /\ ofReq[r].pc = "gate"
      BY <1>3, DocumentsTerminalTells DEF Documents!GivesUp
    <3> QED BY <1>0, <3>1 DEF DocumentsAside, DocumentsReqOK, DocumentsReqFields,
        DocumentsWorking, Documents!Stopped
  <2> HIDE DEF x
  <2> QED BY <2>1, <2>2, DocumentsAsideHolds
<1> QED BY <1>1, <1>2, <1>3

LEMMA DocumentsTakeGateHolds ==
  ASSUME DocumentsIInv, Documents!OfficeAssumption, NEW r \in ofRequests,
         Documents!TakeGate(r)
  PROVE  DocumentsIInv'
<1> DEFINE x == [ofReq[r] EXCEPT !.pc = "session"]
<1>1. ofReq' = [ofReq EXCEPT ![r] = x] /\ UNCHANGED <<ofBroker, ofEngine, ofTasks, ofFaults>>
      /\ ofGate = None /\ ofGate' = r /\ ofReq[r].pc = "gate"
  BY DEF Documents!TakeGate, Documents!At
<1>2. /\ DocumentsReqOK(ofReq[r]) /\ DocumentsReqOK(x) /\ x.pc = "session" /\ x.answer = "none"
      /\ x.cancel = ofReq[r].cancel
  BY <1>1 DEF DocumentsIInv, DocumentsTypes, DocumentsReqsOK, DocumentsReqOK,
    DocumentsReqFields, DocumentsResults, DocumentsAnswerEnds
<1> HIDE DEF x
<1>3. /\ DOMAIN ofReq' = ofRequests /\ ofReq'[r] = x
      /\ \A q \in ofRequests : q # r => ofReq'[q] = ofReq[q]
  BY <1>1, DocumentsReqPut DEF DocumentsIInv, DocumentsTypes
<1>4. ofBroker.retiring = None /\ \A q \in ofRequests : ofReq[q].pc \notin DocumentsWorking
  BY <1>1 DEF DocumentsIInv, DocumentsTurns, DocumentsGateHeld, DocumentsIdling,
    Documents!OfficeAssumption, DocumentsWorking
<1>5. \A op, g : Documents!Posted(op, g)' <=> Documents!Posted(op, g)
  BY <1>1, DocumentsSameTasks
<1>6. \A q \in ofRequests : ofReq'[q].pc \in {"create", "convert", "destroy"} => FALSE
  BY <1>2, <1>3, <1>4 DEF DocumentsWorking
<1>7. DocumentsTypes'
  BY <1>1, <1>2, <1>3 DEF DocumentsIInv, DocumentsTypes, DocumentsGateOK,
    DocumentsBrokerOK, DocumentsEnginesOK, DocumentsReqsOK, DocumentsCountOK
<1>8. DocumentsTurns'
  BY <1>1, <1>2, <1>3, <1>4, <1>6 DEF DocumentsTurns, DocumentsGateHeld,
    DocumentsHasEngine, DocumentsMaking, DocumentsConverting, DocumentsDestroying,
    DocumentsIdling, DocumentsWorking
<1>9. DocumentsCounted'
  <2>1. \A h \in Documents!Engines : (DocumentsAlive(h)' <=> DocumentsAlive(h)) /\ (DocumentsOwner(h) => DocumentsOwner(h)')
    BY <1>1, <1>4, <1>5 DEF DocumentsAlive, DocumentsOwner, DocumentsWorking
  <2> QED BY <1>1, <1>5, <2>1, DocumentsStillCounted DEF DocumentsIInv,
      DocumentsCounted, DocumentsAccounted, DocumentsDestroyedClosed
<1>10. DocumentsResults'
  BY <1>1, <1>2, <1>3 DEF DocumentsIInv, DocumentsResults, Documents!OwnResult,
    DocumentsAnswerEnds
<1>11. DocumentsFaultless'
  BY <1>1, <1>5, <1>6 DEF DocumentsIInv, DocumentsFaultless, DocumentsWhole
<1>12. Documents!NoWorkLost'
  BY <1>1, <1>2, <1>3 DEF DocumentsIInv, Documents!NoWorkLost
<1> QED BY <1>7, <1>8, <1>9, <1>10, <1>11, <1>12 DEF DocumentsIInv

-----------------------------------------------------------------------------
(* The page and the listener of an engine.                                  *)

\* What they do to it: its view and its job stay, a result is for the job it has.
DocumentsWithin(g, e) ==
  /\ DocumentsEngineOK(e) /\ e.view = ofEngine[g].view /\ e.job.id = ofEngine[g].job.id
  /\ ofEngine[g].closed => e.closed
  /\ e.job.result # "none" => e.job.by = e.job.id
  /\ ofFaults' \in Nat
  /\ ofFaults' = 0 =>
       /\ ofFaults = 0
       /\ e.closed => ofEngine[g].closed
       /\ e.fatal => ofEngine[g].fatal
       /\ e.job.result = "failed" => ofEngine[g].job.result = "failed"

LEMMA DocumentsWithinHolds ==
  ASSUME DocumentsIInv, Documents!OfficeAssumption, NEW g \in Documents!Engines, NEW e,
         DocumentsWithin(g, e),
         ofEngine' = [ofEngine EXCEPT ![g] = e], UNCHANGED <<ofGate, ofBroker, ofTasks, ofReq>>
  PROVE  DocumentsIInv'
<1>1. /\ DOMAIN ofEngine' = Documents!Engines /\ ofEngine'[g] = e
      /\ \A h \in Documents!Engines : h # g => ofEngine'[h] = ofEngine[h]
  BY DocumentsEnginePut DEF DocumentsIInv, DocumentsTypes
<1>2. \A op, h : Documents!Posted(op, h)' <=> Documents!Posted(op, h)
  BY DocumentsSameTasks
<1>3. \A h \in Documents!Engines : /\ ofEngine'[h].view = ofEngine[h].view
                                   /\ ofEngine'[h].job.id = ofEngine[h].job.id
                                   /\ ofEngine[h].closed => ofEngine'[h].closed
  BY <1>1 DEF DocumentsWithin
<1>4. ofFaults' = 0 => \A h \in Documents!Engines :
        /\ ofEngine'[h].closed => ofEngine[h].closed
        /\ ofEngine'[h].fatal => ofEngine[h].fatal
        /\ ofEngine'[h].job.result = "failed" => ofEngine[h].job.result = "failed"
  BY <1>1 DEF DocumentsWithin
<1>5. DocumentsTypes'
  BY <1>1 DEF DocumentsIInv, DocumentsTypes, DocumentsGateOK, DocumentsBrokerOK,
    DocumentsEnginesOK, DocumentsReqsOK, DocumentsCountOK, DocumentsWithin
<1>6. DocumentsTurns'
  BY <1>3 DEF DocumentsIInv, DocumentsTurns, DocumentsGateHeld, DocumentsHasEngine,
    DocumentsMaking, DocumentsConverting, DocumentsDestroying, DocumentsIdling,
    DocumentsTypes, DocumentsBrokerOK
<1>7. DocumentsCounted'
  <2>1. \A h \in Documents!Engines : (DocumentsAlive(h)' => DocumentsAlive(h)) /\ (DocumentsOwner(h) => DocumentsOwner(h)')
    BY <1>2, <1>3 DEF DocumentsAlive, DocumentsOwner
  <2> QED BY <1>2, <1>3, <2>1, DocumentsStillCounted DEF DocumentsIInv,
      DocumentsCounted, DocumentsAccounted, DocumentsDestroyedClosed
<1>8. DocumentsResults'
  BY <1>1 DEF DocumentsIInv, DocumentsResults, Documents!OwnResult, DocumentsAnswerEnds,
    DocumentsWithin
<1>9. DocumentsFaultless'
  <2>1. SUFFICES ASSUME ofFaults' = 0 PROVE DocumentsWhole'
    BY DEF DocumentsFaultless
  <2>2. DocumentsWhole
    BY <2>1 DEF DocumentsIInv, DocumentsFaultless, DocumentsWithin
  <2>3. ofBroker.session \in Documents!Engines \cup {None} /\ DocumentsHasEngine
    BY DEF DocumentsIInv, DocumentsTypes, DocumentsBrokerOK, DocumentsTurns
  <2>4. \A h \in Documents!Engines : ofEngine'[h].closed <=> ofEngine[h].closed
    BY <1>1, <1>3, <1>4, <2>1 DEF DocumentsWithin
  <2> QED BY <1>2, <1>3, <1>4, <2>1, <2>2, <2>3, <2>4 DEF DocumentsWhole,
      DocumentsHasEngine
<1>10. Documents!NoWorkLost'
  BY DEF DocumentsIInv, Documents!NoWorkLost, DocumentsWithin
<1> QED BY <1>5, <1>6, <1>7, <1>8, <1>9, <1>10 DEF DocumentsIInv

\* A receipt.
LEMMA DocumentsRecorded ==
  ASSUME DocumentsIInv, NEW g \in Documents!Engines, NEW result
  PROVE  /\ DocumentsEngineOK(Documents!Record(g, result)) /\ Documents!Record(g, result).view = ofEngine[g].view
         /\ Documents!Record(g, result).closed = ofEngine[g].closed
         /\ Documents!Record(g, result).fatal = ofEngine[g].fatal
         /\ Documents!Record(g, result).job.id = ofEngine[g].job.id
         /\ Documents!Record(g, result).job.result # "none" => Documents!Record(g, result).job.by = ofEngine[g].job.id
         /\ Documents!Record(g, result).job.result \in {result, ofEngine[g].job.result}
<1>1. DocumentsEngineOK(ofEngine[g]) /\ (ofEngine[g].job.result # "none" => ofEngine[g].job.by = ofEngine[g].job.id)
  BY DEF DocumentsIInv, DocumentsTypes, DocumentsEnginesOK, DocumentsResults,
    Documents!OwnResult
<1>2. CASE Documents!Accepts(ofEngine[g].job, ofEngine[g].current)
  <2> DEFINE j == [ofEngine[g].job EXCEPT !.result = result, !.by = ofEngine[g].current]
  <2>1. Documents!Record(g, result) = [ofEngine[g] EXCEPT !.job = j]
    BY <1>1, <1>2 DEF Documents!Record, DocumentsEngineOK, DocumentsEngineFields
  <2>2. /\ DOMAIN j = DocumentsJobFields /\ j.result = result /\ j.by = ofEngine[g].current
        /\ j.id = ofEngine[g].job.id /\ j.by = j.id
    BY <1>1, <1>2 DEF DocumentsEngineOK, DocumentsJobFields, Documents!Accepts
  <2> HIDE DEF j
  <2> QED BY <1>1, <2>1, <2>2 DEF DocumentsEngineOK, DocumentsEngineFields
<1>3. CASE ~Documents!Accepts(ofEngine[g].job, ofEngine[g].current)
  BY <1>1, <1>3 DEF Documents!Record
<1> QED BY <1>2, <1>3

LEMMA DocumentsPageHolds ==
  ASSUME DocumentsIInv, Documents!OfficeAssumption, NEW g \in Documents!Engines,
         Documents!Page(g) \/ Documents!Breaks(g) \/ Documents!Unreachable(g)
  PROVE  DocumentsIInv'
<1>0. /\ DocumentsEngineOK(ofEngine[g]) /\ ofFaults \in Nat
      /\ ofEngine[g].job.result # "none" => ofEngine[g].job.by = ofEngine[g].job.id
  BY DEF DocumentsIInv, DocumentsTypes, DocumentsEnginesOK, DocumentsCountOK,
    DocumentsResults, Documents!OwnResult
<1>1. ASSUME NEW e, DocumentsWithin(g, e), ofEngine' = [ofEngine EXCEPT ![g] = e],
             UNCHANGED <<ofGate, ofBroker, ofTasks, ofReq>>
      PROVE  DocumentsIInv'
  BY <1>1, DocumentsWithinHolds
<1>2. CASE Documents!TakeJob(g)
  <2> DEFINE e == [ofEngine[g] EXCEPT !.page = "work", !.current = ofEngine[g].job.id]
  <2>1. ofEngine' = [ofEngine EXCEPT ![g] = e] /\ UNCHANGED <<ofGate, ofBroker, ofTasks, ofReq, ofFaults>>
    BY <1>2 DEF Documents!TakeJob
  <2>2. DocumentsWithin(g, e)
    BY <1>0, <2>1 DEF DocumentsWithin, DocumentsEngineOK, DocumentsEngineFields
  <2> HIDE DEF e
  <2> QED BY <1>1, <2>1, <2>2
<1>3. CASE Documents!NextJob(g)
  <2> DEFINE e == [ofEngine[g] EXCEPT !.page = "poll", !.current = None]
  <2>1. ofEngine' = [ofEngine EXCEPT ![g] = e] /\ UNCHANGED <<ofGate, ofBroker, ofTasks, ofReq, ofFaults>>
    BY <1>3 DEF Documents!NextJob
  <2>2. DocumentsWithin(g, e)
    BY <1>0, <2>1 DEF DocumentsWithin, DocumentsEngineOK, DocumentsEngineFields
  <2> HIDE DEF e
  <2> QED BY <1>1, <2>1, <2>2
<1>4. CASE Documents!Posts(g)
  <2>1. PICK result : /\ ofEngine' = [ofEngine EXCEPT ![g] = [Documents!Record(g, result) EXCEPT !.page = "posted"]]
                      /\ UNCHANGED <<ofGate, ofBroker, ofTasks, ofReq>> /\ ofFaults' \in Nat
                      /\ result = "failed" => ofFaults' # 0
                      /\ ofFaults' = 0 => ofFaults = 0
    BY <1>0, <1>4, DocumentsFaultCounts DEF Documents!Posts
  <2> DEFINE e == [Documents!Record(g, result) EXCEPT !.page = "posted"]
  <2>2. DocumentsWithin(g, e)
    BY <1>0, <2>1, DocumentsRecorded DEF DocumentsWithin, DocumentsEngineOK,
      DocumentsEngineFields
  <2>3. ofEngine' = [ofEngine EXCEPT ![g] = e]
    BY <2>1
  <2> HIDE DEF e
  <2> QED BY <1>1, <2>1, <2>2, <2>3
<1>5. CASE Documents!Breaks(g)
  <2>1. PICK e : /\ ofEngine' = [ofEngine EXCEPT ![g] = e] /\ UNCHANGED <<ofGate, ofBroker, ofTasks, ofReq>>
                 /\ e = [ofEngine[g] EXCEPT !.fatal = TRUE] \/ e = Documents!Record(g, "failed")
    BY <1>5 DEF Documents!Breaks
  <2>2. ofFaults' \in Nat /\ ofFaults' # 0
    BY <1>5, DocumentsFaultCounts DEF Documents!Breaks
  <2>3. DocumentsWithin(g, e)
    BY <1>0, <2>1, <2>2, DocumentsRecorded DEF DocumentsWithin, DocumentsEngineOK,
      DocumentsEngineFields
  <2> QED BY <1>1, <2>1, <2>3
<1>6. CASE Documents!Unreachable(g)
  <2> DEFINE e == [ofEngine[g] EXCEPT !.closed = TRUE]
  <2>1. ofEngine' = [ofEngine EXCEPT ![g] = e] /\ UNCHANGED <<ofGate, ofBroker, ofTasks, ofReq>>
        /\ ofFaults' \in Nat /\ ofFaults' # 0
    BY <1>6, DocumentsFaultCounts DEF Documents!Unreachable
  <2>2. DocumentsWithin(g, e)
    BY <1>0, <2>1 DEF DocumentsWithin, DocumentsEngineOK, DocumentsEngineFields
  <2> HIDE DEF e
  <2> QED BY <1>1, <2>1, <2>2
<1> QED BY <1>2, <1>3, <1>4, <1>5, <1>6 DEF Documents!Page

-----------------------------------------------------------------------------
(* The request that has the gate.                                           *)

\* The others wait, or are done.
LEMMA DocumentsOnly ==
  ASSUME DocumentsIInv, Documents!OfficeAssumption, NEW r \in ofRequests,
         ofReq[r].pc \in DocumentsWorking, NEW x,
         ofReq' = [ofReq EXCEPT ![r] = x]
  PROVE  /\ DOMAIN ofReq' = ofRequests /\ ofReq'[r] = x
         /\ \A q \in ofRequests : q # r => ofReq'[q] = ofReq[q] /\ ofReq[q].pc \notin DocumentsWorking
         /\ ofGate = r /\ ofBroker.retiring = None
         /\ DocumentsReqOK(ofReq[r]) /\ ofReq[r].answer = "none"
  BY DocumentsReqPut, DocumentsAlone DEF DocumentsIInv, DocumentsTypes, DocumentsReqsOK,
    DocumentsResults, DocumentsAnswerEnds, DocumentsWorking

\* An engine has no job, or a new one.
LEMMA DocumentsPlaced ==
  ASSUME DocumentsIInv, Documents!OfficeAssumption, NEW g \in Documents!Engines, NEW r,
         ofEngine' = [ofEngine EXCEPT ![g].job = [Documents!NoJob EXCEPT !.id = r]]
  PROVE  /\ DOMAIN ofEngine' = Documents!Engines /\ \A h \in Documents!Engines : DocumentsEngineOK(ofEngine'[h])
         /\ ofEngine'[g].job.id = r /\ ofEngine'[g].job.result = "none"
         /\ \A h \in Documents!Engines : h # g => ofEngine'[h] = ofEngine[h]
         /\ \A h \in Documents!Engines : /\ ofEngine'[h].view = ofEngine[h].view
                                         /\ ofEngine'[h].closed = ofEngine[h].closed
                                         /\ ofEngine'[h].fatal = ofEngine[h].fatal
<1> DEFINE j == [Documents!NoJob EXCEPT !.id = r]
           e == [ofEngine[g] EXCEPT !.job = j]
<1>1. DOMAIN j = DocumentsJobFields /\ j.id = r /\ j.result = "none"
  BY DEF Documents!NoJob, DocumentsJobFields
<1>2. ofEngine' = [ofEngine EXCEPT ![g] = e] /\ \A h \in Documents!Engines : DocumentsEngineOK(ofEngine[h])
      /\ DOMAIN ofEngine = Documents!Engines
  BY DEF DocumentsIInv, DocumentsTypes, DocumentsEnginesOK
<1> HIDE DEF j
<1>3. /\ DOMAIN e = DocumentsEngineFields /\ e.view = ofEngine[g].view /\ e.closed = ofEngine[g].closed
      /\ e.fatal = ofEngine[g].fatal /\ e.job = j
  BY <1>2 DEF DocumentsEngineOK, DocumentsEngineFields
<1>4. DocumentsEngineOK(e)
  BY <1>1, <1>2, <1>3 DEF DocumentsEngineOK
<1> HIDE DEF e
<1> QED BY <1>1, <1>2, <1>3, <1>4

\* An engine is closed.
LEMMA DocumentsClosedNow ==
  ASSUME DocumentsIInv, Documents!OfficeAssumption, NEW g \in Documents!Engines,
         ofEngine' = [ofEngine EXCEPT ![g].closed = TRUE]
  PROVE  /\ DOMAIN ofEngine' = Documents!Engines /\ \A h \in Documents!Engines : DocumentsEngineOK(ofEngine'[h])
         /\ ofEngine'[g].closed
         /\ \A h \in Documents!Engines : h # g => ofEngine'[h] = ofEngine[h]
         /\ \A h \in Documents!Engines : /\ ofEngine'[h].view = ofEngine[h].view
                                         /\ ofEngine'[h].job = ofEngine[h].job
                                         /\ ofEngine'[h].fatal = ofEngine[h].fatal
<1> DEFINE e == [ofEngine[g] EXCEPT !.closed = TRUE]
<1>1. ofEngine' = [ofEngine EXCEPT ![g] = e] /\ \A h \in Documents!Engines : DocumentsEngineOK(ofEngine[h])
      /\ DOMAIN ofEngine = Documents!Engines
  BY DEF DocumentsIInv, DocumentsTypes, DocumentsEnginesOK
<1>2. DocumentsEngineOK(e) /\ e.view = ofEngine[g].view /\ e.closed /\ e.fatal = ofEngine[g].fatal
      /\ e.job = ofEngine[g].job
  BY <1>1 DEF DocumentsEngineOK, DocumentsEngineFields
<1> HIDE DEF e
<1> QED BY <1>1, <1>2

LEMMA DocumentsSessionHolds ==
  ASSUME DocumentsIInv, Documents!OfficeAssumption, NEW r \in ofRequests,
         Documents!Session(r)
  PROVE  DocumentsIInv'
<1>0. ofReq[r].pc = "session" /\ ofReq[r].pc \in DocumentsWorking
  BY DEF Documents!Session, DocumentsWorking
<1>1. CASE ofBroker.stuck /\ Documents!Ends(r, "stuck") /\ ofGate' = None
           /\ UNCHANGED <<ofBroker, ofEngine, ofTasks, ofFaults>>
  <2> DEFINE x == [ofReq[r] EXCEPT !.pc = "done", !.answer = "stuck"]
  <2>1. ofReq' = [ofReq EXCEPT ![r] = x] /\ ofGate' = None
        /\ UNCHANGED <<ofBroker, ofEngine, ofTasks, ofFaults>> /\ ofBroker.stuck
    BY <1>1 DEF Documents!Ends
  <2>2. DocumentsReqOK(x) /\ x.pc = "done" /\ x.answer = "stuck"
    BY DEF DocumentsIInv, DocumentsTypes, DocumentsReqsOK, DocumentsReqOK,
      DocumentsReqFields
  <2> HIDE DEF x
  <2>3. /\ DOMAIN ofReq' = ofRequests /\ ofReq'[r] = x /\ ofBroker.retiring = None
        /\ \A q \in ofRequests : q # r => ofReq'[q] = ofReq[q] /\ ofReq[q].pc \notin DocumentsWorking
    BY <1>0, <2>1, DocumentsOnly
  <2>4. \A op, g : Documents!Posted(op, g)' <=> Documents!Posted(op, g)
    BY <2>1, DocumentsSameTasks
  <2>5. ofFaults # 0
    BY <2>1 DEF DocumentsIInv, DocumentsFaultless, DocumentsWhole
  <2>6. DocumentsTypes'
    BY <1>0, <2>1, <2>2, <2>3 DEF DocumentsIInv, DocumentsTypes, DocumentsGateOK,
      DocumentsBrokerOK, DocumentsEnginesOK, DocumentsReqsOK, DocumentsCountOK
  <2>7. DocumentsTurns'
    BY <1>0, <2>1, <2>2, <2>3, DocumentsTurnEnds
  <2>8. DocumentsCounted'
    BY <2>1, <2>4, DocumentsStillCounted DEF DocumentsIInv, DocumentsCounted,
      DocumentsDestroyedClosed, DocumentsAlive, DocumentsOwner
  <2>9. DocumentsResults'
    BY <2>1, <2>2, <2>3 DEF DocumentsIInv, DocumentsResults, Documents!OwnResult,
      DocumentsAnswerEnds
  <2>10. DocumentsFaultless' /\ Documents!NoWorkLost'
    BY <2>1, <2>5 DEF DocumentsFaultless, Documents!NoWorkLost
  <2> QED BY <2>6, <2>7, <2>8, <2>9, <2>10 DEF DocumentsIInv
<1>2. CASE /\ ~ofBroker.stuck /\ ofBroker.session # None
           /\ Documents!Place(r, ofBroker.session)
           /\ ofReq' = [ofReq EXCEPT ![r].pc = "convert", ![r].engine = ofBroker.session]
           /\ UNCHANGED <<ofGate, ofBroker, ofTasks, ofFaults>>
  <2> DEFINE g == ofBroker.session
             x == [ofReq[r] EXCEPT !.pc = "convert", !.engine = g]
  <2>1. ofReq' = [ofReq EXCEPT ![r] = x] /\ UNCHANGED <<ofGate, ofBroker, ofTasks, ofFaults>>
        /\ ofEngine' = [ofEngine EXCEPT ![g].job = [Documents!NoJob EXCEPT !.id = r]] /\ g \in Documents!Engines
    BY <1>2 DEF Documents!Place, DocumentsIInv, DocumentsTypes, DocumentsBrokerOK
  <2>2. DocumentsReqOK(x) /\ x.pc = "convert" /\ x.engine = g /\ x.answer = ofReq[r].answer
    BY DEF DocumentsIInv, DocumentsTypes, DocumentsReqsOK, DocumentsReqOK,
      DocumentsReqFields
  <2> HIDE DEF x
  <2>3. /\ DOMAIN ofReq' = ofRequests /\ ofReq'[r] = x /\ ofGate = r /\ ofBroker.retiring = None
        /\ ofReq[r].answer = "none"
        /\ \A q \in ofRequests : q # r => ofReq'[q] = ofReq[q] /\ ofReq[q].pc \notin DocumentsWorking
    BY <1>0, <2>1, DocumentsOnly
  <2>4. \A op, h : Documents!Posted(op, h)' <=> Documents!Posted(op, h)
    BY <2>1, DocumentsSameTasks
  <2>5. /\ DOMAIN ofEngine' = Documents!Engines /\ \A h \in Documents!Engines : DocumentsEngineOK(ofEngine'[h])
        /\ ofEngine'[g].job.id = r /\ ofEngine'[g].job.result = "none"
        /\ \A h \in Documents!Engines : h # g => ofEngine'[h] = ofEngine[h]
        /\ \A h \in Documents!Engines : /\ ofEngine'[h].view = ofEngine[h].view
                                        /\ ofEngine'[h].closed = ofEngine[h].closed
                                        /\ ofEngine'[h].fatal = ofEngine[h].fatal
    BY <2>1, DocumentsPlaced
  <2>6. DocumentsTypes'
    BY <1>0, <2>1, <2>2, <2>3, <2>5 DEF DocumentsIInv, DocumentsTypes, DocumentsGateOK,
      DocumentsBrokerOK, DocumentsEnginesOK, DocumentsReqsOK, DocumentsCountOK
  <2>7. DocumentsTurns'
    BY <1>2, <2>1, <2>2, <2>3, <2>5 DEF DocumentsTurns, DocumentsGateHeld,
      DocumentsHasEngine, DocumentsMaking, DocumentsConverting, DocumentsDestroying,
      DocumentsIdling, DocumentsWorking
  <2>8. DocumentsCounted'
    <3>1. \A h \in Documents!Engines : (DocumentsAlive(h)' <=> DocumentsAlive(h)) /\ (DocumentsOwner(h) => DocumentsOwner(h)')
      BY <1>0, <2>1, <2>3, <2>4, <2>5 DEF DocumentsAlive, DocumentsOwner,
        DocumentsWorking
    <3> QED BY <2>4, <2>5, <3>1, DocumentsStillCounted DEF DocumentsIInv,
        DocumentsCounted, DocumentsAccounted, DocumentsDestroyedClosed
  <2>9. DocumentsResults'
    BY <2>2, <2>3, <2>5 DEF DocumentsIInv, DocumentsResults, Documents!OwnResult,
      DocumentsAnswerEnds
  <2>10. DocumentsFaultless'
    BY <1>0, <1>2, <2>1, <2>2, <2>3, <2>4, <2>5 DEF DocumentsIInv, DocumentsFaultless,
      DocumentsWhole, DocumentsWorking
  <2>11. Documents!NoWorkLost'
    BY <1>0, <2>1, <2>2, <2>3 DEF DocumentsIInv, Documents!NoWorkLost
  <2> QED BY <2>6, <2>7, <2>8, <2>9, <2>10, <2>11 DEF DocumentsIInv
<1>3. CASE /\ ~ofBroker.stuck /\ ofBroker.session = None /\ ofBroker.last < ofMaxEngines
           /\ LET g == ofBroker.last + 1
              IN /\ ofBroker' = [ofBroker EXCEPT !.last = g]
                 /\ ofTasks' = Append(ofTasks, [op |-> "create", of |-> g])
                 /\ ofReq' = [ofReq EXCEPT ![r].pc = "create", ![r].engine = g]
           /\ UNCHANGED <<ofGate, ofEngine, ofFaults>>
  <2>0. PICK g : g = ofBroker.last + 1
    OBVIOUS
  <2> DEFINE x == [ofReq[r] EXCEPT !.pc = "create", !.engine = g]
  <2>1. /\ ofReq' = [ofReq EXCEPT ![r] = x] /\ UNCHANGED <<ofGate, ofEngine, ofFaults>>
        /\ ofTasks' = Append(ofTasks, [op |-> "create", of |-> g])
        /\ ofBroker' = [ofBroker EXCEPT !.last = g]
        /\ ~ofBroker.stuck /\ ofBroker.session = None
    BY <1>3, <2>0
  <2>2. ofBroker.last \in Nat /\ g \in 0..ofMaxEngines /\ g \in Documents!Engines /\ Documents!Engines \subseteq Nat
    BY <1>3, <2>0 DEF DocumentsIInv, DocumentsTypes, DocumentsBrokerOK,
      Documents!OfficeAssumption, Documents!Engines
  <2>3. DocumentsReqOK(x) /\ x.pc = "create" /\ x.engine = g /\ x.answer = ofReq[r].answer
    BY DEF DocumentsIInv, DocumentsTypes, DocumentsReqsOK, DocumentsReqOK,
      DocumentsReqFields
  <2> HIDE DEF x
  <2>4. /\ DOMAIN ofReq' = ofRequests /\ ofReq'[r] = x /\ ofGate = r /\ ofBroker.retiring = None
        /\ ofReq[r].answer = "none"
        /\ \A q \in ofRequests : q # r => ofReq'[q] = ofReq[q] /\ ofReq[q].pc \notin DocumentsWorking
    BY <1>0, <2>1, DocumentsOnly
  <2>5. /\ DOMAIN ofBroker' = DocumentsBrokerFields /\ ofBroker'.session = None /\ ofBroker'.last = g
        /\ ofBroker'.retiring = None /\ ofBroker'.stuck = ofBroker.stuck
        /\ ofBroker'.shutdown = ofBroker.shutdown
    BY <2>1, <2>4 DEF DocumentsIInv, DocumentsTypes, DocumentsBrokerOK,
      DocumentsBrokerFields
  <2>6. /\ ofTasks' \in Seq(DocumentsOrders)
        /\ \A op, h : Documents!Posted(op, h)' <=> Documents!Posted(op, h) \/ (op = "create" /\ h = g)
    BY <2>1, <2>2, DocumentsAppended DEF DocumentsIInv, DocumentsTypes, DocumentsCountOK
  <2>7. \A h \in Documents!Engines : ~DocumentsAlive(h)
    BY <1>0, <2>1, <2>4 DEF DocumentsIInv, DocumentsCounted, DocumentsAccounted,
      DocumentsOwner, Documents!OfficeAssumption, DocumentsWorking
  <2>8. DocumentsTypes'
    BY <1>0, <2>1, <2>2, <2>3, <2>4, <2>5, <2>6 DEF DocumentsIInv, DocumentsTypes,
      DocumentsGateOK, DocumentsBrokerOK, DocumentsEnginesOK, DocumentsReqsOK,
      DocumentsCountOK
  <2>9. DocumentsTurns'
    BY <2>1, <2>2, <2>3, <2>4, <2>5 DEF DocumentsTurns, DocumentsGateHeld,
      DocumentsHasEngine, DocumentsMaking, DocumentsConverting, DocumentsDestroying,
      DocumentsIdling, DocumentsWorking
  <2>10. DocumentsCounted'
    <3>1. \A h \in Documents!Engines : DocumentsAlive(h)' => h = g
      BY <2>1, <2>6, <2>7 DEF DocumentsAlive
    <3>2. DocumentsOwner(g)'
      BY <2>3, <2>4 DEF DocumentsOwner
    <3>3. DocumentsDestroyedClosed'
      BY <2>1, <2>6 DEF DocumentsIInv, DocumentsCounted, DocumentsDestroyedClosed
    <3> QED BY <3>1, <3>2, <3>3 DEF DocumentsCounted, DocumentsAccounted,
        DocumentsOneAlive
  <2>11. DocumentsResults'
    BY <2>1, <2>3, <2>4 DEF DocumentsIInv, DocumentsResults, Documents!OwnResult,
      DocumentsAnswerEnds
  <2>12. DocumentsFaultless'
    <3>1. SUFFICES ASSUME ofFaults = 0, DocumentsWhole PROVE DocumentsWhole'
      BY <2>1 DEF DocumentsFaultless, DocumentsIInv
    <3>2. ~ofEngine[g].closed /\ \A h \in Documents!Engines : h <= ofBroker.last => h <= g
      BY <2>0, <2>2, <3>1 DEF DocumentsWhole
    <3>3. g <= g
      BY <2>2
    <3>4. \A q \in ofRequests : q # r => ofReq'[q].pc \notin DocumentsWorking
      BY <2>4
    <3> QED BY <2>1, <2>2, <2>3, <2>4, <2>5, <2>6, <3>1, <3>2, <3>3, <3>4
        DEF DocumentsWhole, DocumentsWorking
  <2>13. Documents!NoWorkLost'
    BY <2>1, <2>3, <2>4, <2>5 DEF DocumentsIInv, Documents!NoWorkLost
  <2> QED BY <2>8, <2>9, <2>10, <2>11, <2>12, <2>13 DEF DocumentsIInv
<1>4. CASE /\ ~ofBroker.stuck /\ ofBroker.session = None /\ Documents!Fault /\ Documents!Ends(r, "failed") /\ ofGate' = None
           /\ UNCHANGED <<ofBroker, ofEngine, ofTasks>>
  <2> DEFINE x == [ofReq[r] EXCEPT !.pc = "done", !.answer = "failed"]
  <2>1. /\ ofReq' = [ofReq EXCEPT ![r] = x] /\ ofGate' = None /\ UNCHANGED <<ofBroker, ofEngine, ofTasks>>
        /\ ~ofBroker.stuck /\ ofBroker.session = None /\ ofFaults' \in Nat /\ ofFaults' # 0
    BY <1>4, DocumentsFaultCounts DEF Documents!Ends
  <2>2. DocumentsReqOK(x) /\ x.pc = "done" /\ x.answer = "failed"
    BY DEF DocumentsIInv, DocumentsTypes, DocumentsReqsOK, DocumentsReqOK,
      DocumentsReqFields
  <2> HIDE DEF x
  <2>3. /\ DOMAIN ofReq' = ofRequests /\ ofReq'[r] = x /\ ofGate = r /\ ofBroker.retiring = None
        /\ \A q \in ofRequests : q # r => ofReq'[q] = ofReq[q] /\ ofReq[q].pc \notin DocumentsWorking
    BY <1>0, <2>1, DocumentsOnly
  <2>4. \A op, g : Documents!Posted(op, g)' <=> Documents!Posted(op, g)
    BY <2>1, DocumentsSameTasks
  <2>5. \A h \in Documents!Engines : ~DocumentsAlive(h)
    BY <1>0, <2>1, <2>3 DEF DocumentsIInv, DocumentsCounted, DocumentsAccounted,
      DocumentsOwner, Documents!OfficeAssumption, DocumentsWorking
  <2>6. DocumentsTypes'
    BY <1>0, <2>1, <2>2, <2>3 DEF DocumentsIInv, DocumentsTypes, DocumentsGateOK,
      DocumentsBrokerOK, DocumentsEnginesOK, DocumentsReqsOK, DocumentsCountOK
  <2>7. DocumentsTurns'
    BY <1>0, <2>1, <2>2, <2>3, DocumentsTurnEnds
  <2>8. DocumentsCounted'
    <3>1. \A h \in Documents!Engines : ~DocumentsAlive(h)'
      BY <2>1, <2>4, <2>5 DEF DocumentsAlive
    <3>2. DocumentsDestroyedClosed'
      BY <2>1, <2>4 DEF DocumentsIInv, DocumentsCounted, DocumentsDestroyedClosed
    <3> QED BY <3>1, <3>2 DEF DocumentsCounted, DocumentsAccounted, DocumentsOneAlive
  <2>9. DocumentsResults'
    BY <2>1, <2>2, <2>3 DEF DocumentsIInv, DocumentsResults, Documents!OwnResult,
      DocumentsAnswerEnds
  <2>10. DocumentsFaultless' /\ Documents!NoWorkLost'
    BY <2>1 DEF DocumentsFaultless, Documents!NoWorkLost
  <2> QED BY <2>6, <2>7, <2>8, <2>9, <2>10 DEF DocumentsIInv
<1> QED BY <1>1, <1>2, <1>3, <1>4 DEF Documents!Session

LEMMA DocumentsCreatedHolds ==
  ASSUME DocumentsIInv, Documents!OfficeAssumption, NEW r \in ofRequests,
         Documents!Created(r)
  PROVE  DocumentsIInv'
<1>0. PICK g : g = ofReq[r].engine
  OBVIOUS
<1>1. /\ ofReq[r].pc = "create" /\ ofReq[r].pc \in DocumentsWorking /\ g \in Documents!Engines /\ ofBroker.session = None
      /\ ofGate' = ofGate /\ None \notin Documents!Engines
  BY <1>0 DEF Documents!Created, DocumentsIInv, DocumentsTurns, DocumentsHasEngine,
    DocumentsMaking, DocumentsWorking, Documents!OfficeAssumption
<1>2. CASE /\ ofEngine[g].view = "live"
           /\ ofBroker' = [ofBroker EXCEPT !.session = g, !.idle = TRUE]
           /\ Documents!Place(r, g) /\ Documents!At(r, "convert") /\ UNCHANGED <<ofTasks, ofFaults>>
  <2> DEFINE x == [ofReq[r] EXCEPT !.pc = "convert"]
  <2>1. /\ ofReq' = [ofReq EXCEPT ![r] = x] /\ UNCHANGED <<ofTasks, ofFaults>>
        /\ ofEngine' = [ofEngine EXCEPT ![g].job = [Documents!NoJob EXCEPT !.id = r]]
        /\ ofEngine[g].view = "live"
    BY <1>2 DEF Documents!Place, Documents!At
  <2>2. DocumentsReqOK(x) /\ x.pc = "convert" /\ x.engine = g /\ x.answer = ofReq[r].answer
    BY <1>0 DEF DocumentsIInv, DocumentsTypes, DocumentsReqsOK, DocumentsReqOK,
      DocumentsReqFields
  <2> HIDE DEF x
  <2>3. /\ DOMAIN ofReq' = ofRequests /\ ofReq'[r] = x /\ ofGate = r /\ ofBroker.retiring = None
        /\ ofReq[r].answer = "none"
        /\ \A q \in ofRequests : q # r => ofReq'[q] = ofReq[q] /\ ofReq[q].pc \notin DocumentsWorking
    BY <1>1, <2>1, DocumentsOnly
  <2>4. \A op, h : Documents!Posted(op, h)' <=> Documents!Posted(op, h)
    BY <2>1, DocumentsSameTasks
  <2>5. /\ DOMAIN ofEngine' = Documents!Engines /\ \A h \in Documents!Engines : DocumentsEngineOK(ofEngine'[h])
        /\ ofEngine'[g].job.id = r /\ ofEngine'[g].job.result = "none"
        /\ \A h \in Documents!Engines : h # g => ofEngine'[h] = ofEngine[h]
        /\ \A h \in Documents!Engines : /\ ofEngine'[h].view = ofEngine[h].view
                                        /\ ofEngine'[h].closed = ofEngine[h].closed
                                        /\ ofEngine'[h].fatal = ofEngine[h].fatal
    BY <1>1, <2>1, DocumentsPlaced
  <2>6. /\ DOMAIN ofBroker' = DocumentsBrokerFields /\ ofBroker'.session = g /\ ofBroker'.last = ofBroker.last
        /\ ofBroker'.retiring = None /\ ofBroker'.stuck = ofBroker.stuck
        /\ ofBroker'.shutdown = ofBroker.shutdown
    BY <1>2, <2>3 DEF DocumentsIInv, DocumentsTypes, DocumentsBrokerOK,
      DocumentsBrokerFields
  <2>7. DocumentsTypes'
    BY <1>1, <2>1, <2>2, <2>3, <2>5, <2>6 DEF DocumentsIInv, DocumentsTypes,
      DocumentsGateOK, DocumentsBrokerOK, DocumentsEnginesOK, DocumentsReqsOK,
      DocumentsCountOK
  <2>8. DocumentsTurns'
    BY <1>1, <2>2, <2>3, <2>5, <2>6 DEF DocumentsTurns, DocumentsGateHeld,
      DocumentsHasEngine, DocumentsMaking, DocumentsConverting, DocumentsDestroying,
      DocumentsIdling, DocumentsWorking
  <2>9. DocumentsCounted'
    <3>1. \A h \in Documents!Engines : DocumentsAlive(h)' <=> DocumentsAlive(h)
      BY <2>4, <2>5 DEF DocumentsAlive
    <3>2. \A h \in Documents!Engines : DocumentsAlive(h) => h = g
      BY <1>1, <2>1 DEF DocumentsIInv, DocumentsCounted, DocumentsOneAlive,
        DocumentsAlive
    <3>3. DocumentsOwner(g)'
      BY <2>6 DEF DocumentsOwner
    <3> QED BY <2>4, <2>5, <3>1, <3>2, <3>3, DocumentsStillCounted DEF DocumentsIInv,
        DocumentsCounted, DocumentsDestroyedClosed
  <2>10. DocumentsResults'
    BY <2>2, <2>3, <2>5 DEF DocumentsIInv, DocumentsResults, Documents!OwnResult,
      DocumentsAnswerEnds
  <2>11. DocumentsFaultless'
    BY <1>0, <1>1, <2>1, <2>2, <2>3, <2>4, <2>5, <2>6 DEF DocumentsIInv,
      DocumentsFaultless, DocumentsWhole, DocumentsWorking
  <2>12. Documents!NoWorkLost'
    BY <2>1, <2>2, <2>3, <2>6 DEF DocumentsIInv, Documents!NoWorkLost
  <2> QED BY <2>7, <2>8, <2>9, <2>10, <2>11, <2>12 DEF DocumentsIInv
<1>3. CASE /\ \/ Documents!Posted("create", g) /\ Documents!Fault
              \/ ~Documents!Posted("create", g) /\ ofEngine[g].view # "live" /\ UNCHANGED ofFaults
           /\ ofEngine' = [ofEngine EXCEPT ![g].closed = TRUE]
           /\ ofTasks' = Append(ofTasks, [op |-> "destroy", of |-> g])
           /\ ofReq' = [ofReq EXCEPT ![r].pc = "destroy", ![r].why = "failed"]
           /\ UNCHANGED ofBroker
  <2> DEFINE x == [ofReq[r] EXCEPT !.pc = "destroy", !.why = "failed"]
  <2>1. ofReq' = [ofReq EXCEPT ![r] = x] /\ UNCHANGED ofBroker
    BY <1>3
  <2>2. /\ DocumentsReqOK(x) /\ x.pc = "destroy" /\ x.engine = g /\ x.answer = ofReq[r].answer
        /\ x.why = "failed"
    BY <1>0 DEF DocumentsIInv, DocumentsTypes, DocumentsReqsOK, DocumentsReqOK,
      DocumentsReqFields
  <2> HIDE DEF x
  <2>3. /\ DOMAIN ofReq' = ofRequests /\ ofReq'[r] = x /\ ofGate = r /\ ofBroker.retiring = None
        /\ ofReq[r].answer = "none"
        /\ \A q \in ofRequests : q # r => ofReq'[q] = ofReq[q] /\ ofReq[q].pc \notin DocumentsWorking
    BY <1>1, <2>1, DocumentsOnly
  <2>4. /\ ofTasks' \in Seq(DocumentsOrders)
        /\ \A op, h : Documents!Posted(op, h)' <=> Documents!Posted(op, h) \/ (op = "destroy" /\ h = g)
    BY <1>1, <1>3, DocumentsAppended DEF DocumentsIInv, DocumentsTypes, DocumentsCountOK
  <2>5. /\ DOMAIN ofEngine' = Documents!Engines /\ \A h \in Documents!Engines : DocumentsEngineOK(ofEngine'[h])
        /\ ofEngine'[g].closed
        /\ \A h \in Documents!Engines : h # g => ofEngine'[h] = ofEngine[h]
        /\ \A h \in Documents!Engines : ofEngine'[h].view = ofEngine[h].view /\ ofEngine'[h].job = ofEngine[h].job
    BY <1>1, <1>3, DocumentsClosedNow
  <2>6. ofFaults' \in Nat /\ ofFaults' # 0
    <3>1. CASE Documents!Fault
      BY <3>1, DocumentsFaultCounts
    <3>2. CASE ~Documents!Posted("create", g) /\ ofEngine[g].view # "live" /\ UNCHANGED ofFaults
      BY <1>0, <1>1, <3>2 DEF DocumentsIInv, DocumentsTypes, DocumentsCountOK,
        DocumentsFaultless, DocumentsWhole
    <3> QED BY <1>3, <3>1, <3>2
  <2>7. DocumentsTypes'
    BY <1>1, <2>1, <2>2, <2>3, <2>4, <2>5, <2>6 DEF DocumentsIInv, DocumentsTypes,
      DocumentsGateOK, DocumentsBrokerOK, DocumentsEnginesOK, DocumentsReqsOK,
      DocumentsCountOK
  <2>8. DocumentsTurns'
    BY <1>1, <2>1, <2>2, <2>3, <2>5 DEF DocumentsTurns, DocumentsGateHeld,
      DocumentsHasEngine, DocumentsMaking, DocumentsConverting, DocumentsDestroying,
      DocumentsIdling, DocumentsWorking
  <2>9. DocumentsCounted'
    <3>1. \A h \in Documents!Engines : DocumentsAlive(h)' => DocumentsAlive(h)
      BY <2>4, <2>5 DEF DocumentsAlive
    <3>2. \A h \in Documents!Engines : DocumentsOwner(h) => DocumentsOwner(h)'
      BY <1>0, <2>1, <2>2, <2>3 DEF DocumentsOwner, DocumentsWorking
    <3> QED BY <2>4, <2>5, <3>1, <3>2, DocumentsStillCounted DEF DocumentsIInv,
        DocumentsCounted, DocumentsAccounted, DocumentsDestroyedClosed
  <2>10. DocumentsResults'
    BY <2>2, <2>3, <2>5 DEF DocumentsIInv, DocumentsResults, Documents!OwnResult,
      DocumentsAnswerEnds
  <2> QED BY <2>6, <2>7, <2>8, <2>9, <2>10 DEF DocumentsIInv, DocumentsFaultless,
      Documents!NoWorkLost
<1> QED BY <1>0, <1>2, <1>3 DEF Documents!Created

\* The engine is given up: closed, and its destruction asked for.
LEMMA DocumentsRetiresHolds ==
  ASSUME DocumentsIInv, Documents!OfficeAssumption, NEW r \in ofRequests,
         ofReq[r].pc = "convert", NEW why,
         why # "document", why # "none", Documents!Retires(r, why), ofFaults' \in Nat,
         ofFaults' = 0 => ofFaults = 0 /\ Documents!Stopped(r)
  PROVE  DocumentsIInv'
<1>0. PICK g : g = ofReq[r].engine
  OBVIOUS
<1>1. /\ ofReq[r].pc \in DocumentsWorking /\ g \in Documents!Engines /\ ofBroker.session \in {None, g}
      /\ None \notin Documents!Engines
  BY <1>0 DEF DocumentsIInv, DocumentsTurns, DocumentsHasEngine, DocumentsConverting,
    DocumentsWorking, Documents!OfficeAssumption
<1>2. /\ DOMAIN ofBroker' = DocumentsBrokerFields /\ ofBroker'.session = None /\ ofBroker'.last = ofBroker.last
      /\ ofBroker'.retiring = ofBroker.retiring /\ ofBroker'.stuck = ofBroker.stuck
      /\ ofBroker'.shutdown = ofBroker.shutdown
  BY DEF Documents!Retires, DocumentsIInv, DocumentsTypes, DocumentsBrokerOK,
    DocumentsBrokerFields
<1>3. CASE ofBroker.session = g
  <2> DEFINE x == [ofReq[r] EXCEPT !.pc = "destroy", !.why = why]
  <2>1. /\ ofReq' = [ofReq EXCEPT ![r] = x] /\ ofGate' = ofGate
        /\ ofEngine' = [ofEngine EXCEPT ![g].closed = TRUE]
        /\ ofTasks' = Append(ofTasks, [op |-> "destroy", of |-> g])
    BY <1>1, <1>3 DEF Documents!Retires
  <2>2. /\ DocumentsReqOK(x) /\ x.pc = "destroy" /\ x.engine = g /\ x.answer = ofReq[r].answer
        /\ x.why = why /\ x.cancel = ofReq[r].cancel
    BY <1>0 DEF DocumentsIInv, DocumentsTypes, DocumentsReqsOK, DocumentsReqOK,
      DocumentsReqFields
  <2> HIDE DEF x
  <2>3. /\ DOMAIN ofReq' = ofRequests /\ ofReq'[r] = x /\ ofGate = r /\ ofBroker.retiring = None
        /\ ofReq[r].answer = "none"
        /\ \A q \in ofRequests : q # r => ofReq'[q] = ofReq[q] /\ ofReq[q].pc \notin DocumentsWorking
    BY <1>1, <2>1, DocumentsOnly
  <2>4. /\ ofTasks' \in Seq(DocumentsOrders)
        /\ \A op, h : Documents!Posted(op, h)' <=> Documents!Posted(op, h) \/ (op = "destroy" /\ h = g)
    BY <1>1, <2>1, DocumentsAppended DEF DocumentsIInv, DocumentsTypes, DocumentsCountOK
  <2>5. /\ DOMAIN ofEngine' = Documents!Engines /\ \A h \in Documents!Engines : DocumentsEngineOK(ofEngine'[h])
        /\ ofEngine'[g].closed
        /\ \A h \in Documents!Engines : h # g => ofEngine'[h] = ofEngine[h]
        /\ \A h \in Documents!Engines : /\ ofEngine'[h].view = ofEngine[h].view
                                        /\ ofEngine'[h].job = ofEngine[h].job
                                        /\ ofEngine'[h].fatal = ofEngine[h].fatal
    BY <1>1, <2>1, DocumentsClosedNow
  <2>6. DocumentsTypes'
    BY <1>1, <1>2, <2>1, <2>2, <2>3, <2>4, <2>5 DEF DocumentsIInv, DocumentsTypes,
      DocumentsGateOK, DocumentsBrokerOK, DocumentsEnginesOK, DocumentsReqsOK,
      DocumentsCountOK
  <2>7. DocumentsTurns'
    BY <1>1, <1>2, <2>1, <2>2, <2>3, <2>5 DEF DocumentsTurns, DocumentsGateHeld,
      DocumentsHasEngine, DocumentsMaking, DocumentsConverting, DocumentsDestroying,
      DocumentsIdling, DocumentsWorking
  <2>8. DocumentsCounted'
    <3>1. \A h \in Documents!Engines : DocumentsAlive(h)' => DocumentsAlive(h)
      BY <2>4, <2>5 DEF DocumentsAlive
    <3>2. \A h \in Documents!Engines : DocumentsOwner(h) => DocumentsOwner(h)'
      BY <1>2, <1>3, <2>2, <2>3 DEF DocumentsOwner, DocumentsWorking
    <3> QED BY <2>4, <2>5, <3>1, <3>2, DocumentsStillCounted DEF DocumentsIInv,
        DocumentsCounted, DocumentsAccounted, DocumentsDestroyedClosed
  <2>9. DocumentsResults'
    BY <2>2, <2>3, <2>5 DEF DocumentsIInv, DocumentsResults, Documents!OwnResult,
      DocumentsAnswerEnds
  <2>10. DocumentsFaultless'
    <3>1. SUFFICES ASSUME ofFaults' = 0, DocumentsWhole, Documents!Stopped(r) PROVE DocumentsWhole'
      BY DEF DocumentsFaultless, DocumentsIInv
    <3>2. g <= ofBroker.last
      BY <1>1, <1>3, <3>1 DEF DocumentsWhole
    <3> QED BY <1>2, <2>2, <2>3, <2>4, <2>5, <3>1, <3>2 DEF DocumentsWhole,
        DocumentsWorking, Documents!Stopped
  <2>11. Documents!NoWorkLost'
    BY <1>2, <2>2, <2>3 DEF DocumentsIInv, Documents!NoWorkLost
  <2> QED BY <2>6, <2>7, <2>8, <2>9, <2>10, <2>11 DEF DocumentsIInv
<1>4. CASE ofBroker.session = None
  <2> DEFINE x == [ofReq[r] EXCEPT !.pc = "done", !.answer = why]
  <2>1. ofReq' = [ofReq EXCEPT ![r] = x] /\ ofGate' = None /\ UNCHANGED <<ofEngine, ofTasks>>
    BY <1>4 DEF Documents!Retires, Documents!Ends
  <2>2. DocumentsReqOK(x) /\ x.pc = "done" /\ x.answer = why /\ x.cancel = ofReq[r].cancel
    BY DEF DocumentsIInv, DocumentsTypes, DocumentsReqsOK, DocumentsReqOK,
      DocumentsReqFields
  <2> HIDE DEF x
  <2>3. /\ DOMAIN ofReq' = ofRequests /\ ofReq'[r] = x /\ ofBroker.retiring = None
        /\ \A q \in ofRequests : q # r => ofReq'[q] = ofReq[q] /\ ofReq[q].pc \notin DocumentsWorking
    BY <1>1, <2>1, DocumentsOnly
  <2>4. \A op, h : Documents!Posted(op, h)' <=> Documents!Posted(op, h)
    BY <2>1, DocumentsSameTasks
  <2>5. \A q \in ofRequests : ofReq'[q].pc \notin DocumentsWorking
    BY <2>2, <2>3 DEF DocumentsWorking
  <2>6. DocumentsTypes'
    BY <1>2, <2>1, <2>2, <2>3 DEF DocumentsIInv, DocumentsTypes, DocumentsGateOK,
      DocumentsBrokerOK, DocumentsEnginesOK, DocumentsReqsOK, DocumentsCountOK
  <2>7. DocumentsTurns'
    BY <1>1, <1>2, <2>1, <2>2, <2>3, DocumentsTurnEnds
  <2>8. DocumentsCounted'
    <3>1. \A h \in Documents!Engines : (DocumentsAlive(h)' <=> DocumentsAlive(h)) /\ (DocumentsOwner(h) => DocumentsOwner(h)')
      BY <1>2, <1>4, <2>1, <2>3, <2>4 DEF DocumentsAlive, DocumentsOwner,
        DocumentsWorking
    <3> QED BY <2>1, <2>4, <3>1, DocumentsStillCounted DEF DocumentsIInv,
        DocumentsCounted, DocumentsAccounted, DocumentsDestroyedClosed
  <2>9. DocumentsResults'
    BY <2>1, <2>2, <2>3 DEF DocumentsIInv, DocumentsResults, Documents!OwnResult,
      DocumentsAnswerEnds
  <2>10. DocumentsFaultless'
    BY <1>2, <2>1, <2>4, <2>5 DEF DocumentsIInv, DocumentsFaultless, DocumentsWhole,
      DocumentsWorking
  <2>11. Documents!NoWorkLost'
    BY <1>2, <2>2, <2>3 DEF DocumentsIInv, Documents!NoWorkLost, Documents!Stopped
  <2> QED BY <2>6, <2>7, <2>8, <2>9, <2>10, <2>11 DEF DocumentsIInv
<1> QED BY <1>1, <1>3, <1>4

LEMMA DocumentsWatchHolds ==
  ASSUME DocumentsIInv, Documents!OfficeAssumption, NEW r \in ofRequests, Documents!Watch(r)
  PROVE  DocumentsIInv'
<1>0. PICK g : g = ofReq[r].engine
  OBVIOUS
<1>1. /\ ofReq[r].pc = "convert" /\ ofReq[r].pc \in DocumentsWorking /\ g \in Documents!Engines
      /\ ofBroker.session \in {None, g} /\ ofEngine[g].job.id = r /\ None \notin Documents!Engines
      /\ ofFaults \in Nat
  BY <1>0 DEF Documents!Watch, DocumentsIInv, DocumentsTurns, DocumentsHasEngine,
    DocumentsConverting, DocumentsWorking, Documents!OfficeAssumption, DocumentsTypes,
    DocumentsCountOK
<1>2. CASE Documents!Terminal(r) /\ Documents!Retires(r, "stopped")
  BY <1>1, <1>2, DocumentsRetiresHolds, DocumentsTerminalTells
<1>3. CASE ~Documents!Stopped(r) /\ (ofEngine[g].closed \/ ofEngine[g].fatal) /\ Documents!Retires(r, "lost") /\ UNCHANGED ofFaults
  <2>1. ofFaults # 0
    BY <1>0, <1>1, <1>3 DEF DocumentsIInv, DocumentsFaultless, DocumentsWhole,
      Documents!Stopped
  <2> QED BY <1>1, <1>3, <2>1, DocumentsRetiresHolds
<1>4. CASE /\ ~Documents!Stopped(r) /\ ofEngine[g].job.result = "failed"
           /\ Documents!Retires(r, "failed") /\ UNCHANGED ofFaults
  <2>1. ofFaults # 0
    BY <1>1, <1>4 DEF DocumentsIInv, DocumentsFaultless, DocumentsWhole
  <2> QED BY <1>1, <1>4, <2>1, DocumentsRetiresHolds
<1>5. CASE /\ ~Documents!Stopped(r) /\ ofEngine[g].job.result = "document"
           /\ ofReq' = [ofReq EXCEPT ![r].pc = "done", ![r].answer = "document",
                                 ![r].why = ofEngine[g].job.by]
           /\ ofEngine' = [ofEngine EXCEPT ![g].job = Documents!NoJob]
           /\ ofGate' = None /\ UNCHANGED <<ofBroker, ofTasks, ofFaults>>
  <2> DEFINE x == [ofReq[r] EXCEPT !.pc = "done", !.answer = "document", !.why = ofEngine[g].job.by]
             e == [ofEngine[g] EXCEPT !.job = Documents!NoJob]
  <2>1. /\ ofReq' = [ofReq EXCEPT ![r] = x] /\ ofEngine' = [ofEngine EXCEPT ![g] = e]
        /\ ofGate' = None /\ UNCHANGED <<ofBroker, ofTasks, ofFaults>>
    BY <1>5
  <2>2. /\ DocumentsReqOK(x) /\ x.pc = "done" /\ x.answer = "document" /\ x.why = r
    <3>1. ofEngine[g].job.by = r
      BY <1>1, <1>5 DEF DocumentsIInv, DocumentsResults, Documents!OwnResult
    <3> QED BY <3>1 DEF DocumentsIInv, DocumentsTypes, DocumentsReqsOK, DocumentsReqOK,
        DocumentsReqFields
  <2>3. /\ DocumentsEngineOK(e) /\ e.view = ofEngine[g].view /\ e.closed = ofEngine[g].closed
        /\ e.fatal = ofEngine[g].fatal /\ e.job.result = "none"
    BY <1>1 DEF DocumentsIInv, DocumentsTypes, DocumentsEnginesOK, DocumentsEngineOK,
      DocumentsEngineFields, DocumentsJobFields, Documents!NoJob
  <2> HIDE DEF x, e
  <2>4. /\ DOMAIN ofReq' = ofRequests /\ ofReq'[r] = x /\ ofBroker.retiring = None
        /\ \A q \in ofRequests : q # r => ofReq'[q] = ofReq[q] /\ ofReq[q].pc \notin DocumentsWorking
    BY <1>1, <2>1, DocumentsOnly
  <2>5. \A op, h : Documents!Posted(op, h)' <=> Documents!Posted(op, h)
    BY <2>1, DocumentsSameTasks
  <2>6. /\ DOMAIN ofEngine' = Documents!Engines /\ ofEngine'[g] = e
        /\ \A h \in Documents!Engines : h # g => ofEngine'[h] = ofEngine[h]
    BY <1>1, <2>1, DocumentsEnginePut DEF DocumentsIInv, DocumentsTypes
  <2>7. \A h \in Documents!Engines : /\ ofEngine'[h].view = ofEngine[h].view
                                     /\ ofEngine'[h].closed = ofEngine[h].closed
                                     /\ ofEngine'[h].fatal = ofEngine[h].fatal
                                     /\ ofEngine'[h].job.result \in {"none", ofEngine[h].job.result}
    BY <2>3, <2>6
  <2>8. \A q \in ofRequests : ofReq'[q].pc \notin DocumentsWorking
    BY <2>2, <2>4 DEF DocumentsWorking
  <2>9. DocumentsTypes'
    BY <2>1, <2>2, <2>3, <2>4, <2>6 DEF DocumentsIInv, DocumentsTypes, DocumentsGateOK,
      DocumentsBrokerOK, DocumentsEnginesOK, DocumentsReqsOK, DocumentsCountOK
  <2>10. DocumentsTurns'
    BY <1>1, <2>1, <2>2, <2>4, DocumentsTurnEnds
  <2>11. DocumentsCounted'
    <3>1. \A h \in Documents!Engines : (DocumentsAlive(h)' <=> DocumentsAlive(h)) /\ (DocumentsOwner(h) => DocumentsOwner(h)')
      BY <1>1, <2>1, <2>4, <2>5, <2>7 DEF DocumentsAlive, DocumentsOwner,
        DocumentsWorking
    <3> QED BY <2>5, <2>7, <3>1, DocumentsStillCounted DEF DocumentsIInv,
        DocumentsCounted, DocumentsAccounted, DocumentsDestroyedClosed
  <2>12. DocumentsResults'
    BY <2>2, <2>3, <2>4, <2>6 DEF DocumentsIInv, DocumentsResults, Documents!OwnResult,
      DocumentsAnswerEnds
  <2>13. DocumentsFaultless'
    <3>1. ofBroker.session \in Documents!Engines \cup {None}
      BY DEF DocumentsIInv, DocumentsTypes, DocumentsBrokerOK
    <3> QED BY <2>1, <2>5, <2>7, <2>8, <3>1 DEF DocumentsIInv, DocumentsFaultless,
        DocumentsWhole, DocumentsWorking
  <2>14. Documents!NoWorkLost'
    BY <2>1, <2>2, <2>4 DEF DocumentsIInv, Documents!NoWorkLost
  <2> QED BY <2>9, <2>10, <2>11, <2>12, <2>13, <2>14 DEF DocumentsIInv
<1> QED BY <1>0, <1>2, <1>3, <1>4, <1>5 DEF Documents!Watch

LEMMA DocumentsDestroyedHolds ==
  ASSUME DocumentsIInv, Documents!OfficeAssumption, NEW r \in ofRequests,
         Documents!Destroyed(r)
  PROVE  DocumentsIInv'
<1>0. PICK g : g = ofReq[r].engine
  OBVIOUS
<1>1. /\ ofReq[r].pc = "destroy" /\ ofReq[r].pc \in DocumentsWorking /\ g \in Documents!Engines
      /\ ofBroker.session = None /\ ofEngine[g].closed /\ ofReq[r].why # "document"
      /\ ofGate' = None /\ UNCHANGED <<ofEngine, ofTasks>>
  BY <1>0 DEF Documents!Destroyed, DocumentsIInv, DocumentsTurns, DocumentsHasEngine,
    DocumentsDestroying, DocumentsWorking, DocumentsResults, DocumentsAnswerEnds
<1>2. PICK answer :
        /\ Documents!Ends(r, answer) /\ answer # "document"
        /\ \/ Documents!Confirmed(g) /\ UNCHANGED <<ofBroker, ofFaults>>
           \/ /\ (Documents!Posted("destroy", g) /\ Documents!Fault) \/ (Documents!Refused(g) /\ UNCHANGED ofFaults)
              /\ ofBroker' = [ofBroker EXCEPT !.stuck = TRUE]
  BY <1>0, <1>1 DEF Documents!Destroyed
<1> DEFINE x == [ofReq[r] EXCEPT !.pc = "done", !.answer = answer]
<1>3. ofReq' = [ofReq EXCEPT ![r] = x]
  BY <1>2 DEF Documents!Ends
<1>4. DocumentsReqOK(x) /\ x.pc = "done" /\ x.answer = answer /\ x.cancel = ofReq[r].cancel
  BY DEF DocumentsIInv, DocumentsTypes, DocumentsReqsOK, DocumentsReqOK,
    DocumentsReqFields
<1> HIDE DEF x
<1>5. /\ DOMAIN ofReq' = ofRequests /\ ofReq'[r] = x /\ ofBroker.retiring = None
      /\ \A q \in ofRequests : q # r => ofReq'[q] = ofReq[q] /\ ofReq[q].pc \notin DocumentsWorking
  BY <1>1, <1>3, DocumentsOnly
<1>6. /\ DOMAIN ofBroker' = DocumentsBrokerFields /\ ofBroker'.session = None /\ ofBroker'.last = ofBroker.last
      /\ ofBroker'.retiring = ofBroker.retiring /\ ofBroker'.shutdown = ofBroker.shutdown
      /\ ofBroker'.stuck \/ (~DocumentsAlive(g) /\ ofBroker'.stuck = ofBroker.stuck)
      /\ ofFaults' \in Nat /\ (ofFaults' = 0 => ofFaults = 0 /\ ofBroker' = ofBroker)
  <2>1. ofFaults \in Nat /\ DOMAIN ofBroker = DocumentsBrokerFields
    BY DEF DocumentsIInv, DocumentsTypes, DocumentsBrokerOK, DocumentsCountOK
  <2>2. CASE Documents!Confirmed(g) /\ UNCHANGED <<ofBroker, ofFaults>>
    BY <1>1, <2>1, <2>2 DEF Documents!Confirmed, DocumentsAlive
  <2>3. CASE /\ (Documents!Posted("destroy", g) /\ Documents!Fault) \/ (Documents!Refused(g) /\ UNCHANGED ofFaults)
             /\ ofBroker' = [ofBroker EXCEPT !.stuck = TRUE]
    <3>1. ofFaults' \in Nat /\ ofFaults' # 0
      <4>1. CASE Documents!Fault
        BY <4>1, DocumentsFaultCounts
      <4>2. CASE Documents!Refused(g) /\ UNCHANGED ofFaults
        BY <1>1, <2>1, <4>2 DEF Documents!Refused, DocumentsIInv, DocumentsFaultless,
          DocumentsWhole
      <4> QED BY <2>3, <4>1, <4>2
    <3> QED BY <1>1, <2>1, <2>3, <3>1 DEF DocumentsBrokerFields
  <2> QED BY <1>2, <2>2, <2>3
<1>7. \A op, h : Documents!Posted(op, h)' <=> Documents!Posted(op, h)
  BY <1>1, DocumentsSameTasks
<1>8. \A q \in ofRequests : ofReq'[q].pc \notin DocumentsWorking
  BY <1>4, <1>5 DEF DocumentsWorking
<1>9. DocumentsTypes'
  BY <1>1, <1>4, <1>5, <1>6 DEF DocumentsIInv, DocumentsTypes, DocumentsGateOK,
    DocumentsBrokerOK, DocumentsEnginesOK, DocumentsReqsOK, DocumentsCountOK
<1>10. DocumentsTurns'
  BY <1>1, <1>3, <1>4, <1>5, <1>6, DocumentsTurnEnds
<1>11. DocumentsCounted'
  <2>1. \A h \in Documents!Engines : DocumentsAlive(h)' <=> DocumentsAlive(h)
    BY <1>1, <1>7 DEF DocumentsAlive
  <2>2. \A h \in Documents!Engines : DocumentsAlive(h) /\ DocumentsOwner(h) => DocumentsOwner(h)'
    BY <1>0, <1>1, <1>5, <1>6 DEF DocumentsOwner, DocumentsWorking
  <2> QED BY <1>1, <1>7, <2>1, <2>2, DocumentsStillCounted DEF DocumentsIInv,
      DocumentsCounted, DocumentsAccounted, DocumentsDestroyedClosed
<1>12. DocumentsResults'
  BY <1>1, <1>2, <1>4, <1>5 DEF DocumentsIInv, DocumentsResults, Documents!OwnResult,
    DocumentsAnswerEnds
<1>13. DocumentsFaultless'
  <2>1. SUFFICES ASSUME ofFaults' = 0, DocumentsWhole, ofBroker' = ofBroker PROVE DocumentsWhole'
    BY <1>6 DEF DocumentsFaultless, DocumentsIInv
  <2> QED BY <1>1, <1>6, <1>7, <1>8, <2>1 DEF DocumentsWhole, DocumentsWorking
<1>14. Documents!NoWorkLost'
  <2>1. ofFaults' = 0 => ofReq[r].cancel \/ ofBroker.shutdown
    BY <1>1, <1>6 DEF DocumentsIInv, DocumentsFaultless, DocumentsWhole
  <2> QED BY <1>4, <1>5, <1>6, <2>1 DEF DocumentsIInv, Documents!NoWorkLost
<1> QED BY <1>9, <1>10, <1>11, <1>12, <1>13, <1>14 DEF DocumentsIInv

-----------------------------------------------------------------------------
(* The idle thread, the main thread and the end of the program.             *)

LEMMA DocumentsIdleRetiresHolds ==
  ASSUME DocumentsIInv, Documents!OfficeAssumption, Documents!IdleRetires
  PROVE  DocumentsIInv'
<1>0. PICK g : g = ofBroker.session
  OBVIOUS
<1>1. /\ g \in Documents!Engines /\ ofGate = None /\ ofGate' = Documents!Idler /\ UNCHANGED <<ofReq, ofFaults>>
      /\ ofEngine' = [ofEngine EXCEPT ![g].closed = TRUE]
      /\ ofTasks' = Append(ofTasks, [op |-> "destroy", of |-> g])
      /\ ofBroker' = [ofBroker EXCEPT !.session = None, !.retiring = g]
  BY <1>0 DEF Documents!IdleRetires, DocumentsIInv, DocumentsTypes, DocumentsBrokerOK
<1>2. ofBroker.retiring = None /\ \A q \in ofRequests : ofReq[q].pc \notin DocumentsWorking
  BY <1>1 DEF DocumentsIInv, DocumentsTurns, DocumentsGateHeld, DocumentsIdling,
    Documents!OfficeAssumption, DocumentsWorking
<1>3. /\ DOMAIN ofBroker' = DocumentsBrokerFields /\ ofBroker'.session = None /\ ofBroker'.last = ofBroker.last
      /\ ofBroker'.retiring = g /\ ofBroker'.stuck = ofBroker.stuck
      /\ ofBroker'.shutdown = ofBroker.shutdown
  BY <1>1 DEF DocumentsIInv, DocumentsTypes, DocumentsBrokerOK, DocumentsBrokerFields
<1>4. /\ ofTasks' \in Seq(DocumentsOrders)
      /\ \A op, h : Documents!Posted(op, h)' <=> Documents!Posted(op, h) \/ (op = "destroy" /\ h = g)
  BY <1>1, DocumentsAppended DEF DocumentsIInv, DocumentsTypes, DocumentsCountOK
<1>5. /\ DOMAIN ofEngine' = Documents!Engines /\ \A h \in Documents!Engines : DocumentsEngineOK(ofEngine'[h])
      /\ ofEngine'[g].closed
      /\ \A h \in Documents!Engines : h # g => ofEngine'[h] = ofEngine[h]
      /\ \A h \in Documents!Engines : /\ ofEngine'[h].view = ofEngine[h].view
                                      /\ ofEngine'[h].job = ofEngine[h].job
                                      /\ ofEngine'[h].fatal = ofEngine[h].fatal
  BY <1>1, DocumentsClosedNow
<1>6. DocumentsTypes'
  BY <1>1, <1>3, <1>4, <1>5 DEF DocumentsIInv, DocumentsTypes, DocumentsGateOK,
    DocumentsBrokerOK, DocumentsEnginesOK, DocumentsReqsOK, DocumentsCountOK
<1>7. DocumentsTurns'
  BY <1>1, <1>2, <1>3, <1>5 DEF DocumentsTurns, DocumentsGateHeld, DocumentsHasEngine,
    DocumentsMaking, DocumentsConverting, DocumentsDestroying, DocumentsIdling,
    DocumentsWorking
<1>8. DocumentsCounted'
  <2>1. \A h \in Documents!Engines : DocumentsAlive(h)' => DocumentsAlive(h)
    BY <1>4, <1>5 DEF DocumentsAlive
  <2>2. \A h \in Documents!Engines : DocumentsOwner(h) => DocumentsOwner(h)'
    BY <1>0, <1>1, <1>2, <1>3 DEF DocumentsOwner, Documents!OfficeAssumption
  <2> QED BY <1>4, <1>5, <2>1, <2>2, DocumentsStillCounted DEF DocumentsIInv,
      DocumentsCounted, DocumentsAccounted, DocumentsDestroyedClosed
<1>9. DocumentsResults'
  BY <1>1, <1>5 DEF DocumentsIInv, DocumentsResults, Documents!OwnResult,
    DocumentsAnswerEnds
<1>10. DocumentsFaultless'
  <2>1. SUFFICES ASSUME ofFaults' = 0, DocumentsWhole PROVE DocumentsWhole'
    BY <1>1 DEF DocumentsFaultless, DocumentsIInv
  <2>2. g <= ofBroker.last
    BY <1>0, <1>1, <2>1 DEF DocumentsWhole, Documents!OfficeAssumption
  <2> QED BY <1>1, <1>2, <1>3, <1>4, <1>5, <2>1, <2>2 DEF DocumentsWhole,
      DocumentsWorking
<1>11. Documents!NoWorkLost'
  BY <1>1, <1>3 DEF DocumentsIInv, Documents!NoWorkLost
<1> QED BY <1>6, <1>7, <1>8, <1>9, <1>10, <1>11 DEF DocumentsIInv

LEMMA DocumentsIdleRetiredHolds ==
  ASSUME DocumentsIInv, Documents!OfficeAssumption, Documents!IdleRetired
  PROVE  DocumentsIInv'
<1>0. PICK g : g = ofBroker.retiring
  OBVIOUS
<1>1. /\ g \in Documents!Engines /\ ofGate = Documents!Idler /\ ofGate' = None /\ UNCHANGED <<ofEngine, ofTasks, ofReq>>
      /\ ofBroker.session = None /\ ofEngine[g].closed
  BY <1>0 DEF Documents!IdleRetired, DocumentsIInv, DocumentsTypes, DocumentsBrokerOK,
    DocumentsTurns, DocumentsIdling
<1>2. \A q \in ofRequests : ofReq[q].pc \notin DocumentsWorking
  BY <1>1 DEF DocumentsIInv, DocumentsTurns, DocumentsGateHeld,
    Documents!OfficeAssumption, DocumentsWorking
<1>3. /\ DOMAIN ofBroker' = DocumentsBrokerFields /\ ofBroker'.session = None /\ ofBroker'.last = ofBroker.last
      /\ ofBroker'.retiring = None /\ ofBroker'.shutdown = ofBroker.shutdown
      /\ ofBroker'.stuck \/ (~DocumentsAlive(g) /\ ofBroker'.stuck = ofBroker.stuck)
      /\ ofFaults' \in Nat /\ (ofFaults' = 0 => ofFaults = 0 /\ ofBroker'.stuck = ofBroker.stuck)
  <2>1. ofFaults \in Nat /\ DOMAIN ofBroker = DocumentsBrokerFields
    BY DEF DocumentsIInv, DocumentsTypes, DocumentsBrokerOK, DocumentsCountOK
  <2>2. CASE Documents!Confirmed(g) /\ UNCHANGED ofFaults /\ ofBroker' = [ofBroker EXCEPT !.retiring = None]
    BY <1>1, <2>1, <2>2 DEF Documents!Confirmed, DocumentsAlive, DocumentsBrokerFields
  <2>3. CASE /\ (Documents!Posted("destroy", g) /\ Documents!Fault) \/ (Documents!Refused(g) /\ UNCHANGED ofFaults)
             /\ ofBroker' = [ofBroker EXCEPT !.retiring = None, !.stuck = TRUE]
    <3>1. ofFaults' \in Nat /\ ofFaults' # 0
      <4>1. CASE Documents!Fault
        BY <4>1, DocumentsFaultCounts
      <4>2. CASE Documents!Refused(g) /\ UNCHANGED ofFaults
        BY <1>1, <2>1, <4>2 DEF Documents!Refused, DocumentsIInv, DocumentsFaultless,
          DocumentsWhole
      <4> QED BY <2>3, <4>1, <4>2
    <3> QED BY <1>1, <2>1, <2>3, <3>1 DEF DocumentsBrokerFields
  <2> QED BY <1>0, <2>2, <2>3 DEF Documents!IdleRetired
<1>4. \A op, h : Documents!Posted(op, h)' <=> Documents!Posted(op, h)
  BY <1>1, DocumentsSameTasks
<1>5. DocumentsTypes'
  BY <1>1, <1>3 DEF DocumentsIInv, DocumentsTypes, DocumentsGateOK, DocumentsBrokerOK,
    DocumentsEnginesOK, DocumentsReqsOK, DocumentsCountOK
<1>6. DocumentsTurns'
  BY <1>1, <1>2, <1>3 DEF DocumentsTurns, DocumentsGateHeld, DocumentsHasEngine,
    DocumentsMaking, DocumentsConverting, DocumentsDestroying, DocumentsIdling,
    DocumentsWorking
<1>7. DocumentsCounted'
  <2>1. \A h \in Documents!Engines : DocumentsAlive(h)' <=> DocumentsAlive(h)
    BY <1>1, <1>4 DEF DocumentsAlive
  <2>2. \A h \in Documents!Engines : DocumentsAlive(h) /\ DocumentsOwner(h) => DocumentsOwner(h)'
    BY <1>0, <1>1, <1>3 DEF DocumentsOwner, Documents!OfficeAssumption
  <2> QED BY <1>1, <1>4, <2>1, <2>2, DocumentsStillCounted DEF DocumentsIInv,
      DocumentsCounted, DocumentsAccounted, DocumentsDestroyedClosed
<1>8. DocumentsResults' /\ Documents!NoWorkLost'
  BY <1>1, <1>3 DEF DocumentsIInv, DocumentsResults, Documents!OwnResult,
    DocumentsAnswerEnds, Documents!NoWorkLost
<1>9. DocumentsFaultless'
  <2>1. SUFFICES ASSUME ofFaults' = 0, DocumentsWhole, ofBroker'.stuck = ofBroker.stuck PROVE DocumentsWhole'
    BY <1>3 DEF DocumentsFaultless, DocumentsIInv
  <2> QED BY <1>1, <1>2, <1>3, <1>4, <2>1 DEF DocumentsWhole, DocumentsWorking
<1> QED BY <1>5, <1>6, <1>7, <1>8, <1>9 DEF DocumentsIInv

\* What the main thread does to the engine of a task.
DocumentsServed(g, e) ==
  /\ DocumentsEngineOK(e) /\ e.closed = ofEngine[g].closed /\ e.job = ofEngine[g].job
  /\ e.fatal = ofEngine[g].fatal
  /\ e.view = "live" => ~e.closed \/ ofEngine[g].view = "live"

LEMMA DocumentsServedHolds ==
  ASSUME DocumentsIInv, Documents!OfficeAssumption, ofTasks # <<>>,
         ofTasks' = Tail(ofTasks), NEW g \in Documents!Engines,
         g = Head(ofTasks).of, NEW e, DocumentsServed(g, e),
         DOMAIN ofEngine' = Documents!Engines, ofEngine'[g] = e,
         \A h \in Documents!Engines : h # g => ofEngine'[h] = ofEngine[h],
         UNCHANGED <<ofGate, ofBroker, ofReq>>, ofFaults' \in Nat, ofFaults' = 0 => ofFaults = 0,
         e.view = "live" => ofEngine[g].view = "live" \/ Head(ofTasks).op = "create",
         ofFaults' = 0 /\ Head(ofTasks).op = "create" => e.view = "live" \/ e.closed,
         ofFaults' = 0 /\ Head(ofTasks).op = "destroy" => e.view # "live"
  PROVE  DocumentsIInv'
<1>1. /\ DOMAIN ofEngine' = Documents!Engines /\ ofEngine'[g] = e
      /\ \A h \in Documents!Engines : h # g => ofEngine'[h] = ofEngine[h]
  OBVIOUS
<1>2. /\ ofTasks' \in Seq(DocumentsOrders) /\ Head(ofTasks) \in DocumentsOrders
      /\ \A op, h : Documents!Posted(op, h)' => Documents!Posted(op, h)
      /\ \A op, h : Documents!Posted(op, h) => Documents!Posted(op, h)' \/ Head(ofTasks) = [op |-> op, of |-> h]
      /\ Documents!Posted(Head(ofTasks).op, Head(ofTasks).of)
  BY DocumentsTaken DEF DocumentsIInv, DocumentsTypes, DocumentsCountOK
<1>3. \A op, h : Documents!Posted(op, h) => Documents!Posted(op, h)' \/ (Head(ofTasks).op = op /\ g = h)
  BY <1>2
<1>4. \A h \in Documents!Engines : /\ ofEngine'[h].closed = ofEngine[h].closed
                                   /\ ofEngine'[h].job = ofEngine[h].job
                                   /\ ofEngine'[h].fatal = ofEngine[h].fatal
  BY <1>1 DEF DocumentsServed
<1>5. DocumentsTypes'
  BY <1>1, <1>2 DEF DocumentsIInv, DocumentsTypes, DocumentsGateOK, DocumentsBrokerOK,
    DocumentsEnginesOK, DocumentsReqsOK, DocumentsCountOK, DocumentsServed
<1>6. DocumentsTurns'
  <2>1. ofBroker.retiring \in Documents!Engines \cup {None}
    BY DEF DocumentsIInv, DocumentsTypes, DocumentsBrokerOK
  <2> QED BY <1>4, <2>1 DEF DocumentsIInv, DocumentsTurns, DocumentsGateHeld,
      DocumentsHasEngine, DocumentsMaking, DocumentsConverting, DocumentsDestroying,
      DocumentsIdling
<1>7. DocumentsCounted'
  <2>1. \A h \in Documents!Engines : DocumentsAlive(h)' => DocumentsAlive(h)
    <3>1. ASSUME NEW h \in Documents!Engines, h # g, DocumentsAlive(h)' PROVE DocumentsAlive(h)
      BY <1>1, <1>2, <3>1 DEF DocumentsAlive
    <3>2. ASSUME DocumentsAlive(g)' PROVE DocumentsAlive(g)
      <4>1. CASE ofEngine'[g].view = "live"
        BY <1>1, <1>2, <4>1 DEF DocumentsAlive, DocumentsServed
      <4>2. CASE ofEngine'[g].view # "live"
        BY <1>1, <1>2, <1>4, <3>2, <4>2 DEF DocumentsAlive
      <4> QED BY <4>1, <4>2
    <3> QED BY <3>1, <3>2
  <2>2. \A h \in Documents!Engines : DocumentsOwner(h) => DocumentsOwner(h)'
    BY DEF DocumentsOwner
  <2> QED BY <1>2, <1>4, <2>1, <2>2, DocumentsStillCounted DEF DocumentsIInv,
      DocumentsCounted, DocumentsAccounted, DocumentsDestroyedClosed
<1>8. DocumentsResults' /\ Documents!NoWorkLost'
  BY <1>4 DEF DocumentsIInv, DocumentsResults, Documents!OwnResult, DocumentsAnswerEnds,
    Documents!NoWorkLost
<1>9. DocumentsFaultless'
  <2>1. SUFFICES ASSUME ofFaults' = 0, DocumentsWhole PROVE DocumentsWhole'
    BY DEF DocumentsFaultless, DocumentsIInv
  <2>2. ofBroker.session \in Documents!Engines \cup {None} /\ DocumentsHasEngine /\ DocumentsDestroyedClosed
    BY DEF DocumentsIInv, DocumentsTypes, DocumentsBrokerOK, DocumentsTurns,
      DocumentsCounted
  <2>3. ASSUME NEW h \in Documents!Engines
        PROVE  /\ ~ofEngine'[h].fatal /\ ofEngine'[h].job.result # "failed"
               /\ ofEngine'[h].closed => /\ h <= ofBroker.last
                                         /\ Documents!Posted("destroy", h)' \/ ofEngine'[h].view # "live"
    <3>1. /\ ~ofEngine'[h].fatal /\ ofEngine'[h].job.result # "failed"
          /\ ofEngine'[h].closed =>
               h <= ofBroker.last /\ (Documents!Posted("destroy", h) \/ ofEngine[h].view # "live")
      BY <1>4, <2>1 DEF DocumentsWhole
    <3>2. ASSUME ofEngine'[h].closed, h # g PROVE Documents!Posted("destroy", h)' \/ ofEngine'[h].view # "live"
      BY <1>1, <1>3, <3>1, <3>2
    <3>3. ASSUME ofEngine'[g].closed PROVE Documents!Posted("destroy", g)' \/ ofEngine'[g].view # "live"
      BY <1>1, <1>3, <1>4, <2>1, <3>1, <3>3 DEF DocumentsServed, DocumentsWhole
    <3> QED BY <3>1, <3>2, <3>3
  <2>4. ASSUME NEW q \in ofRequests, ofReq[q].pc = "create"
        PROVE  /\ ofReq[q].engine <= ofBroker.last /\ ~ofEngine'[ofReq[q].engine].closed
               /\ Documents!Posted("create", ofReq[q].engine)' \/ ofEngine'[ofReq[q].engine].view = "live"
    <3>1. PICK h \in Documents!Engines : h = ofReq[q].engine
      BY <2>2, <2>4 DEF DocumentsHasEngine
    <3>2. /\ h <= ofBroker.last /\ ~ofEngine[h].closed /\ ~ofEngine'[h].closed
          /\ Documents!Posted("create", h) \/ ofEngine[h].view = "live"
      BY <1>4, <2>1, <2>4, <3>1 DEF DocumentsWhole
    <3>3. CASE h # g
      BY <1>1, <1>3, <3>1, <3>2, <3>3
    <3>4. CASE h = g
      <4>1. Head(ofTasks).op # "destroy"
        BY <1>2, <2>2, <3>2, <3>4 DEF DocumentsDestroyedClosed
      <4>2. Head(ofTasks).op = "create"
        BY <1>2, <4>1 DEF DocumentsOrders
      <4> QED BY <1>1, <2>1, <3>1, <3>2, <3>4, <4>2
    <3> QED BY <3>3, <3>4
  <2> QED BY <1>4, <2>1, <2>2, <2>3, <2>4 DEF DocumentsWhole
<1> QED BY <1>5, <1>6, <1>7, <1>8, <1>9 DEF DocumentsIInv

LEMMA DocumentsMainRunsHolds ==
  ASSUME DocumentsIInv, Documents!OfficeAssumption, Documents!MainRuns
  PROVE  DocumentsIInv'
<1>0. PICK g : g = Head(ofTasks).of
  OBVIOUS
<1>1. /\ ofTasks # <<>> /\ ofTasks' = Tail(ofTasks) /\ UNCHANGED <<ofGate, ofBroker, ofReq>>
      /\ Head(ofTasks) \in DocumentsOrders /\ g \in Documents!Engines /\ DocumentsEngineOK(ofEngine[g]) /\ ofFaults \in Nat
      /\ DocumentsEnginesOK /\ DOMAIN ofEngine = Documents!Engines
  <2>1. ofTasks # <<>> /\ ofTasks' = Tail(ofTasks) /\ ofTasks \in Seq(DocumentsOrders) /\ UNCHANGED <<ofGate, ofBroker, ofReq>>
    BY DEF Documents!MainRuns, DocumentsIInv, DocumentsTypes, DocumentsCountOK
  <2>2. Head(ofTasks) \in DocumentsOrders
    BY <2>1
  <2> QED BY <1>0, <2>1, <2>2 DEF DocumentsOrders, DocumentsIInv, DocumentsTypes,
      DocumentsEnginesOK, DocumentsCountOK
<1>2. Documents!Posted(Head(ofTasks).op, g)
  BY <1>0, <1>1, DocumentsTaken DEF DocumentsIInv, DocumentsTypes, DocumentsCountOK
<1>3. CASE Documents!Fault /\ UNCHANGED ofEngine
  <2>1. ofFaults' \in Nat /\ ofFaults' # 0
    BY <1>3, DocumentsFaultCounts
  <2>2. DocumentsServed(g, ofEngine[g]) /\ ofEngine' = ofEngine
    BY <1>1, <1>3 DEF DocumentsServed
  <2> QED BY <1>0, <1>1, <2>1, <2>2, DocumentsServedHolds
<1>4. CASE /\ Head(ofTasks).op = "create" /\ UNCHANGED ofFaults
           /\ ofEngine' = [ofEngine EXCEPT ![g].view = IF ofEngine[g].closed THEN "gone" ELSE "live",
                                       ![g].page = IF ofEngine[g].closed THEN "none" ELSE "boot"]
  <2> DEFINE e == [ofEngine[g] EXCEPT !.view = IF ofEngine[g].closed THEN "gone" ELSE "live",
                                    !.page = IF ofEngine[g].closed THEN "none" ELSE "boot"]
  <2>1. ofEngine' = [ofEngine EXCEPT ![g] = e]
    BY <1>4
  <2>2. DocumentsServed(g, e) /\ (e.view = "live" \/ e.closed)
    BY <1>1 DEF DocumentsServed, DocumentsEngineOK, DocumentsEngineFields
  <2> HIDE DEF e
  <2>3. /\ DOMAIN ofEngine' = Documents!Engines /\ ofEngine'[g] = e
        /\ \A h \in Documents!Engines : h # g => ofEngine'[h] = ofEngine[h]
    BY <1>1, <2>1, DocumentsEnginePut
  <2> QED BY <1>0, <1>1, <1>4, <2>2, <2>3, DocumentsServedHolds
<1>5. CASE /\ Head(ofTasks).op = "destroy" /\ UNCHANGED ofFaults
           /\ ofEngine' = [ofEngine EXCEPT ![g].page = "none",
                                       ![g].view = IF @ = "live" THEN "gone" ELSE @]
  <2> DEFINE e == [ofEngine[g] EXCEPT !.page = "none",
                                    !.view = IF ofEngine[g].view = "live" THEN "gone"
                                             ELSE ofEngine[g].view]
  <2>1. ofEngine' = [ofEngine EXCEPT ![g] = e]
    BY <1>1, <1>5 DEF DocumentsEngineOK, DocumentsEngineFields
  <2>2. DocumentsServed(g, e) /\ e.view # "live"
    BY <1>1 DEF DocumentsServed, DocumentsEngineOK, DocumentsEngineFields
  <2> HIDE DEF e
  <2>3. /\ DOMAIN ofEngine' = Documents!Engines /\ ofEngine'[g] = e
        /\ \A h \in Documents!Engines : h # g => ofEngine'[h] = ofEngine[h]
    BY <1>1, <2>1, DocumentsEnginePut
  <2> QED BY <1>0, <1>1, <1>5, <2>2, <2>3, DocumentsServedHolds
<1> QED BY <1>0, <1>3, <1>4, <1>5 DEF Documents!MainRuns, Documents!CreateView

LEMMA DocumentsShutdownHolds ==
  ASSUME DocumentsIInv, Documents!OfficeAssumption, Documents!Shutdown
  PROVE  DocumentsIInv'
<1>1. /\ UNCHANGED <<ofGate, ofTasks, ofFaults>> /\ DOMAIN ofBroker' = DocumentsBrokerFields
      /\ ofBroker'.session = None /\ ofBroker'.last = ofBroker.last /\ ofBroker'.shutdown
      /\ ofBroker'.retiring = ofBroker.retiring /\ ofBroker'.stuck = ofBroker.stuck
  BY DEF Documents!Shutdown, DocumentsIInv, DocumentsTypes, DocumentsBrokerOK,
    DocumentsBrokerFields
<1>2. /\ DOMAIN ofReq' = ofRequests
      /\ \A q \in ofRequests : /\ DocumentsReqOK(ofReq'[q]) /\ ofReq'[q].pc = ofReq[q].pc
                               /\ ofReq'[q].engine = ofReq[q].engine /\ ofReq'[q].why = ofReq[q].why
                               /\ ofReq'[q].answer = ofReq[q].answer
  BY DEF Documents!Shutdown, DocumentsIInv, DocumentsTypes, DocumentsReqsOK,
    DocumentsReqOK, DocumentsReqFields
<1>3. /\ DOMAIN ofEngine' = Documents!Engines
      /\ \A h \in Documents!Engines : /\ DocumentsEngineOK(ofEngine'[h]) /\ ofEngine'[h].job = ofEngine[h].job
                                      /\ ofEngine'[h].fatal = ofEngine[h].fatal
                                      /\ ofEngine'[h].closed => ofEngine[h].closed \/ ofBroker.session = h
                                      /\ ofEngine[h].closed => ofEngine'[h].closed
                                      /\ ofEngine'[h].view = "live" => ofEngine[h].view = "live"
                                      /\ ofBroker.session = h => ofEngine'[h].closed /\ ofEngine'[h].view # "live"
                                      /\ ofBroker.session # h => ofEngine'[h] = ofEngine[h]
  <2>1. DOMAIN ofEngine = Documents!Engines /\ \A h \in Documents!Engines : DocumentsEngineOK(ofEngine[h])
    BY DEF DocumentsIInv, DocumentsTypes, DocumentsEnginesOK
  <2>2. None \notin Documents!Engines
    BY DEF Documents!OfficeAssumption
  <2>3. CASE ofBroker.session = None
    BY <2>1, <2>2, <2>3 DEF Documents!Shutdown
  <2>4. CASE ofBroker.session # None
    <3>1. PICK g \in Documents!Engines : g = ofBroker.session
      BY <2>4 DEF DocumentsIInv, DocumentsTypes, DocumentsBrokerOK
    <3> DEFINE e == [ofEngine[g] EXCEPT !.closed = TRUE, !.view = "gone", !.page = "none"]
    <3>2. ofEngine' = [ofEngine EXCEPT ![g] = e]
      BY <2>4, <3>1 DEF Documents!Shutdown
    <3>3. DocumentsEngineOK(e) /\ e.job = ofEngine[g].job /\ e.fatal = ofEngine[g].fatal /\ e.closed
          /\ e.view = "gone"
      BY <2>1 DEF DocumentsEngineOK, DocumentsEngineFields
    <3> HIDE DEF e
    <3> QED BY <2>1, <3>1, <3>2, <3>3
  <2> QED BY <2>3, <2>4
<1>4. \A op, h : Documents!Posted(op, h)' <=> Documents!Posted(op, h)
  BY <1>1, DocumentsSameTasks
<1>5. DocumentsTypes'
  BY <1>1, <1>2, <1>3 DEF DocumentsIInv, DocumentsTypes, DocumentsGateOK,
    DocumentsBrokerOK, DocumentsEnginesOK, DocumentsReqsOK, DocumentsCountOK
<1>6. DocumentsTurns'
  <2>1. ofBroker.retiring \in Documents!Engines \cup {None}
    BY DEF DocumentsIInv, DocumentsTypes, DocumentsBrokerOK
  <2> QED BY <1>1, <1>2, <1>3, <2>1 DEF DocumentsIInv, DocumentsTurns,
      DocumentsGateHeld, DocumentsHasEngine, DocumentsMaking, DocumentsConverting,
      DocumentsDestroying, DocumentsIdling
<1>7. DocumentsCounted'
  <2>1. \A h \in Documents!Engines : DocumentsAlive(h)' => DocumentsAlive(h) /\ ofBroker.session # h
    BY <1>3, <1>4 DEF DocumentsAlive
  <2>2. \A h \in Documents!Engines : DocumentsOwner(h) /\ ofBroker.session # h => DocumentsOwner(h)'
    BY <1>1, <1>2 DEF DocumentsOwner
  <2>3. \A h \in Documents!Engines : DocumentsAlive(h)' => DocumentsAlive(h) /\ DocumentsOwner(h)'
    BY <2>1, <2>2 DEF DocumentsIInv, DocumentsCounted, DocumentsAccounted
  <2>4. \A h \in Documents!Engines : Documents!Posted("destroy", h)' => ofEngine'[h].closed
    BY <1>3, <1>4 DEF DocumentsIInv, DocumentsCounted, DocumentsDestroyedClosed
  <2> QED BY <2>3, <2>4, DocumentsStillCounted DEF DocumentsIInv
<1>8. DocumentsResults'
  BY <1>2, <1>3 DEF DocumentsIInv, DocumentsResults, Documents!OwnResult,
    DocumentsAnswerEnds
<1>9. DocumentsFaultless'
  <2>1. SUFFICES ASSUME ofFaults = 0, DocumentsWhole PROVE DocumentsWhole'
    BY <1>1 DEF DocumentsFaultless, DocumentsIInv
  <2>2. DocumentsHasEngine /\ DocumentsMaking
    BY DEF DocumentsIInv, DocumentsTurns
  <2>3. None \notin Documents!Engines
    BY DEF Documents!OfficeAssumption
  <2>4. ASSUME NEW h \in Documents!Engines
        PROVE  /\ ~ofEngine'[h].fatal /\ ofEngine'[h].job.result # "failed"
               /\ ofEngine'[h].closed => /\ h <= ofBroker.last
                                         /\ Documents!Posted("destroy", h)' \/ ofEngine'[h].view # "live"
    BY <1>3, <1>4, <2>1, <2>3 DEF DocumentsWhole
  <2>5. ASSUME NEW q \in ofRequests, ofReq[q].pc = "create"
        PROVE  /\ ofReq[q].engine <= ofBroker.last /\ ~ofEngine'[ofReq[q].engine].closed
               /\ Documents!Posted("create", ofReq[q].engine)' \/ ofEngine'[ofReq[q].engine].view = "live"
    <3>1. PICK h \in Documents!Engines : h = ofReq[q].engine
      BY <2>2, <2>5 DEF DocumentsHasEngine
    <3>2. /\ h <= ofBroker.last /\ ~ofEngine[h].closed
          /\ Documents!Posted("create", h) \/ ofEngine[h].view = "live"
      BY <2>1, <2>5, <3>1 DEF DocumentsWhole
    <3>3. ofEngine'[h] = ofEngine[h]
      BY <1>3, <2>2, <2>3, <2>5 DEF DocumentsMaking
    <3> QED BY <1>2, <1>4, <3>1, <3>2, <3>3
  <2> QED BY <1>1, <1>2, <2>1, <2>4, <2>5 DEF DocumentsWhole
<1>10. Documents!NoWorkLost'
  BY <1>1 DEF Documents!NoWorkLost
<1> QED BY <1>5, <1>6, <1>7, <1>8, <1>9, <1>10 DEF DocumentsIInv

-----------------------------------------------------------------------------
LEMMA DocumentsStutterHolds ==
  ASSUME DocumentsIInv, UNCHANGED Documents!vars
  PROVE  DocumentsIInv'
<1>1. ofGate' = ofGate /\ ofBroker' = ofBroker /\ ofEngine' = ofEngine /\ ofTasks' = ofTasks /\ ofReq' = ofReq
      /\ ofFaults' = ofFaults
  BY DEF Documents!vars
<1>2. DocumentsTypes' /\ DocumentsTurns'
  BY <1>1 DEF DocumentsIInv, DocumentsTypes, DocumentsGateOK, DocumentsBrokerOK,
    DocumentsEnginesOK, DocumentsReqsOK, DocumentsCountOK, DocumentsTurns,
    DocumentsGateHeld, DocumentsHasEngine, DocumentsMaking, DocumentsConverting,
    DocumentsDestroying, DocumentsIdling
<1>3. DocumentsCounted'
  BY <1>1 DEF DocumentsIInv, DocumentsCounted, DocumentsAccounted, DocumentsOneAlive,
    DocumentsDestroyedClosed, DocumentsAlive, DocumentsOwner, Documents!Posted
<1>4. DocumentsResults' /\ Documents!NoWorkLost'
  BY <1>1 DEF DocumentsIInv, DocumentsResults, Documents!OwnResult, DocumentsAnswerEnds,
    Documents!NoWorkLost
<1>5. DocumentsFaultless'
  BY <1>1 DEF DocumentsIInv, DocumentsFaultless, DocumentsWhole, Documents!Posted
<1> QED BY <1>2, <1>3, <1>4, <1>5 DEF DocumentsIInv

LEMMA DocumentsStepHolds ==
  ASSUME DocumentsIInv, Documents!OfficeAssumption, [Documents!Next]_Documents!vars
  PROVE  DocumentsIInv'
<1>1. CASE \E r \in ofRequests : Documents!Convert(r) \/ Documents!Cancel(r) \/ Documents!GivesUp(r)
  BY <1>1, DocumentsWaitingHolds
<1>2. CASE \E r \in ofRequests : Documents!TakeGate(r) \/ Documents!Session(r)
  BY <1>2, DocumentsTakeGateHolds, DocumentsSessionHolds
<1>3. CASE \E r \in ofRequests : Documents!Created(r) \/ Documents!Watch(r) \/ Documents!Destroyed(r)
  BY <1>3, DocumentsCreatedHolds, DocumentsWatchHolds, DocumentsDestroyedHolds
<1>4. CASE Documents!IdleRetires \/ Documents!IdleRetired \/ Documents!MainRuns \/ Documents!Shutdown
  BY <1>4, DocumentsIdleRetiresHolds, DocumentsIdleRetiredHolds, DocumentsMainRunsHolds,
    DocumentsShutdownHolds
<1>5. CASE \E g \in Documents!Engines : Documents!Page(g) \/ Documents!Breaks(g) \/ Documents!Unreachable(g)
  BY <1>5, DocumentsPageHolds
<1>6. CASE UNCHANGED Documents!vars
  BY <1>6, DocumentsStutterHolds
<1> QED BY <1>1, <1>2, <1>3, <1>4, <1>5, <1>6 DEF Documents!Next, Documents!Step

LEMMA DocumentsInvariance ==
  ASSUME Documents!OfficeAssumption
  PROVE  Documents!Spec => []DocumentsIInv
<1>1. Documents!Init => DocumentsIInv
  BY DocumentsInitHolds
<1>2. DocumentsIInv /\ [Documents!Next]_Documents!vars => DocumentsIInv'
  BY DocumentsStepHolds
<1> QED BY <1>1, <1>2, PTL DEF Documents!Spec

(* The gate, the session and the states of the requests have their types.   *)
THEOREM DocumentsTypeCorrect ==
  ASSUME Documents!OfficeAssumption
  PROVE  Documents!Spec => []Documents!TypeOK
<1>1. DocumentsIInv => Documents!TypeOK
  BY DEF DocumentsIInv, DocumentsTypes, DocumentsGateOK, DocumentsBrokerOK,
    DocumentsReqsOK, DocumentsReqOK, Documents!TypeOK
<1> QED BY <1>1, DocumentsInvariance, PTL

(* There is never a second engine, for any number of requests, engines and  *)
(* faults (office.rs, ensure_session, retire and the idle thread): what     *)
(* shows or may still be built has one owner, and no second one is begun    *)
(* while there is one.                                                      *)
THEOREM DocumentsOneEngineRuns ==
  ASSUME Documents!OfficeAssumption
  PROVE  Documents!Spec => []Documents!OneEngine
<1>1. DocumentsIInv => Documents!OneEngine
  BY DEF DocumentsIInv, DocumentsCounted, DocumentsOneAlive, DocumentsAlive,
    Documents!OneEngine
<1> QED BY <1>1, DocumentsInvariance, PTL

(* A request is answered with what came of its own document (origin.rs).    *)
THEOREM DocumentsResultsAreOwn ==
  ASSUME Documents!OfficeAssumption
  PROVE  Documents!Spec => []Documents!OwnResult
<1>1. DocumentsIInv => Documents!OwnResult
  BY DEF DocumentsIInv, DocumentsResults
<1> QED BY <1>1, DocumentsInvariance, PTL

(* Without a fault, a request that nobody stops gets its document.          *)
THEOREM DocumentsWorkIsKept ==
  ASSUME Documents!OfficeAssumption
  PROVE  Documents!Spec => []Documents!NoWorkLost
<1>1. DocumentsIInv => Documents!NoWorkLost
  BY DEF DocumentsIInv
<1> QED BY <1>1, DocumentsInvariance, PTL

-----------------------------------------------------------------------------
(* Proofs about Terminal for every set of terminals and whatever shells write. *)
ShellsTabs == {"new", "creating", "ready", "error", "exited", "gone"}
ShellsLife == {"none", "live", "dead"}
ShellsShellFields ==
  {"state", "active", "input", "left", "device", "text", "pending", "read", "reader",
   "waiter", "killed"}
ShellsTabFields == {"pc", "reply", "late", "close", "exit", "before", "shown", "after"}

\* A shell that lives is in the table, or was told to go.
ShellsShellOK(s) ==
  /\ DOMAIN s = ShellsShellFields
  /\ s.state \in ShellsLife /\ s.input \in 0..teMaxInput
  /\ s.state = "live" => s.active \/ s.killed

ShellsTabOK(b) == DOMAIN b = ShellsTabFields /\ b.pc \in ShellsTabs

ShellsShellsOK == DOMAIN teShell = teTerminals /\ \A t \in teTerminals : ShellsShellOK(teShell[t])
ShellsTabsOK == DOMAIN teTab = teTerminals /\ \A t \in teTerminals : ShellsTabOK(teTab[t])
ShellsMainOK == teMain \in teTerminals \cup {"free", "ended"} /\ teStartup \subseteq {"kept", "stray"}

ShellsIInv == ShellsShellsOK /\ ShellsTabsOK /\ ShellsMainOK /\ Shells!NothingOutlives

\* What follows a shell when the program has ended: it does not come to life,
\* and what it was told stays told.
ShellsFollows(r, s) == (s.state = "live" => r.state = "live") /\ (r.killed => s.killed)

LEMMA ShellsInitHolds == ASSUME Shells!TerminalAssumption PROVE Shells!Init => ShellsIInv
<1> SUFFICES ASSUME Shells!Init PROVE ShellsIInv
  OBVIOUS
<1>1. 0 \in 0..teMaxInput
  BY DEF Shells!TerminalAssumption
<1>2. ShellsShellsOK
  BY <1>1 DEF Shells!Init, ShellsShellsOK, ShellsShellOK, ShellsShellFields, ShellsLife
<1>3. ShellsTabsOK
  BY DEF Shells!Init, ShellsTabsOK, ShellsTabOK, ShellsTabFields, ShellsTabs
<1> QED BY <1>2, <1>3 DEF Shells!Init, ShellsIInv, ShellsMainOK, Shells!NothingOutlives

\* A step of one shell, whatever the program does.
LEMMA ShellsShellSteps ==
  ASSUME ShellsIInv, NEW t \in teTerminals, NEW s, ShellsShellOK(s),
         ShellsFollows(teShell[t], s),
         teShell' = [teShell EXCEPT ![t] = s], UNCHANGED <<teMain, teStartup>>
  PROVE  ShellsShellsOK' /\ ShellsMainOK' /\ Shells!NothingOutlives'
<1>1. teShell'[t] = s /\ DOMAIN teShell' = teTerminals
      /\ \A u \in teTerminals \ {t} : teShell'[u] = teShell[u]
  BY DEF ShellsIInv, ShellsShellsOK
<1> QED BY <1>1 DEF ShellsIInv, ShellsShellsOK, ShellsMainOK, Shells!NothingOutlives,
    ShellsFollows

\* A step of one tab.
LEMMA ShellsTabSteps ==
  ASSUME ShellsIInv, NEW t \in teTerminals, NEW b, ShellsTabOK(b),
         teTab' = [teTab EXCEPT ![t] = b]
  PROVE  ShellsTabsOK'
  BY DEF ShellsIInv, ShellsTabsOK

LEMMA ShellsCreateHolds ==
  ASSUME Shells!TerminalAssumption, ShellsIInv, NEW t \in teTerminals, Shells!Create(t)
  PROVE  ShellsIInv'
<1>1. teMain = "free" /\ teMain' = teMain /\ teStartup' \subseteq {"kept", "stray"}
  BY DEF Shells!Create, Shells!EnsureStartup, Shells!StartupFails, ShellsIInv,
    ShellsMainOK
<1>2. ShellsTabsOK'
  <2>1. ShellsTabOK(teTab[t]) /\ DOMAIN teTab = teTerminals
    BY DEF ShellsIInv, ShellsTabsOK
  <2>2. CASE teTab' = [teTab EXCEPT ![t].reply = "ok"]
    <3>1. ShellsTabOK([teTab[t] EXCEPT !.reply = "ok"])
      BY <2>1 DEF ShellsTabOK, ShellsTabFields
    <3> QED BY <2>2, <3>1, ShellsTabSteps
  <2>3. CASE teTab' = [teTab EXCEPT ![t].reply = "error"]
    <3>1. ShellsTabOK([teTab[t] EXCEPT !.reply = "error"])
      BY <2>1 DEF ShellsTabOK, ShellsTabFields
    <3> QED BY <2>3, <3>1, ShellsTabSteps
  <2> QED BY <2>2, <2>3 DEF Shells!Create
<1>3. ShellsShellsOK'
  <2>1. ShellsShellOK(teShell[t]) /\ DOMAIN teShell = teTerminals
    BY DEF ShellsIInv, ShellsShellsOK
  <2>2. CASE UNCHANGED teShell
    BY <2>2 DEF ShellsIInv, ShellsShellsOK
  <2>3. ASSUME NEW stream \in teStreams,
               teShell' = [teShell EXCEPT ![t] = [@ EXCEPT !.state = "live", !.active = TRUE,
                           !.left = stream, !.reader = "run", !.waiter = "wait"]]
        PROVE  ShellsShellsOK'
    <3> DEFINE s == [teShell[t] EXCEPT !.state = "live", !.active = TRUE, !.left = stream,
                       !.reader = "run", !.waiter = "wait"]
    <3>1. ShellsShellOK(s)
      BY <2>1 DEF ShellsShellOK, ShellsShellFields, ShellsLife
    <3>2. teShell' = [teShell EXCEPT ![t] = s]
      BY <2>3
    <3> HIDE DEF s
    <3>3. teShell'[t] = s /\ DOMAIN teShell' = teTerminals
          /\ \A u \in teTerminals \ {t} : teShell'[u] = teShell[u]
      BY <2>1, <3>2
    <3> QED BY <3>1, <3>3 DEF ShellsIInv, ShellsShellsOK
  <2> QED BY <2>2, <2>3 DEF Shells!Create
<1>4. teMain' # "ended"
  BY <1>1
<1> QED BY <1>1, <1>2, <1>3, <1>4 DEF ShellsIInv, ShellsMainOK, Shells!NothingOutlives

LEMMA ShellsWriteHolds ==
  ASSUME Shells!TerminalAssumption, ShellsIInv, NEW t \in teTerminals, Shells!Write(t)
  PROVE  ShellsIInv'
<1>1. teMain = "free" /\ teMain' \in {teMain, t} /\ UNCHANGED <<teStartup, teShell, teTab>>
  BY DEF Shells!Write
<1>2. teMain' # "ended"
  BY <1>1 DEF Shells!TerminalAssumption
<1> QED BY <1>1, <1>2 DEF ShellsIInv, ShellsShellsOK, ShellsTabsOK, ShellsMainOK,
    Shells!NothingOutlives

LEMMA ShellsWrittenHolds ==
  ASSUME Shells!TerminalAssumption, ShellsIInv, NEW t \in teTerminals, Shells!Written(t)
  PROVE  ShellsIInv'
<1>1. teMain = t /\ teMain' = "free" /\ UNCHANGED <<teStartup, teTab>>
  BY DEF Shells!Written
<1>2. ShellsShellsOK'
  <2>1. ShellsShellOK(teShell[t]) /\ DOMAIN teShell = teTerminals
    BY DEF ShellsIInv, ShellsShellsOK
  <2>2. CASE UNCHANGED teShell
    BY <2>2 DEF ShellsIInv, ShellsShellsOK
  <2>3. CASE teShell[t].input < teMaxInput /\ teShell' = [teShell EXCEPT ![t].input = @ + 1]
    <3> DEFINE s == [teShell[t] EXCEPT !.input = teShell[t].input + 1]
    <3>1. teShell[t].input \in 0..teMaxInput /\ teMaxInput \in Nat
      BY <2>1 DEF ShellsShellOK, Shells!TerminalAssumption
    <3>2. teShell[t].input + 1 \in 0..teMaxInput
      BY <2>3, <3>1
    <3>3. ShellsShellOK(s)
      BY <2>1, <3>2 DEF ShellsShellOK, ShellsShellFields
    <3>4. teShell' = [teShell EXCEPT ![t] = s]
      BY <2>3
    <3> HIDE DEF s
    <3>5. teShell'[t] = s /\ DOMAIN teShell' = teTerminals
          /\ \A u \in teTerminals \ {t} : teShell'[u] = teShell[u]
      BY <2>1, <3>4
    <3> QED BY <3>3, <3>5 DEF ShellsIInv, ShellsShellsOK
  <2> QED BY <2>2, <2>3 DEF Shells!Written
<1> QED BY <1>1, <1>2 DEF ShellsIInv, ShellsTabsOK, ShellsMainOK, Shells!NothingOutlives

\* Who is told to go is out of the table, and told.
LEMMA ShellsKilledOK ==
  ASSUME NEW s, ShellsShellOK(s)
  PROVE  /\ ShellsShellOK(Shells!Killed(s)) /\ ShellsFollows(s, Shells!Killed(s))
         /\ Shells!Killed(s).state = "live" => Shells!Killed(s).killed
<1>1. CASE s.active
  <2>1. Shells!Killed(s) = [s EXCEPT !.active = FALSE, !.killed = TRUE]
    BY <1>1 DEF Shells!Killed
  <2> QED BY <2>1 DEF ShellsShellOK, ShellsShellFields, ShellsFollows
<1>2. CASE ~s.active
  <2>1. Shells!Killed(s) = s
    BY <1>2 DEF Shells!Killed
  <2> QED BY <1>2, <2>1 DEF ShellsShellOK, ShellsFollows
<1> QED BY <1>1, <1>2

LEMMA ShellsCloseHolds ==
  ASSUME ShellsIInv, NEW t \in teTerminals, Shells!Close(t)
  PROVE  ShellsIInv'
<1>1. UNCHANGED <<teMain, teStartup>> /\ teShell' = [teShell EXCEPT ![t] = Shells!Killed(teShell[t])]
      /\ teTab' = [teTab EXCEPT ![t].close = FALSE]
  BY DEF Shells!Close
<1>2. ShellsShellsOK' /\ ShellsMainOK' /\ Shells!NothingOutlives'
  <2>1. ShellsShellOK(teShell[t])
    BY DEF ShellsIInv, ShellsShellsOK
  <2>2. ShellsShellOK(Shells!Killed(teShell[t])) /\ ShellsFollows(teShell[t], Shells!Killed(teShell[t]))
    BY <2>1, ShellsKilledOK
  <2> QED BY <1>1, <2>2, ShellsShellSteps
<1>3. ShellsTabsOK'
  <2>1. ShellsTabOK([teTab[t] EXCEPT !.close = FALSE])
    BY DEF ShellsIInv, ShellsTabsOK, ShellsTabOK, ShellsTabFields
  <2> QED BY <1>1, <2>1, ShellsTabSteps
<1> QED BY <1>2, <1>3 DEF ShellsIInv

LEMMA ShellsShutdownHolds == ASSUME ShellsIInv, Shells!Shutdown PROVE ShellsIInv'
<1>1. /\ teMain' = "ended" /\ teStartup' \subseteq {"kept", "stray"} /\ "kept" \notin teStartup'
      /\ teTab' = teTab /\ teShell' = [t \in teTerminals |-> Shells!Killed(teShell[t])]
  BY DEF Shells!Shutdown, ShellsIInv, ShellsMainOK
<1>2. \A t \in teTerminals : ShellsShellOK(teShell'[t]) /\ (teShell'[t].state = "live" => teShell'[t].killed)
  BY <1>1, ShellsKilledOK DEF ShellsIInv, ShellsShellsOK
<1> QED BY <1>1, <1>2 DEF ShellsIInv, ShellsShellsOK, ShellsTabsOK, ShellsMainOK,
    Shells!NothingOutlives

LEMMA ShellsPrintsHolds ==
  ASSUME ShellsIInv, NEW t \in teTerminals, Shells!Prints(t)
  PROVE  ShellsIInv'
<1> DEFINE s == [teShell[t] EXCEPT !.left = Tail(@), !.device = Append(@, Head(teShell[t].left))]
<1>1. teShell' = [teShell EXCEPT ![t] = s] /\ UNCHANGED <<teMain, teStartup, teTab>>
  BY DEF Shells!Prints, ShellsIInv, ShellsShellsOK
<1>2. ShellsShellOK(s) /\ ShellsFollows(teShell[t], s)
  BY DEF ShellsIInv, ShellsShellsOK, ShellsShellOK, ShellsShellFields, ShellsFollows
<1> HIDE DEF s
<1>3. ShellsShellsOK' /\ ShellsMainOK' /\ Shells!NothingOutlives'
  BY <1>1, <1>2, ShellsShellSteps
<1> QED BY <1>1, <1>3 DEF ShellsIInv, ShellsTabsOK

LEMMA ShellsReadsHolds ==
  ASSUME Shells!TerminalAssumption, ShellsIInv, NEW t \in teTerminals, Shells!Reads(t)
  PROVE  ShellsIInv'
<1> DEFINE s == [teShell[t] EXCEPT !.input = @ - 1]
<1>1. teShell' = [teShell EXCEPT ![t] = s] /\ UNCHANGED <<teMain, teStartup, teTab>>
  BY DEF Shells!Reads
<1>2. teShell[t].input - 1 \in 0..teMaxInput
  BY DEF Shells!Reads, ShellsIInv, ShellsShellsOK, ShellsShellOK,
    Shells!TerminalAssumption
<1>3. ShellsShellOK(s) /\ ShellsFollows(teShell[t], s)
  BY <1>2 DEF ShellsIInv, ShellsShellsOK, ShellsShellOK, ShellsShellFields,
    ShellsFollows
<1> HIDE DEF s
<1>4. ShellsShellsOK' /\ ShellsMainOK' /\ Shells!NothingOutlives'
  BY <1>1, <1>3, ShellsShellSteps
<1> QED BY <1>1, <1>4 DEF ShellsIInv, ShellsTabsOK

LEMMA ShellsDiesHolds ==
  ASSUME ShellsIInv, NEW t \in teTerminals, Shells!Dies(t)
  PROVE  ShellsIInv'
<1> DEFINE s == [teShell[t] EXCEPT !.state = "dead"]
<1>1. teShell' = [teShell EXCEPT ![t] = s] /\ UNCHANGED <<teMain, teStartup, teTab>>
  BY DEF Shells!Dies
<1>2. ShellsShellOK(s) /\ ShellsFollows(teShell[t], s)
  BY DEF ShellsIInv, ShellsShellsOK, ShellsShellOK, ShellsShellFields, ShellsFollows,
    ShellsLife
<1> HIDE DEF s
<1>3. ShellsShellsOK' /\ ShellsMainOK' /\ Shells!NothingOutlives'
  BY <1>1, <1>2, ShellsShellSteps
<1> QED BY <1>1, <1>3 DEF ShellsIInv, ShellsTabsOK

\* What is read leaves the shell itself alone.
LEMMA ShellsEmitOK ==
  ASSUME NEW s, NEW chunk, ShellsShellOK(s)
  PROVE  ShellsShellOK(Shells!Emit(s, chunk)) /\ ShellsFollows(s, Shells!Emit(s, chunk))
<1> DEFINE text == s.text \o Shells!Decoded(s, chunk)
           rest == IF Shells!KeepsEnd(s.pending \o chunk) THEN <<"L">> ELSE <<>>
           read == s.read \o chunk
<1>1. Shells!Emit(s, chunk) = [s EXCEPT !.text = text, !.pending = rest, !.read = read]
  BY DEF Shells!Emit
<1> HIDE DEF text, rest, read
<1> QED BY <1>1 DEF ShellsShellOK, ShellsShellFields, ShellsFollows

LEMMA ShellsReadOutputHolds ==
  ASSUME ShellsIInv, NEW t \in teTerminals, Shells!ReadOutput(t)
  PROVE  ShellsIInv'
<1>1. UNCHANGED <<teMain, teStartup>> /\ ShellsShellOK(teShell[t]) /\ ShellsTabOK(teTab[t])
  BY DEF Shells!ReadOutput, ShellsIInv, ShellsShellsOK, ShellsTabsOK
<1>2. ASSUME NEW n \in 1..teMaxChunk, teShell' = [teShell EXCEPT ![t] = Shells!Taken(@, n)]
      PROVE  ShellsShellsOK' /\ ShellsMainOK' /\ Shells!NothingOutlives'
  <2> DEFINE e == Shells!Emit(teShell[t], SubSeq(teShell[t].device, 1, n))
  <2>1. ShellsShellOK(e) /\ ShellsFollows(teShell[t], e)
    BY <1>1, ShellsEmitOK
  <2>2. Shells!Taken(teShell[t], n) = [e EXCEPT !.device = SubSeq(@, n + 1, Len(@))]
    BY DEF Shells!Taken
  <2> HIDE DEF e
  <2>3. ShellsShellOK(Shells!Taken(teShell[t], n)) /\ ShellsFollows(teShell[t], Shells!Taken(teShell[t], n))
    BY <2>1, <2>2 DEF ShellsShellOK, ShellsShellFields, ShellsFollows
  <2> QED BY <1>1, <1>2, <2>3, ShellsShellSteps
<1>3. ASSUME teShell' = [teShell EXCEPT ![t] = Shells!Drained(@)]
      PROVE  ShellsShellsOK' /\ ShellsMainOK' /\ Shells!NothingOutlives'
  <2>1. ShellsShellOK(Shells!Drained(teShell[t])) /\ ShellsFollows(teShell[t], Shells!Drained(teShell[t]))
    BY <1>1 DEF Shells!Drained, ShellsShellOK, ShellsShellFields, ShellsFollows
  <2> QED BY <1>1, <1>3, <2>1, ShellsShellSteps
<1>4. ShellsShellsOK' /\ ShellsMainOK' /\ Shells!NothingOutlives'
  BY <1>2, <1>3 DEF Shells!ReadOutput
<1>5. \A piece : ShellsTabOK(Shells!Shows(teTab[t], piece))
  BY <1>1 DEF Shells!Shows, ShellsTabOK, ShellsTabFields
<1>6. \E piece : teTab' = [teTab EXCEPT ![t] = Shells!Shows(teTab[t], piece)]
  BY DEF Shells!ReadOutput
<1>7. ShellsTabsOK'
  BY <1>5, <1>6, ShellsTabSteps
<1> QED BY <1>4, <1>7 DEF ShellsIInv

LEMMA ShellsWaitsHolds ==
  ASSUME ShellsIInv, NEW t \in teTerminals, Shells!Waits(t)
  PROVE  ShellsIInv'
<1> DEFINE s == [teShell[t] EXCEPT !.waiter = "clear", !.active = FALSE]
<1>1. teShell' = [teShell EXCEPT ![t] = s] /\ UNCHANGED <<teMain, teStartup, teTab>>
      /\ teShell[t].state = "dead"
  BY DEF Shells!Waits, ShellsIInv, ShellsShellsOK
<1>2. ShellsShellOK(s) /\ ShellsFollows(teShell[t], s)
  BY <1>1 DEF ShellsIInv, ShellsShellsOK, ShellsShellOK, ShellsShellFields,
    ShellsFollows
<1> HIDE DEF s
<1>3. ShellsShellsOK' /\ ShellsMainOK' /\ Shells!NothingOutlives'
  BY <1>1, <1>2, ShellsShellSteps
<1> QED BY <1>1, <1>3 DEF ShellsIInv, ShellsTabsOK

LEMMA ShellsTellsExitHolds ==
  ASSUME ShellsIInv, NEW t \in teTerminals, Shells!TellsExit(t)
  PROVE  ShellsIInv'
<1> DEFINE s == [teShell[t] EXCEPT !.waiter = "done"]
<1>1. teShell' = [teShell EXCEPT ![t] = s] /\ UNCHANGED <<teMain, teStartup>>
      /\ teTab' = [teTab EXCEPT ![t].exit = "told"]
  BY DEF Shells!TellsExit
<1>2. ShellsShellOK(s) /\ ShellsFollows(teShell[t], s)
  BY DEF ShellsIInv, ShellsShellsOK, ShellsShellOK, ShellsShellFields, ShellsFollows
<1> HIDE DEF s
<1>3. ShellsShellsOK' /\ ShellsMainOK' /\ Shells!NothingOutlives'
  BY <1>1, <1>2, ShellsShellSteps
<1>4. ShellsTabOK([teTab[t] EXCEPT !.exit = "told"])
  BY DEF ShellsIInv, ShellsTabsOK, ShellsTabOK, ShellsTabFields
<1> QED BY <1>1, <1>3, <1>4, ShellsTabSteps DEF ShellsIInv

\* What the tab does by itself.
LEMMA ShellsTabHolds ==
  ASSUME ShellsIInv, NEW t \in teTerminals,
         Shells!Mount(t) \/ Shells!Reply(t) \/ Shells!TimesOut(t) \/ Shells!HearsExit(t) \/ Shells!Unmount(t)
  PROVE  ShellsIInv'
<1>1. UNCHANGED <<teMain, teStartup, teShell>>
  BY DEF Shells!Mount, Shells!Reply, Shells!TimesOut, Shells!HearsExit, Shells!Unmount
<1>2. ShellsTabOK(teTab[t]) /\ DOMAIN teTab = teTerminals
  BY DEF ShellsIInv, ShellsTabsOK
<1>3. /\ DOMAIN teTab' = teTerminals /\ \A u \in teTerminals \ {t} : teTab'[u] = teTab[u]
      /\ ShellsTabOK(teTab'[t])
  <2>1. CASE Shells!Mount(t)
    BY <1>2, <2>1 DEF Shells!Mount, ShellsTabOK, ShellsTabFields, ShellsTabs
  <2>2. CASE Shells!Reply(t)
    BY <1>2, <2>2 DEF Shells!Reply, ShellsTabOK, ShellsTabFields, ShellsTabs
  <2>3. CASE Shells!TimesOut(t)
    BY <1>2, <2>3 DEF Shells!TimesOut, ShellsTabOK, ShellsTabFields, ShellsTabs
  <2>4. CASE Shells!HearsExit(t)
    BY <1>2, <2>4 DEF Shells!HearsExit, ShellsTabOK, ShellsTabFields, ShellsTabs
  <2>5. CASE Shells!Unmount(t)
    BY <1>2, <2>5 DEF Shells!Unmount, ShellsTabOK, ShellsTabFields, ShellsTabs
  <2> QED BY <2>1, <2>2, <2>3, <2>4, <2>5
<1> QED BY <1>1, <1>3 DEF ShellsIInv, ShellsShellsOK, ShellsTabsOK, ShellsMainOK,
    Shells!NothingOutlives

LEMMA ShellsInvariance == ASSUME Shells!TerminalAssumption PROVE Shells!Spec => []ShellsIInv
<1>1. ShellsIInv /\ [Shells!Next]_Shells!vars => ShellsIInv'
  <2> SUFFICES ASSUME ShellsIInv, [Shells!Next]_Shells!vars PROVE ShellsIInv'
    OBVIOUS
  <2>1. CASE UNCHANGED Shells!vars
    BY <2>1 DEF Shells!vars, ShellsIInv, ShellsShellsOK, ShellsTabsOK, ShellsMainOK,
      Shells!NothingOutlives
  <2>2. CASE Shells!Shutdown
    BY <2>2, ShellsShutdownHolds
  <2>3. ASSUME NEW t \in teTerminals, Shells!Commands(t) \/ Shells!Write(t) \/ Shells!Threads(t) PROVE ShellsIInv'
    BY <2>3, ShellsCreateHolds, ShellsWrittenHolds, ShellsCloseHolds, ShellsWriteHolds,
      ShellsReadOutputHolds, ShellsWaitsHolds, ShellsTellsExitHolds DEF Shells!Commands,
      Shells!Threads
  <2>4. ASSUME NEW t \in teTerminals, Shells!Prints(t) \/ Shells!Reads(t) \/ Shells!Dies(t) PROVE ShellsIInv'
    BY <2>4, ShellsPrintsHolds, ShellsReadsHolds, ShellsDiesHolds
  <2>5. ASSUME NEW t \in teTerminals,
               Shells!Mount(t) \/ Shells!Reply(t) \/ Shells!TimesOut(t) \/ Shells!HearsExit(t) \/ Shells!Unmount(t)
        PROVE  ShellsIInv'
    BY <2>5, ShellsTabHolds
  <2> QED BY <2>1, <2>2, <2>3, <2>4, <2>5 DEF Shells!Next
<1> QED BY ShellsInitHolds, <1>1, PTL DEF Shells!Spec

(* The main thread, the shells and the tabs have their types.               *)
THEOREM ShellsTypeCorrect ==
  ASSUME Shells!TerminalAssumption
  PROVE  Shells!Spec => []Shells!TypeOK
<1>1. ShellsIInv => Shells!TypeOK
  BY DEF ShellsIInv, ShellsShellsOK, ShellsShellOK, ShellsTabsOK, ShellsTabOK,
    ShellsMainOK, Shells!TypeOK, ShellsLife, ShellsTabs
<1> QED BY ShellsInvariance, <1>1, PTL

(* Behind an orderly end of the program no shell was left untold, and the   *)
(* startup directory that was kept is gone.                                 *)
THEOREM ShellsNoneOutlives ==
  ASSUME Shells!TerminalAssumption
  PROVE  Shells!Spec => []Shells!NothingOutlives
<1>1. ShellsIInv => Shells!NothingOutlives
  BY DEF ShellsIInv
<1> QED BY ShellsInvariance, <1>1, PTL

-----------------------------------------------------------------------------
(* The decoder, byte by byte.                                               *)

ShellsBytes == {"a", "L", "T", "x"}
ShellsChars == {"a", "LT", "?"}
ShellsIsState(s) ==
  /\ s = [text |-> s.text, bad |-> s.bad, cut |-> s.cut]
  /\ s.text \in Seq(ShellsChars) /\ s.bad \in BOOLEAN /\ s.cut \in BOOLEAN

\* A set of numbers that is not empty has a least one.
LEMMA ShellsLeastOf ==
  ASSUME NEW S \in SUBSET Nat, S # {}
  PROVE  \E m \in S : \A k \in S : ~(k < m)
<1> DEFINE R == OpToRel(<, Nat)
<1>1. IsWellFoundedOn(R, Nat)
  BY NatLessThanWellFounded
<1>2. \A x, y \in Nat : x < y => <<x, y>> \in R
  BY DEF OpToRel
<1> HIDE DEF R
<1>3. PICK m \in S : \A k \in S : ~(<<k, m>> \in R)
  BY <1>1, WFMin, Zenon
<1> QED BY <1>2, <1>3, Zenon

\* What holds of 0, and of a number when it holds of the one before, fails for none.
LEMMA ShellsNoneFails ==
  ASSUME NEW S \in SUBSET Nat, 0 \notin S,
         \A n \in Nat : n \notin S => n + 1 \notin S
  PROVE  S = {}
<1> SUFFICES ASSUME S # {} PROVE FALSE
  OBVIOUS
<1>1. PICK m \in S : \A k \in S : ~(k < m)
  BY ShellsLeastOf
<1>2. m \in Nat /\ m # 0
  BY <1>1
<1>3. m - 1 \in Nat /\ m - 1 < m /\ (m - 1) + 1 = m
  BY <1>2
<1>4. m - 1 \notin S
  BY <1>1, <1>3
<1> QED BY <1>3, <1>4

ShellsIsScan(f, bytes, n) ==
  f = [i \in 0..n |-> IF i = 0 THEN Shells!Unread ELSE Shells!Scanned(f[i - 1], bytes[i])]

LEMMA ShellsScanExists ==
  ASSUME NEW bytes, NEW n \in Nat
  PROVE  \E f : ShellsIsScan(f, bytes, n)
<1> DEFINE S == {k \in Nat : ~\E f : ShellsIsScan(f, bytes, k)}
<1>1. 0 \notin S
  <2> DEFINE f == [i \in 0..0 |-> Shells!Unread]
  <2>1. ShellsIsScan(f, bytes, 0)
    BY DEF ShellsIsScan
  <2> QED BY <2>1
<1>2. ASSUME NEW k \in Nat, k \notin S PROVE k + 1 \notin S
  <2>1. PICK f : ShellsIsScan(f, bytes, k)
    BY <1>2
  <2> DEFINE g == [i \in 0..(k + 1) |-> IF i = k + 1 THEN Shells!Scanned(f[k], bytes[k + 1]) ELSE f[i]]
  <2>2. \A i \in 0..k : f[i] = IF i = 0 THEN Shells!Unread ELSE Shells!Scanned(f[i - 1], bytes[i])
    BY <2>1 DEF ShellsIsScan
  <2>3. ASSUME NEW i \in 0..(k + 1)
        PROVE  g[i] = IF i = 0 THEN Shells!Unread ELSE Shells!Scanned(g[i - 1], bytes[i])
    <3>1. CASE i = k + 1
      <4>1. k \in 0..(k + 1) /\ k # k + 1 /\ i - 1 = k /\ i # 0
        BY <3>1
      <4> QED BY <3>1, <4>1
    <3>2. CASE i = 0
      <4>1. 0 \in 0..k /\ 0 # k + 1
        OBVIOUS
      <4> QED BY <2>2, <3>2, <4>1
    <3>3. CASE i \in 1..k
      <4>1. i \in 0..k /\ i # k + 1 /\ i - 1 \in 0..(k + 1) /\ i - 1 # k + 1 /\ i # 0
        BY <3>3
      <4> QED BY <2>2, <4>1
    <3>4. i = k + 1 \/ i = 0 \/ i \in 1..k
      OBVIOUS
    <3> QED BY <3>1, <3>2, <3>3, <3>4
  <2>4. ShellsIsScan(g, bytes, k + 1)
    BY <2>3 DEF ShellsIsScan
  <2>5. k + 1 \in Nat
    OBVIOUS
  <2> QED BY <2>4
<1> HIDE DEF S
<1>3. S = {}
  BY <1>1, <1>2, ShellsNoneFails DEF S
<1> QED BY <1>3 DEF S

LEMMA ShellsUpToFacts ==
  ASSUME NEW bytes \in Seq(ShellsBytes)
  PROVE  /\ Len(bytes) \in Nat
         /\ Shells!UpTo(bytes)[0] = Shells!Unread
         /\ \A i \in 1..Len(bytes) : Shells!UpTo(bytes)[i] = Shells!Scanned(Shells!UpTo(bytes)[i - 1], bytes[i])
<1>1. Len(bytes) \in Nat
  OBVIOUS
<1>2. \E f : ShellsIsScan(f, bytes, Len(bytes))
  BY <1>1, ShellsScanExists
<1>3. Shells!UpTo(bytes) = CHOOSE f : ShellsIsScan(f, bytes, Len(bytes))
  BY DEF Shells!UpTo, ShellsIsScan
<1>4. ShellsIsScan(Shells!UpTo(bytes), bytes, Len(bytes))
  BY <1>2, <1>3
<1>5. \A i \in 0..Len(bytes) :
        Shells!UpTo(bytes)[i] = IF i = 0 THEN Shells!Unread ELSE Shells!Scanned(Shells!UpTo(bytes)[i - 1], bytes[i])
  BY <1>4 DEF ShellsIsScan
<1>6. 0 \in 0..Len(bytes) /\ \A i \in 1..Len(bytes) : i \in 0..Len(bytes) /\ i # 0
  BY <1>1
<1> QED BY <1>1, <1>5, <1>6

LEMMA ShellsScannedState ==
  ASSUME NEW s, ShellsIsState(s), NEW b \in ShellsBytes
  PROVE  ShellsIsState(Shells!Scanned(s, b)) /\ (s.bad => Shells!Scanned(s, b).bad)
<1>1. s.text \in Seq(ShellsChars) /\ s.bad \in BOOLEAN /\ s.cut \in BOOLEAN
  BY DEF ShellsIsState
<1>2. \A c \in ShellsChars : <<c>> \in Seq(ShellsChars)
  OBVIOUS
<1>3. <<>> \in Seq(ShellsChars) /\ (IF s.cut THEN <<"?">> ELSE <<>>) \in Seq(ShellsChars) /\ Shells!Letter(b) \in Seq(ShellsChars)
  <2>1. <<>> \in Seq(ShellsChars) /\ <<"?">> \in Seq(ShellsChars) /\ <<"a">> \in Seq(ShellsChars)
    BY DEF ShellsChars
  <2> QED BY <2>1 DEF Shells!Letter
<1>4. s.text \o (IF s.cut THEN <<"?">> ELSE <<>>) \in Seq(ShellsChars)
  BY <1>1, <1>3, ConcatProperties
<1>5. s.text \o (IF s.cut THEN <<"?">> ELSE <<>>) \o Shells!Letter(b) \in Seq(ShellsChars)
  BY <1>3, <1>4, ConcatProperties
<1>6. Append(s.text, "LT") \in Seq(ShellsChars)
  BY <1>1 DEF ShellsChars
<1>7. CASE b = "L"
  BY <1>1, <1>4, <1>7 DEF ShellsIsState, Shells!Scanned
<1>8. CASE b = "T" /\ s.cut
  BY <1>1, <1>6, <1>8 DEF ShellsIsState, Shells!Scanned
<1>9. CASE b # "L" /\ ~(b = "T" /\ s.cut)
  BY <1>1, <1>5, <1>9 DEF ShellsIsState, Shells!Scanned
<1> QED BY <1>7, <1>8, <1>9

LEMMA ShellsUpToState ==
  ASSUME NEW bytes \in Seq(ShellsBytes)
  PROVE  /\ \A i \in 0..Len(bytes) : ShellsIsState(Shells!UpTo(bytes)[i])
         /\ ShellsIsState(Shells!Scan(bytes))
<1> DEFINE u == Shells!UpTo(bytes)
           n == Len(bytes)
           S == {k \in Nat : k =< n /\ ~ShellsIsState(u[k])}
<1>1. n \in Nat /\ u[0] = Shells!Unread /\ \A i \in 1..n : u[i] = Shells!Scanned(u[i - 1], bytes[i])
  BY ShellsUpToFacts
<1>2. \A i \in 1..n : bytes[i] \in ShellsBytes
  OBVIOUS
<1> HIDE DEF u, n
<1>3. 0 \notin S
  <2>1. ShellsIsState(Shells!Unread)
    BY DEF ShellsIsState, Shells!Unread
  <2> QED BY <1>1, <2>1
<1>4. ASSUME NEW k \in Nat, k \notin S PROVE k + 1 \notin S
  <2> SUFFICES ASSUME k + 1 =< n PROVE ShellsIsState(u[k + 1])
    OBVIOUS
  <2>1. k + 1 \in 1..n /\ (k + 1) - 1 = k /\ k =< n
    BY <1>1
  <2>2. ShellsIsState(u[k])
    BY <1>4, <2>1
  <2>3. u[k + 1] = Shells!Scanned(u[k], bytes[k + 1]) /\ bytes[k + 1] \in ShellsBytes
    BY <1>1, <1>2, <2>1
  <2> QED BY <2>2, <2>3, ShellsScannedState
<1> HIDE DEF S
<1>5. S = {}
  BY <1>3, <1>4, ShellsNoneFails DEF S
<1>6. \A i \in 0..n : ShellsIsState(u[i])
  BY <1>1, <1>5 DEF S
<1>7. n \in 0..n
  BY <1>1
<1> QED BY <1>6, <1>7 DEF u, n, Shells!Scan

\* What is appended changes nothing of what was decoded before.
LEMMA ShellsUpToPrefix ==
  ASSUME NEW r \in Seq(ShellsBytes), NEW c \in Seq(ShellsBytes)
  PROVE  \A i \in 0..Len(r) : Shells!UpTo(r \o c)[i] = Shells!UpTo(r)[i]
<1> DEFINE u == Shells!UpTo(r)
           w == Shells!UpTo(r \o c)
           n == Len(r)
           S == {k \in Nat : k =< n /\ w[k] # u[k]}
<1>1. n \in Nat /\ u[0] = Shells!Unread /\ \A i \in 1..n : u[i] = Shells!Scanned(u[i - 1], r[i])
  BY ShellsUpToFacts
<1>2. r \o c \in Seq(ShellsBytes) /\ Len(r \o c) = n + Len(c) /\ Len(c) \in Nat
  BY ConcatProperties
<1>3. w[0] = Shells!Unread /\ \A i \in 1..Len(r \o c) : w[i] = Shells!Scanned(w[i - 1], (r \o c)[i])
  BY <1>2, ShellsUpToFacts
<1>4. \A i \in 1..n : i \in 1..Len(r \o c) /\ (r \o c)[i] = r[i]
  BY <1>1, <1>2, ConcatProperties
<1> HIDE DEF u, w, n
<1>5. 0 \notin S
  BY <1>1, <1>3
<1>6. ASSUME NEW k \in Nat, k \notin S PROVE k + 1 \notin S
  <2> SUFFICES ASSUME k + 1 =< n PROVE w[k + 1] = u[k + 1]
    OBVIOUS
  <2>1. k + 1 \in 1..n /\ (k + 1) - 1 = k /\ k =< n
    BY <1>1
  <2>2. w[k] = u[k]
    BY <1>6, <2>1
  <2>3. u[k + 1] = Shells!Scanned(u[k], r[k + 1])
    BY <1>1, <2>1
  <2>4. w[k + 1] = Shells!Scanned(w[k], r[k + 1])
    BY <1>3, <1>4, <2>1
  <2> QED BY <2>2, <2>3, <2>4
<1> HIDE DEF S
<1>7. S = {}
  BY <1>5, <1>6, ShellsNoneFails DEF S
<1> QED BY <1>1, <1>7 DEF S, u, w, n

\* What a byte adds to the text.
ShellsCat(s, u) == s \o u
ShellsAdded(cut, b) ==
  CASE b = "L" -> IF cut THEN <<"?">> ELSE <<>>
    [] b = "T" /\ cut -> <<"LT">>
    [] OTHER -> (IF cut THEN <<"?">> ELSE <<>>) \o Shells!Letter(b)
ShellsWorse(bad, cut, b) == bad \/ IF cut THEN b # "T" ELSE b \notin {"a", "L"}

LEMMA ShellsCatFacts ==
  ASSUME NEW t \in Seq(ShellsChars), NEW u \in Seq(ShellsChars), NEW v \in Seq(ShellsChars)
  PROVE  /\ ShellsCat(ShellsCat(t, u), v) = ShellsCat(t, ShellsCat(u, v)) /\ ShellsCat(u, v) \in Seq(ShellsChars)
         /\ ShellsCat(t, <<>>) = t
BY ConcatAssociative, ConcatProperties, ConcatEmptySeq DEF ShellsCat

LEMMA ShellsScannedFields ==
  ASSUME NEW s, ShellsIsState(s), NEW b \in ShellsBytes
  PROVE  /\ ShellsAdded(s.cut, b) \in Seq(ShellsChars)
         /\ Shells!Scanned(s, b).text = ShellsCat(s.text, ShellsAdded(s.cut, b))
         /\ Shells!Scanned(s, b).bad = ShellsWorse(s.bad, s.cut, b)
         /\ Shells!Scanned(s, b).cut = (b = "L")
<1>1. s.text \in Seq(ShellsChars) /\ s.bad \in BOOLEAN /\ s.cut \in BOOLEAN
  BY DEF ShellsIsState
<1>2. <<>> \in Seq(ShellsChars) /\ <<"?">> \in Seq(ShellsChars) /\ <<"a">> \in Seq(ShellsChars) /\ <<"LT">> \in Seq(ShellsChars)
  BY DEF ShellsChars
<1> DEFINE mark == IF s.cut THEN <<"?">> ELSE <<>>
<1>3. mark \in Seq(ShellsChars) /\ Shells!Letter(b) \in Seq(ShellsChars)
  BY <1>2 DEF Shells!Letter
<1>4. CASE b = "L"
  <2>1. Shells!Scanned(s, b) = [text |-> s.text \o mark, bad |-> s.bad \/ s.cut, cut |-> TRUE]
    BY <1>4 DEF Shells!Scanned
  <2>2. ShellsAdded(s.cut, b) = mark
    BY <1>4 DEF ShellsAdded
  <2>3. ShellsWorse(s.bad, s.cut, b) = (s.bad \/ s.cut)
    BY <1>4 DEF ShellsWorse
  <2> HIDE DEF mark
  <2>4. Shells!Scanned(s, b).text = s.text \o mark /\ Shells!Scanned(s, b).bad = (s.bad \/ s.cut) /\ Shells!Scanned(s, b).cut = TRUE
    BY <2>1
  <2> QED BY <1>3, <1>4, <2>2, <2>3, <2>4 DEF ShellsCat
<1>5. CASE b = "T" /\ s.cut
  <2>1. Shells!Scanned(s, b) = [text |-> Append(s.text, "LT"), bad |-> s.bad, cut |-> FALSE]
    BY <1>5 DEF Shells!Scanned
  <2>2. ShellsAdded(s.cut, b) = <<"LT">>
    BY <1>5 DEF ShellsAdded
  <2>3. ShellsWorse(s.bad, s.cut, b) = s.bad
    BY <1>1, <1>5 DEF ShellsWorse
  <2>4. Shells!Scanned(s, b).text = Append(s.text, "LT") /\ Shells!Scanned(s, b).bad = s.bad /\ Shells!Scanned(s, b).cut = FALSE
    BY <2>1
  <2>5. Append(s.text, "LT") = s.text \o <<"LT">>
    BY <1>1, AppendIsConcat DEF ShellsChars
  <2> QED BY <1>2, <1>5, <2>2, <2>3, <2>4, <2>5 DEF ShellsCat
<1>6. CASE b # "L" /\ ~(b = "T" /\ s.cut)
  <2>1. Shells!Scanned(s, b) = [text |-> s.text \o mark \o Shells!Letter(b), bad |-> s.bad \/ s.cut \/ b # "a", cut |-> FALSE]
    BY <1>6 DEF Shells!Scanned
  <2>2. ShellsAdded(s.cut, b) = mark \o Shells!Letter(b)
    BY <1>6 DEF ShellsAdded
  <2>3. ShellsWorse(s.bad, s.cut, b) = (s.bad \/ s.cut \/ b # "a")
    BY <1>6 DEF ShellsWorse
  <2> HIDE DEF mark
  <2>4. /\ Shells!Scanned(s, b).text = s.text \o mark \o Shells!Letter(b)
        /\ Shells!Scanned(s, b).bad = (s.bad \/ s.cut \/ b # "a") /\ Shells!Scanned(s, b).cut = FALSE
    BY <2>1
  <2>5. ShellsCat(ShellsCat(s.text, mark), Shells!Letter(b)) = ShellsCat(s.text, ShellsCat(mark, Shells!Letter(b))) /\ ShellsCat(mark, Shells!Letter(b)) \in Seq(ShellsChars)
    BY <1>1, <1>3, ShellsCatFacts
  <2> QED BY <1>6, <2>2, <2>3, <2>4, <2>5 DEF ShellsCat
<1> QED BY <1>4, <1>5, <1>6

\* A byte adds the same to two texts of which one is the end of the other.
ShellsJoined(t, x, y) == x.text = ShellsCat(t, y.text) /\ x.bad = y.bad /\ x.cut = y.cut

LEMMA ShellsScannedJoined ==
  ASSUME NEW t \in Seq(ShellsChars), NEW x, NEW y, ShellsIsState(x), ShellsIsState(y),
         ShellsJoined(t, x, y), NEW b \in ShellsBytes
  PROVE  ShellsJoined(t, Shells!Scanned(x, b), Shells!Scanned(y, b))
<1>1. y.text \in Seq(ShellsChars) /\ x.text = ShellsCat(t, y.text) /\ x.bad = y.bad /\ x.cut = y.cut
  BY DEF ShellsIsState, ShellsJoined
<1>2. /\ ShellsAdded(y.cut, b) \in Seq(ShellsChars)
      /\ Shells!Scanned(x, b).text = ShellsCat(x.text, ShellsAdded(x.cut, b)) /\ Shells!Scanned(y, b).text = ShellsCat(y.text, ShellsAdded(y.cut, b))
      /\ Shells!Scanned(x, b).bad = ShellsWorse(x.bad, x.cut, b) /\ Shells!Scanned(y, b).bad = ShellsWorse(y.bad, y.cut, b)
      /\ Shells!Scanned(x, b).cut = (b = "L") /\ Shells!Scanned(y, b).cut = (b = "L")
  BY ShellsScannedFields
<1>3. ShellsCat(ShellsCat(t, y.text), ShellsAdded(y.cut, b)) = ShellsCat(t, ShellsCat(y.text, ShellsAdded(y.cut, b)))
  BY <1>1, <1>2, ShellsCatFacts
<1> QED BY <1>1, <1>2, <1>3 DEF ShellsJoined

\* What is appended adds the same to a text that is whole, and to what was kept back alone.
LEMMA ShellsUpToJoined ==
  ASSUME NEW t \in Seq(ShellsChars), NEW r \in Seq(ShellsBytes), NEW q \in Seq(ShellsBytes),
         NEW c \in Seq(ShellsBytes),
         ShellsJoined(t, Shells!Scan(r), Shells!Scan(q))
  PROVE  ShellsJoined(t, Shells!Scan(r \o c), Shells!Scan(q \o c))
<1> DEFINE u == Shells!UpTo(r \o c)
           w == Shells!UpTo(q \o c)
           m == Len(r)
           n == Len(q)
           l == Len(c)
           S == {k \in Nat : k =< l /\ ~ShellsJoined(t, u[m + k], w[n + k])}
<1>1. m \in Nat /\ n \in Nat /\ l \in Nat
  OBVIOUS
<1>2. /\ r \o c \in Seq(ShellsBytes) /\ Len(r \o c) = m + l /\ q \o c \in Seq(ShellsBytes) /\ Len(q \o c) = n + l
      /\ \A i \in 1..l : (r \o c)[m + i] = c[i] /\ (q \o c)[n + i] = c[i] /\ c[i] \in ShellsBytes
  BY ConcatProperties
<1>3. /\ \A i \in 1..(m + l) : u[i] = Shells!Scanned(u[i - 1], (r \o c)[i])
      /\ \A i \in 1..(n + l) : w[i] = Shells!Scanned(w[i - 1], (q \o c)[i])
  BY <1>2, ShellsUpToFacts
<1>4. (\A i \in 0..(m + l) : ShellsIsState(u[i])) /\ (\A i \in 0..(n + l) : ShellsIsState(w[i]))
  BY <1>2, ShellsUpToState
<1>5. u[m] = Shells!Scan(r) /\ w[n] = Shells!Scan(q)
  BY <1>1, ShellsUpToPrefix DEF Shells!Scan
<1>6. Shells!Scan(r \o c) = u[m + l] /\ Shells!Scan(q \o c) = w[n + l]
  BY <1>2 DEF Shells!Scan
<1> HIDE DEF u, w, m, n, l
<1>7. 0 \notin S
  <2>1. m + 0 = m /\ n + 0 = n
    BY <1>1
  <2> QED BY <1>5, <2>1
<1>8. ASSUME NEW k \in Nat, k \notin S PROVE k + 1 \notin S
  <2> SUFFICES ASSUME k + 1 =< l PROVE ShellsJoined(t, u[m + (k + 1)], w[n + (k + 1)])
    OBVIOUS
  <2>1. /\ k =< l /\ k + 1 \in 1..l
        /\ m + (k + 1) \in 1..(m + l) /\ (m + (k + 1)) - 1 = m + k /\ m + k \in 0..(m + l)
        /\ n + (k + 1) \in 1..(n + l) /\ (n + (k + 1)) - 1 = n + k /\ n + k \in 0..(n + l)
    BY <1>1
  <2>2. ShellsJoined(t, u[m + k], w[n + k])
    BY <1>8, <2>1
  <2>3. /\ u[m + (k + 1)] = Shells!Scanned(u[m + k], c[k + 1])
        /\ w[n + (k + 1)] = Shells!Scanned(w[n + k], c[k + 1]) /\ c[k + 1] \in ShellsBytes
    BY <1>2, <1>3, <2>1
  <2>4. ShellsIsState(u[m + k]) /\ ShellsIsState(w[n + k])
    BY <1>4, <2>1
  <2> QED BY <2>2, <2>3, <2>4, ShellsScannedJoined
<1> HIDE DEF S
<1>9. S = {}
  BY <1>7, <1>8, ShellsNoneFails DEF S
<1>10. l \in Nat /\ l =< l
  BY <1>1
<1>11. l \notin S
  BY <1>9
<1> QED BY <1>6, <1>10, <1>11 DEF S

\* What is no UTF-8 stays so.
LEMMA ShellsBadStays ==
  ASSUME NEW r \in Seq(ShellsBytes), NEW c \in Seq(ShellsBytes), Shells!Scan(r).bad
  PROVE  Shells!Scan(r \o c).bad
<1> DEFINE u == Shells!UpTo(r \o c)
           m == Len(r)
           l == Len(c)
           S == {k \in Nat : k =< l /\ ~u[m + k].bad}
<1>1. m \in Nat /\ l \in Nat
  OBVIOUS
<1>2. /\ r \o c \in Seq(ShellsBytes) /\ Len(r \o c) = m + l
      /\ \A i \in 1..(m + l) : (r \o c)[i] \in ShellsBytes
  BY ConcatProperties
<1>3. \A i \in 1..(m + l) : u[i] = Shells!Scanned(u[i - 1], (r \o c)[i])
  BY <1>2, ShellsUpToFacts
<1>4. \A i \in 0..(m + l) : ShellsIsState(u[i])
  BY <1>2, ShellsUpToState
<1>5. u[m] = Shells!Scan(r)
  BY <1>1, ShellsUpToPrefix DEF Shells!Scan
<1>6. Shells!Scan(r \o c) = u[m + l]
  BY <1>2 DEF Shells!Scan
<1> HIDE DEF u, m, l
<1>7. 0 \notin S
  <2>1. m + 0 = m
    BY <1>1
  <2> QED BY <1>5, <2>1
<1>8. ASSUME NEW k \in Nat, k \notin S PROVE k + 1 \notin S
  <2> SUFFICES ASSUME k + 1 =< l PROVE u[m + (k + 1)].bad
    OBVIOUS
  <2>1. /\ k =< l /\ m + (k + 1) \in 1..(m + l) /\ (m + (k + 1)) - 1 = m + k /\ m + k \in 0..(m + l)
    BY <1>1
  <2>2. u[m + k].bad
    BY <1>8, <2>1
  <2>3. /\ u[m + (k + 1)] = Shells!Scanned(u[m + k], (r \o c)[m + (k + 1)]) /\ (r \o c)[m + (k + 1)] \in ShellsBytes
    BY <1>2, <1>3, <2>1
  <2>4. ShellsIsState(u[m + k])
    BY <1>4, <2>1
  <2> QED BY <2>2, <2>3, <2>4, ShellsScannedState
<1> HIDE DEF S
<1>9. S = {}
  BY <1>7, <1>8, ShellsNoneFails DEF S
<1>10. l \in Nat /\ l =< l
  BY <1>1
<1>11. l \notin S
  BY <1>9
<1> QED BY <1>6, <1>10, <1>11 DEF S

-----------------------------------------------------------------------------
(* What a terminal has shown of what it read.                               *)

\* Before the end the text is what was decoded, but for the first byte of a character that is cut.
ShellsShown(s) ==
  /\ s.pending \in {<<>>, <<"L">>}
  /\ ~Shells!Scan(s.read).bad =>
       s.text = Shells!Scan(s.read).text /\ s.pending = IF Shells!Scan(s.read).cut THEN <<"L">> ELSE <<>>

LEMMA ShellsPendingScan ==
  /\ <<>> \in Seq(ShellsBytes) /\ <<"L">> \in Seq(ShellsBytes)
  /\ Shells!Scan(<<>>) = Shells!Unread
  /\ Shells!Scan(<<"L">>).text = <<>> /\ Shells!Scan(<<"L">>).bad = FALSE /\ Shells!Scan(<<"L">>).cut = TRUE
<1>1. <<>> \in Seq(ShellsBytes) /\ Len(<<>>) = 0
  OBVIOUS
<1>2. <<"L">> \in Seq(ShellsBytes) /\ Len(<<"L">>) = 1 /\ <<"L">>[1] = "L" /\ 1 \in 1..1 /\ 1 - 1 = 0
  BY DEF ShellsBytes
<1>3. Shells!Scan(<<>>) = Shells!Unread
  BY <1>1, ShellsUpToFacts DEF Shells!Scan
<1>4. Shells!Scan(<<"L">>) = Shells!Scanned(Shells!Unread, "L")
  BY <1>2, ShellsUpToFacts DEF Shells!Scan
<1>5. <<>> \o <<>> = <<>>
  BY <1>1, ConcatEmptySeq
<1>6. Shells!Scanned(Shells!Unread, "L") = [text |-> <<>> \o <<>>, bad |-> FALSE, cut |-> TRUE]
  BY DEF Shells!Scanned, Shells!Unread
<1> QED BY <1>1, <1>2, <1>3, <1>4, <1>5, <1>6

LEMMA ShellsLossyFacts ==
  /\ Shells!Lossy(<<>>) = <<>> /\ Shells!Lossy(<<"L">>) = <<"?">>
  /\ \A r \in Seq(ShellsBytes) : Shells!Lossy(r) = ShellsCat(Shells!Scan(r).text, IF Shells!Scan(r).cut THEN <<"?">> ELSE <<>>)
<1>1. \A r : Shells!Lossy(r) = ShellsCat(Shells!Scan(r).text, IF Shells!Scan(r).cut THEN <<"?">> ELSE <<>>)
  BY DEF Shells!Lossy, ShellsCat
<1>2. <<>> \in Seq(ShellsChars) /\ <<"?">> \in Seq(ShellsChars)
  BY DEF ShellsChars
<1>3. ShellsCat(<<>>, <<>>) = <<>> /\ ShellsCat(<<>>, <<"?">>) = <<"?">>
  BY <1>2, ConcatEmptySeq DEF ShellsCat
<1>4. Shells!Scan(<<>>).text = <<>> /\ Shells!Scan(<<>>).cut = FALSE
  BY ShellsPendingScan DEF Shells!Unread
<1>5. Shells!Lossy(<<>>) = <<>>
  BY <1>1, <1>3, <1>4
<1>6. Shells!Lossy(<<"L">>) = <<"?">>
  BY <1>1, <1>3, ShellsPendingScan
<1> QED BY <1>1, <1>5, <1>6

\* What a chunk adds is what it adds to the whole.
LEMMA ShellsEmitShown ==
  ASSUME NEW s, ShellsShown(s), s.read \in Seq(ShellsBytes), s.text \in Seq(ShellsChars),
         NEW chunk \in Seq(ShellsBytes),
         NEW e, e.read = s.read \o chunk, e.text = ShellsCat(s.text, Shells!Decoded(s, chunk)),
         e.pending = IF Shells!KeepsEnd(s.pending \o chunk) THEN <<"L">> ELSE <<>>
  PROVE  ShellsShown(e) /\ e.read \in Seq(ShellsBytes) /\ e.text \in Seq(ShellsChars) /\ Shells!Decoded(s, chunk) \in Seq(ShellsChars)
<1> DEFINE bytes == s.pending \o chunk
           found == Shells!Scan(bytes)
           keep == found.cut /\ ~found.bad
           whole == Shells!Scan(s.read \o chunk)
<1>0. /\ Shells!Decoded(s, chunk) = IF keep THEN found.text ELSE Shells!Lossy(bytes)
      /\ e.pending = IF keep THEN <<"L">> ELSE <<>>
  BY DEF Shells!Decoded, Shells!KeepsEnd
<1>1. s.pending \in Seq(ShellsBytes) /\ bytes \in Seq(ShellsBytes) /\ s.read \o chunk \in Seq(ShellsBytes)
  BY ShellsPendingScan, ConcatProperties DEF ShellsShown
<1>2. ShellsIsState(found) /\ ShellsIsState(whole) /\ ShellsIsState(Shells!Scan(s.read))
  BY <1>1, ShellsUpToState
<1>3. Shells!Lossy(bytes) = ShellsCat(found.text, IF found.cut THEN <<"?">> ELSE <<>>)
  BY <1>1, ShellsLossyFacts
<1>4. found.text \in Seq(ShellsChars) /\ Shells!Lossy(bytes) \in Seq(ShellsChars)
  <2>1. <<>> \in Seq(ShellsChars) /\ <<"?">> \in Seq(ShellsChars)
    BY DEF ShellsChars
  <2>2. found.text \in Seq(ShellsChars)
    BY <1>2 DEF ShellsIsState
  <2> DEFINE mark == IF found.cut THEN <<"?">> ELSE <<>>
  <2>3. mark \in Seq(ShellsChars) /\ Shells!Lossy(bytes) = ShellsCat(found.text, mark)
    BY <1>3, <2>1
  <2> HIDE DEF mark, found
  <2>4. ShellsCat(found.text, mark) \in Seq(ShellsChars)
    BY <2>2, <2>3, ShellsCatFacts
  <2> QED BY <2>2, <2>3, <2>4
<1> HIDE DEF found, whole
<1>5. Shells!Decoded(s, chunk) \in Seq(ShellsChars) /\ e.text \in Seq(ShellsChars)
  BY <1>0, <1>4, ShellsCatFacts DEF found
<1>6. ASSUME ~whole.bad
      PROVE  e.text = whole.text /\ e.pending = IF whole.cut THEN <<"L">> ELSE <<>>
  <2>1. ~Shells!Scan(s.read).bad
    BY <1>6, ShellsBadStays DEF whole
  <2>2. s.text = Shells!Scan(s.read).text /\ s.pending = IF Shells!Scan(s.read).cut THEN <<"L">> ELSE <<>>
    BY <2>1 DEF ShellsShown
  <2>3. ShellsJoined(s.text, Shells!Scan(s.read), Shells!Scan(s.pending))
    <3>1. Shells!Scan(s.read).bad = FALSE /\ Shells!Scan(s.read).cut \in BOOLEAN
      BY <1>2, <2>1 DEF ShellsIsState
    <3>2. ShellsCat(s.text, <<>>) = s.text
      BY ShellsCatFacts
    <3>3. Shells!Scan(<<>>).text = <<>> /\ Shells!Scan(<<>>).bad = FALSE /\ Shells!Scan(<<>>).cut = FALSE
      BY ShellsPendingScan DEF Shells!Unread
    <3>4. CASE Shells!Scan(s.read).cut
      <4>1. Shells!Scan(s.read).cut = TRUE /\ Shells!Scan(s.pending) = Shells!Scan(<<"L">>)
        BY <2>2, <3>1, <3>4
      <4> QED BY <2>2, <3>1, <3>2, <4>1, ShellsPendingScan DEF ShellsJoined
    <3>5. CASE ~Shells!Scan(s.read).cut
      <4>1. Shells!Scan(s.read).cut = FALSE /\ Shells!Scan(s.pending) = Shells!Scan(<<>>)
        BY <2>2, <3>1, <3>5
      <4> QED BY <2>2, <3>1, <3>2, <3>3, <4>1 DEF ShellsJoined
    <3> QED BY <3>4, <3>5
  <2>4. ShellsJoined(s.text, whole, found)
    BY <1>1, <2>3, ShellsUpToJoined DEF whole, found
  <2>5. whole.text = ShellsCat(s.text, found.text) /\ whole.bad = found.bad /\ whole.cut = found.cut
    BY <2>4 DEF ShellsJoined
  <2>6. ~found.bad
    BY <1>6, <2>5
  <2>7. CASE found.cut
    <3>1. e.text = ShellsCat(s.text, found.text) /\ e.pending = <<"L">>
      BY <1>0, <2>6, <2>7 DEF found
    <3> QED BY <2>5, <2>7, <3>1
  <2>8. CASE ~found.cut
    <3>1. e.text = ShellsCat(s.text, Shells!Lossy(bytes)) /\ e.pending = <<>>
      BY <1>0, <2>8 DEF found
    <3>2. Shells!Lossy(bytes) = found.text
      <4>1. ShellsCat(found.text, <<>>) = found.text
        BY <1>4, ShellsCatFacts
      <4> QED BY <1>3, <2>8, <4>1
    <3> QED BY <2>5, <2>8, <3>1, <3>2
  <2> QED BY <2>7, <2>8
<1>7. e.pending \in {<<>>, <<"L">>}
  OBVIOUS
<1>8. e.read \in Seq(ShellsBytes) /\ Shells!Scan(e.read) = whole
  BY <1>1 DEF whole
<1> QED BY <1>5, <1>6, <1>7, <1>8 DEF ShellsShown

\* A terminal whose reader ended has shown all, and there is nothing left to read.
ShellsShellText(s) ==
  /\ s.left \in Seq(ShellsBytes) /\ s.device \in Seq(ShellsBytes) /\ s.read \in Seq(ShellsBytes) /\ s.text \in Seq(ShellsChars)
  /\ s.reader \in {"none", "run", "done"}
  /\ s.reader # "done" => ShellsShown(s)
  /\ s.reader = "done" =>
       /\ s.state = "dead" /\ s.device = <<>> /\ s.pending = <<>>
       /\ ~Shells!Scan(s.read).bad => s.text = Shells!Lossy(s.read)

\* A shell that is still to come has no reader.
ShellsAwaited(b) == b.pc = "new" \/ b.reply = "asked"
ShellsStartOK(s, b) == (ShellsAwaited(b) => s.reader = "none") /\ (b.reply = "asked" => b.pc # "new")

\* What a tab missed, showed and dropped is all that was emitted, in order.
ShellsTabText(s, b) ==
  /\ b.before \in Seq(ShellsChars) /\ b.shown \in Seq(ShellsChars) /\ b.after \in Seq(ShellsChars)
  /\ s.text = ShellsCat(ShellsCat(b.before, b.shown), b.after)
  /\ b.pc = "ready" => b.after = <<>>
  /\ b.pc \in {"new", "creating"} => b.shown = <<>> /\ b.after = <<>>
ShellsTextIInv ==
  \A t \in teTerminals :
    ShellsShellText(teShell[t]) /\ ShellsStartOK(teShell[t], teTab[t]) /\ ShellsTabText(teShell[t], teTab[t])

LEMMA ShellsTabTextShows ==
  ASSUME NEW r, NEW s, NEW b, ShellsTabOK(b), ShellsTabText(r, b),
         NEW piece \in Seq(ShellsChars),
         s.text = ShellsCat(r.text, piece)
  PROVE  ShellsTabText(s, Shells!Shows(b, piece))
<1>1. /\ b.before \in Seq(ShellsChars) /\ b.shown \in Seq(ShellsChars) /\ b.after \in Seq(ShellsChars)
      /\ s.text = ShellsCat(ShellsCat(ShellsCat(b.before, b.shown), b.after), piece)
  BY DEF ShellsTabText
<1>0. \A t, u, v \in Seq(ShellsChars) : ShellsCat(ShellsCat(t, u), v) = ShellsCat(t, ShellsCat(u, v)) /\ ShellsCat(u, v) \in Seq(ShellsChars)
  BY ShellsCatFacts
<1>2. ShellsCat(b.before, b.shown) \in Seq(ShellsChars)
  BY <1>0, <1>1
<1>6. <<>> \in Seq(ShellsChars)
  OBVIOUS
<1>3. CASE b.pc = "ready"
  <2> DEFINE c == [b EXCEPT !.shown = b.shown \o piece]
  <2>1. Shells!Shows(b, piece) = c
    BY <1>3 DEF Shells!Shows
  <2>2. c.before = b.before /\ c.shown = ShellsCat(b.shown, piece) /\ c.after = b.after /\ c.pc = b.pc
    BY DEF ShellsTabOK, ShellsTabFields, ShellsCat
  <2> HIDE DEF c
  <2>3. b.after = <<>>
    BY <1>3 DEF ShellsTabText
  <2>4. ShellsCat(ShellsCat(b.before, b.shown), <<>>) = ShellsCat(b.before, b.shown)
    BY <1>2, ShellsCatFacts
  <2>5. ShellsCat(ShellsCat(b.before, b.shown), piece) = ShellsCat(b.before, ShellsCat(b.shown, piece))
        /\ ShellsCat(b.shown, piece) \in Seq(ShellsChars)
    BY <1>0, <1>1
  <2>6. ShellsCat(b.before, ShellsCat(b.shown, piece)) \in Seq(ShellsChars)
    BY <1>1, <2>5, ShellsCatFacts
  <2>7. ShellsCat(ShellsCat(b.before, ShellsCat(b.shown, piece)), <<>>) = ShellsCat(b.before, ShellsCat(b.shown, piece))
    BY <1>2, <2>6, ShellsCatFacts
  <2> QED BY <1>1, <1>2, <1>3, <2>1, <2>2, <2>3, <2>4, <2>5, <2>7 DEF ShellsTabText
<1>4. CASE b.pc \in {"new", "creating"}
  <2> DEFINE c == [b EXCEPT !.before = b.before \o piece]
  <2>1. Shells!Shows(b, piece) = c
    BY <1>4 DEF Shells!Shows
  <2>2. c.before = ShellsCat(b.before, piece) /\ c.shown = b.shown /\ c.after = b.after /\ c.pc = b.pc
    BY DEF ShellsTabOK, ShellsTabFields, ShellsCat
  <2> HIDE DEF c
  <2>3. b.after = <<>> /\ b.shown = <<>>
    BY <1>4 DEF ShellsTabText
  <2>4. ShellsCat(b.before, <<>>) = b.before /\ ShellsCat(b.before, piece) \in Seq(ShellsChars)
    BY <1>1, <1>2, ShellsCatFacts
  <2>5. ShellsCat(ShellsCat(b.before, piece), <<>>) = ShellsCat(b.before, piece)
    BY <1>2, <2>4, ShellsCatFacts
  <2> QED BY <1>1, <1>2, <1>4, <2>1, <2>2, <2>3, <2>4, <2>5 DEF ShellsTabText
<1>5. CASE b.pc \notin {"new", "creating", "ready"}
  <2> DEFINE c == [b EXCEPT !.after = b.after \o piece]
  <2>1. Shells!Shows(b, piece) = c
    BY <1>5 DEF Shells!Shows
  <2>2. c.before = b.before /\ c.shown = b.shown /\ c.after = ShellsCat(b.after, piece) /\ c.pc = b.pc
    BY DEF ShellsTabOK, ShellsTabFields, ShellsCat
  <2> HIDE DEF c
  <2>3. ShellsCat(ShellsCat(ShellsCat(b.before, b.shown), b.after), piece) = ShellsCat(ShellsCat(b.before, b.shown), ShellsCat(b.after, piece))
        /\ ShellsCat(b.after, piece) \in Seq(ShellsChars)
    BY <1>0, <1>1, <1>2
  <2> QED BY <1>1, <1>5, <2>1, <2>2, <2>3 DEF ShellsTabText
<1> QED BY <1>3, <1>4, <1>5

\* What else happens to a tab leaves what it shows alone, and only one that asked becomes ready.
ShellsShowing(b) == <<b.before, b.shown, b.after>>
LEMMA ShellsTabTextLeft ==
  ASSUME NEW r, NEW s, NEW b, NEW c, ShellsTabText(r, b), s.text = r.text,
         ShellsShowing(c) = ShellsShowing(b),
         c.pc = "ready" => b.pc \in {"creating", "ready"},
         c.pc \in {"new", "creating"} => b.pc \in {"new", "creating"}
  PROVE  ShellsTabText(s, c)
BY DEF ShellsTabText, ShellsShowing

\* What else happens to a shell leaves its text alone.
ShellsReading(s) == <<s.left, s.device, s.read, s.text, s.pending, s.reader>>
LEMMA ShellsTextLeft ==
  ASSUME NEW r, NEW s, ShellsShellText(r), s.state = r.state \/ s.state = "dead",
         ShellsReading(s) = ShellsReading(r)
  PROVE  ShellsShellText(s)
BY DEF ShellsShellText, ShellsShown, ShellsReading

LEMMA ShellsTextInit == ASSUME Shells!TerminalAssumption, Shells!Init PROVE ShellsTextIInv
<1>1. <<>> \in Seq(ShellsBytes) /\ <<>> \in Seq(ShellsChars)
  OBVIOUS
<1>2. Shells!Scan(<<>>).text = <<>> /\ Shells!Scan(<<>>).cut = FALSE
  BY ShellsPendingScan DEF Shells!Unread
<1>3. ShellsCat(ShellsCat(<<>>, <<>>), <<>>) = <<>>
  BY <1>1, ShellsCatFacts
<1>4. ASSUME NEW t \in teTerminals PROVE ShellsShellText(teShell[t]) /\ ShellsStartOK(teShell[t], teTab[t])
  BY <1>1, <1>2 DEF Shells!Init, ShellsShellText, ShellsShown, ShellsStartOK,
    ShellsAwaited
<1>5. ASSUME NEW t \in teTerminals PROVE ShellsTabText(teShell[t], teTab[t])
  BY <1>1, <1>3 DEF Shells!Init, ShellsTabText
<1> QED BY <1>4, <1>5 DEF ShellsTextIInv

\* A step of one shell, and of its tab.
LEMMA ShellsTextSteps ==
  ASSUME ShellsIInv, ShellsTextIInv, NEW t \in teTerminals, NEW s, ShellsShellText(s),
         s.reader = teShell[t].reader \/ teShell[t].reader # "none",
         teShell' = [teShell EXCEPT ![t] = s], ShellsTabText(s, teTab'[t]),
         teTab'[t].pc = teTab[t].pc /\ teTab'[t].reply = teTab[t].reply,
         \A u \in teTerminals \ {t} : teTab'[u] = teTab[u]
  PROVE  ShellsTextIInv'
<1>1. teShell'[t] = s /\ \A u \in teTerminals \ {t} : teShell'[u] = teShell[u]
  BY DEF ShellsIInv, ShellsShellsOK
<1>2. ShellsAwaited(teTab'[t]) = ShellsAwaited(teTab[t])
  BY DEF ShellsAwaited
<1>3. ASSUME NEW u \in teTerminals
      PROVE  ShellsShellText(teShell'[u]) /\ ShellsStartOK(teShell'[u], teTab'[u]) /\ ShellsTabText(teShell'[u], teTab'[u])
  BY <1>1, <1>2 DEF ShellsTextIInv, ShellsStartOK
<1> QED BY <1>3 DEF ShellsTextIInv

LEMMA ShellsTextCreate ==
  ASSUME Shells!TerminalAssumption, ShellsIInv, ShellsTextIInv, NEW t \in teTerminals,
         Shells!Create(t)
  PROVE  ShellsTextIInv'
<1>1. /\ teTab[t].reply = "asked" /\ teShell[t].reader = "none" /\ teTab[t].pc # "new"
      /\ DOMAIN teShell = teTerminals /\ DOMAIN teTab = teTerminals
      /\ ShellsShellText(teShell[t]) /\ ShellsShellOK(teShell[t]) /\ ShellsTabOK(teTab[t])
  BY DEF Shells!Create, ShellsTextIInv, ShellsStartOK, ShellsAwaited, ShellsIInv,
    ShellsShellsOK, ShellsTabsOK
<1>2. /\ teTab'[t].pc # "new" /\ teTab'[t].reply # "asked"
      /\ \A u \in teTerminals \ {t} : teTab'[u] = teTab[u]
  BY <1>1 DEF Shells!Create, ShellsTabOK, ShellsTabFields
<1>3. ShellsShellText(teShell'[t]) /\ \A u \in teTerminals \ {t} : teShell'[u] = teShell[u]
  <2>1. ASSUME NEW stream \in teStreams,
               teShell' = [teShell EXCEPT ![t] =
             [@ EXCEPT !.state = "live", !.active = TRUE, !.left = stream, !.reader = "run", !.waiter = "wait"]]
        PROVE  ShellsShellText(teShell'[t]) /\ \A u \in teTerminals \ {t} : teShell'[u] = teShell[u]
    <3>1. /\ teShell'[t].left = stream /\ teShell'[t].device = teShell[t].device /\ teShell'[t].read = teShell[t].read
          /\ teShell'[t].text = teShell[t].text /\ teShell'[t].pending = teShell[t].pending /\ teShell'[t].reader = "run"
      BY <1>1, <2>1 DEF ShellsShellOK, ShellsShellFields
    <3>2. stream \in Seq(ShellsBytes)
      BY DEF Shells!TerminalAssumption, ShellsBytes
    <3> QED BY <1>1, <2>1, <3>1, <3>2 DEF ShellsShellText, ShellsShown
  <2>2. CASE UNCHANGED teShell
    BY <1>1, <2>2
  <2> QED BY <2>1, <2>2 DEF Shells!Create
<1>4. ShellsTabText(teShell'[t], teTab'[t])
  <2>1. ShellsShowing(teTab'[t]) = ShellsShowing(teTab[t]) /\ teTab'[t].pc = teTab[t].pc
    BY <1>1 DEF Shells!Create, ShellsTabOK, ShellsTabFields, ShellsShowing
  <2>2. teShell'[t].text = teShell[t].text
    BY <1>1 DEF Shells!Create, ShellsShellOK, ShellsShellFields
  <2>3. ShellsTabText(teShell[t], teTab[t])
    BY DEF ShellsTextIInv
  <2> QED BY <2>1, <2>2, <2>3, ShellsTabTextLeft
<1>5. ASSUME NEW u \in teTerminals
      PROVE  ShellsShellText(teShell'[u]) /\ ShellsStartOK(teShell'[u], teTab'[u]) /\ ShellsTabText(teShell'[u], teTab'[u])
  BY <1>2, <1>3, <1>4 DEF ShellsTextIInv, ShellsStartOK, ShellsAwaited
<1> QED BY <1>5 DEF ShellsTextIInv

LEMMA ShellsTextShutdown ==
  ASSUME ShellsIInv, ShellsTextIInv, Shells!Shutdown
  PROVE  ShellsTextIInv'
<1>1. teTab' = teTab /\ teShell' = [t \in teTerminals |-> Shells!Killed(teShell[t])]
  BY DEF Shells!Shutdown
<1>2. ASSUME NEW t \in teTerminals
      PROVE  ShellsShellText(teShell'[t]) /\ ShellsStartOK(teShell'[t], teTab'[t]) /\ ShellsTabText(teShell'[t], teTab'[t])
  <2>1. ShellsShellText(teShell[t]) /\ ShellsShellOK(teShell[t]) /\ teShell'[t] = Shells!Killed(teShell[t])
    BY <1>1 DEF ShellsIInv, ShellsShellsOK, ShellsTextIInv
  <2>2. ShellsReading(teShell'[t]) = ShellsReading(teShell[t]) /\ teShell'[t].state = teShell[t].state
    BY <2>1 DEF Shells!Killed, ShellsShellOK, ShellsShellFields, ShellsReading
  <2>3. ShellsShellText(teShell'[t])
    BY <2>1, <2>2, ShellsTextLeft
  <2>4. ShellsTabText(teShell'[t], teTab'[t])
    BY <1>1, <2>2, ShellsTabTextLeft DEF ShellsTextIInv, ShellsReading
  <2> QED BY <1>1, <2>2, <2>3, <2>4 DEF ShellsTextIInv, ShellsStartOK, ShellsReading
<1> QED BY <1>2 DEF ShellsTextIInv

\* What ends, clears or feeds a shell does not touch its text.
LEMMA ShellsTextOthers ==
  ASSUME ShellsIInv, ShellsTextIInv, NEW t \in teTerminals,
         Shells!Written(t) \/ Shells!Close(t) \/ Shells!Reads(t) \/ Shells!Dies(t) \/ Shells!Waits(t) \/ Shells!TellsExit(t)
  PROVE  ShellsTextIInv'
<1>1. ShellsShellText(teShell[t]) /\ ShellsShellOK(teShell[t]) /\ DOMAIN teShell = teTerminals /\ DOMAIN teTab = teTerminals
      /\ \A u \in teTerminals : ShellsTabOK(teTab[u])
  BY DEF ShellsIInv, ShellsShellsOK, ShellsTabsOK, ShellsTextIInv
<1>2. /\ teTab'[t].pc = teTab[t].pc /\ teTab'[t].reply = teTab[t].reply /\ ShellsShowing(teTab'[t]) = ShellsShowing(teTab[t])
      /\ \A u \in teTerminals \ {t} : teTab'[u] = teTab[u]
  BY <1>1 DEF Shells!Written, Shells!Close, Shells!Reads, Shells!Dies, Shells!Waits,
    Shells!TellsExit, ShellsTabOK, ShellsTabFields, ShellsShowing
<1>3. ASSUME teShell' # teShell
      PROVE  \E s : /\ teShell' = [teShell EXCEPT ![t] = s] /\ ShellsReading(s) = ShellsReading(teShell[t])
                    /\ s.state = teShell[t].state \/ s.state = "dead"
  <2>1. CASE teShell' = [teShell EXCEPT ![t].input = @ + 1]
    <3> DEFINE s == [teShell[t] EXCEPT !.input = @ + 1]
    <3>1. ShellsReading(s) = ShellsReading(teShell[t]) /\ s.state = teShell[t].state
      BY <1>1 DEF ShellsShellOK, ShellsShellFields, ShellsReading
    <3> QED BY <2>1, <3>1
  <2>2. CASE teShell' = [teShell EXCEPT ![t].input = @ - 1]
    <3> DEFINE s == [teShell[t] EXCEPT !.input = @ - 1]
    <3>1. ShellsReading(s) = ShellsReading(teShell[t]) /\ s.state = teShell[t].state
      BY <1>1 DEF ShellsShellOK, ShellsShellFields, ShellsReading
    <3> QED BY <2>2, <3>1
  <2>3. CASE teShell' = [teShell EXCEPT ![t] = Shells!Killed(@)]
    <3>1. ShellsReading(Shells!Killed(teShell[t])) = ShellsReading(teShell[t]) /\ Shells!Killed(teShell[t]).state = teShell[t].state
      BY <1>1 DEF Shells!Killed, ShellsShellOK, ShellsShellFields, ShellsReading
    <3> QED BY <2>3, <3>1
  <2>4. CASE teShell' = [teShell EXCEPT ![t].state = "dead"]
    <3> DEFINE s == [teShell[t] EXCEPT !.state = "dead"]
    <3>1. ShellsReading(s) = ShellsReading(teShell[t]) /\ s.state = "dead"
      BY <1>1 DEF ShellsShellOK, ShellsShellFields, ShellsReading
    <3> QED BY <2>4, <3>1
  <2>5. CASE teShell' = [teShell EXCEPT ![t].waiter = "clear", ![t].active = FALSE]
    <3> DEFINE s == [teShell[t] EXCEPT !.waiter = "clear", !.active = FALSE]
    <3>1. ShellsReading(s) = ShellsReading(teShell[t]) /\ s.state = teShell[t].state
      BY <1>1 DEF ShellsShellOK, ShellsShellFields, ShellsReading
    <3>2. teShell' = [teShell EXCEPT ![t] = s]
      BY <1>1, <2>5
    <3> QED BY <3>1, <3>2
  <2>6. CASE teShell' = [teShell EXCEPT ![t].waiter = "done"]
    <3> DEFINE s == [teShell[t] EXCEPT !.waiter = "done"]
    <3>1. ShellsReading(s) = ShellsReading(teShell[t]) /\ s.state = teShell[t].state
      BY <1>1 DEF ShellsShellOK, ShellsShellFields, ShellsReading
    <3> QED BY <2>6, <3>1
  <2> QED BY <1>3, <2>1, <2>2, <2>3, <2>4, <2>5, <2>6 DEF Shells!Written, Shells!Close,
      Shells!Reads, Shells!Dies, Shells!Waits, Shells!TellsExit
<1>4. \A s : s.text = teShell[t].text => ShellsTabText(s, teTab'[t])
  BY <1>2, ShellsTabTextLeft DEF ShellsTextIInv
<1>5. CASE teShell' = teShell
  <2>1. ASSUME NEW u \in teTerminals
        PROVE  ShellsShellText(teShell'[u]) /\ ShellsStartOK(teShell'[u], teTab'[u]) /\ ShellsTabText(teShell'[u], teTab'[u])
    BY <1>2, <1>4, <1>5 DEF ShellsTextIInv, ShellsStartOK, ShellsAwaited
  <2> QED BY <2>1 DEF ShellsTextIInv
<1>6. CASE teShell' # teShell
  <2>1. PICK s : /\ teShell' = [teShell EXCEPT ![t] = s] /\ ShellsReading(s) = ShellsReading(teShell[t])
                 /\ s.state = teShell[t].state \/ s.state = "dead"
    BY <1>3, <1>6
  <2>2. ShellsShellText(s)
    BY <1>1, <2>1, ShellsTextLeft
  <2>3. s.reader = teShell[t].reader /\ ShellsTabText(s, teTab'[t])
    BY <1>4, <2>1 DEF ShellsReading
  <2> QED BY <1>2, <2>1, <2>2, <2>3, ShellsTextSteps
<1> QED BY <1>5, <1>6

LEMMA ShellsTextPrints ==
  ASSUME ShellsIInv, ShellsTextIInv, NEW t \in teTerminals, Shells!Prints(t)
  PROVE  ShellsTextIInv'
<1> DEFINE s == [teShell[t] EXCEPT !.left = Tail(@), !.device = Append(@, Head(teShell[t].left))]
<1>1. teShell' = [teShell EXCEPT ![t] = s] /\ teTab' = teTab /\ teShell[t].state = "live" /\ teShell[t].left # <<>>
  BY DEF Shells!Prints, ShellsIInv, ShellsShellsOK
<1>2. ShellsShellText(teShell[t]) /\ ShellsShellOK(teShell[t])
  BY DEF ShellsIInv, ShellsShellsOK, ShellsTextIInv
<1>3. /\ s.left = Tail(teShell[t].left) /\ s.device = Append(teShell[t].device, Head(teShell[t].left))
      /\ s.read = teShell[t].read /\ s.text = teShell[t].text /\ s.pending = teShell[t].pending
      /\ s.reader = teShell[t].reader /\ s.state = teShell[t].state
  BY <1>2 DEF ShellsShellOK, ShellsShellFields
<1>4. Tail(teShell[t].left) \in Seq(ShellsBytes) /\ Append(teShell[t].device, Head(teShell[t].left)) \in Seq(ShellsBytes)
  BY <1>1, <1>2, HeadTailProperties, AppendProperties DEF ShellsShellText
<1> HIDE DEF s
<1>5. ShellsShellText(s)
  BY <1>1, <1>2, <1>3, <1>4 DEF ShellsShellText, ShellsShown
<1>6. ShellsTabText(s, teTab'[t])
  BY <1>1, <1>3, ShellsTabTextLeft DEF ShellsTextIInv
<1> QED BY <1>1, <1>3, <1>5, <1>6, ShellsTextSteps

LEMMA ShellsTextReads ==
  ASSUME ShellsIInv, ShellsTextIInv, NEW t \in teTerminals, Shells!ReadOutput(t)
  PROVE  ShellsTextIInv'
<1>1. /\ teShell[t].reader = "run" /\ ShellsShellText(teShell[t]) /\ ShellsShellOK(teShell[t])
      /\ ShellsTabOK(teTab[t]) /\ ShellsTabText(teShell[t], teTab[t]) /\ DOMAIN teTab = teTerminals
  BY DEF Shells!ReadOutput, ShellsIInv, ShellsShellsOK, ShellsTabsOK, ShellsTextIInv
<1>2. ShellsShown(teShell[t])
  BY <1>1 DEF ShellsShellText
<1>0. ASSUME NEW s, NEW piece \in Seq(ShellsChars), s.text = ShellsCat(teShell[t].text, piece),
             teTab' = [teTab EXCEPT ![t] = Shells!Shows(@, piece)]
      PROVE  /\ ShellsTabText(s, teTab'[t]) /\ teTab'[t].pc = teTab[t].pc /\ teTab'[t].reply = teTab[t].reply
             /\ \A u \in teTerminals \ {t} : teTab'[u] = teTab[u]
  <2>1. teTab'[t] = Shells!Shows(teTab[t], piece) /\ \A u \in teTerminals \ {t} : teTab'[u] = teTab[u]
    BY <1>0, <1>1
  <2>2. Shells!Shows(teTab[t], piece).pc = teTab[t].pc /\ Shells!Shows(teTab[t], piece).reply = teTab[t].reply
    BY <1>1 DEF Shells!Shows, ShellsTabOK, ShellsTabFields
  <2>3. ShellsTabText(s, Shells!Shows(teTab[t], piece))
    BY <1>0, <1>1, ShellsTabTextShows
  <2> QED BY <2>1, <2>2, <2>3
<1>3. ASSUME NEW n \in 1..teMaxChunk, n <= Len(teShell[t].device), teShell' = [teShell EXCEPT ![t] = Shells!Taken(@, n)],
             teTab' = [teTab EXCEPT ![t] = Shells!Shows(@, Shells!Decoded(teShell[t], SubSeq(teShell[t].device, 1, n)))]
      PROVE  ShellsTextIInv'
  <2> DEFINE s == teShell[t]
             chunk == SubSeq(s.device, 1, n)
             rest == SubSeq(s.device, n + 1, Len(s.device))
             e == Shells!Emit(s, chunk)
             k == Shells!Taken(s, n)
  <2>1. chunk \in Seq(ShellsBytes) /\ rest \in Seq(ShellsBytes)
    BY <1>1, <1>3, SubSeqProperties DEF ShellsShellText
  <2>2. /\ e.read = s.read \o chunk
        /\ e.pending = (IF Shells!KeepsEnd(s.pending \o chunk) THEN <<"L">> ELSE <<>>)
        /\ e.text = s.text \o Shells!Decoded(s, chunk)
        /\ e.left = s.left /\ e.device = s.device /\ e.reader = s.reader /\ e.state = s.state
        /\ DOMAIN e = ShellsShellFields
    BY <1>1 DEF Shells!Emit, ShellsShellOK, ShellsShellFields
  <2>3. /\ ShellsShown(e) /\ e.read \in Seq(ShellsBytes) /\ e.text \in Seq(ShellsChars)
        /\ Shells!Decoded(s, chunk) \in Seq(ShellsChars) /\ e.text = ShellsCat(s.text, Shells!Decoded(s, chunk))
    <3>1. e.text = ShellsCat(s.text, Shells!Decoded(s, chunk))
      BY <2>2 DEF ShellsCat
    <3>2. s.read \in Seq(ShellsBytes) /\ s.text \in Seq(ShellsChars)
      BY <1>1 DEF ShellsShellText
    <3> QED BY <1>2, <2>1, <2>2, <3>1, <3>2, ShellsEmitShown
  <2>4. k = [e EXCEPT !.device = SubSeq(@, n + 1, Len(@))]
    BY DEF Shells!Taken
  <2> HIDE DEF e, k
  <2>5. /\ k.read = e.read /\ k.text = e.text /\ k.pending = e.pending /\ k.left = e.left
        /\ k.device = rest /\ k.reader = "run"
    BY <1>1, <2>2, <2>4 DEF ShellsShellFields
  <2>6. ShellsShellText(k)
    BY <1>1, <2>1, <2>2, <2>3, <2>5 DEF ShellsShellText, ShellsShown
  <2>7. teShell' = [teShell EXCEPT ![t] = k]
    BY <1>3 DEF k
  <2>8. k.text = ShellsCat(teShell[t].text, Shells!Decoded(teShell[t], SubSeq(teShell[t].device, 1, n)))
        /\ Shells!Decoded(teShell[t], SubSeq(teShell[t].device, 1, n)) \in Seq(ShellsChars)
    BY <2>3, <2>5
  <2>9. /\ ShellsTabText(k, teTab'[t]) /\ teTab'[t].pc = teTab[t].pc /\ teTab'[t].reply = teTab[t].reply
        /\ \A u \in teTerminals \ {t} : teTab'[u] = teTab[u]
    BY <1>0, <1>3, <2>8
  <2> QED BY <1>1, <2>5, <2>6, <2>7, <2>9, ShellsTextSteps
<1>4. ASSUME teShell[t].device = <<>>, teShell[t].state = "dead", teShell' = [teShell EXCEPT ![t] = Shells!Drained(@)],
             teTab' = [teTab EXCEPT ![t] = Shells!Shows(@, Shells!Lossy(teShell[t].pending))]
      PROVE  ShellsTextIInv'
  <2> DEFINE s == Shells!Drained(teShell[t])
  <2>1. teShell' = [teShell EXCEPT ![t] = s]
    BY <1>4
  <2>2. /\ s.reader = "done" /\ s.text = ShellsCat(teShell[t].text, Shells!Lossy(teShell[t].pending)) /\ s.pending = <<>>
        /\ s.left = teShell[t].left /\ s.device = <<>> /\ s.read = teShell[t].read /\ s.state = "dead"
    BY <1>1, <1>4 DEF Shells!Drained, ShellsShellOK, ShellsShellFields, ShellsCat
  <2> HIDE DEF s
  <2>3. teShell[t].text \in Seq(ShellsChars) /\ teShell[t].read \in Seq(ShellsBytes) /\ teShell[t].pending \in {<<>>, <<"L">>}
    BY <1>1, <1>2 DEF ShellsShellText, ShellsShown
  <2>4. <<>> \in Seq(ShellsChars) /\ <<"?">> \in Seq(ShellsChars) /\ <<>> \in Seq(ShellsBytes)
    BY DEF ShellsChars
  <2>5. Shells!Lossy(teShell[t].pending) \in Seq(ShellsChars)
    BY <2>3, <2>4, ShellsLossyFacts
  <2>6. s.text \in Seq(ShellsChars)
    BY <2>2, <2>3, <2>5, ShellsCatFacts
  <2>7. ~Shells!Scan(s.read).bad => s.text = Shells!Lossy(s.read)
    <3> SUFFICES ASSUME ~Shells!Scan(teShell[t].read).bad PROVE s.text = Shells!Lossy(teShell[t].read)
      BY <2>2
    <3>1. /\ teShell[t].text = Shells!Scan(teShell[t].read).text
          /\ teShell[t].pending = IF Shells!Scan(teShell[t].read).cut THEN <<"L">> ELSE <<>>
      BY <1>2 DEF ShellsShown
    <3>2. Shells!Lossy(teShell[t].pending) = IF Shells!Scan(teShell[t].read).cut THEN <<"?">> ELSE <<>>
      BY <3>1, ShellsLossyFacts
    <3>3. Shells!Lossy(teShell[t].read) = ShellsCat(Shells!Scan(teShell[t].read).text, IF Shells!Scan(teShell[t].read).cut THEN <<"?">> ELSE <<>>)
      BY <2>3, ShellsLossyFacts
    <3> QED BY <2>2, <3>1, <3>2, <3>3
  <2>8. ShellsShellText(s)
    BY <1>1, <2>2, <2>4, <2>6, <2>7 DEF ShellsShellText
  <2>9. /\ ShellsTabText(s, teTab'[t]) /\ teTab'[t].pc = teTab[t].pc /\ teTab'[t].reply = teTab[t].reply
        /\ \A u \in teTerminals \ {t} : teTab'[u] = teTab[u]
    BY <1>0, <1>4, <2>2, <2>5
  <2> QED BY <1>1, <2>1, <2>8, <2>9, ShellsTextSteps
<1> QED BY <1>3, <1>4 DEF Shells!ReadOutput

LEMMA ShellsTextTab ==
  ASSUME ShellsIInv, ShellsTextIInv, NEW t \in teTerminals,
         Shells!Mount(t) \/ Shells!Reply(t) \/ Shells!TimesOut(t) \/ Shells!HearsExit(t) \/ Shells!Unmount(t)
  PROVE  ShellsTextIInv'
<1>1. teShell' = teShell /\ ShellsTabOK(teTab[t]) /\ DOMAIN teTab = teTerminals
  BY DEF Shells!Mount, Shells!Reply, Shells!TimesOut, Shells!HearsExit, Shells!Unmount,
    ShellsIInv, ShellsTabsOK
<1>2. \A u \in teTerminals \ {t} : teTab'[u] = teTab[u]
  BY <1>1 DEF Shells!Mount, Shells!Reply, Shells!TimesOut, Shells!HearsExit,
    Shells!Unmount
<1>3. ShellsStartOK(teShell[t], teTab[t])
  BY DEF ShellsTextIInv
<1>4. /\ ShellsAwaited(teTab'[t]) => ShellsAwaited(teTab[t])
      /\ teTab'[t].reply = "asked" => teTab'[t].pc # "new"
      /\ ShellsShowing(teTab'[t]) = ShellsShowing(teTab[t])
      /\ teTab'[t].pc = "ready" => teTab[t].pc \in {"creating", "ready"}
      /\ teTab'[t].pc \in {"new", "creating"} => teTab[t].pc \in {"new", "creating"}
  <2>1. CASE Shells!Mount(t)
    BY <1>1, <1>3, <2>1 DEF Shells!Mount, ShellsTabOK, ShellsTabFields, ShellsAwaited,
      ShellsShowing
  <2>2. CASE Shells!Reply(t)
    BY <1>1, <1>3, <2>2 DEF Shells!Reply, ShellsTabOK, ShellsTabFields, ShellsAwaited,
      ShellsShowing
  <2>3. CASE Shells!TimesOut(t)
    BY <1>1, <1>3, <2>3 DEF Shells!TimesOut, ShellsTabOK, ShellsTabFields,
      ShellsAwaited, ShellsStartOK, ShellsShowing
  <2>4. CASE Shells!HearsExit(t)
    BY <1>1, <1>3, <2>4 DEF Shells!HearsExit, ShellsTabOK, ShellsTabFields,
      ShellsAwaited, ShellsStartOK, ShellsShowing
  <2>5. CASE Shells!Unmount(t)
    BY <1>1, <1>3, <2>5 DEF Shells!Unmount, ShellsTabOK, ShellsTabFields, ShellsAwaited,
      ShellsStartOK, ShellsShowing
  <2> QED BY <2>1, <2>2, <2>3, <2>4, <2>5
<1>5. ShellsTabText(teShell[t], teTab'[t])
  BY <1>4, ShellsTabTextLeft DEF ShellsTextIInv
<1>6. ASSUME NEW u \in teTerminals
      PROVE  ShellsShellText(teShell'[u]) /\ ShellsStartOK(teShell'[u], teTab'[u]) /\ ShellsTabText(teShell'[u], teTab'[u])
  BY <1>1, <1>2, <1>3, <1>4, <1>5 DEF ShellsTextIInv, ShellsStartOK
<1> QED BY <1>6 DEF ShellsTextIInv

(* A text that is UTF-8 is emitted as it was written, however it is cut     *)
(* into chunks, nothing is kept back at the end, and a tab shows all that   *)
(* is emitted while it is ready.                                            *)
THEOREM ShellsTextIsWhole ==
  ASSUME Shells!TerminalAssumption
  PROVE  Shells!Spec => []Shells!TextWhole
<1>1. Shells!Init => ShellsTextIInv
  BY ShellsTextInit
<1>2. ShellsIInv /\ ShellsTextIInv /\ [Shells!Next]_Shells!vars => ShellsTextIInv'
  <2> SUFFICES ASSUME ShellsIInv, ShellsTextIInv, [Shells!Next]_Shells!vars PROVE ShellsTextIInv'
    OBVIOUS
  <2>1. CASE UNCHANGED Shells!vars
    BY <2>1 DEF Shells!vars, ShellsTextIInv
  <2>2. CASE Shells!Shutdown
    BY <2>2, ShellsTextShutdown
  <2>3. ASSUME NEW t \in teTerminals, Shells!Commands(t) \/ Shells!Threads(t) \/ Shells!Prints(t) \/ Shells!Reads(t) \/ Shells!Dies(t) PROVE ShellsTextIInv'
    BY <2>3, ShellsTextCreate, ShellsTextOthers, ShellsTextReads, ShellsTextPrints
      DEF Shells!Commands, Shells!Threads
  <2>4. ASSUME NEW t \in teTerminals, Shells!Write(t) PROVE ShellsTextIInv'
    BY <2>4 DEF Shells!Write, ShellsTextIInv
  <2>5. ASSUME NEW t \in teTerminals,
               Shells!Mount(t) \/ Shells!Reply(t) \/ Shells!TimesOut(t) \/ Shells!HearsExit(t) \/ Shells!Unmount(t)
        PROVE  ShellsTextIInv'
    BY <2>5, ShellsTextTab
  <2> QED BY <2>1, <2>2, <2>3, <2>4, <2>5 DEF Shells!Next
<1>3. ShellsTextIInv => Shells!TextWhole
  BY DEF ShellsTextIInv, ShellsShellText, ShellsShown, ShellsTabText, ShellsCat,
    Shells!TextWhole
<1> QED BY ShellsInvariance, <1>1, <1>2, <1>3, PTL DEF Shells!Spec
-----------------------------------------------------------------------------
(* What the parts promise, for Services.                                    *)
LEMMA FoldersPart == Spec => Folders!Spec
<1>1. Init => Folders!Init
  BY DEF Init
<1>2. [Next]_vars => [Folders!Next]_Folders!vars
  BY DEF Next, vars, foVars, Folders!vars
<1> QED BY <1>1, <1>2, PTL DEF Spec, Folders!Spec

LEMMA RepositoryPart == Spec => Repository!Spec
<1>1. Init => Repository!Init
  BY DEF Init
<1>2. [Next]_vars => [Repository!Next]_Repository!vars
  BY DEF Next, vars, reVars, Repository!vars, Repository!window
<1> QED BY <1>1, <1>2, PTL DEF Spec, Repository!Spec

LEMMA SettingsPart == Spec => Settings!Spec
<1>1. Init => Settings!Init
  BY DEF Init
<1>2. [Next]_vars => [Settings!Next]_Settings!vars
  BY DEF Next, vars, sfVars, Settings!vars
<1> QED BY <1>1, <1>2, PTL DEF Spec, Settings!Spec

LEMMA DocumentsPart == Spec => Documents!Spec
<1>1. Init => Documents!Init
  BY DEF Init
<1>2. [Next]_vars => [Documents!Next]_Documents!vars
  BY DEF Next, vars, ofVars, Documents!vars
<1> QED BY <1>1, <1>2, PTL DEF Spec, Documents!Spec

LEMMA DatabasePart == Spec => Database!Spec
<1>1. Init => Database!Init
  BY DEF Init
<1>2. [Next]_vars => [Database!Next]_Database!vars
  BY DEF Next, vars, dbVars, Database!vars
<1> QED BY <1>1, <1>2, PTL DEF Spec, Database!Spec

LEMMA ShellsPart == Spec => Shells!Spec
<1>1. Init => Shells!Init
  BY DEF Init
<1>2. [Next]_vars => [Shells!Next]_Shells!vars
  BY DEF Next, vars, teVars, Shells!vars
<1> QED BY <1>1, <1>2, PTL DEF Spec, Shells!Spec

LEMMA ConnectsPart == Spec => Connects!Spec
<1>1. Init => Connects!Init
  BY DEF Init
<1>2. [Next]_vars => [Connects!Next]_Connects!vars
  BY DEF Next, vars, fmVars, Connects!vars
<1> QED BY <1>1, <1>2, PTL DEF Spec, Connects!Spec

LEMMA ListingsPart == Spec => Listings!Spec
<1>1. Init => Listings!Init
  BY DEF Init
<1>2. [Next]_vars => [Listings!Next]_Listings!vars
  BY DEF Next, vars, liVars, Listings!vars
<1> QED BY <1>1, <1>2, PTL DEF Spec, Listings!Spec

(* Once the requests are through, a folder is watched exactly while somebody *)
(* shows it and a repository has its record exactly while somebody views it, *)
(* by one thread that nobody told to stop, but for a folder whose request    *)
(* was refused or whose failed watcher was removed, and a repository whose   *)
(* last request was refused; for any number of panels, paths, watchers,      *)
(* refusals, failures and changes (filesystem/watch.rs, git.rs, and the      *)
(* registries of the window).                                                *)
THEOREM WatchesAreTrue == Spec => []WatchesTrue
<1>1. Folders!WatchAssumption /\ Repository!GitAssumption
  BY Instances
<1>2. Folders!Spec => []Folders!TypeOK /\ []Folders!WatchedIffShown
  BY <1>1, FoldersTypeCorrect, FoldersWatchesFollow
<1>3. Repository!Spec => []Repository!TypeOK /\ []Repository!OneMonitor
  BY <1>1, RepositoryTypeCorrect, RepositoryOneWatches
<1>4. Repository!Spec => []Repository!RecordIffShown
  BY <1>1, RepositoryRecordFollows
<1> QED BY <1>2, <1>3, <1>4, FoldersPart, RepositoryPart, PTL DEF WatchesTrue

(* A load and an update keep each usable profile, the first of its id, and   *)
(* add none; no two share an id and none has a secret; a trust stands beside *)
(* the endpoint that it was given for; what a restart reads is what is in    *)
(* memory, unless a name was cut at a blank or the files exceed the limit; a *)
(* newer file that was looked at stays until another build writes again; and *)
(* a text that is UTF-8 is emitted as the shell wrote it and shown while its *)
(* tab knows the session: for any lists, files, versions, other builds,      *)
(* terminals and outputs (settings/mod.rs, terminal/mod.rs, useTerminal.js). *)
THEOREM SettingsAreKept == Spec => SettingsKept
<1>1. Settings!SettingsFileAssumption /\ Shells!TerminalAssumption
  BY Instances
<1>2. Settings!Spec => []Settings!TypeOK /\ []Settings!ProfilesApart
  BY <1>1, SettingsTypeCorrect, SettingsProfilesAreApart
<1>3. Settings!Spec => []Settings!TrustStaysWithEndpoint /\ []Settings!RestartLoadsSame
  BY <1>1, SettingsTrustStays, SettingsRestartsLoadSame
<1>4. Shells!Spec => []Shells!TextWhole
  BY <1>1, ShellsTextIsWhole
<1>5. Settings!Spec => Settings!ProfilesKept
  BY <1>1, SettingsProfilesAreKept
<1>6. Settings!Spec => Settings!NewerKept
  BY <1>1, SettingsNewerIsKept
<1> QED BY <1>2, <1>3, <1>4, <1>5, <1>6, SettingsPart, ShellsPart, PTL DEF SettingsKept

(* A document comes from the one engine and is the request's own, an answer  *)
(* tells the transaction that a script leaves, a stopped script is rolled    *)
(* back and stays in its file, and behind an orderly end of the application  *)
(* no shell was left untold and the startup directory it recorded is gone,   *)
(* for any number of requests, engines, sessions, scripts and terminals      *)
(* (office.rs, sqlite.rs, terminal/mod.rs).                                  *)
THEOREM ServicesAreTrue == Spec => []ServicesTrue
<1>1. Documents!OfficeAssumption /\ Database!SqliteAssumption /\ Shells!TerminalAssumption
  BY Instances
<1>2. Documents!Spec => []Documents!TypeOK /\ []Documents!OneEngine
  BY <1>1, DocumentsTypeCorrect, DocumentsOneEngineRuns
<1>3. Documents!Spec => []Documents!OwnResult /\ []Documents!NoWorkLost
  BY <1>1, DocumentsResultsAreOwn, DocumentsWorkIsKept
<1>4. Database!Spec => []Database!TypeOK /\ []Database!AnswerTellsTransaction
  BY <1>1, DatabaseTypeCorrect, DatabaseAnswersTell
<1>5. Database!Spec => []Database!StoppedRollsBack /\ []Database!ScopedToFile
  BY <1>1, DatabaseStopsRollBack, DatabaseScriptsStay
<1>6. Shells!Spec => []Shells!TypeOK /\ []Shells!NothingOutlives
  BY <1>1, ShellsTypeCorrect, ShellsNoneOutlives
<1> QED BY <1>2, <1>3, <1>4, <1>5, <1>6, DocumentsPart, DatabasePart, ShellsPart, PTL
        DEF ServicesTrue

(* A password goes only over what its profile allows, and to the endpoint it *)
(* was typed for unless a further session reads it after its profile has     *)
(* moved; only a proven one is kept; a listing, a stat and a read say what   *)
(* the server has, but for items on lines of LIST that no parser reads and   *)
(* items the server denies; for any number of attempts, profiles,            *)
(* certificates, names and calls (ftp/mod.rs, ftp/pool.rs, ftp/listing.rs,   *)
(* ftp/connection.rs).                                                       *)
THEOREM ConnectionsAreSafe == Spec => []ConnectionsSafe
<1>1. Connects!ConnectAssumption /\ Listings!NamesAssumption
  BY Instances
<1>2. Connects!Spec => []Connects!TypeOK /\ []Connects!SecretsProtected
  BY <1>1, ConnectsTypeCorrect, ConnectsSecretsAreProtected
<1>3. Connects!Spec => []Connects!SavedIsProven /\ []Connects!PasswordKeepsEndpoint
  BY <1>1, ConnectsSavedWasProven, ConnectsPasswordGoesHome
<1>4. Connects!Spec => []Connects!RegisteredIsCurrent
  BY <1>1, ConnectsRegistrationIsCurrent
<1>5. Listings!Spec => []Listings!TypeOK /\ []Listings!ListingWhole
  BY <1>1, ListingsTypeCorrect, ListingsListingsAreWhole
<1>6. Listings!Spec => []Listings!StatTrue /\ []Listings!ReadLimited
  BY <1>1, ListingsStatsAreTrue, ListingsReadsAreLimited
<1> QED BY <1>2, <1>3, <1>4, <1>5, <1>6, ConnectsPart, ListingsPart, PTL
        DEF ConnectionsSafe
=============================================================================
