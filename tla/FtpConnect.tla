----------------------------- MODULE FtpConnect -----------------------------
(***************************************************************************)
(* Connecting a saved FTP or FTPS profile: ftp/mod.rs connect, the          *)
(* handshake of ftp/connection.rs FtpSession::connect, the certificate      *)
(* policy of ftp/tls.rs, the password source of ftp/pool.rs, and the steps  *)
(* of a settings update that reach an FTP profile.                          *)
(*                                                                         *)
(* One profile id is followed.  The settings window rewrites the profile,   *)
(* several callers connect, the pool of a connection opens further          *)
(* sessions, and the server answers, refuses, stalls or presents another    *)
(* certificate between two handshakes.  Hosts are named by the profiles;    *)
(* a password is told apart by the endpoint it was typed for and by whether *)
(* the server accepts it.                                                   *)
(***************************************************************************)
EXTENDS Naturals

CONSTANTS
    Attempts,       \* calls that open a session
    Profiles,       \* [host, mode, pin, ack, save]: what may be saved
    Certs,          \* the certificates a server may present
    Trusted,        \* those the platform verifier accepts for the host
    MaxUpdates,     \* settings updates
    Mixes,          \* [attempts, profiles, certs, upsets] that occur together, upsets:
                    \* changes of the certificate and passwords that cannot be saved
    None

VARIABLES
    saved,      \* the profile in settings.json, or None
    store,      \* the saved password: [for, right], or None
    lock,       \* who holds profile_updates: an attempt, "update" or None
    registered, \* the connection of the profile: [profile, typed], or None
    cert,       \* what the server presents to the next handshake
    at,         \* the attempts; `moved` is a ghost: the saved profile had another
                \* endpoint, or was gone, when the attempt read the saved password
    updates, upsets

vars == <<saved, store, lock, registered, cert, at, updates, upsets>>

\* Host, TLS mode and pin: what a password was entered for.
Endpoint(p) == <<p.host, p.mode, p.pin>>
Passwords == [for: {Endpoint(p) : p \in Profiles}, right: BOOLEAN]
Connections == [profile: Profiles, typed: Passwords \cup {None}]

Idle == [stage |-> "idle", kind |-> None, profile |-> None, typed |-> None, secret |-> None,
         seen |-> None, private |-> FALSE, data |-> None, moved |-> FALSE]

Stages == {"idle", "load", "password", "socket", "auth", "shake", "protect", "login",
           "sent", "in", "ready", "proven", "saved"}

-----------------------------------------------------------------------------
(* The pieces the steps are made of. *)

\* EndpointVerifier: a pin accepts exactly its certificate, and no other one.
Accepts(p, c) == IF p.pin = None THEN c \in Trusted ELSE c = p.pin

\* Credentials::password: the typed one, or the saved one of this profile.
Password(p, typed) ==
    IF typed # None THEN typed
    ELSE IF p.save THEN store ELSE None

\* A profile that is removed, or has another endpoint.
Moved(old, new) == new = None \/ Endpoint(new) # Endpoint(old)

\* The first command on a fresh socket depends on the TLS mode.
First(p) == CASE p.mode = "plain"    -> "login"
              [] p.mode = "explicit" -> "auth"
              [] p.mode = "implicit" -> "shake"

Becomes(a, stage) == at' = [at EXCEPT ![a].stage = stage]

\* The bound of a behaviour: who is busy while which profiles are in use.
Busy == {a \in Attempts : at[a].stage # "idle"}
InUse == {at[a].profile : a \in Busy} \cup (IF registered = None THEN {} ELSE {registered.profile})
May(who, profile, turns) ==
    \E m \in Mixes : /\ who \subseteq m.attempts
                     /\ InUse \cup {profile} \subseteq m.profiles \cup {None}
                     /\ cert \in m.certs
                     /\ turns <= m.upsets
Begins(a) == at[a].stage = "idle" /\ May(Busy \cup {a}, saved, upsets)

\* The attempt ends, and with it the lock a connect command holds.
End(a) == /\ at' = [at EXCEPT ![a] = Idle]
          /\ lock' = IF lock = a THEN None ELSE lock

Init ==
    /\ saved \in Profiles
    /\ store = None
    /\ lock = None
    /\ registered = None
    /\ cert \in Certs
    /\ at = [a \in Attempts |-> Idle]
    /\ updates = 0 /\ upsets = 0

-----------------------------------------------------------------------------
(* FtpManager::connect up to the network.  The lock is kept to the end.     *)

\* mutant: the lock is taken for the registration only
ConnectUnlocked(a) ==
    /\ Begins(a)
    /\ at' = [at EXCEPT ![a].stage = "load", ![a].kind = "connect"]
    /\ UNCHANGED <<saved, store, lock, registered, cert, updates, upsets>>

Connect(a) ==
    /\ Begins(a) /\ lock = None
    /\ lock' = a
    /\ at' = [at EXCEPT ![a].stage = "load", ![a].kind = "connect"]
    /\ UNCHANGED <<saved, store, registered, cert, updates, upsets>>

\* saved_profile, validate_profile and the acknowledgement of plain FTP.
Load(a) ==
    /\ at[a].stage = "load"
    /\ IF saved = None \/ (saved # None /\ saved.mode = "plain" /\ ~saved.ack)
       THEN End(a)
       ELSE /\ \E t \in {None} \cup [for: {Endpoint(saved)}, right: BOOLEAN] :
                  at' = [at EXCEPT ![a].stage = "password", ![a].profile = saved, ![a].typed = t]
            /\ UNCHANGED lock
    /\ UNCHANGED <<saved, store, registered, cert, updates, upsets>>

\* Credentials::password; without one the attempt ends and asks for it.
Take(a) ==
    /\ at[a].stage = "password"
    /\ LET p == at[a].profile
           secret == Password(p, at[a].typed)
       IN  IF secret = None THEN End(a)
           ELSE /\ at' = [at EXCEPT ![a].stage = "socket", ![a].secret = secret,
                                    ![a].moved = at[a].typed = None /\ Moved(p, saved)]
                /\ UNCHANGED lock
    /\ UNCHANGED <<saved, store, registered, cert, updates, upsets>>

\* FtpConnection::lease opens another session: the connection was looked up
\* and found connected; spec() reads the password later, without the lock.
Lease(a) ==
    /\ Begins(a) /\ registered # None
    /\ at' = [at EXCEPT ![a].stage = "password", ![a].kind = "lease",
                        ![a].profile = registered.profile, ![a].typed = registered.typed]
    /\ UNCHANGED <<saved, store, lock, registered, cert, updates, upsets>>

\* operation_connections takes profile and password under the lock; the
\* helper opens its session with the copy.
Snapshot(a) ==
    /\ Begins(a) /\ registered # None /\ lock = None
    /\ LET secret == Password(registered.profile, registered.typed)
       IN  /\ secret # None
           /\ at' = [at EXCEPT ![a].stage = "socket", ![a].kind = "helper",
                               ![a].profile = registered.profile, ![a].secret = secret]
    /\ UNCHANGED <<saved, store, lock, registered, cert, updates, upsets>>

-----------------------------------------------------------------------------
(* FtpSession::connect.                                                      *)

\* connect_host, and the greeting.
Socket(a) ==
    /\ at[a].stage = "socket"
    /\ Becomes(a, First(at[a].profile))
    /\ UNCHANGED <<saved, store, lock, registered, cert, updates, upsets>>

\* mutant: a server that does not know AUTH TLS is used in clear text
AuthTlsOrPlain(a) ==
    /\ at[a].stage = "auth"
    /\ \E next \in {"shake", "login"} : Becomes(a, next)
    /\ UNCHANGED <<saved, store, lock, registered, cert, updates, upsets>>

\* AUTH TLS accepted.  A refusal is one of the ends of Fails.
AuthTls(a) ==
    /\ at[a].stage = "auth"
    /\ Becomes(a, "shake")
    /\ UNCHANGED <<saved, store, lock, registered, cert, updates, upsets>>

\* The handshake: the verifier sees the certificate presented now.  A refused
\* one is recorded for the dialog and ends the attempt.
Handshake(a) ==
    /\ at[a].stage = "shake"
    /\ IF Accepts(at[a].profile, cert)
       THEN /\ at' = [at EXCEPT ![a].stage = "protect", ![a].seen = cert]
            /\ UNCHANGED lock
       ELSE End(a)
    /\ UNCHANGED <<saved, store, registered, cert, updates, upsets>>

\* PBSZ 0 and PROT P accepted.
Protect(a) ==
    /\ at[a].stage = "protect"
    /\ at' = [at EXCEPT ![a].stage = "login", ![a].private = TRUE]
    /\ UNCHANGED <<saved, store, lock, registered, cert, updates, upsets>>

\* mutant: a typed password is saved as soon as it is used
LoginSaves(a) ==
    /\ at[a].stage = "login"
    /\ Becomes(a, "sent")
    /\ store' = IF at[a].kind = "connect" /\ at[a].typed # None /\ at[a].profile.save
                THEN at[a].typed ELSE store
    /\ UNCHANGED <<saved, lock, registered, cert, updates, upsets>>

\* USER and PASS go out.
Login(a) ==
    /\ at[a].stage = "login"
    /\ Becomes(a, "sent")
    /\ UNCHANGED <<saved, store, lock, registered, cert, updates, upsets>>

\* The server's answer: only the right password is let in.
Answer(a) ==
    /\ at[a].stage = "sent"
    /\ IF at[a].secret.right
       THEN Becomes(a, "in") /\ UNCHANGED lock
       ELSE End(a)
    /\ UNCHANGED <<saved, store, registered, cert, updates, upsets>>

\* negotiate and TYPE I.  A session of a lease or of the helper is in use
\* from here; a connect goes on to the initial directory.
Negotiate(a) ==
    /\ at[a].stage = "in" /\ at[a].data = None
    /\ Becomes(a, "ready")
    /\ UNCHANGED <<saved, store, lock, registered, cert, updates, upsets>>

\* mutant: data connections trust what the control connection has verified
DataUnchecked(a) ==
    /\ at[a].stage = "ready" /\ at[a].kind # "connect" /\ at[a].data = None
    /\ at' = [at EXCEPT ![a].data = IF at[a].profile.mode = "plain" THEN "clear" ELSE cert]
    /\ UNCHANGED <<saved, store, lock, registered, cert, updates, upsets>>

\* A data connection of an open session: the same verifier, the certificate
\* that is presented now, the protection that PROT P asked for.
Data(a) ==
    /\ at[a].stage = "ready" /\ at[a].kind # "connect" /\ at[a].data = None
    /\ LET p == at[a].profile
       IN  IF p.mode = "plain" THEN at' = [at EXCEPT ![a].data = "clear"]
           ELSE IF Accepts(p, cert) THEN at' = [at EXCEPT ![a].data = cert]
           ELSE UNCHANGED at
    /\ UNCHANGED <<saved, store, lock, registered, cert, updates, upsets>>

\* The session of a lease or of the helper has done its work.
Done(a) ==
    /\ at[a].stage = "ready" /\ at[a].kind # "connect"
    /\ End(a)
    /\ UNCHANGED <<saved, store, registered, cert, updates, upsets>>

-----------------------------------------------------------------------------
(* The rest of connect.                                                      *)

\* PWD, then the initial path is a directory.
Enter(a) ==
    /\ at[a].stage = "ready" /\ at[a].kind = "connect"
    /\ Becomes(a, "proven")
    /\ UNCHANGED <<saved, store, lock, registered, cert, updates, upsets>>

\* The typed password is saved when the profile asks for it; then the
\* connection keeps no copy.  A failure keeps the copy and warns.
Save(a) ==
    /\ at[a].stage = "proven"
    /\ \/ /\ at[a].typed # None /\ at[a].profile.save
          /\ store' = at[a].typed
          /\ at' = [at EXCEPT ![a].stage = "saved", ![a].typed = None]
          /\ UNCHANGED upsets
       \/ /\ at[a].typed # None /\ at[a].profile.save
          /\ May(Busy, saved, upsets + 1) /\ upsets' = upsets + 1
          /\ Becomes(a, "saved")
          /\ UNCHANGED store
       \/ /\ at[a].typed = None \/ ~at[a].profile.save
          /\ Becomes(a, "saved")
          /\ UNCHANGED <<store, upsets>>
    /\ UNCHANGED <<saved, lock, registered, cert, updates>>

\* The connection replaces the previous one, which is closed (SessionPool
\* and FtpPool go on from there).
Register(a) ==
    /\ at[a].stage = "saved"
    /\ registered' = [profile |-> at[a].profile, typed |-> at[a].typed]
    /\ End(a)
    /\ UNCHANGED <<saved, store, cert, updates, upsets>>

\* mutant: the timeouts are set when the session is established
WaitingAfterLogin == {"socket", "in", "ready"}

\* Whatever is awaited from the server does not come: a refusal, a lost
\* connection, or the timeout of the socket, which every stage has.
Waiting == {"socket", "auth", "shake", "protect", "login", "sent", "in", "ready"}

Fails(a) ==
    /\ at[a].stage \in Waiting
    /\ End(a)
    /\ UNCHANGED <<saved, store, registered, cert, updates, upsets>>

-----------------------------------------------------------------------------
(* What the connect commands meet.                                           *)

\* reconcile_with_commit: what ends the session, and what removes the
\* password.  A protocol change (plain to FTPS and back) never pairs.
EndsSession(old, new) == Moved(old, new) \/ new.save # old.save

\* reset_changed_connection_trust: an acknowledgement does not move with
\* the host, nor a pin with host or mode.
Reset(old, new) ==
    [new EXCEPT !.ack = @ /\ (old = None \/ (new.host = old.host /\ new.mode = old.mode)),
                !.pin = IF old = None \/ (new.host = old.host /\ new.mode = old.mode)
                        THEN @ ELSE None]

\* What a profile is, and that a profile whose trust was reset is one.
ConnectAssumption ==
    /\ Trusted \subseteq Certs /\ None \notin Certs
    /\ None \notin Attempts /\ "update" \notin Attempts /\ None # "update"
    /\ Profiles \subseteq [host: {p.host : p \in Profiles},
                           mode: {"plain", "explicit", "implicit"},
                           pin: Certs \cup {None}, ack: BOOLEAN, save: BOOLEAN]
    /\ \A old, new \in Profiles : Reset(old, new) \in Profiles
    /\ MaxUpdates \in Nat
    /\ Mixes \subseteq [attempts: SUBSET Attempts, profiles: SUBSET Profiles,
                        certs: SUBSET Certs, upsets: Nat]

\* settings_update: secrets, then the file, under the lock; the session of a
\* changed profile is ended before the lock is released.
Update(new) ==
    /\ updates < MaxUpdates /\ lock = None
    /\ LET next == IF new = None \/ saved = None THEN new ELSE Reset(saved, new)
       IN  /\ next # saved /\ May(Busy, next, upsets)
           /\ saved' = next
           /\ store' = IF saved # None /\ (Moved(saved, next) \/ ~next.save) THEN None ELSE store
           /\ lock' = IF saved # None /\ EndsSession(saved, next) THEN "update" ELSE None
    /\ updates' = updates + 1
    /\ UNCHANGED <<registered, cert, at, upsets>>

Unregister == registered' = None

UpdateEnds ==
    /\ lock = "update"
    /\ Unregister
    /\ lock' = None
    /\ UNCHANGED <<saved, store, cert, at, updates, upsets>>

\* ftp_disconnect does not wait for the lock: a connect under way registers.
Disconnect ==
    /\ registered # None
    /\ Unregister
    /\ UNCHANGED <<saved, store, lock, cert, at, updates, upsets>>

\* The server is given another certificate, or somebody stands in for it.
Rotate(c) ==
    /\ May(Busy, saved, upsets + 1) /\ c # cert
    /\ cert' = c
    /\ upsets' = upsets + 1
    /\ UNCHANGED <<saved, store, lock, registered, at, updates>>

Steps(a) ==
    \/ Load(a) \/ Take(a) \/ Socket(a) \/ AuthTls(a) \/ Handshake(a) \/ Protect(a)
    \/ Login(a) \/ Answer(a) \/ Negotiate(a) \/ Done(a) \/ Enter(a) \/ Save(a)
    \/ Register(a)

Next ==
    \/ \E a \in Attempts : Connect(a) \/ Lease(a) \/ Snapshot(a) \/ Steps(a) \/ Data(a) \/ Fails(a)
    \/ \E p \in Profiles \cup {None} : Update(p)
    \/ UpdateEnds \/ Disconnect
    \/ \E c \in Certs : Rotate(c)

Spec == Init /\ [][Next]_vars

\* The program's own steps and the socket timeouts; never an answer.
Own(a) == Load(a) \/ Take(a) \/ Login(a) \/ Save(a) \/ Register(a)

Fairness ==
    /\ \A a \in Attempts : WF_vars(Own(a)) /\ WF_vars(Fails(a))
    /\ WF_vars(UpdateEnds)

-----------------------------------------------------------------------------
TypeOK ==
    /\ saved \in Profiles \cup {None}
    /\ store \in Passwords \cup {None}
    /\ lock \in Attempts \cup {"update", None}
    /\ registered \in Connections \cup {None}
    /\ cert \in Certs
    /\ \A a \in Attempts : /\ at[a].stage \in Stages
                           /\ at[a].profile \in Profiles \cup {None}
                           /\ at[a].typed \in Passwords \cup {None}
                           /\ at[a].secret \in Passwords \cup {None}

\* A password that is out (sent, or a session that grew from it).
Out(a) == at[a].stage \in {"sent", "in", "ready", "proven", "saved"}

(***************************************************************************)
(* connection.rs "Only now, on a verified connection (or an acknowledged    *)
(* plain one), are credentials sent", for every way a session comes about   *)
(* and whatever the server refuses or presents: over TLS after a            *)
(* certificate the profile accepts and PROT P, or in clear text by a        *)
(* profile whose owner has acknowledged that.  Data connections too.        *)
(***************************************************************************)
SecretsProtected ==
    \A a \in Attempts : Out(a) =>
        LET p == at[a].profile
        IN  IF p.mode = "plain" THEN p.ack
            ELSE /\ at[a].private
                 /\ at[a].seen \in (IF p.pin = None THEN Trusted ELSE {p.pin})
                 /\ at[a].data \in {None} \cup (IF p.pin = None THEN Trusted ELSE {p.pin})

(***************************************************************************)
(* docs/ftp-ftps.md: a typed password is saved "only after the TLS check,   *)
(* login and the initial directory check succeeded, and only when           *)
(* savePassword is set".  Against the profile that is saved now: the saved  *)
(* password was accepted by the server and belongs to the endpoint, whose   *)
(* profile still asks for it.                                               *)
(***************************************************************************)
SavedIsProven ==
    (store # None) =>
        /\ store.right
        /\ saved # None
        /\ saved.save /\ store.for = Endpoint(saved)

(***************************************************************************)
(* A password is sent to the endpoint it was typed for, by a connect, by a  *)
(* helper and by a further session of a connection, whatever is saved       *)
(* meanwhile.  The one exception: a further session reads the store without *)
(* the lock, and the profile had moved to another endpoint between the      *)
(* lookup of its connection and that read.                                  *)
(***************************************************************************)
PasswordKeepsEndpoint ==
    \A a \in Attempts : Out(a) =>
        \/ at[a].secret.for = Endpoint(at[a].profile)
        \/ at[a].kind = "lease" /\ at[a].moved

(* Does not hold: a further session that reads the store after the profile  *)
(* was moved sends the password of the new endpoint to the old one          *)
(* (pool.rs:113, which takes no lock).                                      *)
LeaseKeepsEndpoint ==
    \A a \in Attempts : Out(a) => at[a].secret.for = Endpoint(at[a].profile)

(***************************************************************************)
(* A connection is registered with the endpoint and the password rule of    *)
(* the profile that is saved, "so a session is never registered with        *)
(* outdated settings": the lock is held over the whole connect.             *)
(***************************************************************************)
RegisteredIsCurrent ==
    (registered # None /\ lock # "update") =>
        /\ saved # None
        /\ Endpoint(registered.profile) = Endpoint(saved)
        /\ registered.profile.save = saved.save

(***************************************************************************)
(* A connect that a server leaves without an answer ends, and gives back    *)
(* the lock every settings update waits for.                                *)
(***************************************************************************)
LockReturns == \A a \in Attempts : []<>(lock # a)
=============================================================================
