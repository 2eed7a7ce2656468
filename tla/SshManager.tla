----------------------------- MODULE SshManager -----------------------------
(***************************************************************************)
(* The SFTP connections of one saved profile: the map of the manager       *)
(* (src-tauri/src/ssh.rs), the saved profile (commands/settings.rs) and    *)
(* its password in the credential store (credential_store.rs).             *)
(*                                                                         *)
(* Two locks order the threads.  `profile_updates` is held during a whole  *)
(* connect, settings update, Forget, terminal start and operation          *)
(* snapshot; the lock of the map only during one access to it.  A          *)
(* disconnect takes the second and not the first.                          *)
(*                                                                         *)
(* A secret is named by the host it belongs to, so that using it for       *)
(* another one shows.                                                      *)
(*                                                                         *)
(* Abstracted: the other fields of a profile and the key passphrase, which *)
(* are treated as host and password are; host keys, agents and key files,  *)
(* by which a connect may succeed without a secret; status events; what is *)
(* read and written.  A connection may be lost at any moment.              *)
(***************************************************************************)
EXTENDS Naturals

CONSTANTS
  Threads,   \* the threads that run commands
  Hosts,     \* endpoints
  MaxConns,  \* bound: attempts to connect in a run
  None

Profiles == [host : Hosts, save : BOOLEAN]
Secrets  == Hosts \cup {None}

ASSUME SshAssumption ==
  /\ MaxConns \in Nat
  /\ None \notin Threads \cup Hosts \cup Profiles

VARIABLES
  settings,   \* the saved profile, None if it was removed
  store,      \* the saved password, None if there is none
  lock,       \* the owner of profile_updates
  made,       \* attempts to connect so far; they number the connections
  conn,       \* the connection of each attempt that succeeded
  current,    \* the connection in the map, 0 if there is none
  pc, call,   \* what each thread does, and for which command
  forgotten,  \* its password was forgotten after the user last connected
  astray      \* who used a secret for a host it does not belong to

callers == <<pc, call>>
ghosts  == <<forgotten, astray>>
vars    == <<settings, store, lock, made, conn, current, callers, ghosts>>

NoConn == [profile |-> None, secret |-> None, connected |-> FALSE]
Idle   == [task |-> "none", profile |-> None, secret |-> None, conn |-> 0,
           again |-> FALSE]

Init ==
  /\ settings \in Profiles \cup {None}
  /\ store = None
  /\ lock = None
  /\ made = 0
  /\ conn = [c \in 1..MaxConns |-> NoConn]
  /\ current = 0
  /\ pc = [t \in Threads |-> "idle"]
  /\ call = [t \in Threads |-> Idle]
  /\ forgotten = FALSE
  /\ astray = {}

-----------------------------------------------------------------------------
Goes(t, next) == pc' = [pc EXCEPT ![t] = next] /\ UNCHANGED call

Ends(t) ==
  /\ pc'   = [pc EXCEPT ![t] = "idle"]
  /\ call' = [call EXCEPT ![t] = Idle]

Begins(t, next, command) ==
  /\ pc[t] = "idle"
  /\ pc'   = [pc EXCEPT ![t] = next]
  /\ call' = [call EXCEPT ![t] = command]

Usable == current # 0 /\ conn[current].connected

(* The saved password, for a profile that may use it.                      *)
Saved(profile) == IF profile.save THEN store ELSE None

Offers(who, secrets, host) ==
  astray' = astray \cup {w \in {who} : ~(secrets \subseteq {host, None})}

-----------------------------------------------------------------------------
(* The commands.                                                           *)

(* The window sends a profile as it stands in the form, saved or not, and  *)
(* perhaps a typed password.                                               *)
ConnectCalled(t) ==
  /\ \E p \in Profiles : \E s \in {p.host, None} :
       Begins(t, "connect", [Idle EXCEPT !.task = "connect", !.profile = p,
                                         !.secret = s])
  /\ UNCHANGED <<settings, store, lock, made, conn, current, ghosts>>

(* A command that needs a connection: `read` stands for list and           *)
(* read_text, which are retried, and with an error for the others.         *)
Called(t) ==
  /\ \/ \E task \in {"read", "write", "terminal"} :
          Begins(t, "get", [Idle EXCEPT !.task = task])
     \/ Begins(t, "snapshot", [Idle EXCEPT !.task = "operation"])
     \/ Begins(t, "update", [Idle EXCEPT !.task = "update"])
     \/ settings # None
        /\ Begins(t, "forget", [Idle EXCEPT !.task = "forget"])
  /\ UNCHANGED <<settings, store, lock, made, conn, current, ghosts>>

-----------------------------------------------------------------------------
(* connect_with_auth. It holds the lock to its end.                        *)

(* A profile that may use or save the stored password must be the saved    *)
(* one.                                                                    *)
Bound(p) == p.save => settings = p

Authenticates(t, bound, owner) ==
  /\ pc[t] = "connect" /\ lock = None
  /\ bound
  /\ made < MaxConns
  /\ made' = made + 1
  /\ lock' = owner
  /\ pc'   = [pc EXCEPT ![t] = "connecting"]
  /\ call' = [call EXCEPT ![t].conn = made + 1]
  /\ LET p == call[t].profile
     IN  Offers("application", {Saved(p), call[t].secret}, p.host)
  /\ UNCHANGED <<settings, store, conn, current, forgotten>>

AuthenticateUnbound(t) ==  \* mutant: the profile is not compared
  Authenticates(t, TRUE, t)

AuthenticateUnlocked(t) ==  \* mutant: the lock is dropped after the check
  Authenticates(t, Bound(call[t].profile), None)

Authenticate(t) == Authenticates(t, Bound(call[t].profile), t)

(* Unbound, or no answer before a secret is used.                          *)
Refuse(t) ==
  /\ pc[t] = "connect" /\ lock = None
  /\ Ends(t)
  /\ UNCHANGED <<settings, store, lock, made, conn, current, ghosts>>

ConnectFails(t) ==
  /\ pc[t] = "connecting"
  /\ lock' = None
  /\ Ends(t)
  /\ UNCHANGED <<settings, store, made, conn, current, ghosts>>

(* persist_after_connect keeps the secret in memory if it is not saved.    *)
Kept(saves, secret, next) ==
  \/ saves /\ secret # None /\ store' = secret /\ next = None
  \/ next = secret /\ UNCHANGED store

Establishes(t, saves) ==
  /\ pc[t] = "connecting"
  /\ \E left \in Secrets :
       /\ Kept(saves, call[t].secret, left)
       /\ conn' = [conn EXCEPT ![call[t].conn] =
                     [profile |-> call[t].profile, secret |-> left,
                      connected |-> TRUE]]
  /\ current' = call[t].conn
  /\ lock' = None
  /\ IF call[t].task = "connect"
       THEN Ends(t) /\ forgotten' = FALSE
       ELSE Goes(t, "got") /\ UNCHANGED forgotten
  /\ UNCHANGED <<settings, made, astray>>

EstablishAndSave(t) ==  \* mutant: the save flag is not looked at
  Establishes(t, TRUE)

Establish(t) == Establishes(t, call[t].profile.save)

-----------------------------------------------------------------------------
(* get, reconnect and the commands that use a connection.                  *)

Uses(t) ==
  /\ pc' = [pc EXCEPT ![t] =
              IF call[t].task = "terminal" THEN "open" ELSE "use"]
  /\ call' = [call EXCEPT ![t].conn = current]

(* ensure; a write uses `get` alone.                                       *)
Get(t) ==
  /\ pc[t] = "get"
  /\ \/ Usable /\ Uses(t)
     \/ ~Usable /\ call[t].task = "write" /\ Ends(t)
     \/ ~Usable /\ call[t].task # "write" /\ Goes(t, "reconnect")
  /\ UNCHANGED <<settings, store, lock, made, conn, current, ghosts>>

(* The lost connection gives profile and secret of the new one.            *)
Reconnect(t) ==
  /\ pc[t] = "reconnect"
  /\ IF current = 0
       THEN Ends(t)
       ELSE /\ pc'   = [pc EXCEPT ![t] = "connect"]
            /\ call' = [call EXCEPT ![t].profile = conn[current].profile,
                                    ![t].secret  = conn[current].secret]
  /\ UNCHANGED <<settings, store, lock, made, conn, current, ghosts>>

(* The `get` that follows it.                                              *)
GetAgain(t) ==
  /\ pc[t] = "got"
  /\ \/ Usable /\ Uses(t)
     \/ ~Usable /\ Ends(t)
  /\ UNCHANGED <<settings, store, lock, made, conn, current, ghosts>>

UseEnds(t) ==
  /\ pc[t] = "use"
  /\ Ends(t)
  /\ UNCHANGED <<settings, store, lock, made, conn, current, ghosts>>

(* list and read_text after an error of the connection.                    *)
Retry(t) ==
  /\ pc[t] = "use" /\ call[t].task = "read" /\ ~call[t].again
  /\ conn' = [conn EXCEPT ![call[t].conn].connected = FALSE]
  /\ pc'   = [pc EXCEPT ![t] = "reconnect"]
  /\ call' = [call EXCEPT ![t].again = TRUE]
  /\ UNCHANGED <<settings, store, lock, made, current, ghosts>>

(* create_terminal: a session of its own, authenticated like the           *)
(* connection, which must still be the registered one.                     *)
OpensTerminal(t, same) ==
  /\ pc[t] = "open" /\ lock = None
  /\ LET c == conn[call[t].conn]
     IN  IF Usable /\ same
           THEN Offers("application", {Saved(c.profile), c.secret},
                       c.profile.host)
           ELSE UNCHANGED astray
  /\ Ends(t)
  /\ UNCHANGED <<settings, store, lock, made, conn, current, forgotten>>

OpenStaleTerminal(t) ==  \* mutant: without Arc::ptr_eq
  OpensTerminal(t, TRUE)

OpenTerminal(t) == OpensTerminal(t, current = call[t].conn)

(* operation_connections: the snapshot an operation helper starts with.    *)
Snapshot(t) ==
  /\ pc[t] = "snapshot" /\ lock = None
  /\ LET c == conn[current]
         s == IF c.secret # None THEN c.secret ELSE Saved(c.profile)
     IN  \/ /\ Usable
            /\ pc'   = [pc EXCEPT ![t] = "helper"]
            /\ call' = [call EXCEPT ![t].profile = c.profile,
                                    ![t].secret  = s]
         \/ Ends(t)
  /\ UNCHANGED <<settings, store, lock, made, conn, current, ghosts>>

(* The helper process: from_operation_connections authenticates with an    *)
(* AuthContext over the store of the system.                               *)
HelperConnects(t) ==
  /\ pc[t] = "helper"
  /\ LET p == call[t].profile
     IN  Offers("helper", {Saved(p), call[t].secret}, p.host)
  /\ Ends(t)
  /\ UNCHANGED <<settings, store, lock, made, conn, current, forgotten>>

-----------------------------------------------------------------------------
(* Disconnect, Forget and the settings.                                    *)

(* SshManager::disconnect                                                  *)
Removed ==
  /\ current' = 0
  /\ conn' = IF current = 0 THEN conn
                            ELSE [conn EXCEPT ![current].connected = FALSE]

Disconnect ==
  /\ Removed
  /\ UNCHANGED <<settings, store, lock, made, callers, forgotten, astray>>

(* An error of the store ends it before the disconnect.                    *)
Forget(t) ==
  /\ pc[t] = "forget" /\ lock = None
  /\ \/ /\ store' = None
        /\ forgotten' = TRUE
        /\ lock' = t
        /\ Goes(t, "drop")
     \/ Ends(t) /\ UNCHANGED <<store, forgotten, lock>>
  /\ UNCHANGED <<settings, made, conn, current, astray>>

(* reconcile_with_commit: the password goes before the settings are        *)
(* written, and comes back if that fails.                                  *)
MovesAway(next) == next = None \/ next.host # settings.host

Cleaned(next) == MovesAway(next) \/ (settings.save /\ ~next.save)

Update(t) ==
  /\ pc[t] = "update" /\ lock = None
  /\ \/ \E next \in Profiles \cup {None} :
          /\ settings' = next
          /\ IF settings = None
               THEN UNCHANGED <<store, lock>> /\ Ends(t)
               ELSE /\ store' = IF Cleaned(next) THEN None ELSE store
                    /\ IF next # settings
                         THEN lock' = t /\ Goes(t, "drop")
                         ELSE UNCHANGED lock /\ Ends(t)
     \/ /\ \/ UNCHANGED store
           \/ settings # None /\ store' = None  \* ECREDENTIAL_ROLLBACK
        /\ UNCHANGED <<settings, lock>>
        /\ Ends(t)
  /\ UNCHANGED <<made, conn, current, ghosts>>

(* disconnect_profile, still under the lock.                               *)
Drop(t) ==
  /\ pc[t] = "drop"
  /\ Removed
  /\ lock' = None
  /\ Ends(t)
  /\ UNCHANGED <<settings, store, made, forgotten, astray>>

(* The keepalive of a connection fails, or an operation notices.           *)
Lost(c) ==
  /\ conn[c].connected
  /\ conn' = [conn EXCEPT ![c].connected = FALSE]
  /\ UNCHANGED <<settings, store, lock, made, current, callers, ghosts>>

-----------------------------------------------------------------------------
Connecting(t) ==
  Authenticate(t) \/ Refuse(t) \/ ConnectFails(t) \/ Establish(t)

Using(t) ==
  \/ Get(t) \/ Reconnect(t) \/ GetAgain(t) \/ UseEnds(t) \/ Retry(t)
  \/ OpenTerminal(t) \/ Snapshot(t) \/ HelperConnects(t)

Changing(t) == Forget(t) \/ Update(t) \/ Drop(t)

Next ==
  \/ \E t \in Threads :
       \/ ConnectCalled(t) \/ Called(t)
       \/ Connecting(t) \/ Using(t) \/ Changing(t)
  \/ Disconnect
  \/ \E c \in 1..MaxConns : Lost(c)

Spec == Init /\ [][Next]_vars

-----------------------------------------------------------------------------
Pcs == {"idle", "connect", "connecting", "get", "reconnect", "got", "use",
        "open", "snapshot", "helper", "forget", "update", "drop"}

Calls == [task : {"none", "connect", "read", "write", "terminal", "operation",
                  "forget", "update"},
          profile : Profiles \cup {None}, secret : Secrets,
          conn : 0..MaxConns, again : BOOLEAN]

(* Every variable has its type, and a thread is inside a section of        *)
(* profile_updates exactly while it owns the lock.                         *)
TypeOK ==
  /\ settings \in Profiles \cup {None}
  /\ store \in Secrets
  /\ lock \in Threads \cup {None}
  /\ made \in 0..MaxConns
  /\ conn \in [1..MaxConns -> [profile : Profiles \cup {None},
                               secret : Secrets, connected : BOOLEAN]]
  /\ current \in 0..MaxConns
  /\ pc \in [Threads -> Pcs]
  /\ call \in [Threads -> Calls]
  /\ forgotten \in BOOLEAN
  /\ astray \subseteq {"application", "helper"}
  /\ \A t \in Threads : pc[t] \in {"connecting", "drop"} <=> lock = t

(* A password is in the store only for the endpoint of the saved profile,  *)
(* and only while that profile asks for it, whatever connects, updates and *)
(* failures came before (connect_with_auth, reconcile_with_commit).        *)
StoreMatchesSettings ==
  store # None => settings # None /\ settings.save /\ settings.host = store

(* The application uses each secret for its own host only: typed, kept in  *)
(* memory for a reconnect, or saved (connect_with_auth, create_terminal).  *)
SecretsMatchHost == "application" \notin astray

(* When no update runs, a registered connection that may use the stored    *)
(* password is one of the saved profile, also if it was established by a   *)
(* reconnect that began before the update (save_reconciled, ssh.rs:151).   *)
RegisteredMatchesSettings ==
  lock = None /\ current # 0 /\ conn[current].profile.save
    => settings = conn[current].profile

(* The map has the newest connection or none: an attempt never replaces    *)
(* that of a later one (ssh.rs:142, :237).                                 *)
NewestRegistered ==
  current # 0 => \A c \in 1..MaxConns : conn[c].profile # None => c <= current

(* What the documentation says of Forget: it "deletes the selected         *)
(* credential and disconnects the SFTP session so a stale session secret   *)
(* cannot silently restore it".  Not so: a reconnect that has read the     *)
(* secret and waits for the lock saves it afterwards.                      *)
ForgetLasts == forgotten => store = None
=============================================================================
