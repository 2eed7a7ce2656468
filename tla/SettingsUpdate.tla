---------------------------- MODULE SettingsUpdate ----------------------------
(***************************************************************************)
(* One settings update: reconcile_with_commit of the credential store      *)
(* (src-tauri/src/credential_store.rs) around the write of settings.json   *)
(* (settings/mod.rs), as commands/settings.rs calls it.  Two stores change *)
(* together without a common transaction: the secrets of profiles that are *)
(* removed, moved or no longer saved are deleted first, then the file is   *)
(* replaced, and a reported failure puts the secrets back.                 *)
(*                                                                         *)
(* The application may die between any two steps; the file and the store   *)
(* of the system stay as they are.  Each call of the store or the file     *)
(* system may fail, and a call that reports a failure may have had its     *)
(* effect.  `profile_updates` and the lock of the store keep connects,     *)
(* Forgets and other updates out of an update, so they are single steps    *)
(* here; SshManager has them in detail.                                    *)
(*                                                                         *)
(* Abstracted: one kind of secret per profile; the fields of a profile but *)
(* its endpoint and save flag; the order of the accounts; settings of      *)
(* another version, and normalisation.                                     *)
(***************************************************************************)
CONSTANTS Profiles, Hosts, None

Entry    == [host : Hosts, save : BOOLEAN] \cup {None}
Settings == [Profiles -> Entry]
Secrets  == [Profiles -> Hosts \cup {None}]
NoSecret == [p \in Profiles |-> None]

ASSUME SettingsAssumption ==
  /\ None \notin Hosts
  /\ None \notin [host : Hosts, save : BOOLEAN]
  /\ None \notin Settings

VARIABLES
  available,  \* the system has a credential store
  file,       \* settings.json
  cached,     \* the settings in memory, None before the first load
  store,      \* the saved secret of each profile, named by its host
  pc,
  next,       \* the settings to be saved
  accounts,   \* the affected secrets ...
  backups,    \* ... as they were
  attempted,  \* those whose deletion was attempted and not undone
  restored,   \* no restore has failed
  answer      \* of the last update

update == <<pc, next, accounts, backups, attempted, restored>>
vars   == <<available, file, cached, store, update, answer>>

(* A secret goes with the profile it was saved for.                        *)
Belongs(secret, entry) ==
  secret # None => entry # None /\ entry.save /\ entry.host = secret

Init ==
  /\ available \in BOOLEAN
  /\ file \in Settings
  /\ cached = None
  /\ store \in Secrets
  /\ \A p \in Profiles : Belongs(store[p], file[p])
  /\ available \/ store = NoSecret
  /\ pc = "idle"
  /\ next = file
  /\ accounts = {} /\ backups = NoSecret /\ attempted = {}
  /\ restored = TRUE
  /\ answer = "none"

-----------------------------------------------------------------------------
Loaded == IF cached = None THEN file ELSE cached

Load ==
  /\ pc = "idle"
  /\ cached' = Loaded
  /\ UNCHANGED <<available, file, store, update, answer>>

(* The profiles whose secret goes.                                         *)
Changed(old, new) == new = None \/ new.host # old.host

Affected(old, new) ==
  {p \in Profiles :
     /\ old[p] # None
     /\ \/ Changed(old[p], new[p]) /\ (available \/ old[p].save)
        \/ old[p].save /\ (new[p] = None \/ ~new[p].save)}

Begin ==
  /\ pc = "idle"
  /\ cached' = Loaded
  /\ \E new \in Settings :
       /\ next'     = new
       /\ accounts' = Affected(Loaded, new)
  /\ pc'        = "backup"
  /\ backups'   = NoSecret
  /\ attempted' = {}
  /\ restored'  = TRUE
  /\ answer'    = "none"
  /\ UNCHANGED <<available, file, store>>

Ends(result) ==
  /\ pc' = "idle"
  /\ answer' = result
  /\ UNCHANGED <<next, accounts, backups, attempted, restored>>

(* "Read all backups before deleting anything."                            *)
ReadBackups ==
  /\ pc = "backup"
  /\ available \/ accounts = {}
  /\ backups' = [p \in Profiles |-> IF p \in accounts THEN store[p] ELSE None]
  /\ pc' = "delete"
  /\ UNCHANGED <<available, file, cached, store, next, accounts,
                 attempted, restored, answer>>

BackupFails ==
  /\ pc = "backup" /\ accounts # {}
  /\ Ends("failed")
  /\ UNCHANGED <<available, file, cached, store>>

Deletes(counts) ==
  /\ pc = "delete"
  /\ \E p \in accounts \ attempted :
       \/ /\ store' = [store EXCEPT ![p] = None]
          /\ attempted' = attempted \cup {p}
          /\ UNCHANGED pc
       \/ /\ store' \in {store, [store EXCEPT ![p] = None]}
          /\ attempted' = attempted \cup {q \in {p} : counts}
          /\ pc' = "undo"
  /\ UNCHANGED <<available, file, cached, next, accounts, backups,
                 restored, answer>>

DeleteUncounted ==  \* mutant: `attempted` is counted after the deletion
  Deletes(FALSE)

Delete == Deletes(TRUE)

(* persist writes a file with a name of its own and then renames it.       *)
Writes(ready, contents) ==
  /\ pc = "delete" /\ ready
  /\ \/ pc' = "rename" /\ file' = contents
     \/ pc' = "undo" /\ UNCHANGED file
  /\ UNCHANGED <<available, cached, store, next, accounts, backups, attempted,
                 restored, answer>>

WriteEarly ==  \* mutant: the settings are written before the deletions
  Writes(TRUE, file)

WriteInPlace ==  \* mutant: settings.json is truncated and then written
  Writes(accounts \subseteq attempted, None)

Write == Writes(accounts \subseteq attempted, file)

Renames(memory) ==
  /\ pc = "rename"
  /\ \/ /\ file'   = next
        /\ cached' = next
        /\ Ends("saved")
        /\ UNCHANGED <<available, store>>
     \/ /\ pc' = "undo"
        /\ cached' = memory
        /\ UNCHANGED <<available, file, store, next, accounts, backups,
                       attempted, restored, answer>>

RenameCachedEarly ==  \* mutant: the cache is set before the file is written
  Renames(next)

Rename == Renames(cached)

Restore ==
  /\ pc = "undo"
  /\ \E p \in attempted :
       /\ attempted' = attempted \ {p}
       /\ \/ backups[p] = None /\ UNCHANGED <<store, restored>>
          \/ /\ store' = [store EXCEPT ![p] = backups[p]]
             /\ UNCHANGED restored
          \/ /\ backups[p] # None
             /\ store' \in {store, [store EXCEPT ![p] = backups[p]]}
             /\ restored' = FALSE
  /\ UNCHANGED <<available, file, cached, pc, next, accounts,
                 backups, answer>>

Restored ==
  /\ pc = "undo" /\ attempted = {}
  /\ Ends(IF restored THEN "failed" ELSE "rollback")
  /\ UNCHANGED <<available, file, cached, store>>

-----------------------------------------------------------------------------
(* A connect under profile_updates saves its password, or fails to.        *)
Remember(p) ==
  /\ pc = "idle" /\ available
  /\ Loaded[p] # None /\ Loaded[p].save
  /\ cached' = Loaded
  /\ store'  = [store EXCEPT ![p] = Loaded[p].host]
  /\ UNCHANGED <<available, file, update, answer>>

Forget(p) ==
  /\ pc = "idle" /\ available
  /\ store' = [store EXCEPT ![p] = None]
  /\ UNCHANGED <<available, file, cached, update, answer>>

Die ==
  /\ pc'     = "idle"
  /\ cached' = None
  /\ answer' = "none"
  /\ UNCHANGED <<available, file, store, next, accounts, backups,
                 attempted, restored>>

Next ==
  \/ Load \/ Begin \/ ReadBackups \/ BackupFails \/ Delete
  \/ Write \/ Rename \/ Restore \/ Restored
  \/ \E p \in Profiles : Remember(p) \/ Forget(p)
  \/ Die

Spec == Init /\ [][Next]_vars

-----------------------------------------------------------------------------
(* Every variable has its type.                                            *)
TypeOK ==
  /\ available \in BOOLEAN
  /\ file \in Settings
  /\ cached \in Settings \cup {None}
  /\ store \in Secrets
  /\ pc \in {"idle", "backup", "delete", "rename", "undo"}
  /\ next \in Settings
  /\ accounts \subseteq Profiles
  /\ backups \in Secrets
  /\ attempted \subseteq accounts
  /\ restored \in BOOLEAN
  /\ answer \in {"none", "saved", "failed", "rollback"}

(* What an application that starts finds, whenever the last one died: a    *)
(* secret in the store belongs to the profile of settings.json, for its    *)
(* endpoint and with its consent (reconcile_with_commit deletes before     *)
(* persist writes).                                                        *)
SecretsMatchFile == \A p \in Profiles : Belongs(store[p], file[p])

(* The settings that connects are bound to are those of the file, also     *)
(* after an update that failed (SettingsStore::save).                      *)
CacheMatchesFile == cached # None => cached = file

(* "If cleanup or JSON persistence reports an error, the previous secrets  *)
(* are restored and the previous settings remain active.  If restoration   *)
(* itself fails, an explicit error" says so: an update is one step of      *)
(* SettingsPromise, taken by the rename or by the answer.                  *)
InUpdate == pc \in {"delete", "rename", "undo"}

Promise == INSTANCE SettingsPromise WITH
  settings <- file,
  secrets  <- [p \in Profiles |->
                 IF InUpdate /\ p \in accounts THEN backups[p] ELSE store[p]]

UpdatePromise == Promise!PromiseSpec
=============================================================================
