------------------------ MODULE SettingsUpdate_proofs ------------------------
(***************************************************************************)
(* Proofs about SettingsUpdate for any sets of profiles and hosts.  The    *)
(* inductive invariant says where each affected secret is at every point   *)
(* of an update: in the store, in the backups, or in both.                 *)
(***************************************************************************)
EXTENDS SettingsUpdate, TLAPS

(* An update starts from the settings of the file.                         *)
StartOK ==
  pc # "idle" => cached # None /\ accounts = Affected(file, next)

(* Until the first deletion nothing was attempted.                         *)
EarlyOK == pc = "backup" => attempted = {} /\ restored

(* A backup is the secret before the update; the store has it or nothing,  *)
(* and has it where the deletion was not attempted or is undone.           *)
BackupsOK ==
  InUpdate =>
    /\ \A p \in accounts : Belongs(backups[p], file[p])
    /\ \A p \in accounts : store[p] \in {backups[p], None}
    /\ restored => \A p \in accounts \ attempted : store[p] = backups[p]

(* While nothing has failed, an attempted deletion has succeeded, and the  *)
(* rename comes after all of them.                                         *)
DeletedOK ==
  /\ pc \in {"delete", "rename"} =>
       restored /\ \A p \in attempted : store[p] = None
  /\ pc = "rename" => attempted = accounts

IInv == /\ TypeOK /\ SecretsMatchFile /\ CacheMatchesFile
        /\ StartOK /\ EarlyOK /\ BackupsOK /\ DeletedOK

USE SettingsAssumption

-----------------------------------------------------------------------------
(* No secret is left behind: one that is not affected belongs to the new   *)
(* profile too (reconcile_with_commit's conditions).                       *)
LEMMA UnaffectedBelongs ==
  ASSUME NEW old \in Settings, NEW new \in Settings, NEW p \in Profiles,
         NEW secret \in Hosts \cup {None}, Belongs(secret, old[p]),
         p \notin Affected(old, new)
  PROVE  Belongs(secret, new[p])
<1>1. CASE secret = None
  BY <1>1 DEF Belongs
<1>2. CASE secret # None
  <2>1. old[p] # None /\ old[p].save /\ old[p].host = secret
    BY <1>2 DEF Belongs
  <2>2. ~Changed(old[p], new[p])
    BY <2>1 DEF Affected
  <2>3. new[p] # None /\ new[p].save
    BY <2>1, <2>2 DEF Affected, Changed
  <2> QED
    BY <2>1, <2>2, <2>3 DEF Belongs, Changed
<1> QED
  BY <1>1, <1>2

(* An affected secret does not belong to its new profile.                  *)
LEMMA AffectedDoesNotBelong ==
  ASSUME NEW old \in Settings, NEW new \in Settings,
         NEW p \in Affected(old, new), NEW secret \in Hosts,
         Belongs(secret, old[p])
  PROVE  ~Belongs(secret, new[p])
<1>1. secret # None /\ old[p].save /\ old[p].host = secret
  BY DEF Belongs
<1>2. Changed(old[p], new[p]) \/ new[p] = None \/ ~new[p].save
  BY DEF Affected
<1> QED
  BY <1>1, <1>2 DEF Belongs, Changed

LEMMA InitInvariant == Init => IInv
<1> SUFFICES ASSUME Init PROVE IInv
  OBVIOUS
<1> USE DEF Init
<1>1. TypeOK
  BY DEF TypeOK, NoSecret, Secrets, Settings, Entry
<1>2. SecretsMatchFile /\ CacheMatchesFile
  BY DEF SecretsMatchFile, CacheMatchesFile
<1>3. StartOK /\ EarlyOK /\ BackupsOK /\ DeletedOK
  BY DEF StartOK, EarlyOK, BackupsOK, DeletedOK, InUpdate
<1> QED
  BY <1>1, <1>2, <1>3 DEF IInv

-----------------------------------------------------------------------------
(* Types are kept by every step.                                           *)
LEMMA StepType == TypeOK /\ [Next]_vars => TypeOK'
<1> SUFFICES ASSUME TypeOK, [Next]_vars PROVE TypeOK'
  OBVIOUS
<1> USE DEF TypeOK
<1>1. CASE Load
  BY <1>1 DEF Load, Loaded, update
<1>2. CASE Begin
  <2>1. Affected(Loaded, next') \subseteq Profiles /\ accounts' = Affected(Loaded, next')
    BY <1>2 DEF Begin, Affected
  <2>2. cached' \in Settings /\ next' \in Settings
    BY <1>2 DEF Begin, Loaded
  <2>3. backups' \in Secrets
    BY <1>2 DEF Begin, NoSecret, Secrets
  <2> QED
    BY <1>2, <2>1, <2>2, <2>3 DEF Begin
<1>3. CASE ReadBackups
  BY <1>3 DEF ReadBackups, Secrets
<1>4. CASE BackupFails
  BY <1>4 DEF BackupFails, Ends
<1>5. CASE Delete
  <2>1. PICK p \in accounts \ attempted :
          /\ store' \in {store, [store EXCEPT ![p] = None]}
          /\ attempted' = attempted \cup {p}
          /\ pc' \in {pc, "undo"}
    BY <1>5 DEF Delete, Deletes
  <2>2. store' \in Secrets /\ attempted' \subseteq accounts
    BY <2>1 DEF Secrets
  <2> QED
    BY <1>5, <2>1, <2>2 DEF Delete, Deletes
<1>6. CASE Write
  BY <1>6 DEF Write, Writes
<1>7. CASE Rename
  BY <1>7 DEF Rename, Renames, Ends
<1>8. CASE Restore
  <2>1. PICK p \in attempted :
          /\ attempted' = attempted \ {p}
          /\ store' \in {store, [store EXCEPT ![p] = backups[p]]}
          /\ restored' \in {restored, FALSE}
    BY <1>8 DEF Restore
  <2>2. p \in Profiles /\ backups[p] \in Hosts \cup {None}
    BY DEF Secrets
  <2>3. store' \in Secrets
    BY <2>1, <2>2 DEF Secrets
  <2>4. restored' \in BOOLEAN
    BY <2>1
  <2> QED
    BY <1>8, <2>1, <2>3, <2>4 DEF Restore
<1>9. CASE Restored
  BY <1>9 DEF Restored, Ends
<1>10. ASSUME NEW p \in Profiles, Remember(p)
       PROVE  TypeOK'
  <2>1. Loaded \in Settings
    BY DEF Loaded
  <2>2. Loaded[p] \in Entry /\ Loaded[p] # None
    BY <1>10, <2>1 DEF Remember, Settings
  <2>3. Loaded[p].host \in Hosts
    BY <2>2 DEF Entry
  <2> QED
    BY <1>10, <2>1, <2>3 DEF Remember, Secrets, update
<1>11. ASSUME NEW p \in Profiles, Forget(p)
       PROVE  TypeOK'
  BY <1>11 DEF Forget, Secrets, update
<1>12. CASE Die
  BY <1>12 DEF Die
<1>13. CASE UNCHANGED vars
  BY <1>13 DEF vars, update
<1> QED
  BY <1>1, <1>2, <1>3, <1>4, <1>5, <1>6, <1>7, <1>8, <1>9, <1>10, <1>11,
     <1>12, <1>13 DEF Next

(* The rest of the invariant is kept by every step, one step at a time.    *)
Rest == SecretsMatchFile /\ CacheMatchesFile /\ StartOK /\ EarlyOK
          /\ BackupsOK /\ DeletedOK

LEMMA StepRest == IInv /\ [Next]_vars => Rest'
<1> SUFFICES ASSUME IInv, [Next]_vars PROVE Rest'
  OBVIOUS
<1> USE DEF IInv, Rest, InUpdate
<1>1. CASE Load
  <2>1. Loaded = file
    BY DEF Loaded, CacheMatchesFile
  <2> QED
    BY <1>1, <2>1 DEF Load, update, SecretsMatchFile, CacheMatchesFile,
       StartOK, EarlyOK, BackupsOK, DeletedOK
<1>2. CASE Begin
  <2>1. Loaded = file /\ Loaded # None
    <3>1. file # None
      BY DEF TypeOK, Settings
    <3> QED
      BY <3>1 DEF Loaded, CacheMatchesFile
  <2>2. accounts' = Affected(file, next') /\ available' = available
    BY <1>2, <2>1 DEF Begin
  <2>3. Affected(file, next)' = Affected(file, next')
    BY <1>2 DEF Begin, Affected
  <2> QED
    BY <1>2, <2>1, <2>2, <2>3 DEF Begin, SecretsMatchFile, CacheMatchesFile,
       StartOK, EarlyOK, BackupsOK, DeletedOK
<1>3. CASE ReadBackups
  <2>1. \A p \in accounts : backups'[p] = store[p]
    BY <1>3 DEF ReadBackups, TypeOK
  <2>2. StartOK' /\ EarlyOK'
    BY <1>3 DEF ReadBackups, StartOK, EarlyOK, Affected
  <2>3. BackupsOK' /\ DeletedOK'
    BY <1>3, <2>1 DEF ReadBackups, BackupsOK, DeletedOK, EarlyOK, TypeOK,
       SecretsMatchFile
  <2> QED
    BY <1>3, <2>2, <2>3 DEF ReadBackups, SecretsMatchFile, CacheMatchesFile
<1>4. CASE BackupFails
  BY <1>4 DEF BackupFails, Ends, SecretsMatchFile, CacheMatchesFile, StartOK,
     EarlyOK, BackupsOK, DeletedOK
<1>5. CASE Delete
  <2>1. PICK p \in accounts \ attempted :
          /\ store' \in {store, [store EXCEPT ![p] = None]}
          /\ attempted' = attempted \cup {p}
          /\ \/ pc' = "undo"
             \/ pc' = pc /\ store' = [store EXCEPT ![p] = None]
    BY <1>5 DEF Delete, Deletes
  <2>2. p \in Profiles /\ \A q \in Profiles : store'[q] \in {store[q], None}
    BY <2>1 DEF TypeOK, Secrets
  <2>3. \A q \in Profiles : q # p => store'[q] = store[q]
    BY <2>1, <2>2 DEF TypeOK, Secrets
  <2>4. pc' # "undo" => store'[p] = None
    BY <2>1, <2>2 DEF TypeOK, Secrets
  <2>5. SecretsMatchFile'
    BY <1>5, <2>2 DEF Delete, Deletes, SecretsMatchFile, Belongs
  <2>6. StartOK' /\ EarlyOK' /\ CacheMatchesFile'
    BY <1>5, <2>1 DEF Delete, Deletes, StartOK, EarlyOK, CacheMatchesFile,
       Affected
  <2>7. BackupsOK'
    <3>1. accounts \subseteq Profiles /\ p \in attempted'
      BY <2>1 DEF TypeOK
    <3> QED
      BY <1>5, <2>1, <2>2, <2>3, <3>1 DEF Delete, Deletes, BackupsOK
  <2>8. DeletedOK'
    BY <1>5, <2>1, <2>2, <2>3, <2>4 DEF Delete, Deletes, DeletedOK, TypeOK
  <2> QED
    BY <2>5, <2>6, <2>7, <2>8
<1>6. CASE Write
  BY <1>6 DEF Write, Writes, SecretsMatchFile, CacheMatchesFile, StartOK,
     EarlyOK, BackupsOK, DeletedOK, TypeOK, Affected
<1>7. CASE Rename
  <2>1. CASE pc' = "idle"
    <3>1. file' = next /\ cached' = next /\ store' = store /\ pc = "rename"
      BY <1>7, <2>1 DEF Rename, Renames, Ends
    <3>2. \A p \in accounts : store[p] = None
      BY <3>1 DEF DeletedOK
    <3>3. SecretsMatchFile'
      <4> SUFFICES ASSUME NEW p \in Profiles PROVE Belongs(store[p], next[p])
        BY <3>1 DEF SecretsMatchFile
      <4>1. CASE p \in accounts
        BY <4>1, <3>2 DEF Belongs
      <4>2. CASE p \notin accounts
        <5>1. p \notin Affected(file, next)
          BY <4>2, <3>1 DEF StartOK
        <5>2. Belongs(store[p], file[p]) /\ store[p] \in Hosts \cup {None}
          BY DEF SecretsMatchFile, TypeOK, Secrets
        <5>3. file \in Settings /\ next \in Settings
          BY DEF TypeOK
        <5> QED
          BY <5>1, <5>2, <5>3, UnaffectedBelongs
      <4> QED
        BY <4>1, <4>2
    <3> QED
      BY <2>1, <3>1, <3>3 DEF CacheMatchesFile, StartOK, EarlyOK, BackupsOK,
         DeletedOK
  <2>2. CASE pc' # "idle"
    <3>1. pc = "rename" /\ pc' = "undo" /\ cached' = cached
            /\ UNCHANGED <<available, file, store, next, accounts, backups,
                           attempted, restored>>
      BY <1>7, <2>2 DEF Rename, Renames, Ends
    <3>2. SecretsMatchFile' /\ CacheMatchesFile' /\ EarlyOK' /\ DeletedOK'
      BY <3>1 DEF SecretsMatchFile, CacheMatchesFile, EarlyOK, DeletedOK
    <3>3. StartOK' /\ BackupsOK'
      BY <3>1 DEF StartOK, BackupsOK, Affected
    <3> QED
      BY <3>2, <3>3
  <2> QED
    BY <2>1, <2>2
<1>8. CASE Restore
  <2>1. PICK p \in attempted :
          /\ attempted' = attempted \ {p}
          /\ store' \in {store, [store EXCEPT ![p] = backups[p]]}
          /\ restored' => restored
          /\ \/ ~restored'
             \/ backups[p] = None /\ store' = store
             \/ store' = [store EXCEPT ![p] = backups[p]]
    BY <1>8 DEF Restore
  <2>2. p \in accounts /\ accounts \subseteq Profiles
    BY DEF TypeOK
  <2>3. \A q \in Profiles : q # p => store'[q] = store[q]
    BY <2>1, <2>2 DEF TypeOK, Secrets
  <2>4. store'[p] \in {store[p], backups[p]}
    BY <2>1, <2>2 DEF TypeOK, Secrets
  <2>5. Belongs(backups[p], file[p]) /\ store[p] \in {backups[p], None}
    BY <1>8, <2>2 DEF Restore, BackupsOK
  <2>6. restored' => store'[p] = backups[p]
    BY <2>1, <2>2, <2>5 DEF TypeOK, Secrets
  <2>7. SecretsMatchFile'
    BY <1>8, <2>3, <2>4, <2>5 DEF Restore, SecretsMatchFile
  <2>8. StartOK' /\ EarlyOK' /\ CacheMatchesFile' /\ DeletedOK'
    BY <1>8, <2>1 DEF Restore, StartOK, EarlyOK, CacheMatchesFile, DeletedOK,
       Affected
  <2>9. BackupsOK'
    BY <1>8, <2>1, <2>2, <2>3, <2>4, <2>5, <2>6 DEF Restore, BackupsOK
  <2> QED
    BY <2>7, <2>8, <2>9
<1>9. CASE Restored
  BY <1>9 DEF Restored, Ends, SecretsMatchFile, CacheMatchesFile, StartOK,
     EarlyOK, BackupsOK, DeletedOK
<1>10. ASSUME NEW p \in Profiles, Remember(p)
       PROVE  Rest'
  <2>1. Loaded = file
    BY DEF Loaded, CacheMatchesFile
  <2>2. pc' = "idle" /\ file' = file /\ cached' = file
    BY <1>10, <2>1 DEF Remember, update
  <2>3. store'[p] = file[p].host /\ Belongs(file[p].host, file[p])
    BY <1>10, <2>1 DEF Remember, TypeOK, Secrets, Belongs
  <2>4. \A q \in Profiles : q # p => store'[q] = store[q]
    BY <1>10 DEF Remember, TypeOK, Secrets
  <2>5. SecretsMatchFile'
    BY <2>2, <2>3, <2>4 DEF SecretsMatchFile
  <2> QED
    BY <2>2, <2>5 DEF CacheMatchesFile, StartOK, EarlyOK, BackupsOK, DeletedOK
<1>11. ASSUME NEW p \in Profiles, Forget(p)
       PROVE  Rest'
  <2>1. pc' = "idle" /\ file' = file /\ cached' = cached
    BY <1>11 DEF Forget, update
  <2>2. \A q \in Profiles : store'[q] \in {store[q], None}
    BY <1>11 DEF Forget, TypeOK, Secrets
  <2>3. SecretsMatchFile'
    BY <2>1, <2>2 DEF SecretsMatchFile, Belongs
  <2> QED
    BY <2>1, <2>3 DEF CacheMatchesFile, StartOK, EarlyOK, BackupsOK, DeletedOK
<1>12. CASE Die
  BY <1>12 DEF Die, SecretsMatchFile, CacheMatchesFile, StartOK, EarlyOK,
     BackupsOK, DeletedOK
<1>13. CASE UNCHANGED vars
  BY <1>13 DEF vars, update, SecretsMatchFile, CacheMatchesFile, StartOK,
     EarlyOK, BackupsOK, DeletedOK, Affected
<1> QED
  BY <1>1, <1>2, <1>3, <1>4, <1>5, <1>6, <1>7, <1>8, <1>9, <1>10, <1>11,
     <1>12, <1>13 DEF Next

THEOREM Invariant == Spec => []IInv
<1>1. IInv /\ [Next]_vars => IInv'
  BY StepType, StepRest DEF IInv, Rest
<1> QED
  BY InitInvariant, <1>1, PTL DEF Spec

(* After any sequence of updates, failures and deaths of the application,  *)
(* a secret in the store belongs to the profile of settings.json           *)
(* (reconcile_with_commit).                                                *)
THEOREM SecretsCorrect == Spec => []SecretsMatchFile
BY Invariant, PTL DEF IInv

(* The settings in memory are those of the file (SettingsStore::save).     *)
THEOREM CacheCorrect == Spec => []CacheMatchesFile
BY Invariant, PTL DEF IInv

(* Every variable keeps its type; the file always has whole settings.      *)
THEOREM TypeCorrect == Spec => []TypeOK
BY Invariant, PTL DEF IInv

-----------------------------------------------------------------------------
(* The secrets as SettingsPromise sees them: during an update those that   *)
(* are affected are still there.                                           *)
Shown == [p \in Profiles |->
            IF InUpdate /\ p \in accounts THEN backups[p] ELSE store[p]]

LEMMA ShownType == TypeOK => Shown \in Secrets
BY DEF TypeOK, Shown, Secrets

LEMMA InitRefines == Init => Promise!PromiseInit
<1> SUFFICES ASSUME Init PROVE Promise!PromiseInit
  OBVIOUS
<1>1. Shown = store
  BY DEF Init, Shown, InUpdate, Secrets
<1>2. file \in Promise!Settings /\ store \in Promise!Secrets
  BY DEF Init, Promise!Settings, Promise!Entry, Settings, Entry,
     Promise!Secrets, Secrets
<1>3. Promise!Matching(store, file)
  BY DEF Init, Promise!Matching, Promise!Belongs, Belongs
<1> QED
  BY <1>1, <1>2, <1>3 DEF Init, Promise!PromiseInit, Shown

(* The rename is the moment at which profiles and secrets change.          *)
LEMMA RenameRefines ==
  ASSUME IInv, Rename, pc' = "idle"
  PROVE  Promise!Save
<1> USE DEF IInv
<1>1. /\ file' = next /\ store' = store /\ pc = "rename" /\ answer' = "saved"
      /\ accounts' = accounts
  BY DEF Rename, Renames, Ends
<1>2. next \in Promise!Settings
  BY DEF TypeOK, Promise!Settings, Promise!Entry, Settings, Entry
<1>3. ASSUME NEW p \in Profiles
      PROVE  store[p] = IF Promise!Belongs(Shown[p], next[p])
                          THEN Shown[p] ELSE None
  <2>1. file \in Settings /\ next \in Settings /\ accounts = Affected(file, next)
    BY <1>1 DEF TypeOK, StartOK
  <2>2. CASE p \in accounts
    <3>1. store[p] = None /\ Shown[p] = backups[p] /\ Belongs(backups[p], file[p])
      BY <1>1, <2>2 DEF DeletedOK, BackupsOK, Shown, InUpdate
    <3>2. backups[p] \in Hosts \cup {None}
      BY DEF TypeOK, Secrets
    <3>3. CASE backups[p] = None
      BY <3>1, <3>3
    <3>4. CASE backups[p] \in Hosts
      <4>1. p \in Affected(file, next)
        BY <2>1, <2>2
      <4>2. ~Belongs(backups[p], next[p])
        BY <2>1, <3>1, <3>4, <4>1, AffectedDoesNotBelong
      <4> QED
        BY <3>1, <4>2 DEF Belongs, Promise!Belongs
    <3> QED
      BY <3>2, <3>3, <3>4
  <2>3. CASE p \notin accounts
    <3>1. Shown[p] = store[p] /\ store[p] \in Hosts \cup {None}
      BY <2>3 DEF Shown, TypeOK, Secrets
    <3>2. Belongs(store[p], next[p])
      BY <2>1, <2>3, <3>1, UnaffectedBelongs DEF SecretsMatchFile
    <3> QED
      BY <3>1, <3>2 DEF Belongs, Promise!Belongs
  <2> QED
    BY <2>2, <2>3
<1>4. Shown' = [p \in Profiles |-> IF Promise!Belongs(Shown[p], next[p])
                                     THEN Shown[p] ELSE None]
  <2>1. Shown' = [p \in Profiles |-> store[p]]
    BY <1>1 DEF Shown, InUpdate
  <2> QED
    BY <2>1, <1>3
<1> QED
  BY <1>1, <1>2, <1>4 DEF Promise!Save, Shown

(* Each step of an update is a step of SettingsPromise or changes nothing  *)
(* it can see.                                                             *)
LEMMA StepRefines ==
  IInv /\ [Next]_vars => [Promise!PromiseNext]_(Promise!promiseVars)
<1> SUFFICES ASSUME IInv, [Next]_vars
             PROVE  Promise!PromiseNext \/ UNCHANGED <<file, Shown, answer>>
  BY DEF Promise!promiseVars, Shown
<1> USE DEF IInv, InUpdate
<1>1. CASE Load
  BY <1>1 DEF Load, update, Shown
<1>2. CASE Begin
  <2>1. Shown' = Shown
    BY <1>2 DEF Begin, Shown
  <2> QED
    BY <1>2, <2>1 DEF Begin, Promise!PromiseNext, Promise!Ask, Shown
<1>3. CASE ReadBackups
  <2>1. Shown' = Shown
    BY <1>3 DEF ReadBackups, Shown
  <2> QED
    BY <1>3, <2>1 DEF ReadBackups
<1>4. CASE BackupFails
  <2>1. Shown' = Shown
    BY <1>4 DEF BackupFails, Ends, Shown
  <2> QED
    BY <1>4, <2>1 DEF BackupFails, Ends, Promise!PromiseNext, Promise!Fail, Shown
<1>5. CASE Delete
  <2>1. PICK p \in accounts : store' \in {store, [store EXCEPT ![p] = None]}
    BY <1>5 DEF Delete, Deletes
  <2>2. \A q \in Profiles : q \notin accounts => store'[q] = store[q]
    BY <2>1 DEF TypeOK, Secrets
  <2>3. Shown' = Shown
    BY <1>5, <2>2 DEF Delete, Deletes, Shown
  <2> QED
    BY <1>5, <2>3 DEF Delete, Deletes
<1>6. CASE Write
  BY <1>6 DEF Write, Writes, Shown
<1>7. CASE Rename
  <2>1. CASE pc' = "idle"
    BY <1>7, <2>1, RenameRefines DEF Promise!PromiseNext
  <2>2. CASE pc' # "idle"
    BY <1>7, <2>2 DEF Rename, Renames, Ends, Shown
  <2> QED
    BY <2>1, <2>2
<1>8. CASE Restore
  <2>1. PICK p \in attempted :
          store' \in {store, [store EXCEPT ![p] = backups[p]]}
    BY <1>8 DEF Restore
  <2>2. \A q \in Profiles : q \notin accounts => store'[q] = store[q]
    BY <2>1 DEF TypeOK, Secrets
  <2>3. Shown' = Shown
    BY <1>8, <2>2 DEF Restore, Shown
  <2> QED
    BY <1>8, <2>3 DEF Restore
<1>9. CASE Restored
  <2>1. /\ pc = "undo" /\ pc' = "idle" /\ attempted = {}
        /\ UNCHANGED <<file, store, accounts, backups>>
        /\ answer' = IF restored THEN "failed" ELSE "rollback"
    BY <1>9 DEF Restored, Ends
  <2>2. Shown' = store
    BY <2>1 DEF Shown, TypeOK, Secrets
  <2>3. CASE restored
    <3>1. Shown = store
      BY <2>1, <2>3 DEF Shown, BackupsOK, TypeOK, Secrets
    <3> QED
      BY <2>1, <2>2, <2>3, <3>1 DEF Promise!PromiseNext, Promise!Fail, Shown
  <2>4. CASE ~restored
    <3>1. \A p \in Profiles : store[p] \in {Shown[p], None}
      BY <2>1 DEF Shown, BackupsOK
    <3>2. store \in Promise!Secrets
      BY DEF TypeOK, Secrets, Promise!Secrets
    <3>3. Promise!SomeLost
      BY <2>2, <3>1, <3>2 DEF Promise!SomeLost, Shown
    <3> QED
      BY <2>1, <2>4, <3>3 DEF Promise!PromiseNext, Promise!FailAndSaySo
  <2> QED
    BY <2>3, <2>4
<1>10. ASSUME NEW p \in Profiles, Remember(p)
       PROVE  Promise!Remember(p)
  <2>1. Loaded = file
    BY DEF Loaded, CacheMatchesFile
  <2>2. pc = "idle" /\ pc' = "idle" /\ UNCHANGED <<file, answer>>
    BY <1>10 DEF Remember, update
  <2>3. Shown = store /\ Shown' = store'
    BY <1>10, <2>2 DEF Shown, TypeOK, Secrets, Remember
  <2> QED
    BY <1>10, <2>1, <2>2, <2>3 DEF Remember, Promise!Remember, Shown
<1>11. ASSUME NEW p \in Profiles, Forget(p)
       PROVE  Promise!Forget(p)
  <2>1. pc = "idle" /\ pc' = "idle" /\ UNCHANGED <<file, answer>>
    BY <1>11 DEF Forget, update
  <2>2. Shown = store /\ Shown' = store'
    BY <1>11, <2>1 DEF Shown, TypeOK, Secrets, Forget
  <2> QED
    BY <1>11, <2>1, <2>2 DEF Forget, Promise!Forget, Shown
<1>12. CASE Die
  <2>1. pc' = "idle" /\ UNCHANGED <<file, store>> /\ answer' = "none"
    BY <1>12 DEF Die
  <2>2. Shown' = store
    BY <2>1 DEF Shown, TypeOK, Secrets
  <2>3. \A p \in Profiles : store[p] \in {Shown[p], None}
    BY DEF Shown, BackupsOK
  <2>4. store \in Promise!Secrets
    BY DEF TypeOK, Secrets, Promise!Secrets
  <2>5. Promise!SomeLost
    BY <2>2, <2>3, <2>4 DEF Promise!SomeLost, Shown
  <2> QED
    BY <2>1, <2>5 DEF Promise!PromiseNext, Promise!Die
<1>13. CASE UNCHANGED vars
  BY <1>13 DEF vars, update, Shown
<1> QED
  BY <1>1, <1>2, <1>3, <1>4, <1>5, <1>6, <1>7, <1>8, <1>9, <1>10, <1>11,
     <1>12, <1>13 DEF Next, Promise!PromiseNext

(* An update is one step of SettingsPromise: an answer "failed" has lost   *)
(* nothing, "saved" has changed both stores, and what is lost otherwise is *)
(* said, or the application has died (docs/remote-authentication.md:50).   *)
THEOREM UpdateRefines == Spec => UpdatePromise
<1>1. Spec => []IInv /\ [][Next]_vars /\ Init
  BY Invariant, PTL DEF Spec
<1> QED
  BY <1>1, InitRefines, StepRefines, PTL DEF UpdatePromise, Promise!PromiseSpec
=============================================================================
