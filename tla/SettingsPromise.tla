--------------------------- MODULE SettingsPromise ---------------------------
(***************************************************************************)
(* What a settings update promises (docs/remote-authentication.md:47-56):  *)
(* profiles and their saved secrets change together or not at all, except  *)
(* that secrets may be lost when the application says so or dies.          *)
(***************************************************************************)
CONSTANTS Profiles, Hosts, None

VARIABLES
  settings,  \* host and save flag of each profile, None if there is none
  secrets,   \* the saved password of each profile, named by its host
  answer     \* of the last update

promiseVars == <<settings, secrets, answer>>

Entry    == [host : Hosts, save : BOOLEAN] \cup {None}
Settings == [Profiles -> Entry]
Secrets  == [Profiles -> Hosts \cup {None}]

(* A secret goes with the profile it was saved for.                        *)
Belongs(secret, entry) ==
  secret # None => entry # None /\ entry.save /\ entry.host = secret

Matching(all, profiles) == \A p \in Profiles : Belongs(all[p], profiles[p])

SomeLost ==
  /\ secrets' \in Secrets
  /\ \A p \in Profiles : secrets'[p] \in {secrets[p], None}

PromiseInit ==
  /\ settings \in Settings
  /\ secrets \in Secrets
  /\ Matching(secrets, settings)
  /\ answer = "none"

Ask == answer' = "none" /\ UNCHANGED <<settings, secrets>>

Save ==
  /\ settings' \in Settings
  /\ secrets' = [p \in Profiles |->
                   IF Belongs(secrets[p], settings'[p]) THEN secrets[p] ELSE None]
  /\ answer' = "saved"

Fail == answer' = "failed" /\ UNCHANGED <<settings, secrets>>

FailAndSaySo == answer' = "rollback" /\ SomeLost /\ UNCHANGED settings

Die == answer' = "none" /\ SomeLost /\ UNCHANGED settings

Remember(p) ==
  /\ settings[p] # None /\ settings[p].save
  /\ secrets' = [secrets EXCEPT ![p] = settings[p].host]
  /\ UNCHANGED <<settings, answer>>

Forget(p) ==
  /\ secrets' = [secrets EXCEPT ![p] = None]
  /\ UNCHANGED <<settings, answer>>

PromiseNext ==
  \/ Ask \/ Save \/ Fail \/ FailAndSaySo \/ Die
  \/ \E p \in Profiles : Remember(p) \/ Forget(p)

PromiseSpec == PromiseInit /\ [][PromiseNext]_promiseVars
=============================================================================
