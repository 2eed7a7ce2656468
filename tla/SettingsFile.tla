---------------------------- MODULE SettingsFile ----------------------------
(***************************************************************************)
(* settings.json and what a build makes of it (settings/mod.rs,            *)
(* commands/settings.rs): migration and normalisation, the cache, and the  *)
(* replacement of the file, with other builds and editors that write the   *)
(* same file.  SettingsUpdate has the secrets that go with an update.      *)
(*                                                                         *)
(* Profiles keep what the rules tell apart.  The name "long" has a blank   *)
(* as its 120th code point, so it is cut to "cut ".  trust is the pin of   *)
(* an FTPS profile or the acknowledgement of an FTP one, with the endpoint *)
(* it was given for; ssh is what only SFTP has.                            *)
(***************************************************************************)
EXTENDS Naturals, Sequences, FiniteSets

CONSTANTS
  Files,     \* contents of editor.editableFiles that are written by hand
  Lists,     \* lists of profiles that are written by hand or sent by the window
  Versions,  \* versions of the files that other builds write
  Limit,     \* entries of a list that are read
  Shared,    \* what another build may write while this one works on the file
  MaxWrites, \* writes by others, updates and deaths
  Missing, Broken, \* a file that is not there, or is no JSON
  Reset, None

Version == 10
Former == <<".js", ".rs">>
Default == <<".js", ".rs", ".htm">>
AddedBy6 == <<".rs">>

VARIABLES
  file,     \* settings, Missing or Broken
  cached,   \* the settings in memory
  op,       \* the request under way
  touched,  \* the file was written by others since this process read or wrote it
  writes

vars == <<file, cached, op, touched, writes>>

-----------------------------------------------------------------------------
(* Normalisation.                                                          *)

\* The entries of a list that are read.
Read(s) == DOMAIN s \cap 1..Limit

\* The entries of s at some of its places, in their order.
Kept(s, places) ==
  [k \in 1..Cardinality(places) |->
     s[CHOOSE i \in places : Cardinality({j \in places : j =< i}) = k]]

\* Entries without a dot gain one, paths and blanks are dropped; the first of those that differ
\* in case only is kept.
Item(f) == CASE f = "js" -> ".js" [] f = "/a" -> "" [] OTHER -> f
Lower(f) == IF f = ".JS" THEN ".js" ELSE f
Caseless(s) ==
  Kept(s, {i \in DOMAIN s : s[i] # "" /\ \A j \in DOMAIN s : j < i => Lower(s[j]) # Lower(s[i])})

EditableFiles(raw) ==
  LET read == Caseless([i \in Read(raw.files) |-> Item(raw.files[i])])
      files == IF raw.version < 6 THEN Caseless(read \o AddedBy6) ELSE read
  IN IF /\ Len(files) = Len(Former)
        /\ \A i \in DOMAIN Former : \E j \in DOMAIN files : Lower(files[j]) = Former[i]
     THEN Default ELSE files

Known == {"sftp", "ftp", "ftps"}
Name(p) == CASE p.name = "long" -> "cut " [] p.name = "cut " -> "cut" [] OTHER -> p.name
Oneof(x, set, default) == IF x \in set THEN x ELSE default

\* A profile without a protocol is a legacy SFTP profile.
Protocol(p) == IF p.protocol = "" THEN "sftp" ELSE p.protocol

\* Profiles of other protocols are preserved as they are; "none" is one with unsupported values.
Usable(p) ==
  /\ p.id # "bad id" /\ Protocol(p) # "none"
  /\ Protocol(p) \in Known => p.host # ""

Connection(p) ==
  LET protocol == Protocol(p)
      sftp == Oneof(p.auth, {"auto", "agent", "password", "privateKey"}, "privateKey")
      ftp == Oneof(p.auth, {"password", "anonymous"}, "password")
      base == [p EXCEPT !.protocol = protocol, !.name = Name(p), !.secret = FALSE]
  IN CASE protocol \notin Known -> [p EXCEPT !.secret = FALSE]
       [] protocol = "sftp" ->
            [base EXCEPT !.auth = sftp, !.save = p.save /\ sftp \in {"auto", "password"},
                         !.tls = "", !.trust = None]
       [] protocol \in {"ftp", "ftps"} ->
            [base EXCEPT !.auth = ftp, !.save = p.save /\ ftp = "password", !.ssh = FALSE,
               !.tls = IF protocol = "ftps" THEN Oneof(p.tls, {"explicit", "implicit"}, "explicit") ELSE "",
               !.trust = IF p.trust # None /\ p.trust.protocol = protocol THEN p.trust ELSE None]

LastOfId(list) ==  \* mutant: a later profile of the same id replaces the first
  LET usable == {i \in Read(list) : Usable(list[i])}
  IN Kept([i \in Read(list) |-> Connection(list[i])],
          {i \in usable : \A j \in usable : j > i => list[j].id # list[i].id})
Connections(list) ==
  LET usable == {i \in Read(list) : Usable(list[i])}
  IN Kept([i \in Read(list) |-> Connection(list[i])],
          {i \in usable : \A j \in usable : j < i => list[j].id # list[i].id})

Normalize(raw) ==
  [version |-> Version, files |-> EditableFiles(raw), list |-> Connections(raw.list)]
Defaults == [version |-> Version, files |-> Default, list |-> <<>>]

\* A trust that counts is for the endpoint that it stands beside.
TrustFits(p) ==
  p.trust # None /\ p.protocol \in Known =>
    p.trust = [protocol |-> p.protocol, host |-> p.host, tls |-> p.tls]

Raws == [version : Versions, files : Files, list : Lists]

\* Lists hold profiles, and whoever writes a trust means the endpoint beside it.
Fields == {"id", "protocol", "name", "host", "auth", "save", "tls", "trust", "secret", "ssh"}
SettingsFileAssumption ==
  /\ Limit \in Nat /\ Shared \subseteq Raws /\ MaxWrites \in Nat
  /\ \A list \in Lists : \A i \in Read(list) :
       /\ list[i] = [x \in Fields |-> list[i][x]]
       /\ Usable(list[i]) => TrustFits(Connection(list[i]))

\* "Trust belongs to an endpoint."
Moved(old, p) ==
  \/ old.protocol # p.protocol \/ old.host # p.host
  \/ p.protocol = "ftps" /\ old.tls # p.tls
ResetNothing(before, list) ==  \* mutant: a profile that is moved keeps its trust
  list
ResetTrust(before, list) ==
  [i \in DOMAIN list |->
     IF /\ list[i].protocol \in {"ftp", "ftps"}
        /\ \E j \in DOMAIN before : before[j].id = list[i].id /\ Moved(before[j], list[i])
     THEN [list[i] EXCEPT !.trust = None] ELSE list[i]]

-----------------------------------------------------------------------------
Idle == [step |-> "idle", sent |-> None, value |-> None]

Init ==
  /\ file \in {Missing, Broken} \cup {r \in Raws : r.list = <<>>}
  /\ cached = None /\ op = Idle /\ touched = TRUE /\ writes = 0

Counted == writes < MaxWrites /\ writes' = writes + 1

\* An editor, or another build, replaces the file.
WrittenByOthers ==
  /\ Counted /\ touched' = TRUE
  /\ file' \in IF cached = None /\ op = Idle THEN Raws ELSE Shared
  /\ UNCHANGED <<cached, op>>

\* The window sends a list of its own, or the one it read with a profile edited.
Edited ==
  IF cached = None THEN {} ELSE
    UNION {{[cached.list EXCEPT ![i].host = "g"], [cached.list EXCEPT ![i].tls = "implicit"],
            [cached.list EXCEPT ![i].protocol = "ftps"], [cached.list EXCEPT ![i].protocol = "ftp"]} :
           i \in DOMAIN cached.list}

\* settings_get, and settings_update or settings_reset, which begin with load.
Begin ==
  /\ op = Idle
  /\ \/ op' = [Idle EXCEPT !.step = "load"] /\ UNCHANGED writes
     \/ /\ Counted
        /\ \E list \in Lists \cup Edited \cup {Reset} : op' = [step |-> "load", sent |-> list, value |-> None]
  /\ UNCHANGED <<file, cached, touched>>

Loaded == IF op.sent = None THEN Idle ELSE [op EXCEPT !.step = "prepare"]

Newer == file \notin {Missing, Broken} /\ file.version > Version

Load ==
  /\ op.step = "load"
  /\ \/ cached # None /\ op' = Loaded /\ UNCHANGED <<cached, touched>>
     \/ /\ cached = None /\ (file = Broken \/ Newer)
        /\ touched' = FALSE /\ op' = Idle /\ UNCHANGED cached
     \/ /\ cached = None /\ file # Broken /\ ~Newer
        /\ touched' = FALSE
        /\ LET value == IF file = Missing THEN Defaults ELSE Normalize(file)
           IN IF file = value THEN cached' = value /\ op' = Loaded
              ELSE op' = [op EXCEPT !.step = "persist", !.value = value] /\ UNCHANGED cached
  /\ UNCHANGED <<file, writes>>

\* update; save normalises once more.
Prepare ==
  /\ op.step = "prepare"
  /\ LET next == Normalize([cached EXCEPT !.list = op.sent])
     IN op' = [step |-> "persist", sent |-> None,
               value |-> IF op.sent = Reset THEN Normalize(Defaults)
                         ELSE Normalize([next EXCEPT !.list = ResetTrust(cached.list, @)])]
  /\ UNCHANGED <<file, cached, touched, writes>>

CacheFirst ==  \* mutant: the settings are cached although the write may fail
  /\ op.step = "persist"
  /\ cached' = op.value /\ touched' = FALSE
  /\ \/ file' = op.value /\ op' = Loaded
     \/ op' = Idle /\ UNCHANGED file
  /\ UNCHANGED writes

\* The temporary file is written, protected and renamed, or nothing changes.
Persist ==
  /\ op.step = "persist"
  /\ \/ file' = op.value /\ cached' = op.value /\ touched' = FALSE /\ op' = Loaded
     \/ op' = Idle /\ UNCHANGED <<file, cached, touched>>
  /\ UNCHANGED writes

Die ==
  /\ Counted /\ cached' = None /\ op' = Idle /\ touched' = TRUE
  /\ UNCHANGED file

Next == WrittenByOthers \/ Begin \/ Load \/ Prepare \/ Persist \/ Die

Spec == Init /\ [][Next]_vars

-----------------------------------------------------------------------------
TypeOK ==
  /\ op.step \in {"idle", "load", "prepare", "persist"}
  /\ touched \in BOOLEAN /\ writes \in 0..MaxWrites
  /\ cached # None => cached.version = Version

(* No two profiles share an id, so that their secrets stay apart, and no   *)
(* secret is written to the file, neither of a profile of this build nor   *)
(* of one that is only preserved.                                          *)
ProfilesApart ==
  cached # None =>
    /\ \A i, j \in DOMAIN cached.list : cached.list[i].id = cached.list[j].id => i = j
    /\ \A i \in DOMAIN cached.list : ~cached.list[i].secret

(* What is loaded or saved has the profiles of the file, or of the list    *)
(* that was sent, each with its id, protocol and host, and no others: the  *)
(* first of each id within the entries that are read, but for those        *)
(* without a valid id, with values that are not supported, or of a known   *)
(* protocol without a host.                                                *)
Lost(p) ==
  \/ p.id = "bad id" \/ p.protocol = "none"
  \/ p.host = "" /\ p.protocol \in {"", "sftp", "ftp", "ftps"}
Firsts(list) ==
  {i \in Read(list) : /\ ~Lost(list[i])
                      /\ \A j \in Read(list) : j < i /\ ~Lost(list[j]) => list[j].id # list[i].id}
Endpoint(p) == <<p.id, IF p.protocol = "" THEN "sftp" ELSE p.protocol, p.host>>
Keeps(raw, list) ==
  {Endpoint(list[k]) : k \in DOMAIN list} = {Endpoint(raw[i]) : i \in Firsts(raw)}
ProfilesKept ==
  [][op'.step = "persist" =>
       /\ op.step = "load" /\ file # Missing => Keeps(file.list, op'.value.list)
       /\ op.step = "prepare" /\ op.sent # Reset => Keeps(op.sent, op'.value.list)]_vars

(* A certificate or a warning that was accepted for one endpoint never     *)
(* stands for another one.                                                 *)
TrustStaysWithEndpoint ==
  cached # None => \A i \in DOMAIN cached.list : TrustFits(cached.list[i])

(* A restart loads what the last load or save left in memory: the file     *)
(* holds it, and it is normal already, unless a name was cut at a blank or *)
(* the entries of later versions made the list of files too long.          *)
RestartLoadsSame ==
  cached # None /\ ~touched =>
    /\ file = cached
    /\ /\ Len(cached.files) =< Limit
       /\ \A i \in DOMAIN cached.list : cached.list[i].name # "cut "
       => Normalize(file) = cached

(* "normalized output is a fixed point" (docs/ftp-ftps.md:51)              *)
FixedPoint == cached # None => Normalize(cached) = cached

(* A file of a later version that this process has looked at is neither    *)
(* normalised nor replaced by its updates and resets, which begin with     *)
(* load; until another build writes again.                                 *)
NewerKept == [][Newer /\ ~touched => file' = file \/ touched']_vars

(* Does not hold when another build writes between this one's load and its *)
(* save, which does not read again (settings/mod.rs:182): "Settings from a *)
(* newer Vesperwind are neither normalized nor rewritten; every update and *)
(* reset starts from this load." (settings/mod.rs:155)                     *)
NewerAlwaysKept == [][Newer => file' = file \/ touched']_vars
=============================================================================
