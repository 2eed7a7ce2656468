----------------------------- MODULE RemoteCopy -----------------------------
(***************************************************************************)
(* One operation with a remote side, as the operation helper runs it       *)
(* (src-tauri/src/filesystem/remote_ops.rs): copy, move, delete, rename    *)
(* and create, over the endpoints of ftp/mod.rs and ssh.rs, with the       *)
(* checkpoints of jobs.rs at which a stop byte or the deadline ends it.    *)
(*                                                                         *)
(* The selected item is a tree whose entries are numbered in the order the *)
(* copy visits them, so `at` says how far it has come.  Other clients may  *)
(* create entries at the destination at any moment, every command may be   *)
(* refused, and the connection may be lost after the server has applied a  *)
(* command.                                                                *)
(*                                                                         *)
(* Abstracted: names and paths, the checks of names, bytes (a file is a    *)
(* number of chunks), which error is reported beyond its kind, and         *)
(* progress reports.  A server is taken to refuse what the protocol lets   *)
(* it refuse: to create or to rename over an existing item (SFTP), to make *)
(* an existing folder (both).                                              *)
(***************************************************************************)
EXTENDS Naturals, FiniteSets

CONSTANTS
  N,         \* the number of entries of the tree
  Parent,    \* the folder of each entry but the first
  Folders,   \* the entries that are folders
  Unlisted,  \* entries that a listing of the source leaves out
  Later,     \* entries that others may create at the source meanwhile
  Chunks,    \* steps in which a file is read
  Jobs       \* the operations: records of action, source and target place

Entries  == 1..N
Places   == {"local", "sftp", "ftp"}
Streamed == {"copy", "move"}
Actions  == Streamed \cup {"delete", "rename", "create-file", "create-folder"}

(* With a folder, a set holds everything beneath it.                       *)
Closed(S) == \A e \in 2..N : Parent[e] \in S => e \in S

ASSUME TreeAssumption ==
  /\ N \in Nat \ {0}
  /\ Folders \subseteq Entries
  /\ Parent \in [2..N -> Folders]
  /\ \A e \in 2..N : Parent[e] < e
  /\ Unlisted \subseteq 2..N /\ Closed(Unlisted)
  /\ Later \subseteq 2..N /\ Closed(Later)
  /\ Chunks \in Nat
  /\ Jobs \subseteq [action : Actions, from : Places, to : Places]

VARIABLES
  job,      \* the request
  source,   \* entries of the source that exist
  dest,     \* the item at the destination of each entry
  at,       \* the entry the copy works on; all before it are dealt with
  listed,   \* entries named by the listings the copy, or the removal, made
  pc,       \* what it does next
  chunks,   \* chunks of the current file that are written
  entered,  \* the open calls of the recursive `remove`
  stop,     \* CANCEL_REQUESTED
  late,     \* DEADLINE has passed
  lost,     \* whether a command on the destination had an unknown outcome
  outcome   \* the result line of the helper

vars == <<job, source, dest, at, listed, pc, chunks, entered, stop, late,
          lost, outcome>>

Pcs == {"entry", "check", "store", "read", "write", "finish", "confirm",
        "cleanup", "remove", "rename", "ended"}

Kind(e) ==
  CASE job.action = "create-file"   -> "file"
    [] job.action = "create-folder" -> "folder"
    [] OTHER -> IF e \in Folders THEN "folder" ELSE "file"

(* checkpoint()                                                            *)
Goes == ~stop /\ ~late

End(result) ==
  /\ pc' = "ended"
  /\ outcome' = result

(* Where the creation of an item starts: FTP has no exclusive create and   *)
(* looks first.                                                            *)
Creating(place) == IF place = "ftp" THEN "check" ELSE "store"

Start(j) ==
  CASE j.action \in Streamed -> "entry"
    [] j.action = "delete"   -> "remove"
    [] j.action = "rename"   -> IF j.to = "ftp" THEN "check" ELSE "rename"
    [] OTHER                 -> Creating(j.to)

Init ==
  /\ job \in Jobs
  /\ source  = Entries \ Later
  /\ dest    = [e \in Entries |-> "absent"]
  /\ at      = 1
  /\ listed  = {1}
  /\ pc      = Start(job)
  /\ chunks  = 0
  /\ entered = {}
  /\ stop    = FALSE
  /\ late    = FALSE
  /\ lost    = FALSE
  /\ outcome = "none"

-----------------------------------------------------------------------------
(* copy_entry: visit an entry, make its folder or open its file.           *)

Children(e) == {c \in source : c # 1 /\ Parent[c] = e}

(* The names of a local folder come from `read_dir(..).filter_map(ok)`,    *)
(* those of an SFTP folder from `child_names`; an FTP listing with a name  *)
(* that cannot be used is refused as a whole.                              *)
Omitted == IF job.from \in {"local", "sftp"} THEN Unlisted ELSE {}

(* The loop over the names of a folder does not come to this entry.        *)
Skip ==
  /\ pc = "entry" /\ at \in Entries
  /\ at \notin listed
  /\ at' = at + 1
  /\ UNCHANGED <<job, source, dest, listed, pc, chunks, entered, stop, late,
                 lost, outcome>>

(* checkpoint, resolve, stat, and the listing or open_read of the source.  *)
Visit ==
  /\ pc = "entry" /\ at \in listed
  /\ \/ /\ Goes
        /\ pc' = Creating(job.to)
        /\ listed' = listed \cup (Children(at) \ Omitted)
        /\ UNCHANGED outcome
     \/ ~Goes /\ End("stopped") /\ UNCHANGED listed
     \/ Goes /\ End("error") /\ UNCHANGED listed
  /\ chunks' = 0
  /\ UNCHANGED <<job, source, dest, at, entered, stop, late, lost>>

(* FTP: stat_entry before MKD, STOR and RNFR.                              *)
CheckTarget ==
  /\ pc = "check"
  /\ \/ /\ dest[at] = "absent"
        /\ pc' = IF job.action = "rename" THEN "rename" ELSE "store"
        /\ UNCHANGED outcome
     \/ End("error")
  /\ UNCHANGED <<job, source, dest, at, listed, chunks, entered, stop, late,
                 lost>>

(* What becomes of entry `at` when it is dealt with.                       *)
Made(state) ==
  /\ dest' = [dest EXCEPT ![at] = state]
  /\ IF job.action \in Streamed
       THEN at' = at + 1 /\ pc' = "entry" /\ UNCHANGED outcome
       ELSE End("ok") /\ UNCHANGED at

MakeFolder ==
  /\ pc = "store" /\ Kind(at) = "folder"
  /\ dest[at] = "absent"
  /\ Made("full")
  /\ UNCHANGED <<job, source, listed, chunks, entered, stop, late, lost>>

(* STOR replaces what another client created after the check; an exclusive *)
(* create does not.                                                        *)
OpenTarget ==
  /\ pc = "store" /\ Kind(at) = "file"
  /\ dest[at] = "absent" \/ job.to = "ftp"
  /\ dest' = [dest EXCEPT ![at] = "partial"]
  /\ pc' = IF job.action \in Streamed THEN "read" ELSE "confirm"
  /\ UNCHANGED <<job, source, at, listed, chunks, entered, stop, late, lost,
                 outcome>>

StoreFailsInto(next) ==
  /\ pc = "store"
  /\ \/ UNCHANGED <<dest, lost>>
     \/ /\ job.to # "local"
        /\ dest[at] = "absent"
        /\ dest' = [dest EXCEPT ![at] =
                      IF Kind(at) = "folder" THEN "full" ELSE "partial"]
        /\ lost' = TRUE
  /\ pc' = next
  /\ outcome' = "error"
  /\ UNCHANGED <<job, source, at, listed, chunks, entered, stop, late>>

StoreFailsCleansUp ==  \* mutant: what is in the way is taken for a leftover
  StoreFailsInto("cleanup")

(* An error of create_folder or create_new ends the operation at once: the *)
(* item in the way, if any, is not this copy's.                            *)
StoreFails == StoreFailsInto("ended")

-----------------------------------------------------------------------------
(* copy_stream, and the removal of a partial destination after it failed.  *)

Failed(result) == pc' = "cleanup" /\ outcome' = result

(* `read` returns 0 at the end of the file, for FTP also at a premature    *)
(* end of the data connection.                                             *)
Read(more, eof) ==
  /\ pc = "read"
  /\ \/ ~Goes /\ Failed("stopped")
     \/ Goes /\ more /\ pc' = "write" /\ UNCHANGED outcome
     \/ Goes /\ eof /\ pc' = "finish" /\ UNCHANGED outcome
     \/ Goes /\ Failed("error")
  /\ UNCHANGED <<job, source, dest, at, listed, chunks, entered, stop, late,
                 lost>>

ReadsOn == Read(TRUE, chunks = Chunks)  \* mutant: 0 bytes are not the end

ReadChunk == Read(chunks < Chunks, chunks = Chunks \/ job.from = "ftp")

WriteChunk ==
  /\ pc = "write"
  /\ \/ ~Goes /\ Failed("stopped") /\ UNCHANGED chunks
     \/ Goes /\ Failed("error") /\ UNCHANGED chunks
     \/ Goes /\ pc' = "read" /\ chunks' = chunks + 1 /\ UNCHANGED outcome
  /\ UNCHANGED <<job, source, dest, at, listed, entered, stop, late, lost>>

(* reader.finish: for FTP the final reply of the download, which is good   *)
(* only if the server sent everything.                                     *)
ReaderFinishedIf(whole) ==
  /\ pc = "finish"
  /\ \/ whole /\ pc' = "confirm" /\ UNCHANGED outcome
     \/ Failed("error")
  /\ UNCHANGED <<job, source, dest, at, listed, chunks, entered, stop, late,
                 lost>>

FinishReaderIgnored ==  \* mutant: the final reply of the source is ignored
  ReaderFinishedIf(TRUE)

FinishReader == ReaderFinishedIf(chunks = Chunks)

(* writer.finish: the file exists with what was written only if this       *)
(* reports success.                                                        *)
FinishWriter ==
  /\ pc = "confirm"
  /\ Made(IF job.action = "create-file" \/ chunks = Chunks
            THEN "full" ELSE "partial")
  /\ UNCHANGED <<job, source, listed, chunks, entered, stop, late, lost>>

FinishWriterFails ==
  /\ pc = "confirm"
  /\ IF job.action \in Streamed THEN Failed("error") ELSE End("error")
  /\ UNCHANGED <<job, source, dest, at, listed, chunks, entered, stop, late,
                 lost>>

(* Best effort.  A remote `remove` starts with a checkpoint of its own.    *)
CleanUpForgotten ==  \* mutant: the partial destination is left
  /\ pc = "cleanup"
  /\ pc' = "ended"
  /\ UNCHANGED <<job, source, dest, at, listed, chunks, entered, stop, late,
                 lost, outcome>>

CleanUp ==
  /\ pc = "cleanup"
  /\ \/ /\ job.to = "local" \/ Goes
        /\ dest' = [dest EXCEPT ![at] = "absent"]
        /\ UNCHANGED lost
     \/ /\ job.to = "local" \/ Goes
        /\ lost' = TRUE
        /\ dest' \in {dest, [dest EXCEPT ![at] = "absent"]}
     \/ /\ job.to # "local" /\ ~Goes
        /\ UNCHANGED <<dest, lost>>
  /\ pc' = "ended"
  /\ UNCHANGED <<job, source, at, listed, chunks, entered, stop, late,
                 outcome>>

-----------------------------------------------------------------------------
(* The whole copy is done: a copy reports it, a move removes the source.   *)

RemovesAsItGoes ==  \* mutant: the move removes the source file by file
  /\ pc = "entry" /\ at > 1
  /\ pc' = "remove"
  /\ listed' = {1}
  /\ UNCHANGED <<job, source, dest, at, chunks, entered, stop, late, lost,
                 outcome>>

CopyDone ==
  /\ pc = "entry" /\ at = N + 1
  /\ IF job.action = "copy"
       THEN End("ok") /\ UNCHANGED listed
       ELSE pc' = "remove" /\ listed' = {1} /\ UNCHANGED outcome
  /\ UNCHANGED <<job, source, dest, at, chunks, entered, stop, late, lost>>

(* A delete reports the error itself, a move that the copy is complete.    *)
RemovalFails ==
  End(IF job.action = "move" THEN "partial-move" ELSE "error")

(* The innermost open call.                                                *)
IsTop(e) == e \in entered /\ \A f \in entered : f <= e

(* remove_dir_all: no checkpoint, and it follows the folder as it is, not  *)
(* the listing the copy used.                                              *)
RemoveLocal ==
  /\ pc = "remove" /\ job.from = "local"
  /\ \E e \in source :
       /\ Children(e) = {}
       /\ source' = source \ {e}
       /\ IF e = 1 THEN End("ok") ELSE UNCHANGED <<pc, outcome>>
  /\ UNCHANGED <<job, dest, at, listed, chunks, entered, stop, late, lost>>

(* The recursive `remove` of an endpoint: each call starts with a          *)
(* checkpoint, stats its entry and lists a folder anew.                    *)
Callable ==
  {e \in source \cap listed :
     IF e = 1 THEN entered = {} ELSE IsTop(Parent[e])}

RemoveEnter ==
  /\ pc = "remove" /\ job.from # "local"
  /\ Goes
  /\ \E e \in Callable :
       /\ job.from = "sftp" => e \notin Unlisted
       /\ entered' = entered \cup {e}
       /\ listed' = listed \cup Children(e)
  /\ UNCHANGED <<job, source, dest, at, pc, chunks, stop, late, lost, outcome>>

(* SFTP: a name that is not UTF-8 becomes "", which names the folder again *)
(* and recurses until a checkpoint, the stack or the parent ends it.       *)
RemoveNameless ==
  /\ pc = "remove" /\ job.from = "sftp"
  /\ Callable \cap Unlisted # {}
  /\ RemovalFails \/ End("died")
  /\ UNCHANGED <<job, source, dest, at, listed, chunks, entered, stop, late,
                 lost>>

(* All calls for its children have returned: the entry itself.             *)
RemoveEntry ==
  /\ pc = "remove"
  /\ \E e \in entered :
       /\ IsTop(e) /\ Children(e) = {}
       /\ source'  = source \ {e}
       /\ entered' = entered \ {e}
       /\ IF e = 1 THEN End("ok") ELSE UNCHANGED <<pc, outcome>>
  /\ UNCHANGED <<job, dest, at, listed, chunks, stop, late, lost>>

(* A stop before a call, a refusal, entries that came since the listing,   *)
(* or a lost reply, after which the entry may be gone.                     *)
RemoveFails ==
  /\ pc = "remove"
  /\ \/ UNCHANGED source
     \/ \E e \in entered :
          /\ IsTop(e) /\ Children(e) = {}
          /\ source' = source \ {e}
  /\ RemovalFails
  /\ UNCHANGED <<job, dest, at, listed, chunks, entered, stop, late, lost>>

-----------------------------------------------------------------------------
(* A rename, and a move within one connection.                             *)

RenameOver(moved) ==
  /\ source' = source \ moved
  /\ dest' = [e \in Entries |-> IF e \in moved THEN "full" ELSE dest[e]]

(* FTP: what RNTO does to an item that came after the check is the         *)
(* server's affair.                                                        *)
Rename ==
  /\ pc = "rename"
  /\ dest[1] = "absent" \/ job.to = "ftp"
  /\ RenameOver(Entries)
  /\ End("ok")
  /\ UNCHANGED <<job, at, listed, chunks, entered, stop, late, lost>>

RenameFails ==
  /\ pc = "rename"
  /\ \/ UNCHANGED <<source, dest, lost>>
     \/ /\ dest[1] = "absent"
        /\ RenameOver(Entries)
        /\ lost' = TRUE
  /\ End("error")
  /\ UNCHANGED <<job, at, listed, chunks, entered, stop, late>>

-----------------------------------------------------------------------------
(* What happens to the operation from outside.                             *)

StopRequested ==
  /\ pc # "ended"
  /\ stop' = TRUE
  /\ UNCHANGED <<job, source, dest, at, listed, pc, chunks, entered, late,
                 lost, outcome>>

DeadlinePasses ==
  /\ pc # "ended"
  /\ late' = TRUE
  /\ UNCHANGED <<job, source, dest, at, listed, pc, chunks, entered, stop,
                 lost, outcome>>

(* The parent kills the helper, or it crashes: nothing is cleaned up.      *)
Killed ==
  /\ pc # "ended"
  /\ End("died")
  /\ UNCHANGED <<job, source, dest, at, listed, chunks, entered, stop, late,
                 lost>>

(* Another client, or another operation, creates an entry.                 *)
ForeignCreates(e) ==
  /\ pc # "ended"
  /\ dest[e] = "absent"
  /\ e # 1 => dest[Parent[e]] = "full"
  /\ dest' = [dest EXCEPT ![e] = "foreign"]
  /\ UNCHANGED <<job, source, at, listed, pc, chunks, entered, stop, late,
                 lost, outcome>>

(* ... or adds one to a folder of the source.                              *)
SourceGains(e) ==
  /\ pc # "ended"
  /\ e \in Later \ source
  /\ Parent[e] \in source
  /\ source' = source \cup {e}
  /\ UNCHANGED <<job, dest, at, listed, pc, chunks, entered, stop, late, lost,
                 outcome>>

Ended == pc = "ended" /\ UNCHANGED vars

CopyStep ==
  \/ Skip \/ Visit \/ CheckTarget \/ MakeFolder \/ OpenTarget \/ StoreFails
  \/ ReadChunk \/ WriteChunk \/ FinishReader
  \/ FinishWriter \/ FinishWriterFails \/ CleanUp \/ CopyDone

RemoveStep ==
  RemoveLocal \/ RemoveEnter \/ RemoveNameless \/ RemoveEntry \/ RemoveFails

RenameStep == Rename \/ RenameFails

Next ==
  \/ CopyStep
  \/ RemoveStep
  \/ RenameStep
  \/ StopRequested \/ DeadlinePasses \/ Killed
  \/ \E e \in Entries : ForeignCreates(e) \/ SourceGains(e)
  \/ Ended

Spec == Init /\ [][Next]_vars

-----------------------------------------------------------------------------
TypeOK ==
  /\ job \in Jobs
  /\ source \subseteq Entries
  /\ dest \in [Entries -> {"absent", "partial", "full", "foreign"}]
  /\ at \in 1..(N + 1)
  /\ listed \subseteq Entries
  /\ pc \in Pcs
  /\ chunks \in 0..Chunks
  /\ entered \subseteq Entries
  /\ stop \in BOOLEAN /\ late \in BOOLEAN /\ lost \in BOOLEAN
  /\ outcome \in {"none", "ok", "stopped", "error", "partial-move", "died"}

Moving == job.action = "move"

(* The entries that no listing failed to name.                             *)
Sure == Entries \ (Later \cup Omitted)

(* A move never leaves an entry nowhere: whatever fails, stops or dies, it *)
(* is still at the source or whole at the destination.  Not covered are    *)
(* entries that a local listing left out and entries that came after the   *)
(* listing of their folder (operate, remote_ops.rs:378).                   *)
MoveKeepsData ==
  Moving => \A e \in Entries :
    \/ e \in source
    \/ dest[e] = "full"
    \/ e \in Later
    \/ job.from = "local" /\ e \in Unlisted

(* A copy or move that failed left its source whole, unless it says that   *)
(* only the removal of the source failed; then, and when it succeeds, the  *)
(* copy is complete at the destination (EPARTIAL_MOVE,                     *)
(* remote_ops.rs:391-399).                                                 *)
ReportIsTrue ==
  job.action \in Streamed =>
    /\ outcome \in {"stopped", "error"} \/ job.action = "copy"
         => Entries \ Later \subseteq source
    /\ outcome \in {"ok", "partial-move"}
         => \A e \in Sure : dest[e] = "full"
    /\ outcome = "ok" /\ Moving => 1 \notin source

(* What another client made at the destination is never replaced or        *)
(* removed, also not by the clean-up, except where FTP cannot tell: an     *)
(* entry created between the check and STOR or RNTO                        *)
(* (RemoteEndpoint::create_new, ftp/mod.rs:796-805).                       *)
ForeignKept ==
  [][\A e \in Entries : dest[e] = "foreign" =>
       \/ dest'[e] = "foreign"
       \/ job.to = "ftp" /\ pc \in {"store", "rename"}]_vars

(* A failed copy removes the destination file it created, if no reply of   *)
(* the destination was lost, the helper lived to do it and, at a remote    *)
(* destination, was not asked to stop                                      *)
(* (docs/file-operation-lifecycle.md:80).                                  *)
CleanedUp ==
  /\ job.action \in Streamed
  /\ outcome \in {"stopped", "error", "partial-move"} /\ pc = "ended"
  /\ ~lost
  /\ job.to = "local" \/ Goes
  => \A e \in Entries : dest[e] # "partial"

(* What the documentation says of a cancellation: "the helper stops at its *)
(* next checkpoint, removes the partial destination and exits"             *)
(* (docs/ftp-ftps.md:411-413).  Not so at a remote destination, where the  *)
(* removal begins with a checkpoint too.                                   *)
StoppedCleansUp ==
  pc = "ended" /\ outcome = "stopped" /\ ~lost
    => \A e \in Entries : dest[e] # "partial"

(* What the code says of a move: "The source is removed only after the     *)
(* whole copy succeeded." (remote_ops.rs:378).                             *)
WholeCopyFirst ==
  Moving => \A e \in Entries \ Later : e \in source \/ dest[e] = "full"
=============================================================================
