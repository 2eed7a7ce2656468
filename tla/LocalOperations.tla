-------------------------- MODULE LocalOperations --------------------------
(***************************************************************************)
(* One local operation, as the operation helper runs it                    *)
(* (src-tauri/src/filesystem/operations.rs): copy, move, link, rename,     *)
(* delete and create.  A move within a file system is one rename; between  *)
(* two it is a copy of the tree and a removal of the source, and whatever  *)
(* fails on the way ends in remove_partial at the destination.             *)
(*                                                                         *)
(* The selected item is a tree whose entries are numbered in the order the *)
(* copy visits them, so `at` says how far it has come.  Any call may fail, *)
(* the helper may be killed between any two, and other programs may create *)
(* items at both ends meanwhile.                                           *)
(*                                                                         *)
(* Abstracted: paths and their checks, the content of files and links,     *)
(* permissions and times (calls that may fail), and which error is         *)
(* reported.  A rename to the same name, which does nothing, is left out.  *)
(* fs::rename and fs::copy replace an item in their way where the system   *)
(* does; fs::create_dir, create_new and symlink do not.                    *)
(***************************************************************************)
EXTENDS Naturals

CONSTANTS
  N,        \* the number of entries of the tree
  Parent,   \* the folder of each entry but the first
  Folders,  \* the entries that are folders
  Links,    \* the entries that are symbolic links
  Later,    \* entries that other programs may create at the source
  Jobs      \* the requested actions

Entries == 1..N
Actions == {"create", "rename", "delete", "link", "copy", "move"}

(* With a folder, a set holds everything beneath it.                       *)
Closed(S) == \A e \in 2..N : Parent[e] \in S => e \in S

ASSUME LocalAssumption ==
  /\ N \in Nat \ {0}
  /\ Folders \subseteq Entries /\ Links \subseteq Entries \ Folders
  /\ Parent \in [2..N -> Folders]
  /\ \A e \in 2..N : Parent[e] < e
  /\ Later \subseteq 2..N /\ Closed(Later)
  /\ Jobs \subseteq Actions

VARIABLES
  action,   \* of the request
  taken,    \* whether the destination exists before the operation
  source,   \* entries of the source that exist
  dest,     \* the item at the destination of each entry
  at,       \* the entry the copy works on; all before it are dealt with
  listed,   \* entries that the copy or the delete has read in their folder
  entered,  \* folders on the stack of remove_bounded
  pc,       \* what it does next
  stop,     \* whether a checkpoint fails: CANCEL_REQUESTED or the deadline
  failed,   \* which of the two removals of a copy and move failed
  outcome   \* the result line of the helper

vars == <<action, taken, source, dest, at, listed, entered, pc, stop, failed,
          outcome>>

Pcs == {"begin", "create", "check", "rename", "link", "prepare", "copy",
        "write", "remove", "delete", "undo", "ended"}

Init ==
  /\ action \in Jobs
  /\ taken \in BOOLEAN
  /\ source  = Entries \ Later
  /\ dest    = [e \in Entries |-> IF e = 1 /\ taken THEN "foreign"
                                                    ELSE "absent"]
  /\ at      = 1
  /\ listed  = {1}
  /\ entered = {}
  /\ pc      = "begin"
  /\ stop    = FALSE
  /\ failed  = {}
  /\ outcome = "none"

Goes(next) == pc' = next /\ UNCHANGED outcome
Ends(result) == pc' = "ended" /\ outcome' = result

(* The error of a copy, move or link first removes what is there.          *)
FailsInto(next) == pc' = next /\ outcome' = "error"
Fails == FailsInto("undo")

Children(e) == {c \in source : c # 1 /\ Parent[c] = e}

-----------------------------------------------------------------------------
(* perform and operate_existing up to the first change.                    *)

First == CASE action = "create" -> "create"
           [] action = "delete" -> "delete"
           [] OTHER             -> "check"

Begin ==
  /\ pc = "begin"
  /\ \/ ~stop /\ Goes(First)
     \/ stop  /\ Ends("stopped")
     \/ ~stop /\ Ends("error")
  /\ UNCHANGED <<action, taken, source, dest, at, listed, entered, stop,
                 failed>>

(* create_dir, or an open with create_new.                                 *)
Create ==
  /\ pc = "create"
  /\ \/ /\ dest[1] = "absent"
        /\ dest' = [dest EXCEPT ![1] = "whole"]
        /\ Ends("ok")
     \/ Ends("error") /\ UNCHANGED dest
  /\ UNCHANGED <<action, taken, source, at, listed, entered, stop, failed>>

(* ensure_available                                                        *)
ChecksFor(free) ==
  /\ pc = "check"
  /\ \/ /\ free
        /\ Goes(CASE action \in {"rename", "move"} -> "rename"
                  [] action = "link"               -> "link"
                  [] OTHER                         -> "prepare")
     \/ Ends("error")
  /\ UNCHANGED <<action, taken, source, dest, at, listed, entered, stop,
                 failed>>

CheckNothing == ChecksFor(TRUE)  \* mutant: without ensure_available

Check == ChecksFor(dest[1] = "absent")

(* symlink                                                                 *)
Link ==
  /\ pc = "link"
  /\ \/ /\ dest[1] = "absent"
        /\ dest' = [dest EXCEPT ![1] = "whole"]
        /\ Ends("ok")
     \/ Fails /\ UNCHANGED dest
  /\ UNCHANGED <<action, taken, source, at, listed, entered, stop, failed>>

-----------------------------------------------------------------------------
(* rename and move_entry.                                                  *)

Rename ==
  /\ pc = "rename"
  /\ dest'   = [e \in Entries |-> IF e \in source THEN "whole" ELSE dest[e]]
  /\ source' = {}
  /\ Ends("ok")
  /\ UNCHANGED <<action, taken, at, listed, entered, stop, failed>>

CrossesDevices ==
  /\ pc = "rename" /\ action = "move"
  /\ Goes("prepare")
  /\ UNCHANGED <<action, taken, source, dest, at, listed, entered, stop,
                 failed>>

RenameFails ==
  /\ pc = "rename"
  /\ IF action = "move" THEN Fails ELSE Ends("error")
  /\ UNCHANGED <<action, taken, source, dest, at, listed, entered, stop,
                 failed>>

-----------------------------------------------------------------------------
(* prepare_copy_content and copy_entry. Neither has a checkpoint.          *)

Prepare ==
  /\ pc = "prepare"
  /\ Goes("copy") \/ Fails
  /\ UNCHANGED <<action, taken, source, dest, at, listed, entered, stop,
                 failed>>

Made ==
  /\ dest' = [dest EXCEPT ![at] = "whole"]
  /\ at' = at + 1
  /\ Goes("copy")

(* create_dir. What is in the folder now is read later on.                 *)
MakeFolder ==
  /\ pc = "copy" /\ at \in listed \cap Folders
  /\ dest[at] = "absent"
  /\ Made
  /\ listed' = listed \cup Children(at)
  /\ UNCHANGED <<action, taken, source, entered, stop, failed>>

MakeLink ==
  /\ pc = "copy" /\ at \in listed \cap Links
  /\ dest[at] = "absent"
  /\ Made
  /\ UNCHANGED <<action, taken, source, listed, entered, stop, failed>>

(* fs::copy creates the file or truncates the one that is there.           *)
OpenFile ==
  /\ pc = "copy" /\ at \in listed \ (Folders \cup Links)
  /\ dest' = [dest EXCEPT ![at] = "partial"]
  /\ Goes("write")
  /\ UNCHANGED <<action, taken, source, at, listed, entered, stop, failed>>

WriteFile ==
  /\ pc = "write"
  /\ Made
  /\ UNCHANGED <<action, taken, source, listed, entered, stop, failed>>

(* An entry that came after its folder was opened may be read or not.      *)
SeeLate ==
  /\ pc = "copy" /\ at \in source \ listed
  /\ dest[Parent[at]] = "whole"
  /\ listed' = listed \cup {at}
  /\ UNCHANGED <<action, taken, source, dest, at, entered, pc, stop, failed,
                 outcome>>

Skips(entries) ==
  /\ pc = "copy" /\ at \in entries \ listed
  /\ at' = at + 1
  /\ UNCHANGED <<action, taken, source, dest, listed, entered, pc, stop,
                 failed, outcome>>

SkipsOn == Skips(1..(N + 1))  \* mutant: the loop goes past the last entry

Skip == Skips(Entries)

(* Any call: a name in the way, a full disk, set_permissions or            *)
(* set_file_times of an entry that is copied or of a folder at its end.    *)
CopyFailsInto(next) ==
  /\ pc \in {"copy", "write"}
  /\ FailsInto(next)
  /\ UNCHANGED <<action, taken, source, dest, at, listed, entered, stop,
                 failed>>

CopyFailsForgets == CopyFailsInto("ended")  \* mutant: without remove_partial

CopyFailsGoesOn == CopyFailsInto("remove")  \* mutant: a move ignores it

CopyFails == CopyFailsInto("undo")

CopyDoneWhen(done) ==
  /\ pc = "copy" /\ done
  /\ IF action = "copy" THEN Ends("ok") ELSE Goes("remove")
  /\ UNCHANGED <<action, taken, source, dest, at, listed, entered, stop,
                 failed>>

CopyDoneEarly == CopyDoneWhen(at >= N)  \* mutant: the last entry is left out

CopyDone == CopyDoneWhen(at = N + 1)

(* remove_entry: it follows the folder as it is, without a checkpoint.     *)
RemoveSource ==
  /\ pc = "remove"
  /\ \E e \in source :
       /\ Children(e) = {}
       /\ source' = source \ {e}
       /\ IF e = 1 THEN Ends("ok") ELSE Goes("remove")
  /\ UNCHANGED <<action, taken, dest, at, listed, entered, stop, failed>>

RemovalFails ==
  /\ pc = "remove"
  /\ Fails
  /\ failed' = failed \cup {"removal"}
  /\ UNCHANGED <<action, taken, source, dest, at, listed, entered, stop>>

(* remove_partial                                                          *)
UndoEntry ==
  /\ pc = "undo"
  /\ \E e \in Entries :
       /\ dest[e] # "absent"
       /\ \A c \in 2..N : Parent[c] = e => dest[c] = "absent"
       /\ dest' = [dest EXCEPT ![e] = "absent"]
  /\ UNCHANGED <<action, taken, source, at, listed, entered, pc, stop, failed,
                 outcome>>

UndoEnds ==
  /\ pc = "undo"
  /\ \/ dest[1] = "absent" /\ UNCHANGED failed
     \/ failed' = failed \cup {"undo"}
  /\ Goes("ended")
  /\ UNCHANGED <<action, taken, source, dest, at, listed, entered, stop>>

-----------------------------------------------------------------------------
(* remove_bounded: a stack in place of recursion, a checkpoint before each *)
(* entry.                                                                  *)

IsTop(e) == e \in entered /\ \A f \in entered : f <= e

Poppable ==
  {e \in listed \ entered : IF e = 1 THEN entered = {} ELSE IsTop(Parent[e])}

(* A folder that is popped for the first time is pushed with its entries.  *)
DeleteEnter ==
  /\ pc = "delete" /\ ~stop
  /\ \E e \in Poppable \cap source \cap Folders :
       /\ entered' = entered \cup {e}
       /\ listed'  = listed \cup Children(e)
  /\ UNCHANGED <<action, taken, source, dest, at, pc, stop, failed, outcome>>

(* remove_file of an entry, remove_dir of a folder popped again.           *)
DeleteEntry ==
  /\ pc = "delete" /\ ~stop
  /\ \E e \in source :
       /\ \/ e \in Poppable \ Folders
          \/ IsTop(e) /\ Children(e) = {}
       /\ source'  = source \ {e}
       /\ entered' = entered \ {e}
       /\ IF e = 1 THEN Ends("ok") ELSE Goes("delete")
  /\ UNCHANGED <<action, taken, dest, at, listed, stop, failed>>

DeleteFails ==
  /\ pc = "delete"
  /\ IF stop THEN Ends("stopped") ELSE Ends("error")
  /\ UNCHANGED <<action, taken, source, dest, at, listed, entered, stop,
                 failed>>

-----------------------------------------------------------------------------
(* What happens to the operation from outside.                             *)

StopRequested ==
  /\ pc # "ended" /\ ~stop
  /\ stop' = TRUE
  /\ UNCHANGED <<action, taken, source, dest, at, listed, entered, pc, failed,
                 outcome>>

Killed ==
  /\ pc # "ended"
  /\ Ends("died")
  /\ UNCHANGED <<action, taken, source, dest, at, listed, entered, stop,
                 failed>>

ForeignCreates(e) ==
  /\ pc # "ended"
  /\ dest[e] = "absent"
  /\ e # 1 => dest[Parent[e]] = "whole"
  /\ dest' = [dest EXCEPT ![e] = "foreign"]
  /\ UNCHANGED <<action, taken, source, at, listed, entered, pc, stop, failed,
                 outcome>>

SourceGains(e) ==
  /\ pc # "ended"
  /\ e \in Later \ source
  /\ Parent[e] \in source
  /\ source' = source \cup {e}
  /\ UNCHANGED <<action, taken, dest, at, listed, entered, pc, stop, failed,
                 outcome>>

Ended == pc = "ended" /\ UNCHANGED vars

-----------------------------------------------------------------------------
CopyStep ==
  \/ Prepare \/ MakeFolder \/ MakeLink \/ OpenFile \/ WriteFile
  \/ SeeLate \/ Skip \/ CopyFails \/ CopyDone

RemoveStep == RemoveSource \/ RemovalFails \/ UndoEntry \/ UndoEnds

DeleteStep == DeleteEnter \/ DeleteEntry \/ DeleteFails

Next ==
  \/ Begin \/ Create \/ Check \/ Link
  \/ Rename \/ CrossesDevices \/ RenameFails
  \/ CopyStep \/ RemoveStep \/ DeleteStep
  \/ StopRequested \/ Killed
  \/ \E e \in Entries : ForeignCreates(e) \/ SourceGains(e)
  \/ Ended

Spec == Init /\ [][Next]_vars

-----------------------------------------------------------------------------
TypeOK ==
  /\ action \in Jobs
  /\ taken \in BOOLEAN
  /\ source \subseteq Entries
  /\ dest \in [Entries -> {"absent", "partial", "whole", "foreign"}]
  /\ at \in 1..(N + 1)
  /\ listed \subseteq Entries
  /\ entered \subseteq Folders
  /\ pc \in Pcs
  /\ stop \in BOOLEAN
  /\ failed \subseteq {"removal", "undo"}
  /\ outcome \in {"none", "ok", "stopped", "error", "died"}

Steady == Entries \ Later

Kept(e) == e \in source \/ dest[e] = "whole"

(* A move leaves each entry at the source or whole at the destination,     *)
(* whatever fails, dies or gets in the way, as long as the removal of a    *)
(* copied source does not fail (move_entry).                               *)
MoveKeepsData ==
  action = "move" /\ "removal" \notin failed => \A e \in Steady : Kept(e)

(* A success is true of both ends, and a create, copy or link leaves the   *)
(* source alone whatever becomes of it (perform).                          *)
ReportIsTrue ==
  /\ outcome = "ok" /\ action \in {"copy", "move", "rename"}
       => \A e \in Steady : dest[e] = "whole"
  /\ outcome = "ok" /\ action \in {"create", "link"} => dest[1] = "whole"
  /\ outcome = "ok" /\ action \in {"move", "rename", "delete"}
       => source = {}
  /\ action \in {"create", "copy", "link"} => Steady \subseteq source

(* An item that was at the destination before the operation is neither     *)
(* replaced nor removed by it, also not by the clean-up after an error     *)
(* (ensure_available, operate_existing).                                   *)
ExistingKept == taken => dest[1] = "foreign"

(* An operation that failed leaves nothing of its own behind, if it lived  *)
(* to clean up and the clean-up did not fail; and unless it was a move     *)
(* whose removal failed, the source is whole (operations.rs:189-192).      *)
FailureUndone ==
  /\ pc = "ended" /\ outcome = "error" /\ "undo" \notin failed
  /\ action # "delete"
  => /\ \A e \in Entries : dest[e] \in {"absent", "foreign"}
     /\ "removal" \notin failed => Steady \subseteq source

(* What the code says of the clean-up: it is for "a partial destination"   *)
(* (jobs.rs:32, remove_partial).  So it removes no entry that the move has *)
(* completed and removed at the source.                                    *)
UndoKeepsData ==
  action = "move" => \A e \in Steady : Kept(e)
=============================================================================
