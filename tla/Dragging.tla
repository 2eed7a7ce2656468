------------------------------ MODULE Dragging ------------------------------
(***************************************************************************)
(* Drags out of the window and drops onto it (shell_integration/macos.rs,  *)
(* windows.rs and mod.rs).  A drag ends in one of three ways: another      *)
(* program takes the items, the page takes them as an internal drop that   *)
(* the native layer reports by an event, or nobody does.  On macOS remote  *)
(* items are promises, written by a delegate that must be kept alive after *)
(* the drag; on Windows files that are dropped onto the page reach the     *)
(* application by a message that races the command that asks for them.     *)
(***************************************************************************)
EXTENDS Naturals, FiniteSets, Sequences

CONSTANTS
  Drags,   \* drags out of the window
  Drops,   \* drops of other programs' files onto it
  Kept,    \* drags whose delegates are kept: 16
  Items,   \* remote files of a promise
  Systems, \* subset of {"macos", "windows"}
  None

DragAssumption ==
  /\ Kept \in Nat \ {0} /\ Items \in Nat /\ Systems \subseteq {"macos", "windows"}

VARIABLES
  drag,      \* each drag: step, the place of the release, who took it, its events
  active,    \* the drag whose source is active, or None
  delegates, \* the last drags, oldest first, whose delegates are alive
  promise,   \* the writing of each drag's promise: stage, items, files made
  drop,      \* each drop: the message and the command that asks for it
  os

vars == <<drag, active, delegates, promise, drop, os>>

\* Where the button may be released: over the page, which may refuse; over
\* the window of another program, which may lie above ours; or elsewhere.
Places == {"page", "refused", "other", "above", "nowhere"}
InView(p) == p \in {"page", "refused", "above"}
Foreign(p) == p \in {"other", "above"}

Init ==
  /\ drag = [d \in Drags |-> [step |-> "new", place |-> "nowhere", handled |-> FALSE,
                              taken |-> FALSE, drops |-> 0, ended |-> FALSE]]
  /\ active = None /\ delegates = <<>>
  /\ promise = [d \in Drags |-> [stage |-> "none", done |-> 0, made |-> 0]]
  /\ drop = [f \in Drops |-> [sent |-> FALSE, here |-> FALSE, asked |-> "no"]]
  /\ os \in Systems

Put(d, r) == drag' = [drag EXCEPT ![d] = r]

-----------------------------------------------------------------------------
(* A drag session.                                                         *)

Last(s, n) == IF Len(s) > n THEN SubSeq(s, Len(s) - n + 1, Len(s)) ELSE s

\* The button may have been released before the session starts: macOS looks.
StartDrag(d) ==
  /\ drag[d].step = "new" /\ active = None
  /\ \/ /\ Put(d, [drag[d] EXCEPT !.step = "moving"])
        /\ active' = d
        /\ delegates' = IF os = "macos" THEN Last(Append(delegates, d), Kept) ELSE delegates
     \/ /\ os = "macos" /\ Put(d, [drag[d] EXCEPT !.step = "over"])
        /\ UNCHANGED <<active, delegates>>
  /\ UNCHANGED <<promise, drop, os>>

\* The other program takes the items, or not.
Release(d) ==
  /\ drag[d].step = "moving"
  /\ \E p \in Places, taken \in BOOLEAN :
       /\ taken => Foreign(p)
       /\ Put(d, [drag[d] EXCEPT !.step = "released", !.place = p, !.taken = taken])
       /\ promise' = IF taken /\ os = "macos"
                     THEN [promise EXCEPT ![d].stage = "asked"] ELSE promise
  /\ UNCHANGED <<active, delegates, drop, os>>

\* performDragOperation, replaced: a drop of the active source on the page is
\* reported here, and WebKit does not see it.
Perform(d) ==
  /\ os = "macos" /\ drag[d].step = "released" /\ drag[d].place = "page"
  /\ ~drag[d].handled
  /\ Put(d, [drag[d] EXCEPT !.handled = active = d,
                            !.drops = IF active = d THEN @ + 1 ELSE @])
  /\ UNCHANGED <<active, delegates, promise, drop, os>>

EndedAlways(d) ==  \* mutant: the end reports a drop that was handled before
  /\ drag[d].step = "released"
  /\ Put(d, [drag[d] EXCEPT !.step = "over", !.ended = TRUE,
               !.drops = IF InView(drag[d].place) THEN @ + 1 ELSE @])
  /\ active' = None
  /\ UNCHANGED <<delegates, promise, drop, os>>

\* draggingSession:endedAtPoint: what the page refused is reported as a drop
\* at that point; Windows asks which window lies under the pointer.
Internal(d) ==
  IF os = "macos" THEN ~drag[d].handled /\ InView(drag[d].place)
                  ELSE drag[d].place \in {"page", "refused"}

Ended(d) ==
  /\ drag[d].step = "released"
  /\ os = "macos" /\ drag[d].place = "page" => drag[d].handled
  /\ Put(d, [drag[d] EXCEPT !.step = "over", !.ended = TRUE,
               !.drops = IF Internal(d) THEN @ + 1 ELSE @])
  /\ active' = None
  /\ UNCHANGED <<delegates, promise, drop, os>>

-----------------------------------------------------------------------------
(* The promise of a drag that another program took: the delegate downloads *)
(* to the place it is told, on a queue of its own.                         *)

Promise(d, r) == promise' = [promise EXCEPT ![d] = r]
session == <<drag, active, delegates, drop, os>>

Alive(d) == \E i \in 1..Len(delegates) : delegates[i] = d

\* A delegate that is gone leaves the promise without a writer.
WritePromise(d) ==
  /\ promise[d].stage = "asked"
  /\ Promise(d, [promise[d] EXCEPT !.stage = IF Alive(d) THEN "writing" ELSE "failed"])
  /\ UNCHANGED session

WriteItem(d) ==
  /\ promise[d].stage = "writing"
  /\ IF promise[d].done = Items THEN Promise(d, [promise[d] EXCEPT !.stage = "done"])
     ELSE Promise(d, [promise[d] EXCEPT !.done = @ + 1, !.made = @ + 1])
  /\ UNCHANGED session

FailKeeps(d) ==  \* mutant: what a failed download made stays
  /\ promise[d].stage = "writing"
  /\ Promise(d, [promise[d] EXCEPT !.stage = "failed"])
  /\ UNCHANGED session

\* Cancelled in Finder, or an error of the server, while a file may be open.
WriteFails(d) ==
  /\ promise[d].stage = "writing"
  /\ Promise(d, [promise[d] EXCEPT !.stage = "failed", !.made = 0])
  /\ UNCHANGED session

-----------------------------------------------------------------------------
(* PendingDrops, on Windows: the message of the page and its command.      *)

Drop(f, r) == drop' = [drop EXCEPT ![f] = r]
others == <<drag, active, delegates, promise, os>>

PageDrops(f) ==
  /\ os = "windows" /\ ~drop[f].sent
  /\ Drop(f, [drop[f] EXCEPT !.sent = TRUE, !.asked = "waiting"])
  /\ UNCHANGED others

MessageArrives(f) ==
  /\ drop[f].sent /\ ~drop[f].here
  /\ Drop(f, [drop[f] EXCEPT !.here = TRUE])
  /\ UNCHANGED others

TakesFirst(f) ==  \* mutant: the oldest paths are taken, whatever the id
  /\ drop[f].asked = "waiting" /\ \E g \in Drops : drop[g].here
  /\ Drop(f, [drop[f] EXCEPT !.asked = "paths"])
  /\ UNCHANGED others

\* take_drop removes the paths of its own id.
Takes(f) ==
  /\ drop[f].asked = "waiting" /\ drop[f].here
  /\ Drop(f, [drop[f] EXCEPT !.asked = "paths"])
  /\ UNCHANGED others

\* Three seconds have passed with no message; the paths that come later are
\* forgotten by the next drop.
TakeTimesOut(f) ==
  /\ drop[f].asked = "waiting" /\ ~drop[f].here
  /\ Drop(f, [drop[f] EXCEPT !.asked = "unavailable"])
  /\ UNCHANGED others

SessionStep(d) == Release(d) \/ Perform(d) \/ Ended(d)
PromiseStep(d) == WritePromise(d) \/ WriteItem(d) \/ WriteFails(d)
DropStep(f) == MessageArrives(f) \/ Takes(f) \/ TakeTimesOut(f)

Next ==
  \/ \E d \in Drags : StartDrag(d) \/ SessionStep(d) \/ PromiseStep(d)
  \/ \E f \in Drops : PageDrops(f) \/ DropStep(f)

Spec == Init /\ [][Next]_vars

TypeOK ==
  /\ active \in Drags \cup {None} /\ Len(delegates) <= Kept
  /\ \A d \in Drags : drag[d].place \in Places /\ promise[d].made \in 0..Items

(* Neither way of noticing an internal drop repeats the other: a drag is   *)
(* dropped on the page at most once.                                       *)
DroppedOnce == \A d \in Drags : drag[d].drops <= 1

(* macos.rs:403: the end of a session is an internal drop when WebKit      *)
(* refused it "on our own window"; what another program took is not        *)
(* dropped a second time.  Not so on macOS, if the window lies below.      *)
OneTarget == \A d \in Drags : drag[d].taken => drag[d].drops = 0

\* What holds of it: Windows looks which window the pointer is over.
OneTargetOnWindows == os = "windows" => OneTarget

(* A promise that fails leaves nothing at its destination, and one that is *)
(* reported as written has every file.                                     *)
PromiseWhole ==
  \A d \in Drags : /\ promise[d].stage = "failed" => promise[d].made = 0
                   /\ promise[d].stage = "done" => promise[d].made = Items

(* The paths that a drop is given are those of its own message.            *)
OwnPaths == \A f \in Drops : drop[f].asked = "paths" => drop[f].here

Fairness ==
  /\ \A d \in Drags : WF_vars(SessionStep(d)) /\ WF_vars(PromiseStep(d))
  /\ \A f \in Drops : WF_vars(DropStep(f))

(* A drag that starts tells the page that it ended, and a drop is answered. *)
DragsEnd ==
  /\ \A d \in Drags : []<>(drag[d].step \in {"new", "over"})
  /\ \A f \in Drops : []<>(drop[f].asked # "waiting")
=============================================================================
