----------------------------- MODULE Clipboard -----------------------------
(***************************************************************************)
(* The file clipboard (shell_integration/clipboard.rs, mod.rs, staging.rs, *)
(* transfer.rs and the clipboard parts of macos.rs and windows.rs).        *)
(* Vesperwind remembers the last selection under a token and publishes the *)
(* same token on the clipboard of the system; a read reconciles the two.   *)
(* The commands run on blocking threads of their own, and each task that    *)
(* they give to the one thread that owns the clipboard (the main thread of *)
(* macOS, the shell thread of Windows) runs alone; but what a task compares *)
(* and what it writes are calls to the system of their own, and other       *)
(* programs come in between.  Remote items of a copy are downloaded on      *)
(* macOS into a folder named by the token, and published as files when the  *)
(* clipboard still holds that token.                                        *)
(***************************************************************************)
EXTENDS Naturals, FiniteSets

CONSTANTS
  Tokens,      \* one for each copy or cut, numbered as they begin
  Reads, Pastes,  \* calls of clipboard_read, and pastes that end with consume
  Items,       \* remote items of a selection
  Cuts,        \* the tokens of cuts
  Remotes,     \* the tokens of selections with remote items
  Mixes,       \* [tokens, foreign, faults] that occur together: how often another
               \* application takes the clipboard, and a write or download fails
  Systems,     \* subset of {"macos", "windows"}
  Other,       \* another application, and what was read from it
  None

ClipboardAssumption ==
  /\ Tokens \subseteq Nat /\ Items \in Nat \ {0}
  /\ Mixes \subseteq [tokens : SUBSET Tokens, foreign : Nat, faults : Nat]
  /\ Cuts \subseteq Tokens /\ Remotes \subseteq Tokens
  /\ Systems \subseteq {"macos", "windows"}
  /\ {None, Other} \cap Nat = {} /\ None # Other

VARIABLES
  memory,    \* the token that is remembered, or None
  board,     \* clipboard of the system: who (a token, Other, None), the op, its files
  copy,      \* the step of each copy or cut
  call,      \* each read or paste: step, the board it saw, the token it returned
  job,       \* the token whose staging may still be cancelled, or None
  flags,     \* staging threads that were told to stop
  staging,   \* each staging thread: step, items done, the token it cleans up for
  dirs,      \* the folder of each token: "absent", "partial" or "whole"
  cleaners,  \* cleanups that run: the token whose folder each of them keeps
  foreign, faults, os

vars == <<memory, board, copy, call, job, flags, staging, dirs, cleaners, foreign, faults, os>>

Empty == [who |-> None, op |-> "copy", files |-> "none"]

Init ==
  /\ memory = None /\ board = Empty
  /\ copy = [t \in Tokens |-> "new"]
  /\ call = [c \in Reads \cup Pastes |-> [step |-> "new", saw |-> Empty, got |-> None]]
  /\ job = None /\ flags = {}
  /\ staging = [t \in Tokens |-> [step |-> "none", done |-> 0, keep |-> None]]
  /\ dirs = [t \in Tokens |-> "absent"] /\ cleaners = {}
  /\ foreign = 0 /\ faults = 0 /\ os \in Systems

\* clearContents and writeObjects, or OleSetClipboard.
Publish(who, op, files) == board' = [who |-> who, op |-> op, files |-> files]

\* The bound of a behaviour.
Begun == {t \in Tokens : copy[t] # "new"}
May(tokens, takes, fails) ==
  \E m \in Mixes : tokens \subseteq m.tokens /\ takes <= m.foreign /\ fails <= m.faults

Fault == May(Begun, foreign, faults + 1) /\ faults' = faults + 1

\* No task of the thread that owns the clipboard is between its comparison
\* and its write.
Alone ==
  /\ \A t \in Tokens : staging[t].step # "put"
  /\ \A c \in Reads \cup Pastes : call[c].step # "empty"

threads == <<staging, dirs, cleaners>>
outside == <<foreign, os>>

-----------------------------------------------------------------------------
(* write_clipboard.                                                        *)

Step(t, s) == copy' = [copy EXCEPT ![t] = s]
OpOf(t) == IF t \in Cuts THEN "cut" ELSE "copy"

CopyBegins(t) ==
  /\ copy[t] = "new" /\ (\A u \in Begun : u < t) /\ May(Begun \cup {t}, foreign, faults)
  /\ Step(t, "set") /\ memory' = t
  /\ UNCHANGED <<board, call, job, flags, threads, faults, outside>>

\* cancel_staging, on macOS.
CancelOld(t) ==
  /\ copy[t] = "set" /\ Step(t, "write")
  /\ IF os = "macos" /\ job # None THEN flags' = flags \cup {job} /\ job' = None
                                   ELSE UNCHANGED <<flags, job>>
  /\ UNCHANGED <<memory, board, call, threads, faults, outside>>

\* Remote items are not files yet on macOS; Windows publishes an object that
\* streams them.
WriteBoard(t) ==
  /\ copy[t] = "write" /\ Alone
  /\ \/ /\ Publish(t, OpOf(t), IF t \in Remotes THEN "none" ELSE "local")
        /\ Step(t, IF os = "macos" /\ t \in Remotes THEN "stage" ELSE "over")
        /\ UNCHANGED <<memory, faults>>
     \/ /\ Fault /\ Step(t, "over")
        /\ IF os = "macos" THEN Publish(None, "copy", "none") ELSE UNCHANGED board
        /\ memory' = IF memory = t THEN None ELSE memory  \* clear_token
  /\ UNCHANGED <<call, job, flags, threads, outside>>

StartStaging(t) ==
  /\ copy[t] = "stage" /\ Step(t, "over")
  /\ job' = t
  /\ staging' = [staging EXCEPT ![t].step = "measure"]
  /\ UNCHANGED <<memory, board, call, flags, dirs, cleaners, faults, outside>>

-----------------------------------------------------------------------------
(* The staging thread of a token.                                          *)

Stage(t, r) == staging' = [staging EXCEPT ![t] = r]
Dir(t, d) == dirs' = [dirs EXCEPT ![t] = d]
rest == <<memory, copy, call, job, flags, outside>>

\* Too large a selection, or one that cannot be walked, ends it; otherwise
\* the folder of the token is made.
Measure(t) ==
  /\ staging[t].step = "measure"
  /\ \/ /\ t \notin flags
        /\ Dir(t, "partial") /\ Stage(t, [staging[t] EXCEPT !.step = "download"])
     \/ Stage(t, [staging[t] EXCEPT !.step = "over"]) /\ UNCHANGED dirs
  /\ UNCHANGED <<rest, board, cleaners, faults>>

Download(t) ==
  /\ staging[t].step = "download" /\ t \notin flags /\ staging[t].done < Items
  /\ Stage(t, [staging[t] EXCEPT !.done = @ + 1])
  /\ IF staging[t].done + 1 = Items THEN Dir(t, "whole") ELSE UNCHANGED dirs
  /\ UNCHANGED <<rest, board, cleaners, faults>>

Downloaded(t) ==
  /\ staging[t].step = "download" /\ staging[t].done = Items
  /\ Stage(t, [staging[t] EXCEPT !.step = "publish"])
  /\ UNCHANGED <<rest, board, dirs, cleaners, faults>>

DownloadLeaves(t) ==  \* mutant: what was downloaded stays
  /\ staging[t].step = "download"
  /\ (t \in flags /\ UNCHANGED faults) \/ Fault
  /\ Stage(t, [staging[t] EXCEPT !.step = "over"])
  /\ UNCHANGED <<rest, board, dirs, cleaners>>

\* A stop, or an error of the server, removes what was downloaded.
DownloadFails(t) ==
  /\ staging[t].step = "download"
  /\ (t \in flags /\ UNCHANGED faults) \/ Fault
  /\ Dir(t, "absent") /\ Stage(t, [staging[t] EXCEPT !.step = "over"])
  /\ UNCHANGED <<rest, board, cleaners>>

CompareNothing(t) ==  \* mutant: the files are published whoever has the clipboard
  /\ staging[t].step = "publish" /\ Alone
  /\ Stage(t, [staging[t] EXCEPT !.step = "put"])
  /\ UNCHANGED <<rest, board, dirs, cleaners, faults>>

\* write_clipboard with expected_token: the files go to the clipboard when it
\* held the token, whatever it holds by then.
Compare(t) ==
  /\ staging[t].step = "publish" /\ Alone
  /\ Stage(t, [staging[t] EXCEPT !.step = IF board.who = t THEN "put" ELSE "look"])
  /\ UNCHANGED <<rest, board, dirs, cleaners, faults>>

\* Then the folders of the other tokens are removed.  A publication that the
\* system rejects is reported, and its folder stays.
PublishFiles(t) ==
  /\ staging[t].step = "put"
  /\ \/ /\ Publish(t, OpOf(t), "staged")
        /\ Stage(t, [staging[t] EXCEPT !.step = "clean", !.keep = t])
        /\ UNCHANGED faults
     \/ /\ Fault /\ Publish(None, "copy", "none")
        /\ Stage(t, [staging[t] EXCEPT !.step = "rejected"])
  /\ UNCHANGED <<rest, dirs, cleaners>>

\* clipboard_token.
Look(t) ==
  /\ staging[t].step = "look" /\ Alone
  /\ Stage(t, [staging[t] EXCEPT !.step = "clean", !.keep = board.who])
  /\ UNCHANGED <<rest, board, dirs, cleaners, faults>>

Removed(keep) == [u \in Tokens |-> IF u = keep THEN dirs[u] ELSE "absent"]

Clean(t) ==
  /\ staging[t].step = "clean" /\ dirs' = Removed(staging[t].keep)
  /\ Stage(t, [staging[t] EXCEPT !.step = "over"])
  /\ UNCHANGED <<rest, board, cleaners, faults>>

StagingStep(t) ==
  \/ Measure(t) \/ Download(t) \/ Downloaded(t) \/ DownloadFails(t)
  \/ Compare(t) \/ PublishFiles(t) \/ Look(t) \/ Clean(t)

-----------------------------------------------------------------------------
(* read_clipboard, and the paste that follows it.                          *)

Call(c, r) == call' = [call EXCEPT ![c] = r]

ReadBoard(c) ==
  /\ call[c].step = "new" /\ Alone
  /\ Call(c, [call[c] EXCEPT !.step = "resolve", !.saw = board])
  /\ UNCHANGED <<memory, board, copy, job, flags, threads, faults, outside>>

ResolveRemembers(c) ==  \* mutant: a cut survives another owner
  /\ call[c].step = "resolve"
  /\ Call(c, [call[c] EXCEPT !.step = "job",
               !.got = IF memory # None THEN memory
                       ELSE IF call[c].saw.files = "none" THEN None ELSE Other])
  /\ UNCHANGED <<memory, board, copy, job, flags, threads, faults, outside>>

\* resolve: what another owner put there ends the remembered selection.
Resolve(c) ==
  /\ call[c].step = "resolve"
  /\ IF memory # None /\ call[c].saw.who = memory
     THEN Call(c, [call[c] EXCEPT !.step = "job", !.got = memory]) /\ UNCHANGED memory
     ELSE /\ memory' = None
          /\ Call(c, [call[c] EXCEPT !.step = "job",
                       !.got = IF call[c].saw.files = "none" THEN None ELSE Other])
  /\ UNCHANGED <<board, copy, job, flags, threads, faults, outside>>

\* The staging of a token that the clipboard did not hold is stopped.
JobCheck(c) ==
  /\ call[c].step = "job"
  /\ Call(c, [call[c] EXCEPT !.step = IF c \in Pastes /\ call[c].got # None
                                      THEN "paste" ELSE "over"])
  /\ IF os = "macos" /\ job # None /\ call[c].saw.who # job
     THEN /\ flags' = flags \cup {job} /\ job' = None
          /\ cleaners' = cleaners \cup {call[c].saw.who}
     ELSE UNCHANGED <<flags, job, cleaners>>
  /\ UNCHANGED <<memory, board, copy, staging, dirs, faults, outside>>

CleanerRuns(k) ==
  /\ k \in cleaners /\ cleaners' = cleaners \ {k}
  /\ dirs' = Removed(k)
  /\ UNCHANGED <<rest, board, staging, faults>>

Pasted(c) == IF call[c].got = Other THEN call[c].saw.op ELSE OpOf(call[c].got)

\* consume: a copy can be pasted again; a cut is used up, once.
Consume(c) ==
  /\ call[c].step = "paste"
  /\ LET cut == Pasted(c) = "cut" /\ (call[c].got = Other \/ memory = call[c].got)
     IN Call(c, [call[c] EXCEPT !.step = IF ~cut THEN "over"
                                         ELSE IF call[c].got = Other THEN "reread" ELSE "compare"])
  /\ memory' = IF Pasted(c) = "cut" /\ memory = call[c].got THEN None ELSE memory
  /\ UNCHANGED <<board, copy, job, flags, threads, faults, outside>>

\* What another program cut: macOS reads again, and a cut that is there now
\* is the one to clear; Windows empties the clipboard as it stands.
Reread(c) ==
  /\ call[c].step = "reread" /\ Alone
  /\ Call(c, IF os = "macos" /\ board.op = "cut"
             THEN [call[c] EXCEPT !.step = "compare", !.saw = board]
             ELSE [call[c] EXCEPT !.step = "over"])
  /\ IF os = "windows" THEN Publish(None, "copy", "none") ELSE UNCHANGED board
  /\ UNCHANGED <<memory, copy, job, flags, threads, faults, outside>>

\* clear_clipboard and finish_paste: emptied when it held the token, whatever
\* it holds by then.
CompareToken(c) ==
  /\ call[c].step = "compare" /\ Alone
  /\ Call(c, [call[c] EXCEPT !.step = IF board.who = call[c].saw.who THEN "empty" ELSE "over"])
  /\ UNCHANGED <<memory, board, copy, job, flags, threads, faults, outside>>

Clear(c) ==
  /\ call[c].step = "empty" /\ Publish(None, "copy", "none")
  /\ Call(c, [call[c] EXCEPT !.step = "over"])
  /\ UNCHANGED <<memory, copy, job, flags, threads, faults, outside>>

CallStep(c) ==
  ReadBoard(c) \/ Resolve(c) \/ JobCheck(c) \/ Consume(c) \/ Reread(c) \/ CompareToken(c) \/ Clear(c)

-----------------------------------------------------------------------------
(* Another application.                                                    *)

Foreign ==
  /\ May(Begun, foreign + 1, faults) /\ foreign' = foreign + 1
  /\ \E op \in {"copy", "cut"} : Publish(Other, op, "local")
     \* a cut is Explorer's, or another Vesperwind's: Finder has none
  /\ UNCHANGED <<memory, copy, call, job, flags, threads, faults, os>>

Next ==
  \/ \E t \in Tokens : CopyBegins(t) \/ CancelOld(t) \/ WriteBoard(t) \/ StartStaging(t)
                       \/ StagingStep(t)
  \/ \E c \in Reads \cup Pastes : CallStep(c)
  \/ \E k \in cleaners : CleanerRuns(k)
  \/ Foreign

Spec == Init /\ [][Next]_vars

TypeOK ==
  /\ memory \in Tokens \cup {None} /\ job \in Tokens \cup {None} /\ flags \subseteq Tokens
  /\ board.who \in Tokens \cup {Other, None} /\ board.files \in {"none", "local", "staged"}
  /\ \A t \in Tokens : staging[t].done \in 0..Items /\ dirs[t] \in {"absent", "partial", "whole"}

(* Files are offered to Finder only after a look that found the selection  *)
(* of the staging on the clipboard, and no selection of ours that was      *)
(* copied since is overwritten.  Another program that takes the clipboard  *)
(* between the look and the write (macos.rs:139-147, 197) is.              *)
StagedOverOwnOnly ==
  [][\A t \in Tokens :
       /\ staging[t].step # "put" /\ staging'[t].step = "put" => board.who = t
       /\ staging[t].step = "put" /\ staging'[t].step # "put" => board.who \in {t, Other}]_vars

(* Does not hold, for that window (macos.rs:140): "publish only if nobody  *)
(* replaced our clipboard".                                                *)
StagedOverNobody == [][board'.files = "staged" /\ board' # board => board.who = board'.who]_vars

(* A staging that failed, was stopped or came too late leaves nothing of   *)
(* its own behind; one whose publication the system rejected does.         *)
FailedLeavesNothing ==
  \A t \in Tokens : staging[t].step = "over" /\ staging[t].keep # t => dirs[t] = "absent"

(* Does not hold: nor does one whose publication was rejected              *)
(* (mod.rs:283): its folder stays until some later cleanup.                *)
RejectedLeavesNothing == \A t \in Tokens : staging[t].step = "rejected" => dirs[t] = "absent"

(* A token is returned only by a read that saw it on the clipboard: a cut  *)
(* does not outlive the copy of another application.                       *)
CutDies ==
  \A c \in Reads \cup Pastes : call[c].got \in Tokens => call[c].saw.who = call[c].got

(* A paste of one of our selections clears that selection, after a look    *)
(* that found it; on macOS the paste of another program's cut clears only  *)
(* a cut.  Never another selection of ours than the one that was found,    *)
(* but another program's that comes between the look and the clear         *)
(* (macos.rs:213-219, windows.rs:1075-1087).                               *)
ClearsOwn ==
  [][\A c \in Pastes :
       /\ call[c].step # "empty" /\ call'[c].step = "empty" =>
            /\ board.who = call[c].saw.who
            /\ IF call[c].got \in Tokens THEN board.who = call[c].got ELSE call[c].saw.op = "cut"
       /\ call[c].step = "empty" /\ call'[c].step # "empty" =>
            board.who \in {call[c].saw.who, Other}]_vars

(* Does not hold, for that window, and because the end of a paste of       *)
(* another program's cut empties on Windows what is there by then          *)
(* (windows.rs:1094-1111): a paste takes nothing but what it pasted.       *)
PasteClearsItsOwn ==
  [][\A c \in Pastes : call[c].step \in {"reread", "empty"} /\ board' # board /\ call' # call
       => board.who = call[c].got]_vars

(* clipboard.rs:258: the remembered selection is given up because "another *)
(* application (or another copy action) replaced the system clipboard".    *)
(* Not so: a read may fall between the two halves of a copy.               *)
CopyKept ==
  \A t \in Tokens :
    copy[t] = "over" /\ board.who = t /\ (\A c \in Pastes : call[c].got = None)
      => memory # None

(* mod.rs:119: cleanups keep "data the pasteboard still references".  Not  *)
(* so: a copy may be published while the cleanup looks.                    *)
ReferencedKept == board.files = "staged" => dirs[board.who] = "whole"

Fairness ==
  /\ \A t \in Tokens : WF_vars(StagingStep(t)) /\ WF_vars(StartStaging(t))
  /\ \A c \in Pastes : WF_vars(Clear(c))

(* A staging that starts comes to an end.                                  *)
StagingEnds == \A t \in Tokens : []<>(staging[t].step \in {"none", "over", "rejected"})
=============================================================================
