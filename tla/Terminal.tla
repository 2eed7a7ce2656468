------------------------------ MODULE Terminal ------------------------------
(***************************************************************************)
(* The local terminals (terminal/mod.rs, commands/terminal.rs) and the tab *)
(* of each (useTerminal.js).  Commands and the end of the program run on   *)
(* the main thread, one at a time; a write holds the lock of the table for *)
(* as long as the shell does not read; each terminal has a thread that     *)
(* reads its output and one that waits for its end.  Output on its way to  *)
(* the window is a reader that is slower; a restart asks as a new tab does. *)
(*                                                                         *)
(* A byte is "a" (a letter), "L" and "T" (the two bytes of a character) or *)
(* "x" (no UTF-8 at all); "?" stands for the replacement character.        *)
(***************************************************************************)
EXTENDS Naturals, Sequences

CONSTANTS
  Terminals,   \* one for each tab
  Streams,     \* what a shell writes, in bytes
  MaxChunk,    \* bytes the reader takes at once
  MaxInput,    \* bytes that the device keeps for a shell
  MaxFaults    \* failures of the system, requests of a tab that take too long

TerminalAssumption ==
  /\ {MaxChunk, MaxInput, MaxFaults} \subseteq Nat /\ MaxChunk > 0
  /\ \A s \in Streams : s \in Seq({"a", "L", "T", "x"})
  /\ Terminals \cap {"free", "ended"} = {}  \* `main` names a terminal or one of these

VARIABLES
  main,      \* the terminal the main thread writes to, or "free", or "ended"
  startup,   \* the startup directories of zsh: the "kept" one, and a "stray" one that nobody knows
  shell,     \* each: the process, its record, its device and its two threads
  tab,       \* each: what the tab knows, and what is on its way to it
  faults

vars == <<main, startup, shell, tab, faults>>

Init ==
  /\ main = "free" /\ startup = {}
  /\ shell = [t \in Terminals |->
       [state |-> "none", active |-> FALSE, input |-> 0, left |-> <<>>, device |-> <<>>, text |-> <<>>,
        pending |-> <<>>, read |-> <<>>, reader |-> "none", waiter |-> "none", killed |-> FALSE]]
  /\ tab = [t \in Terminals |->
       [pc |-> "new", reply |-> "none", late |-> FALSE, close |-> FALSE, exit |-> "none",
        before |-> <<>>, shown |-> <<>>, after |-> <<>>]]
  /\ faults = 0

Fault == faults < MaxFaults /\ faults' = faults + 1
Locked == main \in Terminals

-----------------------------------------------------------------------------
(* The main thread.                                                        *)

\* The files for zsh are written once.
EnsureStartup == startup' = startup \cup {"kept"}
\* There is no directory, or one that stays behind with a file that could not be written.
StartupFails == "kept" \notin startup /\ startup' \in {startup, startup \cup {"stray"}}

\* A device that fails before the startup files, they fail, or a shell is hung up behind them.
Create(t) ==
  /\ main = "free" /\ tab[t].reply = "asked"
  /\ \/ /\ EnsureStartup
        /\ \E stream \in Streams : shell' = [shell EXCEPT ![t] =
             [@ EXCEPT !.state = "live", !.active = TRUE, !.left = stream, !.reader = "run", !.waiter = "wait"]]
        /\ tab' = [tab EXCEPT ![t].reply = "ok"] /\ UNCHANGED faults
     \/ /\ Fault /\ tab' = [tab EXCEPT ![t].reply = "error"] /\ UNCHANGED shell
        /\ UNCHANGED startup \/ EnsureStartup \/ StartupFails
  /\ UNCHANGED main

\* write_all under the lock of the table: it waits while the device is full.
Write(t) ==
  /\ main = "free" /\ tab[t].pc = "ready"
  /\ main' = IF shell[t].active THEN t ELSE main
  /\ UNCHANGED <<startup, shell, tab, faults>>

Written(t) ==
  /\ main = t
  /\ \/ shell[t].state = "dead" /\ UNCHANGED shell
     \/ shell[t].input < MaxInput /\ shell' = [shell EXCEPT ![t].input = @ + 1]
  /\ main' = "free"
  /\ UNCHANGED <<startup, tab, faults>>

Killed(s) == IF s.active THEN [s EXCEPT !.active = FALSE, !.killed = TRUE] ELSE s

CloseForgets(t) ==  \* mutant: the record goes, the shell stays
  /\ main = "free" /\ tab[t].close
  /\ shell' = [shell EXCEPT ![t].active = FALSE]
  /\ tab' = [tab EXCEPT ![t].close = FALSE]
  /\ UNCHANGED <<main, startup, faults>>
Close(t) ==
  /\ main = "free" /\ tab[t].close
  /\ shell' = [shell EXCEPT ![t] = Killed(@)]
  /\ tab' = [tab EXCEPT ![t].close = FALSE]
  /\ UNCHANGED <<main, startup, faults>>

ShutdownLeaves ==  \* mutant: the shells are left to themselves
  /\ main = "free" /\ main' = "ended" /\ startup' = startup \ {"kept"}
  /\ UNCHANGED <<shell, tab, faults>>
Shutdown ==
  /\ main = "free" /\ main' = "ended"
  /\ shell' = [t \in Terminals |-> Killed(shell[t])]
  /\ startup' = startup \ {"kept"}
  /\ UNCHANGED <<tab, faults>>

-----------------------------------------------------------------------------
(* The shell.                                                              *)

Prints(t) ==
  /\ shell[t].state = "live" /\ shell[t].left # <<>>
  /\ shell' = [shell EXCEPT ![t].left = Tail(@), ![t].device = Append(@, Head(shell[t].left))]
  /\ UNCHANGED <<main, startup, tab, faults>>

Reads(t) ==
  /\ shell[t].state = "live" /\ shell[t].input > 0
  /\ shell' = [shell EXCEPT ![t].input = @ - 1]
  /\ UNCHANGED <<main, startup, tab, faults>>

Dies(t) ==
  /\ shell[t].state = "live"
  /\ shell' = [shell EXCEPT ![t].state = "dead"]
  /\ UNCHANGED <<main, startup, tab, faults>>

-----------------------------------------------------------------------------
(* The two threads of a terminal.                                          *)

\* std::str::from_utf8: the characters, whether an error was met, and whether the end is cut.
Letter(b) == IF b = "a" THEN <<"a">> ELSE <<"?">>
Scanned(s, b) ==
  CASE b = "L" -> [text |-> s.text \o IF s.cut THEN <<"?">> ELSE <<>>, bad |-> s.bad \/ s.cut, cut |-> TRUE]
    [] b = "T" /\ s.cut -> [text |-> Append(s.text, "LT"), bad |-> s.bad, cut |-> FALSE]
    [] OTHER -> [text |-> s.text \o (IF s.cut THEN <<"?">> ELSE <<>>) \o Letter(b),
                 bad |-> s.bad \/ s.cut \/ b # "a", cut |-> FALSE]
Unread == [text |-> <<>>, bad |-> FALSE, cut |-> FALSE]
UpTo(bytes) ==
  LET upTo[i \in 0..Len(bytes)] == IF i = 0 THEN Unread ELSE Scanned(upTo[i - 1], bytes[i])
  IN upTo
Scan(bytes) == UpTo(bytes)[Len(bytes)]
Lossy(bytes) == Scan(bytes).text \o IF Scan(bytes).cut THEN <<"?">> ELSE <<>>

\* What a chunk adds: an incomplete end waits, unless something before it is no UTF-8.
KeepsEnd(bytes) == Scan(bytes).cut /\ ~Scan(bytes).bad
DecodedLossy(s, chunk) == Lossy(chunk)  \* mutant: every chunk is decoded on its own
Decoded(s, chunk) ==
  LET bytes == s.pending \o chunk
  IN IF KeepsEnd(bytes) THEN Scan(bytes).text ELSE Lossy(bytes)

Emit(s, chunk) ==
  [s EXCEPT !.text = @ \o Decoded(s, chunk), !.read = @ \o chunk,
            !.pending = IF KeepsEnd(s.pending \o chunk) THEN <<"L">> ELSE <<>>]

\* One read of the device, and its end.
Taken(s, n) ==
  [Emit(s, SubSeq(s.device, 1, n)) EXCEPT !.device = SubSeq(@, n + 1, Len(@))]
Drained(s) == [s EXCEPT !.reader = "done", !.text = @ \o Lossy(s.pending), !.pending = <<>>]

\* A tab shows the output of the session it knows, and drops any other.
Shows(b, piece) ==
  CASE b.pc = "ready" -> [b EXCEPT !.shown = @ \o piece]
    [] b.pc \in {"new", "creating"} -> [b EXCEPT !.before = @ \o piece]
    [] OTHER -> [b EXCEPT !.after = @ \o piece]

ReadOutput(t) ==
  /\ shell[t].reader = "run"
  /\ \/ \E n \in 1..MaxChunk :
          /\ n <= Len(shell[t].device)
          /\ shell' = [shell EXCEPT ![t] = Taken(@, n)]
          /\ tab' = [tab EXCEPT ![t] = Shows(@, Decoded(shell[t], SubSeq(shell[t].device, 1, n)))]
     \/ /\ shell[t].device = <<>> /\ shell[t].state = "dead"
        /\ shell' = [shell EXCEPT ![t] = Drained(@)]
        /\ tab' = [tab EXCEPT ![t] = Shows(@, Lossy(shell[t].pending))]
  /\ UNCHANGED <<main, startup, faults>>

\* clear_if_active takes the lock; then the end is told.
WaitsActive(t) ==  \* mutant: only the end of a terminal that is still in the table is told
  /\ shell[t].waiter = "wait" /\ shell[t].state = "dead" /\ ~Locked
  /\ shell' = [shell EXCEPT ![t].waiter = IF shell[t].active THEN "clear" ELSE "done", ![t].active = FALSE]
  /\ UNCHANGED <<main, startup, tab, faults>>
Waits(t) ==
  /\ shell[t].waiter = "wait" /\ shell[t].state = "dead" /\ ~Locked
  /\ shell' = [shell EXCEPT ![t].waiter = "clear", ![t].active = FALSE]
  /\ UNCHANGED <<main, startup, tab, faults>>

TellsExit(t) ==
  /\ shell[t].waiter = "clear"
  /\ shell' = [shell EXCEPT ![t].waiter = "done"]
  /\ tab' = [tab EXCEPT ![t].exit = "told"]
  /\ UNCHANGED <<main, startup, faults>>

-----------------------------------------------------------------------------
(* The tab.                                                                *)

Mount(t) ==
  /\ main # "ended" /\ tab[t].pc = "new"
  /\ tab' = [tab EXCEPT ![t].pc = "creating", ![t].reply = "asked"]
  /\ UNCHANGED <<main, startup, shell, faults>>

\* A reply to a tab that is gone closes its terminal; a late one is dropped.
ReplyLost(t) ==  \* mutant: the tab that is gone does not look at its reply
  /\ tab[t].reply \in {"ok", "error"}
  /\ tab' = [tab EXCEPT ![t].reply = "none",
                ![t].pc = IF @ # "creating" THEN @ ELSE IF tab[t].reply = "ok" THEN "ready" ELSE "error"]
  /\ UNCHANGED <<main, startup, shell, faults>>
Reply(t) ==
  /\ tab[t].reply \in {"ok", "error"}
  /\ tab' = [tab EXCEPT ![t].reply = "none",
                ![t].close = tab[t].pc = "gone" /\ ~tab[t].late /\ tab[t].reply = "ok",
                ![t].pc = IF @ # "creating" THEN @ ELSE IF tab[t].reply = "ok" THEN "ready" ELSE "error"]
  /\ UNCHANGED <<main, startup, shell, faults>>

\* Fifteen seconds, also those of a tab that is gone.
TimesOut(t) ==
  /\ tab[t].reply # "none" /\ ~tab[t].late /\ Fault
  /\ tab' = [tab EXCEPT ![t].late = TRUE, ![t].pc = IF @ = "creating" THEN "error" ELSE @]
  /\ UNCHANGED <<main, startup, shell>>

\* An exit for an unknown name is ignored, also when the reply is not there yet.
HearsExit(t) ==
  /\ tab[t].exit = "told"
  /\ tab' = [tab EXCEPT ![t].exit = IF tab[t].pc = "creating" THEN "early" ELSE "heard",
                        ![t].pc = IF @ = "ready" THEN "exited" ELSE @]
  /\ UNCHANGED <<main, startup, shell, faults>>

Unmount(t) ==
  /\ tab[t].pc \in {"creating", "ready", "exited", "error"}
  /\ tab' = [tab EXCEPT ![t].pc = "gone", ![t].close = @ \/ tab[t].pc = "ready"]
  /\ UNCHANGED <<main, startup, shell, faults>>

-----------------------------------------------------------------------------
Threads(t) == ReadOutput(t) \/ Waits(t) \/ TellsExit(t)
Commands(t) == Create(t) \/ Written(t) \/ Close(t)

Next ==
  \/ Shutdown
  \/ \E t \in Terminals :
       \/ Commands(t) \/ Write(t) \/ Threads(t)
       \/ Prints(t) \/ Reads(t) \/ Dies(t)
       \/ Mount(t) \/ Reply(t) \/ TimesOut(t) \/ HearsExit(t) \/ Unmount(t)

Spec == Init /\ [][Next]_vars

TypeOK ==
  /\ main \in Terminals \cup {"free", "ended"} /\ startup \subseteq {"kept", "stray"}
  /\ \A t \in Terminals : /\ shell[t].state \in {"none", "live", "dead"}
                          /\ shell[t].input \in 0..MaxInput
                          /\ tab[t].pc \in {"new", "creating", "ready", "error", "exited", "gone"}

(* However the output is cut into chunks, a text that is UTF-8 is emitted  *)
(* as it was written, in order and without a replacement character; and at *)
(* the end nothing is kept back.  A tab shows an unbroken part of what is  *)
(* emitted, and all of it from when it knows its session until that ends.  *)
TextWhole ==
  \A t \in Terminals :
    /\ ~Scan(shell[t].read).bad => shell[t].text =
         IF shell[t].reader = "done" THEN Lossy(shell[t].read) ELSE Scan(shell[t].read).text
    /\ shell[t].reader = "done" => shell[t].pending = <<>> /\ shell[t].device = <<>>
    /\ shell[t].text = tab[t].before \o tab[t].shown \o tab[t].after
    /\ tab[t].pc = "ready" => tab[t].after = <<>>
    /\ tab[t].pc \in {"new", "creating"} => tab[t].shown = <<>> /\ tab[t].after = <<>>

(* Does not hold: a tab that gets to know its session has missed nothing.  *)
(* What a shell writes before the reply is there is dropped.               *)
TabShowsAll == \A t \in Terminals : tab[t].shown # <<>> => tab[t].before = <<>>

(* Behind an orderly end of the program there is no shell that nobody told *)
(* to go, and the startup directory that was kept is gone.                 *)
NothingOutlives ==
  main = "ended" =>
    /\ "kept" \notin startup
    /\ \A t \in Terminals : shell[t].state = "live" => shell[t].killed

(* Does not hold: no startup directory is left.  The one whose files could *)
(* not be written was not recorded before they were (terminal/mod.rs:256). *)
NothingLeft == main = "ended" => startup = {}

(* Threads run, the window answers, a shell reads its input and ends when  *)
(* it is told to.                                                          *)
Fairness ==
  \A t \in Terminals :
    /\ WF_vars(Threads(t)) /\ WF_vars(Reply(t)) /\ WF_vars(Reads(t)) /\ WF_vars(Prints(t))
    /\ WF_vars(Create(t)) /\ WF_vars(Close(t)) /\ WF_vars(Written(t)) /\ WF_vars(HearsExit(t))
    /\ WF_vars(Dies(t) /\ shell[t].killed) /\ SF_vars(Waits(t))

(* A tab that goes takes its shell with it, also when it goes before the   *)
(* reply to its request is there, unless that reply took longer than the   *)
(* window waits for it.                                                    *)
GoneEndsShell ==
  \A t \in Terminals : []<>(tab[t].pc # "gone" \/ shell[t].state # "live" \/ tab[t].late)
(* Does not hold: also when the reply comes late.                          *)
GoneEndsEvenLate ==
  \A t \in Terminals : []<>(tab[t].pc # "gone" \/ shell[t].state # "live")

(* The end of every shell is told, whatever else is being written to, and  *)
(* its tab is no longer ready, unless the end came before the tab knew its *)
(* session.                                                                *)
ExitTold ==
  \A t \in Terminals :
    []<>(shell[t].state = "dead" =>
           tab[t].exit # "none" /\ (tab[t].pc = "ready" => tab[t].exit = "early"))
(* Does not hold: no tab stays ready with a dead shell.                    *)
ReadyIsLive == \A t \in Terminals : []<>(tab[t].pc = "ready" => shell[t].state = "live")
=============================================================================
