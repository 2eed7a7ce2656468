-------------------------- MODULE OperationHelper --------------------------
(***************************************************************************)
(* One file operation between the window that asks for it, the registry    *)
(* and the supervisor in the application, and the helper process that      *)
(* runs it (src-tauri/src/filesystem/jobs.rs,                              *)
(* commands/filesystem.rs:715-763, src/api/transports/tauri.js:120-161).   *)
(*                                                                         *)
(* Operation ids are random and used once, so the registry is the entry of *)
(* one id: an active job, a tombstone of a cancellation that came first,   *)
(* or nothing.  Other ids matter only by the expiry of a tombstone, after  *)
(* 120 s or 1024 younger ones.                                             *)
(*                                                                         *)
(* Abstracted: the request, the operation itself (RemoteCopy has one),     *)
(* progress, error texts and the clock: the deadline of the request, the   *)
(* 120 s without progress and the 3 s of grace may pass at any moment.     *)
(***************************************************************************)
EXTENDS Naturals

CONSTANTS
  Transfer  \* whether the operation is also stopped when it makes no progress

ASSUME TransferAssumption == Transfer \in BOOLEAN

VARIABLES
  ui,         \* the promise of the window
  cancel,     \* the cancel command of the window
  active,     \* JobRegistry.active has the id
  early,      \* JobRegistry.early has the id
  forgotten,  \* a tombstone of the id expired
  closed,     \* JobRegistry.closed
  flag,       \* the AtomicBool of the job
  pc,         \* the thread that executes the command
  answer,     \* the result of execute
  late,       \* the deadline of the request has passed
  frame,      \* the writer thread
  byte,       \* the stop byte: unsent, in the pipe, or CANCEL_REQUESTED
  signal,     \* the helper was sent a kill
  helper,     \* the operation thread of the helper
  hung,       \* it is in a call that does not return
  result,     \* what it reports
  exit        \* the exit status of the helper

registry == <<active, early, forgotten, closed>>
parent   == <<pc, answer, late, frame, signal>>
worker   == <<helper, hung, result, exit>>
vars     == <<ui, cancel, registry, flag, parent, byte, worker>>

Init ==
  /\ ui = "idle"
  /\ cancel = "none"
  /\ active = FALSE /\ early = FALSE /\ forgotten = FALSE /\ closed = FALSE
  /\ flag = FALSE
  /\ pc = "none" /\ answer = "none" /\ late = FALSE
  /\ frame = "none" /\ byte = "unsent" /\ signal = FALSE
  /\ helper = "none" /\ hung = FALSE /\ result = "none" /\ exit = "none"

-----------------------------------------------------------------------------
(* The window: createTauriRequester.                                       *)

UiRequests ==
  /\ ui = "idle"
  /\ ui' = "pending"
  /\ UNCHANGED <<cancel, registry, flag, parent, byte, worker>>

UiInvokes ==
  /\ ui = "pending" /\ pc = "none"
  /\ pc' = "sent"
  /\ UNCHANGED <<ui, cancel, registry, flag, answer, late, frame, signal, byte,
                 worker>>

(* A timeout or an abort: the cancel command, also when the request itself *)
(* has not been invoked or registered yet.                                 *)
UiStops ==
  /\ ui = "pending"
  /\ ui' = "settled"
  /\ cancel' = "sent"
  /\ UNCHANGED <<registry, flag, parent, byte, worker>>

UiAnswered ==
  /\ ui = "pending" /\ pc = "answered"
  /\ ui' = "settled"
  /\ UNCHANGED <<cancel, registry, flag, parent, byte, worker>>

(* The WebView disappears with its promises.                               *)
UiGone ==
  /\ ui = "pending"
  /\ ui' = "settled"
  /\ UNCHANGED <<cancel, registry, flag, parent, byte, worker>>

-----------------------------------------------------------------------------
(* OperationJobs. Each is one critical section of `jobs`.                  *)

RegisterWith(cancelled) ==
  /\ pc = "sent"
  /\ active' = TRUE
  /\ early'  = FALSE
  /\ flag'   = cancelled
  /\ pc'     = "queued"
  /\ UNCHANGED <<ui, cancel, forgotten, closed, answer, late, frame, signal,
                 byte, worker>>

RegisterAfresh == RegisterWith(closed)  \* mutant: tombstones are not looked at

Register == RegisterWith(early \/ closed)

Cancel ==
  /\ cancel = "sent"
  /\ cancel' = "done"
  /\ IF active THEN flag' = TRUE  /\ UNCHANGED early
               ELSE early' = TRUE /\ UNCHANGED flag
  /\ UNCHANGED <<ui, active, forgotten, closed, parent, byte, worker>>

Forget ==
  /\ early
  /\ early' = FALSE
  /\ forgotten' = TRUE
  /\ UNCHANGED <<ui, cancel, active, closed, flag, parent, byte, worker>>

(* RunEvent::Exit                                                          *)
ShutdownOnlyCloses ==  \* mutant: the active jobs are left to the deadline
  /\ ~closed /\ pc # "dead"
  /\ closed' = TRUE
  /\ UNCHANGED <<ui, cancel, active, early, forgotten, flag, parent, byte,
                 worker>>

Shutdown ==
  /\ ~closed /\ pc # "dead"
  /\ closed' = TRUE
  /\ flag' = (flag \/ active)
  /\ UNCHANGED <<ui, cancel, active, early, forgotten, parent, byte, worker>>

-----------------------------------------------------------------------------
(* execute_with_progress                                                   *)

Returns(a) == pc' = "finish" /\ answer' = a

Refused ==
  /\ pc = "queued"
  /\ \/ flag /\ Returns("cancelled")
     \/ ~flag /\ Returns("error")  \* no connection, too large, no process
  /\ UNCHANGED <<ui, cancel, registry, flag, late, frame, signal, byte, worker>>

Spawn ==
  /\ pc = "queued"
  /\ ~flag
  /\ pc' = "watch"
  /\ frame' = "writing"
  /\ helper' = "reading"
  /\ UNCHANGED <<ui, cancel, registry, flag, answer, late, signal, byte, hung,
                 result, exit>>

(* The writer thread: the frame is in the pipe before the pipe is handed   *)
(* over for the stop byte; a helper that has ended breaks it.              *)
WriteFrame ==
  /\ pc # "dead"
  /\ \/ frame = "writing" /\ helper # "gone" /\ frame' = "written"
     \/ frame = "writing" /\ helper = "gone" /\ frame' = "broken"
     \/ frame = "written" /\ frame' = "handed"
  /\ UNCHANGED <<ui, cancel, registry, flag, pc, answer, late, signal, byte,
                 worker>>

(* The loop sees the flag, the deadline or the idle time: it writes the    *)
(* stop byte if it has the pipe.                                           *)
WatchStopsWhen(asked) ==
  /\ pc = "watch"
  /\ asked
  /\ IF frame = "handed"
       THEN byte' = "piped" /\ pc' = "grace"
       ELSE pc' = "kill" /\ UNCHANGED byte
  /\ UNCHANGED <<ui, cancel, registry, flag, answer, late, frame, signal,
                 worker>>

WatchStopsOnDeadline == WatchStopsWhen(late)  \* mutant: the flag is read once

WatchStops == WatchStopsWhen(flag \/ late \/ Transfer)

WatchSeesExit ==
  /\ pc = "watch" /\ helper = "gone"
  /\ IF exit = "success"
       THEN pc' = "collect" /\ UNCHANGED answer
       ELSE Returns("lost")
  /\ UNCHANGED <<ui, cancel, registry, flag, late, frame, signal, byte, worker>>

(* The helper has ended, or the 3 s are over.                              *)
GraceWaits ==  \* mutant: without the 3 s
  /\ pc = "grace" /\ helper = "gone"
  /\ pc' = "kill"
  /\ UNCHANGED <<ui, cancel, registry, flag, answer, late, frame, signal, byte,
                 worker>>

GraceEnds ==
  /\ pc = "grace"
  /\ pc' = "kill"
  /\ UNCHANGED <<ui, cancel, registry, flag, answer, late, frame, signal, byte,
                 worker>>

StopWithoutKill ==  \* mutant: a helper that ignores the byte is left alone
  /\ pc = "kill"
  /\ Returns(IF flag THEN "cancelled" ELSE "timeout")
  /\ UNCHANGED <<ui, cancel, registry, flag, late, frame, signal, byte, worker>>

Kill ==
  /\ pc = "kill"
  /\ signal' = TRUE
  /\ Returns(IF flag THEN "cancelled" ELSE "timeout")
  /\ UNCHANGED <<ui, cancel, registry, flag, late, frame, byte, worker>>

(* The reader thread has the last line, or none that parses.               *)
CollectTrusts ==  \* mutant: the exit status is taken for the result
  /\ pc = "collect"
  /\ Returns("ok")
  /\ UNCHANGED <<ui, cancel, registry, flag, late, frame, signal, byte, worker>>

Collect ==
  /\ pc = "collect"
  /\ Returns(IF result = "none" THEN "lost" ELSE result)
  /\ UNCHANGED <<ui, cancel, registry, flag, late, frame, signal, byte, worker>>

(* jobs.finish, and the answer to the window.                              *)
FinishOnlySuccess ==  \* mutant: an error returns before jobs.finish
  /\ pc = "finish"
  /\ active' = (active /\ answer # "ok")
  /\ early'  = FALSE
  /\ pc' = "answered"
  /\ UNCHANGED <<ui, cancel, forgotten, closed, flag, answer, late, frame,
                 signal, byte, worker>>

Finish ==
  /\ pc = "finish"
  /\ active' = FALSE
  /\ early'  = FALSE
  /\ pc' = "answered"
  /\ UNCHANGED <<ui, cancel, forgotten, closed, flag, answer, late, frame,
                 signal, byte, worker>>

DeadlinePasses ==
  /\ pc \in {"watch", "grace"} /\ ~late
  /\ late' = TRUE
  /\ UNCHANGED <<ui, cancel, registry, flag, pc, answer, frame, signal, byte,
                 worker>>

(* The application dies: window, threads and pipes with it.                *)
Crash ==
  /\ pc # "dead"
  /\ ui' = "settled"
  /\ pc' = "dead"
  /\ cancel' = "none"
  /\ UNCHANGED <<registry, flag, answer, late, frame, signal, byte, worker>>

-----------------------------------------------------------------------------
(* run_filesystem_helper                                                   *)

(* The application's end of the helper's stdin is closed: a pipe that was  *)
(* handed over goes with `execute`.                                        *)
Eof == pc = "dead" \/ (pc \in {"finish", "answered"} /\ frame = "handed")

ReadFrame ==
  /\ helper = "reading" /\ ~signal
  /\ frame \in {"written", "handed"}
  /\ helper' = "working"
  /\ UNCHANGED <<ui, cancel, registry, flag, parent, byte, hung, result, exit>>

Reported(r) ==
  /\ helper' = "gone"
  /\ result' = r
  /\ exit' = "success"

(* Half a frame: an error, reported like any other.                        *)
FrameMissing ==
  /\ helper = "reading" /\ ~signal
  /\ frame \in {"writing", "broken"}
  /\ pc = "dead"
  /\ Reported("error")
  /\ UNCHANGED <<ui, cancel, registry, flag, parent, byte, hung>>

(* The operation ends, by itself or at a checkpoint after the stop byte,   *)
(* and its result is the last line before the exit.                        *)
Work ==
  /\ helper = "working" /\ ~hung /\ ~signal
  /\ \E r \in {"ok", "error"} : Reported(r)
  /\ UNCHANGED <<ui, cancel, registry, flag, parent, byte, hung>>

Hang ==
  /\ helper = "working" /\ ~hung
  /\ hung' = TRUE
  /\ UNCHANGED <<ui, cancel, registry, flag, parent, byte, helper, result, exit>>

Dies == helper' = "gone" /\ exit' = "failed" /\ UNCHANGED <<hung, result>>

(* The listening thread, which starts with the operation.                  *)
SeeByte ==
  /\ helper = "working" /\ byte = "piped"
  /\ byte' = "seen"
  /\ UNCHANGED <<ui, cancel, registry, flag, parent, worker>>

EofWaits ==  \* mutant: the end of the application is a stop request
  /\ helper = "working" /\ Eof
  /\ byte' = "seen"
  /\ UNCHANGED <<ui, cancel, registry, flag, parent, worker>>

SeeEof ==
  /\ helper = "working" /\ Eof
  /\ Dies
  /\ UNCHANGED <<ui, cancel, registry, flag, parent, byte>>

Killed ==
  /\ helper \in {"reading", "working"} /\ signal
  /\ Dies
  /\ UNCHANGED <<ui, cancel, registry, flag, parent, byte>>

HelperCrashes ==
  /\ helper \in {"reading", "working"}
  /\ Dies
  /\ UNCHANGED <<ui, cancel, registry, flag, parent, byte>>

-----------------------------------------------------------------------------
Over == pc \in {"none", "finish", "answered", "dead"} /\ helper \in {"none", "gone"}

Done == pc = "dead" /\ Over /\ UNCHANGED vars

UiStep == UiRequests \/ UiInvokes \/ UiStops \/ UiAnswered \/ UiGone

ParentStep ==
  \/ Refused \/ Spawn \/ WatchSeesExit \/ GraceEnds \/ Kill \/ Collect
  \/ Finish

HelperStep == ReadFrame \/ FrameMissing \/ SeeEof \/ Killed

Next ==
  \/ UiStep
  \/ Register \/ Cancel \/ Forget \/ Shutdown
  \/ ParentStep \/ WatchStops \/ WriteFrame \/ DeadlinePasses \/ Crash
  \/ HelperStep \/ Work \/ Hang \/ SeeByte \/ HelperCrashes
  \/ Done

Spec == Init /\ [][Next]_vars

(* Commands are delivered, the threads of the application and the          *)
(* listening thread of the helper run, 3 s pass, and the system ends a     *)
(* process that is killed.  Nothing is assumed of the operation itself,    *)
(* which may hang, nor of the window, nor of the idle time.                *)
FairSpec ==
  /\ Spec
  /\ WF_vars(Register) /\ WF_vars(Cancel)
  /\ WF_vars(ParentStep) /\ WF_vars(WriteFrame)
  /\ WF_vars((flag \/ late) /\ WatchStops)
  /\ WF_vars(HelperStep)

DeadlineComes == WF_vars(DeadlinePasses)

-----------------------------------------------------------------------------
(* Every variable has its type, and the registry has the job exactly while *)
(* its command runs (register, finish).                                    *)
TypeOK ==
  /\ ui \in {"idle", "pending", "settled"}
  /\ cancel \in {"none", "sent", "done"}
  /\ active \in BOOLEAN /\ early \in BOOLEAN /\ forgotten \in BOOLEAN
  /\ closed \in BOOLEAN /\ flag \in BOOLEAN
  /\ pc \in {"none", "sent", "queued", "watch", "grace", "kill", "collect",
             "finish", "answered", "dead"}
  /\ answer \in {"none", "ok", "error", "cancelled", "timeout", "lost"}
  /\ late \in BOOLEAN
  /\ frame \in {"none", "writing", "written", "handed", "broken"}
  /\ byte \in {"unsent", "piped", "seen"}
  /\ signal \in BOOLEAN
  /\ helper \in {"none", "reading", "working", "gone"}
  /\ hung \in BOOLEAN
  /\ result \in {"none", "ok", "error"}
  /\ exit \in {"none", "success", "failed"}
  /\ active => pc \notin {"none", "sent", "answered"}
  /\ pc \in {"none", "sent", "answered", "dead"} \/ active

(* A cancellation or a shutdown is never lost between registry and job,    *)
(* also when it overtakes the request: whoever comes second, the job is    *)
(* flagged, unless its tombstone expired (register, cancel, shutdown).     *)
CancelKept ==
  active /\ ((cancel = "done" /\ ~forgotten) \/ closed) => flag

(* The window gets a success only from a helper that finished the          *)
(* operation with success and ended (execute_with_progress).               *)
TrueSuccess ==
  answer = "ok" => helper = "gone" /\ result = "ok" /\ exit = "success"

(* Once execute has returned, whatever it returned, the operation begins   *)
(* and completes nothing more (execute_with_progress,                      *)
(* docs/file-operation-lifecycle.md:24-27).                                *)
NoLateWork ==
  [][answer # "none" =>
       /\ result' = result
       /\ helper' = "working" => helper = "working"]_vars

(* The window's timeout or abort ends the operation wherever it is, queued *)
(* or running or hung, without the help of the deadline, unless the        *)
(* cancellation was delivered so early that its tombstone expired.         *)
CancelStops == cancel = "sent" ~> Over \/ forgotten

(* So does the end of the application.                                     *)
ExitStops == (closed /\ pc # "none") ~> Over

(* The end of the application, however abrupt, ends the helper, even if    *)
(* its operation hangs (docs/file-operation-lifecycle.md:18-20).           *)
OrphanEnds == pc = "dead" ~> helper \in {"none", "gone"}

(* Nothing works on for nobody: a cancelled operation, one of an           *)
(* application that closes and one of an application that died all end.    *)
WorkEnds == CancelStops /\ ExitStops /\ OrphanEnds

(* Every request is answered, even if the helper hangs.                    *)
AlwaysAnswers == DeadlineComes => (pc = "sent" ~> pc \in {"answered", "dead"})
=============================================================================
