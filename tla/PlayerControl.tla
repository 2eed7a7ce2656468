---------------------------- MODULE PlayerControl ----------------------------
(***************************************************************************)
(* One session of the native player (control_loop of mpv/player.rs) and    *)
(* the history of positions (media/history.rs) that it resumes from and    *)
(* writes to through a worker with a queue of its own.  The loop takes one *)
(* request, drains the events of mpv, then looks at what it waits for: a   *)
(* load, a seek that fades the sound out and in, a track, a resume, the    *)
(* end of the file.  Each of these is an action.  A position is one of     *)
(* 0..Last, of which 0 is too near the beginning and Last too near the end *)
(* to be resumed from; the volume is a level, and 0 is the faded sound.    *)
(***************************************************************************)
EXTENDS Naturals, Sequences

CONSTANTS
  Last,         \* bound: the end of the file
  Levels,       \* volumes that the user may choose
  MaxRequests,  \* bound: requests of the window in a run
  MaxOpens,     \* bound: sessions of the file, one after the other
  Bounds,       \* bound: how many requests a run has, and how many writes fail
                \* and lookups are late
  Kinds,        \* requests that the window sends to an open session
  None

Positions == 0..Last
Requests == 1..MaxRequests
Loads  == [id : Requests, autoplay : BOOLEAN]
Seeks  == [id : Requests, target : Positions, phase : {"fade out", "waiting", "fade in"}]
Tracks == [id : Requests]
Rows   == [pos : Positions, version : {1, 2}]

ControlAssumption ==
  /\ Last \in Nat \ {0} /\ Levels \subseteq Nat \ {0} /\ Levels # {}
  /\ MaxRequests \in Nat \ {0} /\ MaxOpens \in Nat
  /\ Bounds \subseteq (0..MaxRequests) \X Nat
  /\ Kinds \subseteq {"play", "pause", "seek", "volume", "track", "other"}
  /\ None \notin Nat /\ None \notin Loads \cup Seeks \cup Tracks \cup Rows

VARIABLES
  ctl,      \* the locals of the control thread
  mpv,      \* the file, pause, position, seeking and volume inside mpv
  queue,    \* requests to the control thread
  answer,   \* what each request was answered
  jobs,     \* requests to the history worker
  row,      \* the record of the file
  version,  \* the size and time of the file
  count,    \* requests, sessions and faults so far
  ghost     \* the volume that the user chose, the position that the last
            \* session should have left, and whether a write failed or a Pause
            \* was written while a resume was under way

vars == <<ctl, mpv, queue, answer, jobs, row, version, count, ghost>>

Resumable(p) == p \in 1..(Last - 1)

\* life is the PlayerLifecycle that guards the commands; ready says that the
\* status of the snapshot is ready, playing or paused.
Closed == [thread |-> "none", life |-> "closed", ready |-> FALSE, load |-> None,
           intent |-> FALSE, interrupted |-> FALSE, vo |-> FALSE,
           resume |-> None, restoring |-> FALSE, seek |-> None,
           volume |-> None, track |-> None, current |-> FALSE,
           captured |-> None, eof |-> FALSE]

NoFile == [file |-> "none", pause |-> TRUE, pos |-> 0, seeking |-> FALSE,
           target |-> 0, level |-> CHOOSE v \in Levels : TRUE]

Init ==
  /\ ctl = Closed /\ mpv = NoFile
  /\ queue = <<>> /\ answer = [r \in Requests |-> "none"]
  /\ jobs = <<>> /\ row = None /\ version = 1
  /\ count = [sent |-> 0, opens |-> 0, faults |-> 0]
  /\ ghost = [volume |-> NoFile.level, left |-> None, spoilt |-> FALSE]

-----------------------------------------------------------------------------
(* The history worker: lookup and save, one job after another.             *)

\* capture: what persist enqueues, unless it was captured already.  A save of
\* 0 stands for one that deletes the record.
Record(p, eof) == IF eof \/ ~Resumable(p) THEN 0 ELSE p
Saves(p, eof) ==
  IF ctl.captured = Record(p, eof) THEN jobs
  ELSE Append(jobs, [kind |-> "save", arg |-> Record(p, eof)])

\* save: an upsert, or a deletion when nothing is left to resume.
WorkerSaves ==
  /\ jobs # <<>> /\ Head(jobs).kind = "save"
  /\ jobs' = Tail(jobs)
  /\ row' = IF Head(jobs).arg = 0 THEN None
            ELSE [pos |-> Head(jobs).arg, version |-> version]
  /\ UNCHANGED <<ctl, mpv, queue, answer, version, count, ghost>>

Within(sent, faults) == <<sent, faults>> \in Bounds
Fault == Within(count.sent, count.faults + 1) /\ count' = [count EXCEPT !.faults = @ + 1]

\* The write failed: it is logged, and nobody tries again.
WorkerFails ==
  /\ Fault
  /\ jobs # <<>> /\ Head(jobs).kind = "save"
  /\ jobs' = Tail(jobs)
  /\ ghost' = [ghost EXCEPT !.spoilt = TRUE]
  /\ UNCHANGED <<ctl, mpv, queue, answer, row, version>>

\* ensure_started and the Load, with the position that source_history found.
Begins(target) ==
  /\ ctl' = [Closed EXCEPT !.thread = "running", !.life = "opening", !.resume = target]
  /\ mpv' = NoFile
  /\ ghost' = [ghost EXCEPT !.volume = NoFile.level]
  /\ queue' = <<[kind |-> "load", id |-> count.sent]>>

\* lookup_at: a record of another size or time is deleted.
Known == row # None /\ row.version = version

WorkerLooksOnly ==  \* mutant: the size and time are not compared
  /\ jobs # <<>> /\ Head(jobs).kind = "lookup"
  /\ jobs' = Tail(jobs)
  /\ IF ctl.thread = "lookup" /\ Head(jobs).arg = count.sent
     THEN Begins(IF row # None THEN row.pos ELSE None)
     ELSE UNCHANGED <<ctl, mpv, queue, ghost>>
  /\ UNCHANGED <<answer, row, version, count>>

WorkerLooks ==
  /\ jobs # <<>> /\ Head(jobs).kind = "lookup"
  /\ jobs' = Tail(jobs)
  /\ row' = IF Known THEN row ELSE None
  /\ IF ctl.thread = "lookup" /\ Head(jobs).arg = count.sent
     THEN Begins(IF Known THEN row.pos ELSE None)
     ELSE UNCHANGED <<ctl, mpv, queue, ghost>>
  /\ UNCHANGED <<answer, version, count>>

\* lookup waits 5 s for the worker, and then the file starts at its beginning.
LookupLate ==
  /\ Fault
  /\ ctl.thread = "lookup"
  /\ Begins(None)
  /\ UNCHANGED <<answer, jobs, row, version>>

\* Between two sessions the file may be replaced.
FileChanges ==
  /\ ctl.thread = "ended" /\ jobs = <<>> /\ version = 1
  /\ version' = 2
  /\ ghost' = [ghost EXCEPT !.left = None]
  /\ UNCHANGED <<ctl, mpv, queue, answer, jobs, row, count>>

-----------------------------------------------------------------------------
(* The window.                                                             *)

Open ==
  /\ ctl.thread \in {"none", "ended"}
  /\ count.opens < MaxOpens /\ Within(count.sent + 1, count.faults)
  /\ count' = [count EXCEPT !.opens = @ + 1, !.sent = @ + 1]
  /\ ctl' = [Closed EXCEPT !.thread = "lookup"]
  /\ jobs' = Append(jobs, [kind |-> "lookup", arg |-> count.sent + 1])
  /\ UNCHANGED <<mpv, queue, answer, row, version, ghost>>

\* with_running: only a Pause is accepted before the session is ready.
Accepts(kind) == ctl.life \in {"ready", "playing", "paused"} \/ kind = "pause"

Request(kind) ==
  /\ ctl.thread = "running" /\ Within(count.sent + 1, count.faults)
  /\ Accepts(kind)
  /\ count' = [count EXCEPT !.sent = @ + 1]
  /\ queue' = Append(queue, [kind |-> kind, id |-> count.sent + 1])
  /\ UNCHANGED <<ctl, mpv, answer, jobs, row, version, ghost>>

-----------------------------------------------------------------------------
(* The requests, one at a time.                                            *)

Id == Head(queue).id
Takes(kind) ==
  /\ ctl.thread = "running" /\ queue # <<>> /\ Head(queue).kind = kind
  /\ queue' = Tail(queue)
  /\ UNCHANGED <<row, version, count>>

Answers(rs, how) ==
  answer' = [r \in Requests |-> IF r \in rs THEN how ELSE answer[r]]

\* Load: mpv is paused before it is told the file.
HandleLoad(autoplay) ==
  LET plays == autoplay /\ ~ctl.interrupted
  IN /\ Takes("load")
     /\ \/ /\ ctl' = [ctl EXCEPT !.life = "opening", !.intent = plays,
                        !.load = [id |-> Id, autoplay |-> plays]]
           /\ mpv' = [mpv EXCEPT !.file = "loading", !.pause = TRUE]
           /\ UNCHANGED answer
        \/ /\ ctl' = [ctl EXCEPT !.life = "error"]
           /\ Answers({Id}, "error")
           /\ UNCHANGED mpv
     /\ UNCHANGED <<jobs, ghost>>

HandlePlay ==
  /\ Takes("play")
  /\ Answers({Id}, "ok")
  /\ ctl' = [ctl EXCEPT !.interrupted = FALSE, !.intent = TRUE, !.life = "playing"]
  /\ mpv' = [mpv EXCEPT !.pause = FALSE]
  /\ UNCHANGED <<jobs, ghost>>

HandlePauseNow ==  \* mutant: the load that is pending is not told
  /\ Takes("pause")
  /\ Answers({Id}, "ok")
  /\ mpv' = [mpv EXCEPT !.pause = TRUE]
  /\ ctl' = [ctl EXCEPT !.interrupted = TRUE, !.intent = FALSE, !.life = "paused"]
  /\ UNCHANGED <<jobs, ghost>>

\* A Pause is remembered, and holds for a load that is not finished yet.
HandlePause ==
  /\ Takes("pause")
  /\ Answers({Id}, "ok")
  /\ mpv' = [mpv EXCEPT !.pause = TRUE]
  /\ ctl' = [ctl EXCEPT !.interrupted = TRUE, !.intent = FALSE, !.life = "paused",
               !.load = IF @ = None THEN @ ELSE [@ EXCEPT !.autoplay = FALSE],
               !.captured = IF ctl.ready THEN Record(mpv.pos, FALSE) ELSE @]
  /\ jobs' = IF ctl.ready THEN Saves(mpv.pos, FALSE) ELSE jobs
  /\ ghost' = [ghost EXCEPT !.spoilt = @ \/ (ctl.ready /\ ctl.load # None)]

\* A seek supersedes the one before it; the volume that is to come back is
\* the user's, not the faded one.
IdOf(waiting) == IF waiting = None THEN {} ELSE {waiting.id}

HandleSeekFaded(target) ==  \* mutant: the volume is read back from mpv
  /\ Takes("seek")
  /\ Answers(IdOf(ctl.seek), "error")
  /\ ctl' = [ctl EXCEPT !.volume = mpv.level,
               !.seek = [id |-> Id, target |-> target, phase |-> "fade out"]]
  /\ UNCHANGED <<mpv, jobs, ghost>>

HandleSeek(target) ==
  /\ Takes("seek")
  /\ Answers(IdOf(ctl.seek), "error")
  /\ ctl' = [ctl EXCEPT !.volume = IF @ = None THEN mpv.level ELSE @,
               !.seek = [id |-> Id, target |-> target, phase |-> "fade out"]]
  /\ UNCHANGED <<mpv, jobs, ghost>>

\* The new volume, times the gain of a seek that is under way.
HandleVolume(level) ==
  /\ Takes("volume")
  /\ Answers({Id}, "ok")
  /\ ctl' = [ctl EXCEPT !.volume = IF @ = None THEN None ELSE level]
  /\ mpv' = [mpv EXCEPT !.level = IF @ = 0 THEN 0 ELSE level]
  /\ ghost' = [ghost EXCEPT !.volume = level]
  /\ UNCHANGED jobs

HandleTrack ==
  /\ Takes("track")
  /\ \/ Answers(IdOf(ctl.track), "error") /\ ctl' = [ctl EXCEPT !.track = [id |-> Id]]
     \/ Answers({Id} \cup IdOf(ctl.track), "error") /\ ctl' = [ctl EXCEPT !.track = None]
  /\ UNCHANGED <<mpv, jobs, ghost>>

\* Snapshot, SetMuted, SetSubtitleDelay: answered from what mpv says.
HandleOther ==
  /\ Takes("other")
  /\ Answers({Id}, "ok")
  /\ UNCHANGED <<ctl, mpv, jobs, ghost>>

-----------------------------------------------------------------------------
(* What mpv reports.                                                       *)

Loop == ctl.thread = "running" /\ UNCHANGED <<queue, row, version, count, ghost>>

\* finish_load: the pending load is answered and, if it is to, plays.
FinishLoad(c) ==
  LET plays == c.load # None /\ c.load.autoplay
  IN /\ ctl' = IF c.load = None THEN c
               ELSE [c EXCEPT !.load = None, !.current = TRUE, !.ready = TRUE,
                       !.life = IF plays THEN "playing" ELSE "paused"]
     /\ mpv' = [mpv EXCEPT !.pause = @ /\ ~plays]
     /\ Answers(IdOf(c.load), "ok")

FailLoad ==
  /\ ctl' = [ctl EXCEPT !.load = None, !.vo = FALSE, !.ready = FALSE, !.life = "error"]
  /\ Answers(IdOf(ctl.load), "error")

\* FILE_LOADED, of a video before its output is configured.
FileLoaded ==
  /\ Loop
  /\ mpv.file = "loading"
  /\ mpv' = [mpv EXCEPT !.file = "loaded"]
  /\ ctl' = [ctl EXCEPT !.vo = TRUE]
  /\ UNCHANGED <<answer, jobs>>

\* The output is there: the load is finished, after a seek to the position
\* of the record when there is one.
Started ==
  /\ Loop
  /\ ctl.vo /\ mpv.file = "loaded"
  /\ \/ /\ ctl.resume # None /\ Resumable(ctl.resume)
        /\ ctl' = [ctl EXCEPT !.vo = FALSE, !.restoring = TRUE, !.ready = TRUE,
                                !.life = "ready"]
        /\ mpv' = [mpv EXCEPT !.seeking = TRUE, !.target = ctl.resume]
        /\ UNCHANGED answer
     \/ FinishLoad([ctl EXCEPT !.vo = FALSE, !.resume = None, !.ready = TRUE,
                                 !.life = "ready"])
  /\ UNCHANGED jobs

\* No output within 10 s, another output than was asked for, or no sound.
NotStarted == Loop /\ ctl.vo /\ FailLoad /\ UNCHANGED <<mpv, jobs>>

\* END_FILE with an error, while the file is loaded or later.
EndFile ==
  /\ Loop
  /\ mpv.file # "none"
  /\ mpv' = [mpv EXCEPT !.file = "none", !.seeking = FALSE]
  /\ FailLoad
  /\ UNCHANGED jobs

\* Inside mpv: time passes, and a seek arrives.
Plays ==
  /\ mpv.file = "loaded"
  /\ \/ /\ ~mpv.pause /\ ~mpv.seeking /\ mpv.pos < Last
        /\ mpv' = [mpv EXCEPT !.pos = @ + 1]
     \/ /\ mpv.seeking
        /\ mpv' = [mpv EXCEPT !.pos = mpv.target, !.seeking = FALSE]
  /\ UNCHANGED <<ctl, queue, answer, jobs, row, version, count, ghost>>

-----------------------------------------------------------------------------
(* What the loop waits for.                                                *)

Seeking(phase) == ctl.seek # None /\ ctl.seek.phase = phase

\* FadeOut: the sound is gone, and mpv is told where to go.
SeekStarts ==
  /\ Loop
  /\ Seeking("fade out") /\ mpv.file = "loaded"
  /\ ctl' = [ctl EXCEPT !.seek.phase = "waiting"]
  /\ mpv' = [mpv EXCEPT !.level = 0, !.seeking = TRUE, !.target = ctl.seek.target]
  /\ UNCHANGED <<answer, jobs>>

\* Waiting: mpv is there, and the sound comes back.
SeekArrives ==
  /\ Loop
  /\ Seeking("waiting") /\ ~mpv.seeking /\ mpv.pos \in {ctl.seek.target, Last}
  /\ ctl' = [ctl EXCEPT !.seek.phase = "fade in"]
  /\ UNCHANGED <<mpv, answer, jobs>>

\* The sound is back, mpv refused, or 10 s have passed: restore_seek_volume.
SeekEnds ==
  /\ Loop
  /\ ctl.seek # None /\ (Seeking("fade out") => mpv.file # "loaded")
  /\ Answers({ctl.seek.id}, IF Seeking("fade in") THEN "ok" ELSE "error")
  /\ mpv' = [mpv EXCEPT !.level = ctl.volume]
  /\ ctl' = [ctl EXCEPT !.seek = None, !.volume = None]
  /\ UNCHANGED jobs

\* The track is selected, or is not within 5 s.
TrackEnds ==
  /\ Loop
  /\ ctl.track # None
  /\ \E how \in {"ok", "error"} : Answers({ctl.track.id}, how)
  /\ ctl' = [ctl EXCEPT !.track = None]
  /\ UNCHANGED <<mpv, jobs>>

RestoredOnly ==  \* mutant: a resume that does not arrive is waited for for ever
  /\ Loop
  /\ ctl.restoring /\ mpv.pos = ctl.resume
  /\ FinishLoad([ctl EXCEPT !.restoring = FALSE, !.resume = None])
  /\ UNCHANGED jobs

\* The resume arrived, or did not within 10 s.
Restored ==
  /\ Loop
  /\ ctl.restoring
  /\ FinishLoad([ctl EXCEPT !.restoring = FALSE, !.resume = None])
  /\ UNCHANGED jobs

\* keep-open leaves the file at its end: it is rewound and paused, once.
Eof ==
  /\ Loop
  /\ mpv.file = "loaded" /\ mpv.pos = Last /\ ~mpv.seeking
  /\ ~ctl.eof /\ ctl.intent /\ ctl.load = None /\ ctl.seek = None
  /\ ~ctl.restoring /\ ctl.current
  /\ ctl' = [ctl EXCEPT !.eof = TRUE, !.intent = FALSE, !.life = "paused",
               !.captured = 0]
  /\ jobs' = Saves(mpv.pos, TRUE)
  /\ mpv' = [mpv EXCEPT !.pause = TRUE, !.pos = 0]
  /\ UNCHANGED answer

\* The tick of 100 ms: away from the end the flag is reset, and every 120 s
\* the position of a file that plays is written.
Checkpoint ==
  /\ Loop
  /\ ctl.load = None /\ ~ctl.restoring /\ ctl.ready /\ ~mpv.pause
  /\ ctl' = [ctl EXCEPT !.captured = Record(mpv.pos, FALSE),
                          !.eof = @ /\ mpv.pos = Last]
  /\ jobs' = Saves(mpv.pos, FALSE)
  /\ UNCHANGED <<mpv, answer>>

Tick ==
  /\ Loop
  /\ ctl' = [ctl EXCEPT !.eof = @ /\ mpv.pos = Last]
  /\ UNCHANGED <<mpv, answer, jobs>>

\* Shutdown, or mpv ended.  The position is written while the handle lives,
\* unless the load never finished; everything that waits is answered.
Waiting == IdOf(ctl.track) \cup IdOf(ctl.seek) \cup IdOf(ctl.load)
           \cup {queue[i].id : i \in DOMAIN queue}

EndsIf(keeps) ==
  /\ ctl.thread = "running"
  /\ ctl' = [Closed EXCEPT !.thread = "ended"]
  /\ jobs' = IF keeps THEN Saves(mpv.pos, FALSE) ELSE jobs
  /\ ghost' = [ghost EXCEPT !.left =
                 IF ctl.load = None /\ ctl.current THEN Record(mpv.pos, FALSE) ELSE @]
  /\ Answers(Waiting, "error")
  /\ queue' = <<>> /\ mpv' = NoFile
  /\ UNCHANGED <<row, version, count>>

EndsAlways == EndsIf(TRUE)  \* mutant: a load that never finished is written

Ends == EndsIf(ctl.load = None /\ ctl.current)

-----------------------------------------------------------------------------
Handle ==
  \/ \E autoplay \in BOOLEAN : HandleLoad(autoplay)
  \/ HandlePlay \/ HandlePause \/ HandleTrack \/ HandleOther
  \/ \E p \in Positions : HandleSeek(p)
  \/ \E v \in Levels : HandleVolume(v)

AwaitSeek == SeekStarts \/ SeekArrives \/ SeekEnds
Worker == WorkerSaves \/ WorkerLooks

Next ==
  \/ Open \/ \E kind \in Kinds : Request(kind)
  \/ Handle \/ FileLoaded \/ Started \/ NotStarted \/ EndFile \/ Plays
  \/ AwaitSeek \/ TrackEnds \/ Restored \/ Eof \/ Checkpoint \/ Tick \/ Ends
  \/ Worker \/ WorkerFails \/ LookupLate \/ FileChanges

Spec == Init /\ [][Next]_vars

-----------------------------------------------------------------------------
TypeOK ==
  /\ ctl \in [thread : {"none", "lookup", "running", "ended"},
              life : {"opening", "ready", "playing", "paused", "error", "closed"},
              ready : BOOLEAN, load : Loads \cup {None}, intent : BOOLEAN,
              interrupted : BOOLEAN, vo : BOOLEAN, resume : Positions \cup {None},
              restoring : BOOLEAN, seek : Seeks \cup {None},
              volume : Levels \cup {None}, track : Tracks \cup {None},
              current : BOOLEAN, captured : Positions \cup {None}, eof : BOOLEAN]
  /\ mpv \in [file : {"none", "loading", "loaded"}, pause : BOOLEAN, pos : Positions,
              seeking : BOOLEAN, target : Positions, level : Levels \cup {0}]
  /\ queue \in Seq([kind : Kinds \cup {"load"}, id : Requests])
  /\ answer \in [Requests -> {"none", "ok", "error"}]
  /\ jobs \in Seq([kind : {"save"}, arg : Positions] \cup [kind : {"lookup"}, arg : Requests])
  /\ row \in Rows \cup {None} /\ version \in {1, 2}
  /\ count \in [sent : 0..MaxRequests, opens : 0..MaxOpens, faults : Nat]
  /\ ghost \in [volume : Levels, left : Positions \cup {None}, spoilt : BOOLEAN]

(* A Pause wins: from the moment it is handled until a later Play, nothing *)
(* starts the sound, neither the end of a load nor that of a resume.       *)
PauseWins == ctl.interrupted => mpv.pause

(* The volume is the user's whenever no seek is under way, however the     *)
(* seeks before it were superseded, failed or cut short.                   *)
VolumeRestored ==
  ctl.thread = "running" /\ ctl.seek = None => mpv.level = ghost.volume

(* Once the worker is done, the record is what the last session that       *)
(* played left: its position, or none.  A session that never got past its  *)
(* load leaves the record of the one before it: "a failed/opening load     *)
(* must not overwrite a saved record with zero" (player.rs:1792).          *)
RecordKept ==
  ctl.thread = "ended" /\ jobs = <<>> /\ ghost.left # None
    => row = IF ghost.left = 0 THEN None
             ELSE [pos |-> ghost.left, version |-> version]

(* This is so as long as no write fails and no Pause comes while a resume  *)
(* is under way.                                                           *)
HistoryKept == ~ghost.spoilt => RecordKept

(* A session resumes from where the one before it was closed, and never    *)
(* from the position of a file that has been replaced since.               *)
ResumesThere ==
  ctl.thread = "running" /\ ctl.resume # None /\ ~ghost.spoilt
    => row = [pos |-> ctl.resume, version |-> version]

(* The control thread and the worker run, and mpv ends a load.             *)
Fairness ==
  /\ WF_vars(Handle) /\ WF_vars(AwaitSeek) /\ WF_vars(TrackEnds)
  /\ WF_vars(Restored) /\ WF_vars(Worker) /\ WF_vars(FileLoaded)
  /\ WF_vars(Started \/ NotStarted)

(* Every request is answered: it succeeds, fails, is superseded, times out *)
(* or is lost with the session.                                            *)
Answered ==
  \A r \in Requests :
    []<>(count.sent >= r => answer[r] # "none")
=============================================================================
