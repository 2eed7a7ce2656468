---------------------------- MODULE Presentation ----------------------------
(***************************************************************************)
(* What shows the picture of a video: the native surface and the tasks     *)
(* that the main thread does for it (mpv/surface_*.rs), the render thread  *)
(* (mpv/render.rs), how a player brings both up and tears them down        *)
(* (mpv/presentation.rs, mpv/player.rs), and the black cover of a change   *)
(* to the full screen (mpv/transition_cover.rs).  Threads wait five        *)
(* seconds for the main thread; what they asked for is done all the same.  *)
(***************************************************************************)
EXTENDS Naturals, Sequences

CONSTANTS
  Kinds,       \* surfaces: "metal" and "d3d11" are drawn by mpv itself, "gl" and "wgl" by render.rs
  Callers,     \* threads of commands
  Commands,    \* commands of the window: "geometry", "show", "hide", "cover", "uncover"
  Bounds,      \* players that are opened (0 or 1), commands to their views, and
               \* commands to the cover in a run
  MaxFaults,   \* waits that end before their answer, and failures of the system
  Exits        \* kinds whose player the main thread itself may close, when the program ends

PresentationAssumption ==
  /\ Kinds \subseteq {"metal", "d3d11", "gl", "wgl"} /\ Exits \subseteq Kinds
  /\ Commands \subseteq {"geometry", "show", "hide", "cover", "uncover"}
  /\ Bounds \subseteq {0, 1} \X Nat \X Nat /\ MaxFaults \in Nat

VARIABLES
  kind,     \* of the surface
  main,     \* tasks of the main thread, and whether it is inside the close of the exit
  surface,  \* its views: whether they exist, are hidden, and the flags of SurfaceInner
  life,     \* how far the player is, and who closes it
  mpv,      \* its handle, render context and update callback
  render,   \* the render thread
  call,     \* each thread: its command
  cover,    \* the cover: generation, opacity, hidden; ghost: what was asked for last
  count     \* commands and faults so far

vars == <<kind, main, surface, life, mpv, render, call, cover, count>>

Rendered == kind \in {"gl", "wgl"}
Idle == [op |-> "none", step |-> "idle", gen |-> 0]

Init ==
  /\ kind \in Kinds
  /\ main = [tasks |-> <<>>, exiting |-> FALSE]
  /\ surface = [views |-> "none", hidden |-> TRUE, visible |-> FALSE, retired |-> FALSE,
                released |-> FALSE]
  /\ life = "new"
  /\ mpv = [handle |-> "none", context |-> FALSE, callback |-> FALSE]
  /\ render = [pc |-> "none", stop |-> FALSE, ready |-> "no"]
  /\ call = [c \in Callers |-> Idle]
  /\ cover = [gen |-> 0, made |-> FALSE, alpha |-> 0, hidden |-> TRUE, last |-> "uncover"]
  /\ count = [commands |-> 0, faults |-> 0]

Opened == IF life = "new" THEN 0 ELSE 1
Viewing == count.commands - cover.gen
Within(opens, viewing, covering) == <<opens, viewing, covering>> \in Bounds

Fault == count.faults < MaxFaults /\ count' = [count EXCEPT !.faults = @ + 1]
Task(op, by, gen) == [op |-> op, by |-> by, gen |-> gen]
Post(op, by, gen) == main' = [main EXCEPT !.tasks = Append(@, Task(op, by, gen))]
Posted(op) == \E i \in DOMAIN main.tasks : main.tasks[i].op = op

-----------------------------------------------------------------------------
(* Opening: ensure_started and Presentation::start.                        *)

OpenBegins ==
  /\ life = "new" /\ Within(1, Viewing, cover.gen) /\ ~main.exiting
  /\ life' = "creating" /\ Post("create", "open", 0)
  /\ UNCHANGED <<kind, surface, mpv, render, call, cover, count>>

\* The surface is there: the handle of mpv, then the render thread.
Starts ==
  /\ life = "created"
  /\ \/ /\ life' = "starting" /\ mpv' = [mpv EXCEPT !.handle = "live"]
        /\ render' = IF Rendered THEN [render EXCEPT !.pc = "makes"] ELSE [render EXCEPT !.ready = "yes"]
        /\ UNCHANGED count
     \/ Fault /\ life' = "closed" /\ UNCHANGED <<mpv, render>>
  /\ UNCHANGED <<kind, main, surface, call, cover>>

CreateLate ==
  /\ life = "creating" /\ Posted("create") /\ Fault
  /\ life' = "closed"
  /\ UNCHANGED <<kind, main, surface, mpv, render, call, cover>>

\* Registered, unless a close cancelled the opening meanwhile.
Started ==
  /\ life = "starting" /\ render.ready = "yes"
  /\ life' \in {"running", "stopping"}
  /\ UNCHANGED <<kind, main, surface, mpv, render, call, cover, count>>

\* The thread failed, or said nothing for five seconds: it is told to stop and joined.
NotStarted ==
  /\ life = "starting" /\ life' = "stopping"
  /\ \/ render.ready = "failed" /\ UNCHANGED count
     \/ render.ready = "no" /\ Fault
  /\ UNCHANGED <<kind, main, surface, mpv, render, call, cover>>

-----------------------------------------------------------------------------
(* The end: close_running, then the drop of PlayerRuntime by the control   *)
(* thread.                                                                 *)

CloseBegins(byMain) ==
  /\ life = "running" /\ (byMain => kind \in Exits /\ main.tasks = <<>>) /\ ~main.exiting
  /\ surface' = [surface EXCEPT !.retired = (kind = "metal"), !.visible = FALSE,
                                !.hidden = byMain \/ @]
  /\ IF byMain
     THEN main' = [main EXCEPT !.exiting = TRUE] /\ life' = "stopping"
     ELSE Post("hide", "close", 0) /\ life' = "hiding"
  /\ UNCHANGED <<kind, mpv, render, call, cover, count>>

CloseHidden ==
  /\ life = "hiding" /\ life' = "stopping"
  /\ \/ ~(\E i \in DOMAIN main.tasks : main.tasks[i].by = "close") /\ UNCHANGED count
     \/ Fault
  /\ UNCHANGED <<kind, main, surface, mpv, render, call, cover>>

StopRenderer ==
  /\ life = "stopping" /\ ~render.stop
  /\ render' = [render EXCEPT !.stop = TRUE]
  /\ UNCHANGED <<kind, main, surface, life, mpv, call, cover, count>>

DestroyEarly ==  \* mutant: mpv goes before the thread that draws for it
  /\ life = "stopping"
  /\ mpv' = [mpv EXCEPT !.handle = "destroyed"]
  /\ life' = "closed" /\ render' = [render EXCEPT !.stop = TRUE]
  /\ main' = [main EXCEPT !.exiting = FALSE]
  /\ UNCHANGED <<kind, surface, call, cover, count>>

\* No render thread, one that ended in order, or one whose frame failed.
Ended == {"none", "over", "failed"}

\* The thread is joined, mpv is destroyed, and the surface is let go.
Destroy ==
  /\ life = "stopping" /\ render.stop /\ render.pc \in Ended
  /\ mpv' = [mpv EXCEPT !.handle = "destroyed"]
  /\ life' = "closed"
  /\ main' = [main EXCEPT !.exiting = FALSE]
  /\ UNCHANGED <<kind, surface, render, call, cover, count>>

\* Commands hold the surface while they run, and tasks of its geometry until they are done.
Held ==
  \/ life # "closed" \/ render.pc \notin Ended
  \/ \E c \in Callers : call[c].op \in {"geometry", "show", "hide"}
  \/ \E i \in DOMAIN main.tasks :
       \/ main.tasks[i].op = "geometry"
       \/ main.tasks[i].op \in {"show", "hide"} /\ kind \in {"metal", "gl"}

ReleaseAtOnce ==  \* mutant: the views go when the last command has returned
  /\ surface.views = "live" /\ ~surface.released
  /\ life = "closed" /\ render.pc \in Ended
  /\ \A c \in Callers : call[c] = Idle
  /\ surface' = [surface EXCEPT !.released = TRUE, !.views = "gone"]
  /\ UNCHANGED <<kind, main, life, mpv, render, call, cover, count>>

Release ==
  /\ surface.views = "live" /\ ~surface.released /\ ~Held
  /\ surface' = [surface EXCEPT !.released = TRUE]
  /\ Post("remove", "drop", 0)
  /\ UNCHANGED <<kind, life, mpv, render, call, cover, count>>

-----------------------------------------------------------------------------
(* run_renderer.                                                           *)

Ends(r) == [r EXCEPT !.pc = "over"]

MakeContext ==
  /\ render.pc = "makes"
  /\ \/ /\ render' = [render EXCEPT !.pc = "loop", !.ready = "yes"]
        /\ mpv' = [mpv EXCEPT !.context = TRUE, !.callback = TRUE]
        /\ UNCHANGED count
     \/ /\ Fault /\ render' = [Ends(render) EXCEPT !.ready = "failed"]
        /\ UNCHANGED mpv
  /\ UNCHANGED <<kind, main, surface, life, call, cover>>

\* A frame is drawn with the lock of the context.
Draw ==
  /\ render.pc = "loop" /\ ~render.stop /\ surface.visible
  /\ render' = [render EXCEPT !.pc = "draw"]
  /\ UNCHANGED <<kind, main, surface, life, mpv, call, cover, count>>

\* "a driver can send synchronous window messages while SwapBuffers holds the render lock"
Swap ==
  /\ render.pc = "draw" /\ (kind = "wgl" => ~main.exiting)
  /\ render' = [render EXCEPT !.pc = "loop"]
  /\ UNCHANGED <<kind, main, surface, life, mpv, call, cover, count>>

\* A frame that fails ends the thread; the context and the callback stay.
FrameFails ==
  /\ render.pc = "draw" /\ Fault
  /\ render' = [render EXCEPT !.pc = "failed"]
  /\ UNCHANGED <<kind, main, surface, life, mpv, call, cover>>

FreeWhenShown ==  \* mutant: the thread of a hidden surface is not woken to stop
  /\ render.pc = "loop" /\ render.stop /\ surface.visible
  /\ render' = Ends(render)
  /\ mpv' = [mpv EXCEPT !.context = FALSE, !.callback = FALSE]
  /\ UNCHANGED <<kind, main, surface, life, call, cover, count>>
FreeContext ==
  /\ render.pc = "loop" /\ render.stop
  /\ render' = Ends(render)
  /\ mpv' = [mpv EXCEPT !.context = FALSE, !.callback = FALSE]
  /\ UNCHANGED <<kind, main, surface, life, call, cover, count>>

-----------------------------------------------------------------------------
(* Commands: with_running hands out the surface, and the lock of the       *)
(* registry is not held while the main thread is waited for.               *)

Begins(c, op) ==
  /\ call[c] = Idle
  /\ op \in {"geometry", "show", "hide"} => life = "running"
  /\ count' = [count EXCEPT !.commands = @ + 1]
  /\ IF op \in {"cover", "uncover"}
     THEN /\ Within(Opened, Viewing, cover.gen + 1)
          /\ cover' = [cover EXCEPT !.gen = @ + 1, !.last = op]
          /\ call' = [call EXCEPT ![c] = [op |-> op, step |-> "post", gen |-> cover.gen + 1]]
     ELSE /\ Within(Opened, Viewing + 1, cover.gen)
          /\ call' = [call EXCEPT ![c] = [op |-> op, step |-> "post", gen |-> 0]]
          /\ UNCHANGED cover
  /\ UNCHANGED <<kind, main, surface, life, mpv, render>>

\* Of a surface that is retired, show becomes hide.
Posts(c) ==
  /\ call[c].step = "post"
  /\ call' = [call EXCEPT ![c].step = "wait"]
  /\ LET op == IF call[c].op = "show" /\ surface.retired THEN "hide" ELSE call[c].op
     IN /\ Post(op, c, call[c].gen)
        /\ surface' = IF op \in {"show", "hide"} THEN [surface EXCEPT !.visible = (op = "show")]
                      ELSE surface
  /\ UNCHANGED <<kind, life, mpv, render, cover, count>>

\* Only the Metal host waits for its geometry.
Waiting(c) ==
  /\ call[c].op = "geometry" => kind = "metal"
  /\ \E i \in DOMAIN main.tasks : main.tasks[i].by = c

\* An uncover hides the cover after its animation.
Fades(c) == kind \in {"metal", "gl"} /\ call[c].op = "uncover" /\ call[c].step = "wait"

Returns(c) ==
  /\ call[c].step \in {"wait", "last"}
  /\ \/ /\ ~Waiting(c) /\ UNCHANGED count
        /\ IF Fades(c)
           THEN Post("drop cover", c, call[c].gen) /\ call' = [call EXCEPT ![c].step = "last"]
           ELSE UNCHANGED main /\ call' = [call EXCEPT ![c] = Idle]
     \/ /\ Waiting(c) /\ Fault /\ call' = [call EXCEPT ![c] = Idle]
        /\ UNCHANGED main
  /\ UNCHANGED <<kind, surface, life, mpv, render, cover>>

-----------------------------------------------------------------------------
(* The main thread.                                                        *)

\* It takes the lock of the context for a surface of macOS, and never on Windows.
Blocked(task) ==
  kind = "gl" /\ task.op \in {"geometry", "show", "hide"} /\ render.pc = "draw"

Create ==
  \/ /\ surface' = [surface EXCEPT !.views =
          IF life = "creating" THEN "live" ELSE IF kind = "metal" THEN "gone" ELSE "left"]
     /\ life' = IF life = "creating" THEN "created" ELSE life
     /\ UNCHANGED count
  \/ /\ Fault /\ life' = "closed" /\ UNCHANGED surface

ShowRetired(v) ==  \* mutant: a show that was asked for before the end is done after it
  surface' = [surface EXCEPT !.hidden = ~v]
ShowViews(v) == surface' = [surface EXCEPT !.hidden = ~v \/ surface.retired]

HideCoverAnyway(task) ==  \* mutant: the end of an animation hides a newer cover
  cover' = [cover EXCEPT !.alpha = 0, !.hidden = TRUE]
HideCover(task) ==
  cover' = IF task.gen = cover.gen /\ cover.made
           THEN [cover EXCEPT !.alpha = 0, !.hidden = TRUE] ELSE cover

Fade(task) ==
  cover' = IF task.gen # cover.gen THEN cover
           ELSE IF task.op = "cover" THEN [cover EXCEPT !.made = TRUE, !.hidden = FALSE, !.alpha = 1]
           ELSE [cover EXCEPT !.made = TRUE, !.alpha = 0]

\* On Windows the opacity is set in steps of 16 ms by the command; no generation is kept.
FadeOnWindows(task) ==
  cover' = IF task.op = "cover" THEN [cover EXCEPT !.made = TRUE, !.hidden = FALSE, !.alpha = 1]
           ELSE IF cover.made THEN [cover EXCEPT !.alpha = 0, !.hidden = TRUE] ELSE cover

MainRuns ==
  /\ main.tasks # <<>> /\ ~main.exiting /\ ~Blocked(Head(main.tasks))
  /\ main' = [main EXCEPT !.tasks = Tail(@)]
  /\ LET task == Head(main.tasks)
     IN \/ task.op = "create" /\ Create /\ UNCHANGED cover
        \/ task.op = "remove" /\ surface' = [surface EXCEPT !.views = "gone"]
             /\ UNCHANGED <<life, cover, count>>
        \/ task.op \in {"show", "hide"} /\ ShowViews(task.op = "show")
             /\ UNCHANGED <<life, cover, count>>
        \/ task.op = "geometry" /\ UNCHANGED <<surface, life, cover, count>>
        \/ /\ task.op \in {"cover", "uncover"} /\ UNCHANGED <<surface, life, count>>
           /\ IF kind \in {"metal", "gl"} THEN Fade(task) ELSE FadeOnWindows(task)
        \/ task.op = "drop cover" /\ HideCover(task) /\ UNCHANGED <<surface, life, count>>
  /\ UNCHANGED <<kind, mpv, render, call>>

-----------------------------------------------------------------------------
Next ==
  \/ OpenBegins \/ Starts \/ CreateLate \/ Started \/ NotStarted
  \/ \E byMain \in BOOLEAN : CloseBegins(byMain)
  \/ CloseHidden \/ StopRenderer \/ Destroy \/ Release
  \/ MakeContext \/ Draw \/ Swap \/ FrameFails \/ FreeContext
  \/ \E c \in Callers : Posts(c) \/ Returns(c) \/ \E op \in Commands : Begins(c, op)
  \/ MainRuns

Spec == Init /\ [][Next]_vars

Tasks == [op : Commands \cup {"create", "remove", "hide", "drop cover"},
          by : Callers \cup {"open", "close", "drop"}, gen : Nat]
Calls == [op : Commands \cup {"none"}, step : {"idle", "post", "wait", "last"}, gen : Nat]

TypeOK ==
  /\ kind \in Kinds
  /\ main \in [tasks : Seq(Tasks), exiting : BOOLEAN]
  /\ surface \in [views : {"none", "live", "left", "gone"}, hidden : BOOLEAN,
                  visible : BOOLEAN, retired : BOOLEAN, released : BOOLEAN]
  /\ life \in {"new", "creating", "created", "starting", "running", "hiding", "stopping", "closed"}
  /\ mpv \in [handle : {"none", "live", "destroyed"}, context : BOOLEAN, callback : BOOLEAN]
  /\ render \in [pc : {"none", "makes", "loop", "draw", "over", "failed"}, stop : BOOLEAN,
                 ready : {"no", "yes", "failed"}]
  /\ call \in [Callers -> Calls]
  /\ cover \in [gen : Nat, made : BOOLEAN, alpha : {0, 1}, hidden : BOOLEAN,
                last : {"cover", "uncover"}]
  /\ count \in [commands : Nat, faults : 0..MaxFaults]

(* No task of the main thread touches views that are gone, whoever posted  *)
(* it and however late it runs.                                            *)
LiveViews ==
  main.tasks # <<>> /\ Head(main.tasks).op \in {"geometry", "show", "hide", "remove"}
    => surface.views = "live"

(* "tears down the renderer and embedded VO in the required order"         *)
(* (player.rs:402), however many waits ended early: the render context is  *)
(* freed before its handle is destroyed, and mpv does not call back into a *)
(* thread that has ended, but for a thread whose frame failed.             *)
TornDownInOrder ==
  /\ mpv.handle = "destroyed" /\ render.pc # "failed" => ~mpv.context
  /\ render.pc = "over" => ~mpv.callback

(* Does not hold: in that order also when a frame failed.  The thread then *)
(* returns at once, and its context and callback stay (render.rs:282).     *)
ContextFreedFirst == mpv.handle = "destroyed" => ~mpv.context

(* A retired surface is not shown any more: neither by a show that was     *)
(* posted before the close nor by one that a command posts after it.       *)
RetiredStaysHidden == [][surface.retired /\ surface.hidden => surface'.hidden]_vars

(* On macOS the cover is as the last command wants it, once no command is  *)
(* under way and the main thread has done what one that gave up left it.   *)
CoverFollowsLast ==
  /\ kind \in {"metal", "gl"} /\ (\A c \in Callers : call[c] = Idle)
  /\ ~Posted("cover") /\ ~Posted("uncover")
  => (cover.last = "cover" <=> ~cover.hidden /\ cover.alpha = 1)

(* Threads run, and the main thread does its tasks.                        *)
Fairness ==
  /\ WF_vars(Starts) /\ WF_vars(Started \/ NotStarted) /\ WF_vars(CloseHidden)
  /\ WF_vars(StopRenderer) /\ WF_vars(Destroy) /\ WF_vars(Release)
  /\ WF_vars(MakeContext) /\ WF_vars(Swap) /\ WF_vars(FreeContext)
  /\ SF_vars(MainRuns)
  /\ \A c \in Callers : WF_vars(Posts(c)) /\ WF_vars(Returns(c))

(* Every close comes to its end and takes the views away: no lock, join or *)
(* task is waited for for ever.                                            *)
ViewsGo ==
  []<>(life \notin {"hiding", "stopping"} /\ (mpv.handle = "destroyed" => surface.views = "gone"))
CommandsReturn == \A c \in Callers : []<>(call[c] = Idle)
=============================================================================
