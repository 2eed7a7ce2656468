------------------------------- MODULE Office -------------------------------
(***************************************************************************)
(* Conversion of documents by an office engine in a hidden WebView         *)
(* (office.rs, office/origin.rs, commands/document.rs): requests take      *)
(* turns at a gate, the engine is created when it is needed, polls its     *)
(* private origin for a job and posts the result there, and is destroyed   *)
(* by the main thread after an error, a cancellation or 90 idle seconds.   *)
(*                                                                         *)
(* Abstracted: the assets, the bytes of the documents (only whether the    *)
(* result is a document of the kind that was asked for), and the clocks:   *)
(* a deadline, an idle time and a wait of five seconds may end any time.   *)
(***************************************************************************)
EXTENDS Naturals, Sequences

CONSTANTS
  Requests,
  MaxEngines,  \* engines in a run
  MaxFaults,   \* deadlines, waits that end early, engines that break
  None

Engines == 1..MaxEngines
Idler == "idle thread"

OfficeAssumption ==
  /\ MaxEngines \in Nat \ {0} /\ MaxFaults \in Nat
  /\ Idler \notin Requests \cup {None} /\ None \notin Requests \cup Engines

VARIABLES
  gate,     \* who holds it
  broker,   \* its session, the generations so far, teardown error, shutdown, idle thread
  engine,   \* each generation: its view, whether it is closed, its job, and the page in the view
  tasks,    \* of the main thread
  req,      \* each request
  faults

vars == <<gate, broker, engine, tasks, req, faults>>

NoJob == [id |-> None, result |-> "none", by |-> None]
Unborn == [view |-> "none", closed |-> FALSE, job |-> NoJob, fatal |-> FALSE,
           page |-> "none", current |-> None]

Init ==
  /\ gate = None
  /\ broker = [session |-> None, last |-> 0, stuck |-> FALSE, shutdown |-> FALSE, idle |-> FALSE,
               retiring |-> None]
  /\ engine = [g \in Engines |-> Unborn]
  /\ tasks = <<>>
  /\ req = [r \in Requests |->
              [pc |-> "new", cancel |-> FALSE, engine |-> None, answer |-> "none", why |-> "none"]]
  /\ faults = 0

Fault == faults < MaxFaults /\ faults' = faults + 1
Posted(op, g) == \E i \in DOMAIN tasks : tasks[i] = [op |-> op, of |-> g]
At(r, pc) == req' = [req EXCEPT ![r].pc = pc]

-----------------------------------------------------------------------------
(* A request: document_convert and ConversionBroker::convert.              *)

\* Registered before it is dispatched, with a cancellation that came before it.
Convert(r) ==
  /\ req[r].pc = "new" /\ At(r, "gate")
  /\ UNCHANGED <<gate, broker, engine, tasks, faults>>

Cancel(r) ==
  /\ req[r].pc # "done" /\ ~req[r].cancel
  /\ req' = [req EXCEPT ![r].cancel = TRUE]
  /\ UNCHANGED <<gate, broker, engine, tasks, faults>>

Stopped(r) == req[r].cancel \/ broker.shutdown

\* ECANCELLED, or the deadline.
Terminal(r) == IF Stopped(r) THEN UNCHANGED faults ELSE Fault

Ends(r, answer) == req' = [req EXCEPT ![r].pc = "done", ![r].answer = answer]

GivesUp(r) ==
  /\ req[r].pc = "gate" /\ Terminal(r) /\ Ends(r, "stopped")
  /\ UNCHANGED <<gate, broker, engine, tasks>>

TakeGate(r) ==
  /\ req[r].pc = "gate" /\ ~Stopped(r) /\ gate = None
  /\ gate' = r /\ At(r, "session")
  /\ UNCHANGED <<broker, engine, tasks, faults>>

Place(r, g) == engine' = [engine EXCEPT ![g].job = [NoJob EXCEPT !.id = r]]

\* "Never construct a replacement if destruction is unconfirmed."  The assets, the listener or
\* the task of the main thread may fail before there is anything to destroy.
Session(r) ==
  /\ req[r].pc = "session"
  /\ \/ /\ broker.stuck /\ Ends(r, "stuck") /\ gate' = None
        /\ UNCHANGED <<broker, engine, tasks, faults>>
     \/ /\ ~broker.stuck /\ broker.session # None
        /\ Place(r, broker.session)
        /\ req' = [req EXCEPT ![r].pc = "convert", ![r].engine = broker.session]
        /\ UNCHANGED <<gate, broker, tasks, faults>>
     \/ /\ ~broker.stuck /\ broker.session = None /\ Fault
        /\ Ends(r, "failed") /\ gate' = None /\ UNCHANGED <<broker, engine, tasks>>
     \/ /\ ~broker.stuck /\ broker.session = None /\ broker.last < MaxEngines
        /\ LET g == broker.last + 1
           IN /\ broker' = [broker EXCEPT !.last = g]
              /\ tasks' = Append(tasks, [op |-> "create", of |-> g])
              /\ req' = [req EXCEPT ![r].pc = "create", ![r].engine = g]
        /\ UNCHANGED <<gate, engine, faults>>

\* The view is there; or it was refused, or took too long, and is destroyed.
CreatedUnwatched(r) ==  \* mutant: the idle thread is not started
  LET g == req[r].engine
  IN /\ req[r].pc = "create" /\ engine[g].view = "live"
     /\ broker' = [broker EXCEPT !.session = g]
     /\ Place(r, g) /\ At(r, "convert") /\ UNCHANGED <<gate, tasks, faults>>
Created(r) ==
  LET g == req[r].engine
  IN /\ req[r].pc = "create"
     /\ \/ /\ engine[g].view = "live"
           /\ broker' = [broker EXCEPT !.session = g, !.idle = TRUE]
           /\ Place(r, g) /\ At(r, "convert") /\ UNCHANGED <<tasks, faults>>
        \/ /\ \/ Posted("create", g) /\ Fault
              \/ ~Posted("create", g) /\ engine[g].view # "live" /\ UNCHANGED faults
           /\ engine' = [engine EXCEPT ![g].closed = TRUE]
           /\ tasks' = Append(tasks, [op |-> "destroy", of |-> g])
           /\ req' = [req EXCEPT ![r].pc = "destroy", ![r].why = "failed"]
           /\ UNCHANGED broker
     /\ UNCHANGED gate

\* retire: the session is taken, closed and destroyed.
Retires(r, why) ==
  /\ broker' = [broker EXCEPT !.session = None]
  /\ IF broker.session # None
     THEN /\ engine' = [engine EXCEPT ![broker.session].closed = TRUE]
          /\ tasks' = Append(tasks, [op |-> "destroy", of |-> broker.session])
          /\ req' = [req EXCEPT ![r].pc = "destroy", ![r].why = why]
          /\ UNCHANGED gate
     ELSE Ends(r, why) /\ gate' = None /\ UNCHANGED <<engine, tasks>>

\* One turn of the loop that waits for the result.
Watch(r) ==
  LET g == req[r].engine  e == engine[g]
  IN /\ req[r].pc = "convert"
     /\ \/ Terminal(r) /\ Retires(r, "stopped")
        \/ ~Stopped(r) /\ (e.closed \/ e.fatal) /\ Retires(r, "lost") /\ UNCHANGED faults
        \/ ~Stopped(r) /\ ~e.closed /\ ~e.fatal /\ e.job.result = "failed"
             /\ Retires(r, "failed") /\ UNCHANGED faults
        \/ /\ ~Stopped(r) /\ ~e.closed /\ ~e.fatal /\ e.job.result = "document"
           /\ req' = [req EXCEPT ![r].pc = "done", ![r].answer = "document", ![r].why = e.job.by]
           /\ engine' = [engine EXCEPT ![g].job = NoJob]
           /\ gate' = None /\ UNCHANGED <<broker, tasks, faults>>

Confirmed(g) == ~Posted("destroy", g) /\ engine[g].view # "live"
Refused(g) == ~Posted("destroy", g) /\ engine[g].view = "live"

DestroyTrusted(r) ==  \* mutant: a destruction that is not confirmed is taken for one
  /\ req[r].pc = "destroy"
  /\ IF Posted("destroy", req[r].engine) THEN Fault ELSE UNCHANGED faults
  /\ Ends(r, req[r].why) /\ gate' = None
  /\ UNCHANGED <<engine, tasks, broker>>

Destroyed(r) ==
  /\ req[r].pc = "destroy"
  /\ \/ Confirmed(req[r].engine) /\ UNCHANGED <<broker, faults>> /\ Ends(r, req[r].why)
     \/ /\ \/ Posted("destroy", req[r].engine) /\ Fault
           \/ Refused(req[r].engine) /\ UNCHANGED faults
        /\ broker' = [broker EXCEPT !.stuck = TRUE] /\ Ends(r, "stuck")
  /\ gate' = None
  /\ UNCHANGED <<engine, tasks>>

-----------------------------------------------------------------------------
(* The idle thread, which starts with the first engine.                    *)

IdleAtOnce ==  \* mutant: the gate is not taken
  /\ broker.idle /\ ~broker.shutdown /\ broker.retiring = None /\ broker.session # None
  /\ engine' = [engine EXCEPT ![broker.session].closed = TRUE]
  /\ tasks' = Append(tasks, [op |-> "destroy", of |-> broker.session])
  /\ broker' = [broker EXCEPT !.session = None, !.retiring = broker.session]
  /\ UNCHANGED <<gate, req, faults>>

IdleRetires ==
  /\ broker.idle /\ ~broker.shutdown /\ gate = None /\ broker.session # None
  /\ gate' = Idler
  /\ engine' = [engine EXCEPT ![broker.session].closed = TRUE]
  /\ tasks' = Append(tasks, [op |-> "destroy", of |-> broker.session])
  /\ broker' = [broker EXCEPT !.session = None, !.retiring = broker.session]
  /\ UNCHANGED <<req, faults>>

IdleRetired ==
  /\ broker.retiring # None
  /\ \/ Confirmed(broker.retiring) /\ UNCHANGED faults
          /\ broker' = [broker EXCEPT !.retiring = None]
     \/ /\ \/ Posted("destroy", broker.retiring) /\ Fault
           \/ Refused(broker.retiring) /\ UNCHANGED faults
        /\ broker' = [broker EXCEPT !.retiring = None, !.stuck = TRUE]
  /\ gate' = IF gate = Idler THEN None ELSE gate
  /\ UNCHANGED <<engine, tasks, req>>

-----------------------------------------------------------------------------
(* The main thread.                                                        *)

\* A view that is ready too late is destroyed where it was built.
CreateView(g) ==
  \/ /\ engine' = [engine EXCEPT ![g].view = IF engine[g].closed THEN "gone" ELSE "live",
                                 ![g].page = IF engine[g].closed THEN "none" ELSE "boot"]
     /\ UNCHANGED faults
  \/ Fault /\ UNCHANGED engine

MainRuns ==
  /\ tasks # <<>> /\ tasks' = Tail(tasks)
  /\ \/ Head(tasks).op = "create" /\ CreateView(Head(tasks).of)
     \/ Head(tasks).op = "destroy" /\ Fault /\ UNCHANGED engine
     \/ /\ Head(tasks).op = "destroy" /\ UNCHANGED faults
        /\ engine' = [engine EXCEPT ![Head(tasks).of].page = "none",
                        ![Head(tasks).of].view = IF @ = "live" THEN "gone" ELSE @]
  /\ UNCHANGED <<gate, broker, req>>

\* The end of the program: nothing is waited for.
Shutdown ==
  /\ ~broker.shutdown
  /\ broker' = [broker EXCEPT !.shutdown = TRUE, !.session = None]
  /\ req' = [r \in Requests |-> [req[r] EXCEPT !.cancel = @ \/ req[r].pc # "new"]]
  /\ engine' = IF broker.session = None THEN engine
               ELSE [engine EXCEPT ![broker.session].closed = TRUE, ![broker.session].view = "gone",
                                   ![broker.session].page = "none"]
  /\ UNCHANGED <<gate, tasks, faults>>

-----------------------------------------------------------------------------
(* The page of an engine and the routes of its origin: job, input, output, *)
(* failure and fatal.                                                      *)

Open(g) == engine[g].page # "none" /\ ~engine[g].closed

\* It polls when it is ready, and between two jobs.
TakeJob(g) ==
  /\ Open(g) /\ engine[g].page \in {"boot", "poll"}
  /\ engine[g].job.id # None /\ engine[g].job.result = "none"
  /\ engine' = [engine EXCEPT ![g].page = "work", ![g].current = engine[g].job.id]
  /\ UNCHANGED <<gate, broker, tasks, req, faults>>

AcceptsAny(job, id) == job.id # None  \* mutant: receipts are not bound to their request
Accepts(job, id) == job.id = id /\ job.result = "none"

\* A receipt for another request, or a second one, is refused as stale.
Record(g, result) ==
  LET e == engine[g]
  IN IF Accepts(e.job, e.current)
     THEN [e EXCEPT !.job.result = result, !.job.by = e.current] ELSE e

\* Bytes that are no document of the target format count as a failure.
Posts(g) ==
  /\ Open(g) /\ engine[g].page = "work"
  /\ \/ engine' = [engine EXCEPT ![g] = [Record(g, "document") EXCEPT !.page = "posted"]]
          /\ UNCHANGED faults
     \/ Fault /\ engine' = [engine EXCEPT ![g] = [Record(g, "failed") EXCEPT !.page = "posted"]]
  /\ UNCHANGED <<gate, broker, tasks, req>>

NextJob(g) ==
  /\ engine[g].page = "posted"
  /\ engine' = [engine EXCEPT ![g].page = "poll", ![g].current = None]
  /\ UNCHANGED <<gate, broker, tasks, req, faults>>

\* An error nobody caught: a failure of the current job, or the end of the engine.
Breaks(g) ==
  /\ Open(g) /\ Fault
  /\ engine' = [engine EXCEPT ![g] =
        IF engine[g].current = None THEN [engine[g] EXCEPT !.fatal = TRUE] ELSE Record(g, "failed")]
  /\ UNCHANGED <<gate, broker, tasks, req>>

\* The listener fails.
Unreachable(g) ==
  /\ Open(g) /\ Fault
  /\ engine' = [engine EXCEPT ![g].closed = TRUE]
  /\ UNCHANGED <<gate, broker, tasks, req>>

-----------------------------------------------------------------------------
Step(r) ==
  \/ GivesUp(r) \/ TakeGate(r) \/ Session(r) \/ Created(r) \/ Watch(r) \/ Destroyed(r)
Page(g) == TakeJob(g) \/ Posts(g) \/ NextJob(g)

Next ==
  \/ \E r \in Requests : Convert(r) \/ Cancel(r) \/ Step(r)
  \/ IdleRetires \/ IdleRetired \/ MainRuns \/ Shutdown
  \/ \E g \in Engines : Page(g) \/ Breaks(g) \/ Unreachable(g)

Spec == Init /\ [][Next]_vars

TypeOK ==
  /\ gate \in Requests \cup {Idler, None}
  /\ broker.session \in Engines \cup {None} /\ broker.last \in 0..MaxEngines
  /\ \A r \in Requests : req[r].pc \in {"new", "gate", "session", "create", "convert", "destroy", "done"}

(* There is never a second engine: not after a destruction that was not    *)
(* confirmed, not when a view is built too late, and not beside the idle   *)
(* thread.                                                                 *)
OneEngine == \A g, h \in Engines : engine[g].view = "live" /\ engine[h].view = "live" => g = h

(* A request is answered with what came of its own document, whatever the  *)
(* page posts late or twice for the one before.                            *)
OwnResult ==
  /\ \A r \in Requests : req[r].answer = "document" => req[r].why = r
  /\ \A g \in Engines : engine[g].job.result # "none" => engine[g].job.by = engine[g].job.id

(* Without a fault, a request that nobody stops gets its document: neither *)
(* the idle thread nor another request takes its engine away.              *)
NoWorkLost ==
  \A r \in Requests : faults = 0 /\ ~req[r].cancel /\ ~broker.shutdown /\ req[r].pc = "done"
    => req[r].answer = "document"

(* Threads run, the main thread does its tasks, a page works, and an       *)
(* engine that is not used is found idle.                                  *)
Fairness ==
  /\ \A r \in Requests : WF_vars(Step(r))
  /\ \A r \in Requests : WF_vars(TakeGate(r))
  /\ \A g \in Engines : WF_vars(Page(g))
  /\ WF_vars(MainRuns) /\ WF_vars(IdleRetired) /\ WF_vars(IdleRetires)

(* Every request is answered, and the engine does not outlive its use      *)
(* unless the system refuses to destroy it.                                *)
Answered == \A r \in Requests : []<>(req[r].pc \in {"new", "done"})
EngineGoes == \A g \in Engines : []<>(engine[g].view # "live" \/ broker.stuck)
=============================================================================
