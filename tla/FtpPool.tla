------------------------------- MODULE FtpPool -------------------------------
(***************************************************************************)
(* The pool of FTP sessions of one connected profile                       *)
(* (src-tauri/src/ftp/pool.rs), with the two callers that share it with    *)
(* the operations: the keepalive thread of FtpManager and the one close    *)
(* that follows the removal of the connection from the manager's map.      *)
(*                                                                         *)
(* The grain is the grain of the code's synchronization: `idle` and `open` *)
(* are two separate mutexes, `connected` is an atomic read without either, *)
(* and `available` is a condition variable used with the `open` mutex, so  *)
(* every access to one of them is a step of its own and everything between *)
(* two of them may interleave. A command with its reply is one step, a     *)
(* data transfer is open over several.                                     *)
(*                                                                         *)
(* Abstracted: which idle session is taken (the code pops the last one),   *)
(* paths, listings and bytes, how a session ends (QUIT or a severed        *)
(* socket), and the clock: `expired` says only whether the 120 s of the    *)
(* lease in progress have passed.  A thread at rest keeps nothing of its   *)
(* last operation.                                                         *)
(***************************************************************************)
EXTENDS Naturals, FiniteSets

CONSTANTS
  Workers,      \* threads that run operations of this profile
  Keeper,       \* the keepalive thread
  Closer,       \* the thread that disconnects, replaces or shuts down
  Sessions,     \* identities of control connections
  NoSession,    \* an empty Option<FtpSession>
  Kinds,        \* the kinds of operation the workers run
  MaxSessions   \* MAX_SESSIONS: 4 in the code

Procs == Workers \cup {Keeper, Closer}

ASSUME PoolAssumption ==
  /\ Keeper # Closer
  /\ Kinds \subseteq {"read", "download", "change", "upload"}
  /\ Workers \cap {Keeper, Closer} = {}
  /\ NoSession \notin Sessions
  /\ Procs \cap Sessions = {}
  /\ MaxSessions \in Nat \ {0}

VARIABLES
  connected,  \* FtpConnection.connected
  idle,       \* FtpConnection.idle
  open,       \* FtpConnection.open
  waiting,    \* threads blocked on FtpConnection.available
  pc,         \* where each thread is
  cont,       \* where it continues after giving its session up
  cur,        \* the session it is working with
  batch,      \* the sessions it drained from `idle` and has still to visit
  kind,       \* the operation of a worker
  attempt,    \* the loop counter of `repeatable` and `download`
  expired,    \* whether the deadline of the lease in progress has passed
  sent,       \* how often the command of a changing operation was sent
  reply,      \* the server's verdict on the transfer of a worker
  result,     \* what the operation reported to its caller
  busy        \* sessions with a reply or a transfer outstanding

shared == <<connected, idle, open, waiting>>
op     == <<kind, attempt, expired, sent, reply, result>>
vars   == <<shared, pc, cont, cur, batch, op, busy>>

(* Reads are repeated once after a lost connection, changes never.         *)
Reading   == {"read", "download"}
Changing  == {"change", "upload"}
Transfers == {"download", "upload"}

LeasePcs  == {"check", "pop", "open", "wait"}
Pcs       == LeasePcs \cup
             {"rest", "connect", "run", "data", "ended", "end", "forget",
              "return", "push", "notify", "drain", "batch",
              "closed", "dropped"}

Owned(p) == batch[p] \cup (IF cur[p] = NoSession THEN {} ELSE {cur[p]})
Live     == {s \in Sessions : s \in idle \/ \E p \in Procs : s \in Owned(p)}

(* A slot of `open` is taken before its session exists and given back      *)
(* after it has ended.                                                     *)
Reserved == {p \in Procs : pc[p] \in {"connect", "forget"}}
Slots    == Live \cup Reserved

Goto(p, l) == pc' = [pc EXCEPT ![p] = l]

(* A worker with operation k, or none, that has not sent anything yet.     *)
Fresh(w, k) ==
  /\ kind'    = [kind EXCEPT ![w] = k]
  /\ attempt' = [attempt EXCEPT ![w] = 0]
  /\ expired' = [expired EXCEPT ![w] = FALSE]
  /\ sent'    = [sent EXCEPT ![w] = 0]
  /\ reply'   = [reply EXCEPT ![w] = "none"]
  /\ result'  = [result EXCEPT ![w] = "none"]

Init ==
  /\ connected = TRUE
  /\ \E s \in Sessions : idle = {s}
  /\ open = 1
  /\ waiting = {}
  /\ pc      = [p \in Procs |-> "rest"]
  /\ cont    = [p \in Procs |-> IF p \in Workers THEN "rest" ELSE "batch"]
  /\ cur     = [p \in Procs |-> NoSession]
  /\ batch   = [p \in Procs |-> {}]
  /\ kind    = [w \in Workers |-> "none"]
  /\ attempt = [w \in Workers |-> 0]
  /\ expired = [w \in Workers |-> FALSE]
  /\ sent    = [w \in Workers |-> 0]
  /\ reply   = [w \in Workers |-> "none"]
  /\ result  = [w \in Workers |-> "none"]
  /\ busy    = {}

-----------------------------------------------------------------------------
(* An operation starts with the connection FtpManager::get returned.       *)

Begin(w, k) ==
  /\ pc[w] = "rest"
  /\ connected
  /\ Goto(w, "check")
  /\ Fresh(w, k)
  /\ UNCHANGED <<shared, cont, cur, batch, busy>>

(* The operation has its result and gives its session up.                  *)
Finish(w, how, r) ==
  /\ Goto(w, how)
  /\ cont'   = [cont EXCEPT ![w] = "rest"]
  /\ result' = [result EXCEPT ![w] = r]

(* The operation returns an error before it has a session.                 *)
Fail(w) == Goto(w, "rest") /\ Fresh(w, "none")

-----------------------------------------------------------------------------
(* lease: take an idle session, open one within the limit, or wait.        *)

LeaseCheck(w) ==
  /\ pc[w] = "check"
  /\ \/ connected /\ Goto(w, "pop") /\ UNCHANGED op
     \/ ~connected /\ Fail(w)
  /\ UNCHANGED <<shared, cont, cur, batch, busy>>

(* The deadline is of no use to a lease that leaves its loop.              *)
InTime(w) ==
  /\ expired' = [expired EXCEPT ![w] = FALSE]
  /\ UNCHANGED <<kind, attempt, sent, reply, result>>

LeasePop(w) ==
  /\ pc[w] = "pop"
  /\ \/ \E s \in idle :
          /\ idle' = idle \ {s}
          /\ cur'  = [cur EXCEPT ![w] = s]
          /\ Goto(w, "run")
          /\ InTime(w)
     \/ /\ idle = {}
        /\ Goto(w, "open")
        /\ UNCHANGED <<idle, cur, op>>
  /\ UNCHANGED <<connected, open, waiting, cont, batch, busy>>

LeaseReserveOneMore(w) ==  \* mutant: the limit is off by one
  /\ pc[w] = "open"
  /\ open <= MaxSessions
  /\ open' = open + 1
  /\ Goto(w, "connect")
  /\ InTime(w)
  /\ UNCHANGED <<connected, idle, waiting, cont, cur, batch, busy>>

LeaseReserve(w) ==
  /\ pc[w] = "open"
  /\ open < MaxSessions
  /\ open' = open + 1
  /\ Goto(w, "connect")
  /\ InTime(w)
  /\ UNCHANGED <<connected, idle, waiting, cont, cur, batch, busy>>

LeaseNeverBusy(w) == FALSE  \* mutant: the deadline is not looked at

LeaseBusy(w) ==
  /\ pc[w] = "open"
  /\ open >= MaxSessions
  /\ expired[w]
  /\ Fail(w)
  /\ UNCHANGED <<shared, cont, cur, batch, busy>>

LeaseWait(w) ==
  /\ pc[w] = "open"
  /\ open >= MaxSessions
  /\ ~expired[w]
  /\ waiting' = waiting \cup {w}
  /\ Goto(w, "wait")
  /\ UNCHANGED <<connected, idle, open, cont, cur, batch, op, busy>>

(* wait_timeout returns after a notification ...                           *)
LeaseWake(w) ==
  /\ pc[w] = "wait"
  /\ w \notin waiting
  /\ Goto(w, "check")
  /\ UNCHANGED <<shared, cont, cur, batch, op, busy>>

(* ... or after at most 250 ms without one.                                *)
WaitTimeout(w) ==
  /\ pc[w] = "wait"
  /\ w \in waiting
  /\ waiting' = waiting \ {w}
  /\ Goto(w, "check")
  /\ UNCHANGED <<connected, idle, open, cont, cur, batch, op, busy>>

DeadlinePasses(w) ==
  /\ pc[w] \in LeasePcs
  /\ ~expired[w]
  /\ expired' = [expired EXCEPT ![w] = TRUE]
  /\ UNCHANGED <<shared, pc, cont, cur, batch, kind, attempt, sent, reply,
                 result, busy>>

ConnectOk(w) ==
  /\ pc[w] = "connect"
  /\ \E s \in Sessions \ Live : cur' = [cur EXCEPT ![w] = s]
  /\ Goto(w, "run")
  /\ UNCHANGED <<shared, cont, batch, op, busy>>

ConnectFailsLeaks(w) ==  \* mutant: a failed connect keeps its slot
  /\ pc[w] = "connect"
  /\ Fail(w)
  /\ UNCHANGED <<shared, cont, cur, batch, busy>>

ConnectFails(w) ==
  /\ pc[w] = "connect"
  /\ Finish(w, "forget", "error")
  /\ UNCHANGED <<shared, cur, batch, kind, attempt, expired, sent, reply, busy>>

-----------------------------------------------------------------------------
(* Giving a session up: release, discard and the shared tail of both.      *)

(* What follows the end of a session or its return: the operation returns, *)
(* or the thread goes on with its batch.                                   *)
Resume(p) ==
  /\ Goto(p, cont[p])
  /\ \/ p \in Workers /\ cont[p] = "rest" /\ Fresh(p, "none")
     \/ ~(p \in Workers /\ cont[p] = "rest") /\ UNCHANGED op

(* sever or quit, in discard, the drop of a lease, return_session after a  *)
(* close, close, keepalive and discard_idle.                               *)
End(p) ==
  /\ pc[p] = "end"
  /\ cur'  = [cur EXCEPT ![p] = NoSession]
  /\ busy' = busy \ {cur[p]}
  /\ Goto(p, "forget")
  /\ UNCHANGED <<shared, cont, batch, op>>

(* forget_session: one critical section of `open` that wakes every waiter. *)
Forget(p) ==
  /\ pc[p] = "forget"
  /\ open' = IF open = 0 THEN 0 ELSE open - 1
  /\ waiting' = {}
  /\ Resume(p)
  /\ UNCHANGED <<connected, idle, cont, cur, batch, busy>>

(* return_session reads `connected` before it locks `idle` ...             *)
ReturnCheck(p) ==
  /\ pc[p] = "return"
  /\ Goto(p, IF connected THEN "push" ELSE "end")
  /\ UNCHANGED <<shared, cont, cur, batch, op, busy>>

ReturnPush(p) ==
  /\ pc[p] = "push"
  /\ idle' = idle \cup {cur[p]}
  /\ cur'  = [cur EXCEPT ![p] = NoSession]
  /\ Goto(p, "notify")
  /\ UNCHANGED <<connected, open, waiting, cont, batch, op, busy>>

(* ... and notifies without holding `open`.                                *)
ReturnNotify(p) ==
  /\ pc[p] = "notify"
  /\ waiting' = {}
  /\ Resume(p)
  /\ UNCHANGED <<connected, idle, open, cont, cur, batch, busy>>

-----------------------------------------------------------------------------
(* repeatable, once, download and upload: what the command came to.        *)

Sent(w) == sent' = [sent EXCEPT ![w] = IF kind[w] \in Changing THEN @ + 1 ELSE @]

CommandOk(w) ==
  /\ pc[w] = "run"
  /\ Sent(w)
  /\ \/ /\ kind[w] \in Transfers
        /\ Goto(w, "data")
        /\ busy' = busy \cup {cur[w]}
        /\ UNCHANGED <<cont, result>>
     \/ /\ kind[w] \notin Transfers
        /\ Finish(w, "return", "ok")
        /\ UNCHANGED busy
  /\ UNCHANGED <<shared, cur, batch, kind, attempt, expired, reply>>

CommandRefused(w) ==
  /\ pc[w] = "run"
  /\ Sent(w)
  /\ Finish(w, "return", "error")
  /\ UNCHANGED <<shared, cur, batch, kind, attempt, expired, reply, busy>>

(* The control connection failed: the reply, if any, was not read.         *)
CommandLostWhen(w, again) ==
  /\ pc[w] = "run"
  /\ Sent(w)
  /\ busy' = busy \cup {cur[w]}
  /\ \/ /\ again
        /\ Goto(w, "end")
        /\ cont' = [cont EXCEPT ![w] = "drain"]
        /\ UNCHANGED result
     \/ /\ ~again
        /\ Finish(w, "end", "error")
  /\ UNCHANGED <<shared, cur, batch, kind, attempt, expired, reply>>

CommandLostAnyAgain(w) ==  \* mutant: changes are repeated like reads
  CommandLostWhen(w, attempt[w] = 0)

CommandLostThrice(w) ==  \* mutant: one attempt too many
  CommandLostWhen(w, kind[w] \in Reading /\ attempt[w] < 2)

CommandLost(w) ==
  CommandLostWhen(w, kind[w] \in Reading /\ attempt[w] = 0)

-----------------------------------------------------------------------------
(* FtpReader and FtpWriter.                                                *)

(* The final reply is read: only a good one leaves a reusable session.     *)
Complete(w, r) ==
  /\ reply' = [reply EXCEPT ![w] = r]
  /\ \/ /\ r = "good"
        /\ busy' = busy \ {cur[w]}
        /\ Finish(w, "return", "ok")
     \/ /\ r = "bad"
        /\ Finish(w, "end", "error")
        /\ UNCHANGED busy
  /\ UNCHANGED <<shared, cur, batch, kind, attempt, expired, sent>>

(* End of file: a plain consumer (complete_at_end) gets the final reply    *)
(* from this very read, the others from finish.                            *)
ReaderEofIsSuccess(w) ==  \* mutant: the final reply is not waited for
  /\ pc[w] = "data"
  /\ kind[w] = "download"
  /\ Finish(w, "return", "ok")
  /\ UNCHANGED <<shared, cur, batch, kind, attempt, expired, sent, reply, busy>>

ReaderEof(w) ==
  /\ pc[w] = "data"
  /\ kind[w] = "download"
  /\ \/ \E r \in {"good", "bad"} : Complete(w, r)
     \/ /\ Goto(w, "ended")
        /\ UNCHANGED <<shared, cont, cur, batch, op, busy>>

ReaderFinish(w) ==
  /\ pc[w] = "ended"
  /\ \E r \in {"good", "bad"} : Complete(w, r)

WriterFinish(w) ==
  /\ pc[w] = "data"
  /\ kind[w] = "upload"
  /\ \E r \in {"good", "bad"} : Complete(w, r)

(* A failed read, finish before the end, abort, or a drop without finish.  *)
TransferReleases(w) ==  \* mutant: an aborted transfer releases its session
  /\ pc[w] \in {"data", "ended"}
  /\ Finish(w, "return", "error")
  /\ UNCHANGED <<shared, cur, batch, kind, attempt, expired, sent, reply, busy>>

TransferAborts(w) ==
  /\ pc[w] \in {"data", "ended"}
  /\ Finish(w, "end", "error")
  /\ UNCHANGED <<shared, cur, batch, kind, attempt, expired, sent, reply, busy>>

-----------------------------------------------------------------------------
(* discard_idle, keepalive and close all drain `idle` and then visit what  *)
(* they took.                                                              *)

DrainCopies(p) ==  \* mutant: `idle` is copied and not emptied
  /\ pc[p] = "drain"
  /\ batch' = [batch EXCEPT ![p] = idle]
  /\ Goto(p, "batch")
  /\ UNCHANGED <<shared, cont, cur, op, busy>>

Drain(p) ==
  /\ pc[p] = "drain"
  /\ batch' = [batch EXCEPT ![p] = idle]
  /\ idle'  = {}
  /\ Goto(p, "batch")
  /\ UNCHANGED <<connected, open, waiting, cont, cur, op, busy>>

Visit(p, how) ==
  /\ pc[p] = "batch"
  /\ \E s \in batch[p] :
       /\ cur'   = [cur EXCEPT ![p] = s]
       /\ batch' = [batch EXCEPT ![p] = @ \ {s}]
  /\ cont' = [cont EXCEPT ![p] = "batch"]
  /\ Goto(p, how)
  /\ UNCHANGED <<shared, op, busy>>

DiscardNext(w) == Visit(w, "end")

(* The loop of `repeatable` starts its second round with a new lease.      *)
DiscardDone(w) ==
  /\ pc[w] = "batch"
  /\ batch[w] = {}
  /\ attempt' = [attempt EXCEPT ![w] = @ + 1]
  /\ expired' = [expired EXCEPT ![w] = FALSE]
  /\ Goto(w, "check")
  /\ UNCHANGED <<shared, cont, cur, batch, kind, sent, reply, result, busy>>

KeeperWakes ==
  /\ pc[Keeper] = "rest"
  /\ connected
  /\ Goto(Keeper, "drain")
  /\ UNCHANGED <<shared, cont, cur, batch, op, busy>>

KeeperProbes == \E answer \in {"return", "end"} : Visit(Keeper, answer)

KeeperDone ==
  /\ pc[Keeper] = "batch"
  /\ batch[Keeper] = {}
  /\ Goto(Keeper, "rest")
  /\ UNCHANGED <<shared, cont, cur, batch, op, busy>>

(* The connection leaves the map of the manager and is closed.  An         *)
(* operation that got it before goes on with it.                           *)
CloserForgetsToMark ==  \* mutant: close leaves `connected` as it is
  /\ pc[Closer] = "rest"
  /\ Goto(Closer, "drain")
  /\ UNCHANGED <<shared, cont, cur, batch, op, busy>>

CloserMarks ==
  /\ pc[Closer] = "rest"
  /\ connected' = FALSE
  /\ Goto(Closer, "drain")
  /\ UNCHANGED <<idle, open, waiting, cont, cur, batch, op, busy>>

CloserNext == Visit(Closer, "end")

CloserDone ==
  /\ pc[Closer] = "batch"
  /\ batch[Closer] = {}
  /\ waiting' = {}
  /\ Goto(Closer, "closed")
  /\ UNCHANGED <<connected, idle, open, cont, cur, batch, op, busy>>

(* The last Arc<FtpConnection> is gone, and with it whatever is pooled.    *)
Dropped ==
  /\ pc[Closer] = "closed"
  /\ \A p \in Procs \ {Closer} : pc[p] = "rest"
  /\ idle' = {}
  /\ open' = 0
  /\ Goto(Closer, "dropped")
  /\ UNCHANGED <<connected, waiting, cont, cur, batch, op, busy>>

Finished == pc[Closer] = "dropped" /\ UNCHANGED vars

-----------------------------------------------------------------------------
LeaseStep(w) ==
  \/ LeaseCheck(w) \/ LeasePop(w) \/ LeaseReserve(w) \/ LeaseBusy(w)
  \/ LeaseWait(w) \/ LeaseWake(w)

ConnectStep(w) == ConnectOk(w) \/ ConnectFails(w)

CommandStep(w) == CommandOk(w) \/ CommandRefused(w) \/ CommandLost(w)

TransferStep(w) ==
  ReaderEof(w) \/ ReaderFinish(w) \/ WriterFinish(w) \/ TransferAborts(w)

GiveUpStep(p) ==
  \/ End(p) \/ Forget(p) \/ ReturnCheck(p) \/ ReturnPush(p)
  \/ ReturnNotify(p) \/ Drain(p)

DiscardStep(w) == DiscardNext(w) \/ DiscardDone(w)

KeeperStep == KeeperWakes \/ KeeperProbes \/ KeeperDone

CloserStep == CloserNext \/ CloserDone

Next ==
  \/ \E w \in Workers :
       \/ \E k \in Kinds : Begin(w, k)
       \/ LeaseStep(w)
       \/ WaitTimeout(w)
       \/ DeadlinePasses(w)
       \/ ConnectStep(w)
       \/ CommandStep(w)
       \/ TransferStep(w)
       \/ DiscardStep(w)
  \/ \E p \in Procs : GiveUpStep(p)
  \/ KeeperStep
  \/ CloserMarks
  \/ CloserStep
  \/ Dropped
  \/ Finished

Spec == Init /\ [][Next]_vars

(* Threads are scheduled, the 250 ms of a wait and the 120 s of a lease    *)
(* pass, and a command or a connect ends (30 s socket timeouts).  Nothing  *)
(* is assumed of how long a caller keeps a transfer open.                  *)
Fairness ==
  /\ \A w \in Workers :
       /\ WF_vars(LeaseStep(w))
       /\ WF_vars(WaitTimeout(w))
       /\ WF_vars(DeadlinePasses(w))
       /\ WF_vars(ConnectStep(w))
       /\ WF_vars(CommandStep(w))
       /\ WF_vars(DiscardStep(w))
  /\ \A p \in Procs : WF_vars(GiveUpStep(p))
  /\ WF_vars(KeeperProbes \/ KeeperDone)
  /\ WF_vars(CloserStep)
  /\ WF_vars(Dropped)

FairSpec == Spec /\ Fairness

(* The callers of transfers read them to the end, finish, abort or drop    *)
(* them.                                                                   *)
CallersFinish == \A w \in Workers : WF_vars(TransferStep(w))

-----------------------------------------------------------------------------
TypeOK ==
  /\ connected \in BOOLEAN
  /\ idle \subseteq Sessions
  /\ open \in Nat
  /\ waiting \subseteq Workers
  /\ pc \in [Procs -> Pcs]
  /\ cont \in [Procs -> {"rest", "drain", "batch"}]
  /\ cur \in [Procs -> Sessions \cup {NoSession}]
  /\ batch \in [Procs -> SUBSET Sessions]
  /\ kind \in [Workers -> Kinds \cup {"none"}]
  /\ attempt \in [Workers -> 0..1]
  /\ expired \in [Workers -> BOOLEAN]
  /\ sent \in [Workers -> Nat]
  /\ reply \in [Workers -> {"none", "good", "bad"}]
  /\ result \in [Workers -> {"none", "ok", "error"}]
  /\ busy \subseteq Sessions

(* At most MAX_SESSIONS control connections of the profile exist, counted  *)
(* wherever they are: pooled, leased, drained, on their way back           *)
(* (pool.rs:4-5).                                                          *)
SessionLimit == Cardinality(Live) <= MaxSessions

(* `open` counts exactly the sessions that exist, are being opened or have *)
(* just ended, so no slot is ever lost to the pool or given back twice     *)
(* (lease, forget_session).                                                *)
SlotsAccounted == open = Cardinality(Slots)

(* A session belongs to one thread or to the pool, never to two at once:   *)
(* a control connection serves one command or transfer at a time           *)
(* (pool.rs:3).                                                            *)
Exclusive ==
  /\ \A p \in Procs : Owned(p) \cap idle = {} /\ cur[p] \notin batch[p]
  /\ \A p, q \in Procs : p # q => Owned(p) \cap Owned(q) = {}

(* A pooled session has no transfer and no reply outstanding, so a damaged *)
(* session is never reused (pool.rs:6-8).                                  *)
PoolClean == idle \cap busy = {}

(* The command of a changing operation is sent at most once, whatever was  *)
(* lost after it (`once` and `upload`, pool.rs:281-283).                   *)
ChangeSentOnce == \A w \in Workers : sent[w] <= 1

(* A transfer reports success only if the server confirmed it with its     *)
(* final reply (FtpReader, FtpWriter).                                     *)
SuccessConfirmed ==
  \A w \in Workers :
    result[w] = "ok" /\ kind[w] \in Transfers => reply[w] = "good"

(* The pool keeps what SessionPool promises: sessions come into existence  *)
(* within the limit, pass from thread to thread only through `idle`, and   *)
(* enter it only when nothing of them is outstanding.                      *)
Promise == INSTANCE SessionPool WITH
  Threads <- Procs, Limit <- MaxSessions,
  free <- idle, holds <- [p \in Procs |-> Owned(p)], doubtful <- busy

PoolPromise == Promise!PoolSpec

(* `lease` returns: whatever the other threads do with their sessions, a   *)
(* caller gets a session or an error, although return_session notifies     *)
(* without the mutex of the condition variable and a wakeup may be lost.   *)
LeaseReturns ==
  \A w \in Workers : []<>(pc[w] \notin LeasePcs)

(* After a disconnect every session of the profile ends, once the callers  *)
(* have ended their transfers (close, docs/ftp-ftps.md:349).               *)
ClosedEnds == CallersFinish => []<>(pc[Closer] = "closed" => Live = {})

(* What close promises: it ends every idle session, and a leased one is    *)
(* closed when it comes back (pool.rs:184).  Not so: return_session looks  *)
(* at the flag before it takes the lock (pool.rs:172).                     *)
ClosedPoolStaysEmpty == pc[Closer] = "closed" => idle = {}
=============================================================================
