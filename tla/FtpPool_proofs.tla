--------------------------- MODULE FtpPool_proofs ---------------------------
(* Proofs about FtpPool for every number of threads and sessions.          *)
EXTENDS FtpPool, FiniteSetTheorems, TLAPS

Holding == {"run", "data", "ended", "end", "return", "push"}
GivingUp == {"end", "forget", "return", "push", "notify"}

(* A thread has a session in its hands exactly where the code has one.     *)
HoldsOK == \A p \in Procs : cur[p] = NoSession <=> pc[p] \notin Holding

(* Drained sessions are left only in a thread that goes on with them.      *)
BatchOK ==
  \A p \in Procs :
    batch[p] # {} => \/ pc[p] = "batch"
                     \/ pc[p] \in GivingUp /\ cont[p] = "batch"

(* A worker on its way to another attempt: it is giving up the session it  *)
(* lost, or the idle ones.                                                 *)
Again(w) == \/ pc[w] \in {"drain", "batch"}
            \/ pc[w] \in GivingUp /\ cont[w] # "rest"

(* No third attempt.                                                       *)
RetryOK == \A w \in Workers : Again(w) => attempt[w] = 0

(* A change that was sent is not on its way to being sent again.           *)
SentOK ==
  \A w \in Workers :
    sent[w] # 0 =>
      /\ sent[w] = 1
      /\ kind[w] \in Changing
      /\ ~Again(w)
      /\ pc[w] \in {"data", "ended"} \cup GivingUp

Control == HoldsOK /\ BatchOK /\ RetryOK /\ SentOK

(* Whatever is doubtful is in the hands of a thread that will not park it. *)
BusyOK ==
  \A s \in busy :
    \E p \in Procs : cur[p] = s /\ pc[p] \in {"data", "ended", "end"}

(* The counter and what it counts.                                         *)
CountOK == IsFiniteSet(Slots) /\ SlotsAccounted /\ open <= MaxSessions

IInv == TypeOK /\ Control /\ Exclusive /\ BusyOK /\ CountOK /\ SuccessConfirmed

(* Each step keeps the types.                                              *)
LEMMA TypeStep ==
  ASSUME TypeOK, Control, [Next]_vars
  PROVE  TypeOK'
<1> USE PoolAssumption DEF TypeOK, Control, HoldsOK, RetryOK, Holding, Again,
    GivingUp, vars, shared, op, Goto, Procs, Pcs, LeasePcs, Reading, Changing,
    Transfers
<1>1. ASSUME NEW w \in Workers, NEW k \in Kinds, Begin(w, k) PROVE TypeOK'
  BY <1>1 DEF Begin, Fresh
<1>2. ASSUME NEW w \in Workers, LeaseCheck(w) PROVE TypeOK'
  <2>1. CASE connected
    BY SMTT(90), <2>1, <1>2 DEF LeaseCheck
  <2>2. CASE ~connected
    <3>1. pc[w] = "check" /\ Goto(w, "rest") /\ Fresh(w, "none")
          /\ UNCHANGED <<shared, cont, cur, batch, busy>>
      BY SMTT(90), <2>2, <1>2 DEF LeaseCheck, Fail
    <3> QED BY SMTT(90), <3>1 DEF Fresh
  <2> QED BY <2>1, <2>2
<1>3. ASSUME NEW w \in Workers, LeasePop(w) PROVE TypeOK'
  <2>1. CASE idle = {}
    BY SMTT(90), <2>1, <1>3 DEF LeasePop
  <2>2. CASE idle # {}
    <3>1. PICK s \in idle :
            /\ pc[w] = "pop" /\ Goto(w, "run") /\ InTime(w)
            /\ idle' = idle \ {s} /\ cur' = [cur EXCEPT ![w] = s]
            /\ UNCHANGED <<connected, open, waiting, cont, batch, busy>>
      BY SMTT(90), <2>2, <1>3 DEF LeasePop
    <3> QED BY SMTT(90), <3>1 DEF InTime
  <2> QED BY <2>1, <2>2
<1>4. ASSUME NEW w \in Workers, LeaseReserve(w) PROVE TypeOK'
  BY SMTT(90), <1>4 DEF LeaseReserve, InTime
<1>5. ASSUME NEW w \in Workers, LeaseBusy(w) PROVE TypeOK'
  BY SMTT(90), <1>5 DEF LeaseBusy, Fail, Fresh
<1>6. ASSUME NEW w \in Workers, LeaseWait(w) PROVE TypeOK'
  BY SMTT(90), <1>6 DEF LeaseWait
<1>7. ASSUME NEW w \in Workers, LeaseWake(w) PROVE TypeOK'
  BY SMTT(90), <1>7 DEF LeaseWake
<1>8. ASSUME NEW w \in Workers, WaitTimeout(w) PROVE TypeOK'
  BY SMTT(90), <1>8 DEF WaitTimeout
<1>9. ASSUME NEW w \in Workers, DeadlinePasses(w) PROVE TypeOK'
  BY SMTT(90), <1>9 DEF DeadlinePasses
<1>10. ASSUME NEW w \in Workers, ConnectOk(w) PROVE TypeOK'
  BY SMTT(90), <1>10 DEF ConnectOk
<1>11. ASSUME NEW w \in Workers, ConnectFails(w) PROVE TypeOK'
  BY SMTT(90), <1>11 DEF ConnectFails, Finish
<1>12. ASSUME NEW w \in Workers, CommandOk(w) PROVE TypeOK'
  BY SMTT(90), <1>12 DEF CommandOk, Finish, Sent
<1>13. ASSUME NEW w \in Workers, CommandRefused(w) PROVE TypeOK'
  BY SMTT(90), <1>13 DEF CommandRefused, Finish, Sent
<1>14. ASSUME NEW w \in Workers, CommandLost(w) PROVE TypeOK'
  BY SMTT(90), <1>14 DEF CommandLost, CommandLostWhen, Finish, Sent
<1>15. ASSUME NEW w \in Workers, ReaderEof(w) PROVE TypeOK'
  BY SMTT(90), <1>15 DEF ReaderEof, Complete, Finish
<1>16. ASSUME NEW w \in Workers, ReaderFinish(w) PROVE TypeOK'
  BY SMTT(90), <1>16 DEF ReaderFinish, Complete, Finish
<1>17. ASSUME NEW w \in Workers, WriterFinish(w) PROVE TypeOK'
  BY SMTT(90), <1>17 DEF WriterFinish, Complete, Finish
<1>18. ASSUME NEW w \in Workers, TransferAborts(w) PROVE TypeOK'
  BY SMTT(90), <1>18 DEF TransferAborts, Finish
<1>19. ASSUME NEW w \in Workers, DiscardDone(w) PROVE TypeOK'
  BY SMTT(90), <1>19 DEF DiscardDone
<1>20. ASSUME NEW p \in Procs, End(p) PROVE TypeOK'
  BY SMTT(90), <1>20 DEF End
<1>21. ASSUME NEW p \in Procs, Forget(p) PROVE TypeOK'
  <2>1. CASE p \in Workers /\ cont[p] = "rest"
    <3>1. pc[p] = "forget" /\ Goto(p, "rest") /\ Fresh(p, "none")
      BY SMTT(90), <2>1, <1>21 DEF Forget, Resume
    <3>2. /\ open' = IF open = 0 THEN 0 ELSE open - 1
          /\ waiting' = {}
          /\ UNCHANGED <<connected, idle, cont, cur, batch, busy>>
      BY <1>21 DEF Forget
    <3> QED BY SMTT(90), <2>1, <3>1, <3>2 DEF Fresh
  <2>2. CASE ~(p \in Workers /\ cont[p] = "rest")
    BY SMTT(90), <2>2, <1>21 DEF Forget, Resume
  <2> QED BY <2>1, <2>2
<1>22. ASSUME NEW p \in Procs, ReturnCheck(p) PROVE TypeOK'
  BY SMTT(90), <1>22 DEF ReturnCheck
<1>23. ASSUME NEW p \in Procs, ReturnPush(p) PROVE TypeOK'
  BY SMTT(90), <1>23 DEF ReturnPush
<1>24. ASSUME NEW p \in Procs, ReturnNotify(p) PROVE TypeOK'
  <2>1. CASE p \in Workers /\ cont[p] = "rest"
    <3>1. pc[p] = "notify" /\ Goto(p, "rest") /\ Fresh(p, "none")
      BY SMTT(90), <2>1, <1>24 DEF ReturnNotify, Resume
    <3>2. /\ UNCHANGED open
          /\ waiting' = {}
          /\ UNCHANGED <<connected, idle, open, cont, cur, batch, busy>>
      BY <1>24 DEF ReturnNotify
    <3> QED BY SMTT(90), <2>1, <3>1, <3>2 DEF Fresh
  <2>2. CASE ~(p \in Workers /\ cont[p] = "rest")
    BY SMTT(90), <2>2, <1>24 DEF ReturnNotify, Resume
  <2> QED BY <2>1, <2>2
<1>25. ASSUME NEW p \in Procs, Drain(p) PROVE TypeOK'
  BY SMTT(90), <1>25 DEF Drain
<1>26. ASSUME NEW p \in Procs, NEW how \in {"return", "end"}, Visit(p, how)
      PROVE  TypeOK'
  BY <1>26 DEF Visit
<1>27. ASSUME KeeperWakes PROVE TypeOK'
  BY <1>27 DEF KeeperWakes
<1>28. ASSUME KeeperDone PROVE TypeOK'
  BY <1>28 DEF KeeperDone
<1>29. ASSUME CloserMarks PROVE TypeOK'
  BY <1>29 DEF CloserMarks
<1>30. ASSUME CloserDone PROVE TypeOK'
  BY <1>30 DEF CloserDone
<1>31. ASSUME Dropped PROVE TypeOK'
  BY <1>31 DEF Dropped
<1>32. CASE UNCHANGED vars
  BY <1>32 DEF vars
<1> HIDE DEF TypeOK, Control, HoldsOK, RetryOK, Holding, Again, GivingUp, vars,
    shared, op, Goto, Procs, Pcs, LeasePcs, Reading, Changing, Transfers
<1> QED
  BY <1>1, <1>2, <1>3, <1>4, <1>5, <1>6, <1>7, <1>8, <1>9, <1>10, <1>11, <1>12,
      <1>13, <1>14, <1>15, <1>16, <1>17, <1>18, <1>19, <1>20, <1>21, <1>22,
      <1>23, <1>24, <1>25, <1>26, <1>27, <1>28, <1>29, <1>30, <1>31, <1>32
  DEF Procs, Next, LeaseStep, ConnectStep, CommandStep, TransferStep,
      DiscardStep, GiveUpStep, KeeperStep, CloserStep, DiscardNext,
      KeeperProbes, CloserNext, Finished

(* Each step keeps what is known of where the threads are.                 *)
LEMMA ControlStep ==
  ASSUME TypeOK, Control, [Next]_vars
  PROVE  Control'
<1> USE PoolAssumption DEF TypeOK, Control, HoldsOK, BatchOK, RetryOK, SentOK,
    Again, GivingUp, Holding, vars, shared, op, Goto, Procs, Pcs, LeasePcs,
    Reading, Changing, Transfers
<1>1. ASSUME NEW w \in Workers, NEW k \in Kinds, Begin(w, k) PROVE Control'
  BY <1>1 DEF Begin, Fresh
<1>2. ASSUME NEW w \in Workers, LeaseCheck(w) PROVE Control'
  <2>1. CASE connected
    BY SMTT(90), <2>1, <1>2 DEF LeaseCheck
  <2>2. CASE ~connected
    <3>1. pc[w] = "check" /\ Goto(w, "rest") /\ Fresh(w, "none")
          /\ UNCHANGED <<shared, cont, cur, batch, busy>>
      BY SMTT(90), <2>2, <1>2 DEF LeaseCheck, Fail
    <3> QED BY SMTT(90), <3>1 DEF Fresh
  <2> QED BY <2>1, <2>2
<1>3. ASSUME NEW w \in Workers, LeasePop(w) PROVE Control'
  <2>1. CASE idle = {}
    BY SMTT(90), <2>1, <1>3 DEF LeasePop
  <2>2. CASE idle # {}
    <3>1. PICK s \in idle :
            /\ pc[w] = "pop" /\ Goto(w, "run") /\ InTime(w)
            /\ idle' = idle \ {s} /\ cur' = [cur EXCEPT ![w] = s]
            /\ UNCHANGED <<connected, open, waiting, cont, batch, busy>>
      BY SMTT(90), <2>2, <1>3 DEF LeasePop
    <3> QED BY SMTT(90), <3>1 DEF InTime
  <2> QED BY <2>1, <2>2
<1>4. ASSUME NEW w \in Workers, LeaseReserve(w) PROVE Control'
  BY SMTT(90), <1>4 DEF LeaseReserve, InTime
<1>5. ASSUME NEW w \in Workers, LeaseBusy(w) PROVE Control'
  BY SMTT(90), <1>5 DEF LeaseBusy, Fail, Fresh
<1>6. ASSUME NEW w \in Workers, LeaseWait(w) PROVE Control'
  BY SMTT(90), <1>6 DEF LeaseWait
<1>7. ASSUME NEW w \in Workers, LeaseWake(w) PROVE Control'
  BY SMTT(90), <1>7 DEF LeaseWake
<1>8. ASSUME NEW w \in Workers, WaitTimeout(w) PROVE Control'
  BY SMTT(90), <1>8 DEF WaitTimeout
<1>9. ASSUME NEW w \in Workers, DeadlinePasses(w) PROVE Control'
  BY SMTT(90), <1>9 DEF DeadlinePasses
<1>10. ASSUME NEW w \in Workers, ConnectOk(w) PROVE Control'
  BY SMTT(90), <1>10 DEF ConnectOk
<1>11. ASSUME NEW w \in Workers, ConnectFails(w) PROVE Control'
  BY SMTT(90), <1>11 DEF ConnectFails, Finish
<1>12. ASSUME NEW w \in Workers, CommandOk(w) PROVE Control'
  BY SMTT(90), <1>12 DEF CommandOk, Finish, Sent
<1>13. ASSUME NEW w \in Workers, CommandRefused(w) PROVE Control'
  BY SMTT(90), <1>13 DEF CommandRefused, Finish, Sent
<1>14. ASSUME NEW w \in Workers, CommandLost(w) PROVE Control'
  BY SMTT(90), <1>14 DEF CommandLost, CommandLostWhen, Finish, Sent
<1>15. ASSUME NEW w \in Workers, ReaderEof(w) PROVE Control'
  BY SMTT(90), <1>15 DEF ReaderEof, Complete, Finish
<1>16. ASSUME NEW w \in Workers, ReaderFinish(w) PROVE Control'
  BY SMTT(90), <1>16 DEF ReaderFinish, Complete, Finish
<1>17. ASSUME NEW w \in Workers, WriterFinish(w) PROVE Control'
  BY SMTT(90), <1>17 DEF WriterFinish, Complete, Finish
<1>18. ASSUME NEW w \in Workers, TransferAborts(w) PROVE Control'
  BY SMTT(90), <1>18 DEF TransferAborts, Finish
<1>19. ASSUME NEW w \in Workers, DiscardDone(w) PROVE Control'
  BY SMTT(90), <1>19 DEF DiscardDone
<1>20. ASSUME NEW p \in Procs, End(p) PROVE Control'
  BY SMTT(90), <1>20 DEF End
<1>21. ASSUME NEW p \in Procs, Forget(p) PROVE Control'
  <2>1. CASE p \in Workers /\ cont[p] = "rest"
    <3>1. pc[p] = "forget" /\ Goto(p, "rest") /\ Fresh(p, "none")
      BY SMTT(90), <2>1, <1>21 DEF Forget, Resume
    <3>2. /\ open' = IF open = 0 THEN 0 ELSE open - 1
          /\ waiting' = {}
          /\ UNCHANGED <<connected, idle, cont, cur, batch, busy>>
      BY <1>21 DEF Forget
    <3> QED BY SMTT(90), <2>1, <3>1, <3>2 DEF Fresh
  <2>2. CASE ~(p \in Workers /\ cont[p] = "rest")
    BY SMTT(90), <2>2, <1>21 DEF Forget, Resume
  <2> QED BY <2>1, <2>2
<1>22. ASSUME NEW p \in Procs, ReturnCheck(p) PROVE Control'
  BY SMTT(90), <1>22 DEF ReturnCheck
<1>23. ASSUME NEW p \in Procs, ReturnPush(p) PROVE Control'
  BY SMTT(90), <1>23 DEF ReturnPush
<1>24. ASSUME NEW p \in Procs, ReturnNotify(p) PROVE Control'
  <2>1. CASE p \in Workers /\ cont[p] = "rest"
    <3>1. pc[p] = "notify" /\ Goto(p, "rest") /\ Fresh(p, "none")
      BY SMTT(90), <2>1, <1>24 DEF ReturnNotify, Resume
    <3>2. /\ UNCHANGED open
          /\ waiting' = {}
          /\ UNCHANGED <<connected, idle, open, cont, cur, batch, busy>>
      BY <1>24 DEF ReturnNotify
    <3> QED BY SMTT(90), <2>1, <3>1, <3>2 DEF Fresh
  <2>2. CASE ~(p \in Workers /\ cont[p] = "rest")
    BY SMTT(90), <2>2, <1>24 DEF ReturnNotify, Resume
  <2> QED BY <2>1, <2>2
<1>25. ASSUME NEW p \in Procs, Drain(p) PROVE Control'
  BY SMTT(90), <1>25 DEF Drain
<1>26. ASSUME NEW p \in Procs, NEW how \in {"return", "end"}, Visit(p, how)
      PROVE  Control'
  BY <1>26 DEF Visit
<1>27. ASSUME KeeperWakes PROVE Control'
  BY <1>27 DEF KeeperWakes
<1>28. ASSUME KeeperDone PROVE Control'
  BY <1>28 DEF KeeperDone
<1>29. ASSUME CloserMarks PROVE Control'
  BY <1>29 DEF CloserMarks
<1>30. ASSUME CloserDone PROVE Control'
  BY <1>30 DEF CloserDone
<1>31. ASSUME Dropped PROVE Control'
  BY <1>31 DEF Dropped
<1>32. CASE UNCHANGED vars
  BY <1>32 DEF vars
<1> HIDE DEF TypeOK, Control, HoldsOK, BatchOK, RetryOK, SentOK, Again,
    GivingUp, Holding, vars, shared, op, Goto, Procs, Pcs, LeasePcs, Reading,
    Changing, Transfers
<1> QED
  BY <1>1, <1>2, <1>3, <1>4, <1>5, <1>6, <1>7, <1>8, <1>9, <1>10, <1>11, <1>12,
      <1>13, <1>14, <1>15, <1>16, <1>17, <1>18, <1>19, <1>20, <1>21, <1>22,
      <1>23, <1>24, <1>25, <1>26, <1>27, <1>28, <1>29, <1>30, <1>31, <1>32
  DEF Procs, Next, LeaseStep, ConnectStep, CommandStep, TransferStep,
      DiscardStep, GiveUpStep, KeeperStep, CloserStep, DiscardNext,
      KeeperProbes, CloserNext, Finished

(* Each step hands sessions over without sharing them.                     *)
LEMMA ExclusiveStep ==
  ASSUME TypeOK, Control, Exclusive, [Next]_vars
  PROVE  Exclusive'
<1> USE PoolAssumption DEF TypeOK, Control, HoldsOK, BatchOK, Exclusive, Owned,
    Holding, GivingUp, Live, vars, shared, op, Goto, Procs, Pcs, LeasePcs,
    Reading, Changing, Transfers
<1>1. ASSUME NEW w \in Workers, NEW k \in Kinds, Begin(w, k) PROVE Exclusive'
  BY <1>1 DEF Begin, Fresh
<1>2. ASSUME NEW w \in Workers, LeaseCheck(w) PROVE Exclusive'
  <2>1. CASE connected
    BY SMTT(90), <2>1, <1>2 DEF LeaseCheck
  <2>2. CASE ~connected
    <3>1. pc[w] = "check" /\ Goto(w, "rest") /\ Fresh(w, "none")
          /\ UNCHANGED <<shared, cont, cur, batch, busy>>
      BY SMTT(90), <2>2, <1>2 DEF LeaseCheck, Fail
    <3> QED BY SMTT(90), <3>1 DEF Fresh
  <2> QED BY <2>1, <2>2
<1>3. ASSUME NEW w \in Workers, LeasePop(w) PROVE Exclusive'
  <2>1. CASE idle = {}
    BY SMTT(90), <2>1, <1>3 DEF LeasePop
  <2>2. CASE idle # {}
    <3>1. PICK s \in idle :
            /\ pc[w] = "pop" /\ Goto(w, "run") /\ InTime(w)
            /\ idle' = idle \ {s} /\ cur' = [cur EXCEPT ![w] = s]
            /\ UNCHANGED <<connected, open, waiting, cont, batch, busy>>
      BY SMTT(90), <2>2, <1>3 DEF LeasePop
    <3> QED BY SMTT(90), <3>1 DEF InTime
  <2> QED BY <2>1, <2>2
<1>4. ASSUME NEW w \in Workers, LeaseReserve(w) PROVE Exclusive'
  BY SMTT(90), <1>4 DEF LeaseReserve, InTime
<1>5. ASSUME NEW w \in Workers, LeaseBusy(w) PROVE Exclusive'
  BY SMTT(90), <1>5 DEF LeaseBusy, Fail, Fresh
<1>6. ASSUME NEW w \in Workers, LeaseWait(w) PROVE Exclusive'
  BY SMTT(90), <1>6 DEF LeaseWait
<1>7. ASSUME NEW w \in Workers, LeaseWake(w) PROVE Exclusive'
  BY SMTT(90), <1>7 DEF LeaseWake
<1>8. ASSUME NEW w \in Workers, WaitTimeout(w) PROVE Exclusive'
  BY SMTT(90), <1>8 DEF WaitTimeout
<1>9. ASSUME NEW w \in Workers, DeadlinePasses(w) PROVE Exclusive'
  BY SMTT(90), <1>9 DEF DeadlinePasses
<1>10. ASSUME NEW w \in Workers, ConnectOk(w) PROVE Exclusive'
  BY SMTT(90), <1>10 DEF ConnectOk
<1>11. ASSUME NEW w \in Workers, ConnectFails(w) PROVE Exclusive'
  BY SMTT(90), <1>11 DEF ConnectFails, Finish
<1>12. ASSUME NEW w \in Workers, CommandOk(w) PROVE Exclusive'
  BY SMTT(90), <1>12 DEF CommandOk, Finish, Sent
<1>13. ASSUME NEW w \in Workers, CommandRefused(w) PROVE Exclusive'
  BY SMTT(90), <1>13 DEF CommandRefused, Finish, Sent
<1>14. ASSUME NEW w \in Workers, CommandLost(w) PROVE Exclusive'
  BY SMTT(90), <1>14 DEF CommandLost, CommandLostWhen, Finish, Sent
<1>15. ASSUME NEW w \in Workers, ReaderEof(w) PROVE Exclusive'
  BY SMTT(90), <1>15 DEF ReaderEof, Complete, Finish
<1>16. ASSUME NEW w \in Workers, ReaderFinish(w) PROVE Exclusive'
  BY SMTT(90), <1>16 DEF ReaderFinish, Complete, Finish
<1>17. ASSUME NEW w \in Workers, WriterFinish(w) PROVE Exclusive'
  BY SMTT(90), <1>17 DEF WriterFinish, Complete, Finish
<1>18. ASSUME NEW w \in Workers, TransferAborts(w) PROVE Exclusive'
  BY SMTT(90), <1>18 DEF TransferAborts, Finish
<1>19. ASSUME NEW w \in Workers, DiscardDone(w) PROVE Exclusive'
  BY SMTT(90), <1>19 DEF DiscardDone
<1>20. ASSUME NEW p \in Procs, End(p) PROVE Exclusive'
  BY SMTT(90), <1>20 DEF End
<1>21. ASSUME NEW p \in Procs, Forget(p) PROVE Exclusive'
  <2>1. CASE p \in Workers /\ cont[p] = "rest"
    <3>1. pc[p] = "forget" /\ Goto(p, "rest") /\ Fresh(p, "none")
      BY SMTT(90), <2>1, <1>21 DEF Forget, Resume
    <3>2. /\ open' = IF open = 0 THEN 0 ELSE open - 1
          /\ waiting' = {}
          /\ UNCHANGED <<connected, idle, cont, cur, batch, busy>>
      BY <1>21 DEF Forget
    <3> QED BY SMTT(90), <2>1, <3>1, <3>2 DEF Fresh
  <2>2. CASE ~(p \in Workers /\ cont[p] = "rest")
    BY SMTT(90), <2>2, <1>21 DEF Forget, Resume
  <2> QED BY <2>1, <2>2
<1>22. ASSUME NEW p \in Procs, ReturnCheck(p) PROVE Exclusive'
  BY SMTT(90), <1>22 DEF ReturnCheck
<1>23. ASSUME NEW p \in Procs, ReturnPush(p) PROVE Exclusive'
  BY SMTT(90), <1>23 DEF ReturnPush
<1>24. ASSUME NEW p \in Procs, ReturnNotify(p) PROVE Exclusive'
  <2>1. CASE p \in Workers /\ cont[p] = "rest"
    <3>1. pc[p] = "notify" /\ Goto(p, "rest") /\ Fresh(p, "none")
      BY SMTT(90), <2>1, <1>24 DEF ReturnNotify, Resume
    <3>2. /\ UNCHANGED open
          /\ waiting' = {}
          /\ UNCHANGED <<connected, idle, open, cont, cur, batch, busy>>
      BY <1>24 DEF ReturnNotify
    <3> QED BY SMTT(90), <2>1, <3>1, <3>2 DEF Fresh
  <2>2. CASE ~(p \in Workers /\ cont[p] = "rest")
    BY SMTT(90), <2>2, <1>24 DEF ReturnNotify, Resume
  <2> QED BY <2>1, <2>2
<1>25. ASSUME NEW p \in Procs, Drain(p) PROVE Exclusive'
  BY SMTT(90), <1>25 DEF Drain
<1>26. ASSUME NEW p \in Procs, NEW how \in {"return", "end"}, Visit(p, how)
      PROVE  Exclusive'
  BY <1>26 DEF Visit
<1>27. ASSUME KeeperWakes PROVE Exclusive'
  BY <1>27 DEF KeeperWakes
<1>28. ASSUME KeeperDone PROVE Exclusive'
  BY <1>28 DEF KeeperDone
<1>29. ASSUME CloserMarks PROVE Exclusive'
  BY <1>29 DEF CloserMarks
<1>30. ASSUME CloserDone PROVE Exclusive'
  BY <1>30 DEF CloserDone
<1>31. ASSUME Dropped PROVE Exclusive'
  BY <1>31 DEF Dropped
<1>32. CASE UNCHANGED vars
  BY <1>32 DEF vars
<1> HIDE DEF TypeOK, Control, HoldsOK, BatchOK, Exclusive, Owned, Holding,
    GivingUp, Live, vars, shared, op, Goto, Procs, Pcs, LeasePcs, Reading,
    Changing, Transfers
<1> QED
  BY <1>1, <1>2, <1>3, <1>4, <1>5, <1>6, <1>7, <1>8, <1>9, <1>10, <1>11, <1>12,
      <1>13, <1>14, <1>15, <1>16, <1>17, <1>18, <1>19, <1>20, <1>21, <1>22,
      <1>23, <1>24, <1>25, <1>26, <1>27, <1>28, <1>29, <1>30, <1>31, <1>32
  DEF Procs, Next, LeaseStep, ConnectStep, CommandStep, TransferStep,
      DiscardStep, GiveUpStep, KeeperStep, CloserStep, DiscardNext,
      KeeperProbes, CloserNext, Finished

(* Each step keeps doubtful sessions with a thread that will end them.     *)
LEMMA BusyStep ==
  ASSUME TypeOK, Control, Exclusive, BusyOK, [Next]_vars
  PROVE  BusyOK'
<1> USE PoolAssumption DEF TypeOK, Control, HoldsOK, Exclusive, BusyOK, Owned,
    Holding, vars, shared, op, Goto, Procs, Pcs, LeasePcs, Reading, Changing,
    Transfers
<1>1. ASSUME NEW w \in Workers, NEW k \in Kinds, Begin(w, k) PROVE BusyOK'
  BY <1>1 DEF Begin, Fresh
<1>2. ASSUME NEW w \in Workers, LeaseCheck(w) PROVE BusyOK'
  <2>1. CASE connected
    BY SMTT(90), <2>1, <1>2 DEF LeaseCheck
  <2>2. CASE ~connected
    <3>1. pc[w] = "check" /\ Goto(w, "rest") /\ Fresh(w, "none")
          /\ UNCHANGED <<shared, cont, cur, batch, busy>>
      BY SMTT(90), <2>2, <1>2 DEF LeaseCheck, Fail
    <3> QED BY SMTT(90), <3>1 DEF Fresh
  <2> QED BY <2>1, <2>2
<1>3. ASSUME NEW w \in Workers, LeasePop(w) PROVE BusyOK'
  <2>1. CASE idle = {}
    BY SMTT(90), <2>1, <1>3 DEF LeasePop
  <2>2. CASE idle # {}
    <3>1. PICK s \in idle :
            /\ pc[w] = "pop" /\ Goto(w, "run") /\ InTime(w)
            /\ idle' = idle \ {s} /\ cur' = [cur EXCEPT ![w] = s]
            /\ UNCHANGED <<connected, open, waiting, cont, batch, busy>>
      BY SMTT(90), <2>2, <1>3 DEF LeasePop
    <3> QED BY SMTT(90), <3>1 DEF InTime
  <2> QED BY <2>1, <2>2
<1>4. ASSUME NEW w \in Workers, LeaseReserve(w) PROVE BusyOK'
  BY SMTT(90), <1>4 DEF LeaseReserve, InTime
<1>5. ASSUME NEW w \in Workers, LeaseBusy(w) PROVE BusyOK'
  BY SMTT(90), <1>5 DEF LeaseBusy, Fail, Fresh
<1>6. ASSUME NEW w \in Workers, LeaseWait(w) PROVE BusyOK'
  BY SMTT(90), <1>6 DEF LeaseWait
<1>7. ASSUME NEW w \in Workers, LeaseWake(w) PROVE BusyOK'
  BY SMTT(90), <1>7 DEF LeaseWake
<1>8. ASSUME NEW w \in Workers, WaitTimeout(w) PROVE BusyOK'
  BY SMTT(90), <1>8 DEF WaitTimeout
<1>9. ASSUME NEW w \in Workers, DeadlinePasses(w) PROVE BusyOK'
  BY SMTT(90), <1>9 DEF DeadlinePasses
<1>10. ASSUME NEW w \in Workers, ConnectOk(w) PROVE BusyOK'
  BY SMTT(90), <1>10 DEF ConnectOk
<1>11. ASSUME NEW w \in Workers, ConnectFails(w) PROVE BusyOK'
  BY SMTT(90), <1>11 DEF ConnectFails, Finish
<1>12. ASSUME NEW w \in Workers, CommandOk(w) PROVE BusyOK'
  BY SMTT(90), <1>12 DEF CommandOk, Finish, Sent
<1>13. ASSUME NEW w \in Workers, CommandRefused(w) PROVE BusyOK'
  BY SMTT(90), <1>13 DEF CommandRefused, Finish, Sent
<1>14. ASSUME NEW w \in Workers, CommandLost(w) PROVE BusyOK'
  BY SMTT(90), <1>14 DEF CommandLost, CommandLostWhen, Finish, Sent
<1>15. ASSUME NEW w \in Workers, ReaderEof(w) PROVE BusyOK'
  BY SMTT(90), <1>15 DEF ReaderEof, Complete, Finish
<1>16. ASSUME NEW w \in Workers, ReaderFinish(w) PROVE BusyOK'
  BY SMTT(90), <1>16 DEF ReaderFinish, Complete, Finish
<1>17. ASSUME NEW w \in Workers, WriterFinish(w) PROVE BusyOK'
  BY SMTT(90), <1>17 DEF WriterFinish, Complete, Finish
<1>18. ASSUME NEW w \in Workers, TransferAborts(w) PROVE BusyOK'
  BY SMTT(90), <1>18 DEF TransferAborts, Finish
<1>19. ASSUME NEW w \in Workers, DiscardDone(w) PROVE BusyOK'
  BY SMTT(90), <1>19 DEF DiscardDone
<1>20. ASSUME NEW p \in Procs, End(p) PROVE BusyOK'
  BY SMTT(90), <1>20 DEF End
<1>21. ASSUME NEW p \in Procs, Forget(p) PROVE BusyOK'
  <2>1. CASE p \in Workers /\ cont[p] = "rest"
    <3>1. pc[p] = "forget" /\ Goto(p, "rest") /\ Fresh(p, "none")
      BY SMTT(90), <2>1, <1>21 DEF Forget, Resume
    <3>2. /\ open' = IF open = 0 THEN 0 ELSE open - 1
          /\ waiting' = {}
          /\ UNCHANGED <<connected, idle, cont, cur, batch, busy>>
      BY <1>21 DEF Forget
    <3> QED BY SMTT(90), <2>1, <3>1, <3>2 DEF Fresh
  <2>2. CASE ~(p \in Workers /\ cont[p] = "rest")
    BY SMTT(90), <2>2, <1>21 DEF Forget, Resume
  <2> QED BY <2>1, <2>2
<1>22. ASSUME NEW p \in Procs, ReturnCheck(p) PROVE BusyOK'
  BY SMTT(90), <1>22 DEF ReturnCheck
<1>23. ASSUME NEW p \in Procs, ReturnPush(p) PROVE BusyOK'
  BY SMTT(90), <1>23 DEF ReturnPush
<1>24. ASSUME NEW p \in Procs, ReturnNotify(p) PROVE BusyOK'
  <2>1. CASE p \in Workers /\ cont[p] = "rest"
    <3>1. pc[p] = "notify" /\ Goto(p, "rest") /\ Fresh(p, "none")
      BY SMTT(90), <2>1, <1>24 DEF ReturnNotify, Resume
    <3>2. /\ UNCHANGED open
          /\ waiting' = {}
          /\ UNCHANGED <<connected, idle, open, cont, cur, batch, busy>>
      BY <1>24 DEF ReturnNotify
    <3> QED BY SMTT(90), <2>1, <3>1, <3>2 DEF Fresh
  <2>2. CASE ~(p \in Workers /\ cont[p] = "rest")
    BY SMTT(90), <2>2, <1>24 DEF ReturnNotify, Resume
  <2> QED BY <2>1, <2>2
<1>25. ASSUME NEW p \in Procs, Drain(p) PROVE BusyOK'
  BY SMTT(90), <1>25 DEF Drain
<1>26. ASSUME NEW p \in Procs, NEW how \in {"return", "end"}, Visit(p, how)
      PROVE  BusyOK'
  BY <1>26 DEF Visit
<1>27. ASSUME KeeperWakes PROVE BusyOK'
  BY <1>27 DEF KeeperWakes
<1>28. ASSUME KeeperDone PROVE BusyOK'
  BY <1>28 DEF KeeperDone
<1>29. ASSUME CloserMarks PROVE BusyOK'
  BY <1>29 DEF CloserMarks
<1>30. ASSUME CloserDone PROVE BusyOK'
  BY <1>30 DEF CloserDone
<1>31. ASSUME Dropped PROVE BusyOK'
  BY <1>31 DEF Dropped
<1>32. CASE UNCHANGED vars
  BY <1>32 DEF vars
<1> HIDE DEF TypeOK, Control, HoldsOK, Exclusive, BusyOK, Owned, Holding, vars,
    shared, op, Goto, Procs, Pcs, LeasePcs, Reading, Changing, Transfers
<1> QED
  BY <1>1, <1>2, <1>3, <1>4, <1>5, <1>6, <1>7, <1>8, <1>9, <1>10, <1>11, <1>12,
      <1>13, <1>14, <1>15, <1>16, <1>17, <1>18, <1>19, <1>20, <1>21, <1>22,
      <1>23, <1>24, <1>25, <1>26, <1>27, <1>28, <1>29, <1>30, <1>31, <1>32
  DEF Procs, Next, LeaseStep, ConnectStep, CommandStep, TransferStep,
      DiscardStep, GiveUpStep, KeeperStep, CloserStep, DiscardNext,
      KeeperProbes, CloserNext, Finished

(* Success of a transfer is set together with its good final reply.        *)
LEMMA ConfirmedStep ==
  ASSUME TypeOK, SuccessConfirmed, [Next]_vars
  PROVE  SuccessConfirmed'
<1> USE PoolAssumption DEF TypeOK, SuccessConfirmed, vars, shared, op, Goto,
    Procs, Pcs, LeasePcs, Reading, Changing, Transfers
<1>1. ASSUME NEW w \in Workers, NEW k \in Kinds, Begin(w, k) PROVE SuccessConfirmed'
  BY <1>1 DEF Begin, Fresh
<1>2. ASSUME NEW w \in Workers, LeaseCheck(w) PROVE SuccessConfirmed'
  <2>1. CASE connected
    BY SMTT(90), <2>1, <1>2 DEF LeaseCheck
  <2>2. CASE ~connected
    <3>1. pc[w] = "check" /\ Goto(w, "rest") /\ Fresh(w, "none")
          /\ UNCHANGED <<shared, cont, cur, batch, busy>>
      BY SMTT(90), <2>2, <1>2 DEF LeaseCheck, Fail
    <3> QED BY SMTT(90), <3>1 DEF Fresh
  <2> QED BY <2>1, <2>2
<1>3. ASSUME NEW w \in Workers, LeasePop(w) PROVE SuccessConfirmed'
  <2>1. CASE idle = {}
    BY SMTT(90), <2>1, <1>3 DEF LeasePop
  <2>2. CASE idle # {}
    <3>1. PICK s \in idle :
            /\ pc[w] = "pop" /\ Goto(w, "run") /\ InTime(w)
            /\ idle' = idle \ {s} /\ cur' = [cur EXCEPT ![w] = s]
            /\ UNCHANGED <<connected, open, waiting, cont, batch, busy>>
      BY SMTT(90), <2>2, <1>3 DEF LeasePop
    <3> QED BY SMTT(90), <3>1 DEF InTime
  <2> QED BY <2>1, <2>2
<1>4. ASSUME NEW w \in Workers, LeaseReserve(w) PROVE SuccessConfirmed'
  BY SMTT(90), <1>4 DEF LeaseReserve, InTime
<1>5. ASSUME NEW w \in Workers, LeaseBusy(w) PROVE SuccessConfirmed'
  BY SMTT(90), <1>5 DEF LeaseBusy, Fail, Fresh
<1>6. ASSUME NEW w \in Workers, LeaseWait(w) PROVE SuccessConfirmed'
  BY SMTT(90), <1>6 DEF LeaseWait
<1>7. ASSUME NEW w \in Workers, LeaseWake(w) PROVE SuccessConfirmed'
  BY SMTT(90), <1>7 DEF LeaseWake
<1>8. ASSUME NEW w \in Workers, WaitTimeout(w) PROVE SuccessConfirmed'
  BY SMTT(90), <1>8 DEF WaitTimeout
<1>9. ASSUME NEW w \in Workers, DeadlinePasses(w) PROVE SuccessConfirmed'
  BY SMTT(90), <1>9 DEF DeadlinePasses
<1>10. ASSUME NEW w \in Workers, ConnectOk(w) PROVE SuccessConfirmed'
  BY SMTT(90), <1>10 DEF ConnectOk
<1>11. ASSUME NEW w \in Workers, ConnectFails(w) PROVE SuccessConfirmed'
  BY SMTT(90), <1>11 DEF ConnectFails, Finish
<1>12. ASSUME NEW w \in Workers, CommandOk(w) PROVE SuccessConfirmed'
  BY SMTT(90), <1>12 DEF CommandOk, Finish, Sent
<1>13. ASSUME NEW w \in Workers, CommandRefused(w) PROVE SuccessConfirmed'
  BY SMTT(90), <1>13 DEF CommandRefused, Finish, Sent
<1>14. ASSUME NEW w \in Workers, CommandLost(w) PROVE SuccessConfirmed'
  BY SMTT(90), <1>14 DEF CommandLost, CommandLostWhen, Finish, Sent
<1>15. ASSUME NEW w \in Workers, ReaderEof(w) PROVE SuccessConfirmed'
  BY SMTT(90), <1>15 DEF ReaderEof, Complete, Finish
<1>16. ASSUME NEW w \in Workers, ReaderFinish(w) PROVE SuccessConfirmed'
  BY SMTT(90), <1>16 DEF ReaderFinish, Complete, Finish
<1>17. ASSUME NEW w \in Workers, WriterFinish(w) PROVE SuccessConfirmed'
  BY SMTT(90), <1>17 DEF WriterFinish, Complete, Finish
<1>18. ASSUME NEW w \in Workers, TransferAborts(w) PROVE SuccessConfirmed'
  BY SMTT(90), <1>18 DEF TransferAborts, Finish
<1>19. ASSUME NEW w \in Workers, DiscardDone(w) PROVE SuccessConfirmed'
  BY SMTT(90), <1>19 DEF DiscardDone
<1>20. ASSUME NEW p \in Procs, End(p) PROVE SuccessConfirmed'
  BY SMTT(90), <1>20 DEF End
<1>21. ASSUME NEW p \in Procs, Forget(p) PROVE SuccessConfirmed'
  <2>1. CASE p \in Workers /\ cont[p] = "rest"
    <3>1. pc[p] = "forget" /\ Goto(p, "rest") /\ Fresh(p, "none")
      BY SMTT(90), <2>1, <1>21 DEF Forget, Resume
    <3>2. /\ open' = IF open = 0 THEN 0 ELSE open - 1
          /\ waiting' = {}
          /\ UNCHANGED <<connected, idle, cont, cur, batch, busy>>
      BY <1>21 DEF Forget
    <3> QED BY SMTT(90), <2>1, <3>1, <3>2 DEF Fresh
  <2>2. CASE ~(p \in Workers /\ cont[p] = "rest")
    BY SMTT(90), <2>2, <1>21 DEF Forget, Resume
  <2> QED BY <2>1, <2>2
<1>22. ASSUME NEW p \in Procs, ReturnCheck(p) PROVE SuccessConfirmed'
  BY SMTT(90), <1>22 DEF ReturnCheck
<1>23. ASSUME NEW p \in Procs, ReturnPush(p) PROVE SuccessConfirmed'
  BY SMTT(90), <1>23 DEF ReturnPush
<1>24. ASSUME NEW p \in Procs, ReturnNotify(p) PROVE SuccessConfirmed'
  <2>1. CASE p \in Workers /\ cont[p] = "rest"
    <3>1. pc[p] = "notify" /\ Goto(p, "rest") /\ Fresh(p, "none")
      BY SMTT(90), <2>1, <1>24 DEF ReturnNotify, Resume
    <3>2. /\ UNCHANGED open
          /\ waiting' = {}
          /\ UNCHANGED <<connected, idle, open, cont, cur, batch, busy>>
      BY <1>24 DEF ReturnNotify
    <3> QED BY SMTT(90), <2>1, <3>1, <3>2 DEF Fresh
  <2>2. CASE ~(p \in Workers /\ cont[p] = "rest")
    BY SMTT(90), <2>2, <1>24 DEF ReturnNotify, Resume
  <2> QED BY <2>1, <2>2
<1>25. ASSUME NEW p \in Procs, Drain(p) PROVE SuccessConfirmed'
  BY SMTT(90), <1>25 DEF Drain
<1>26. ASSUME NEW p \in Procs, NEW how \in {"return", "end"}, Visit(p, how)
      PROVE  SuccessConfirmed'
  BY <1>26 DEF Visit
<1>27. ASSUME KeeperWakes PROVE SuccessConfirmed'
  BY <1>27 DEF KeeperWakes
<1>28. ASSUME KeeperDone PROVE SuccessConfirmed'
  BY <1>28 DEF KeeperDone
<1>29. ASSUME CloserMarks PROVE SuccessConfirmed'
  BY <1>29 DEF CloserMarks
<1>30. ASSUME CloserDone PROVE SuccessConfirmed'
  BY <1>30 DEF CloserDone
<1>31. ASSUME Dropped PROVE SuccessConfirmed'
  BY <1>31 DEF Dropped
<1>32. CASE UNCHANGED vars
  BY <1>32 DEF vars
<1> HIDE DEF TypeOK, SuccessConfirmed, vars, shared, op, Goto, Procs, Pcs,
    LeasePcs, Reading, Changing, Transfers
<1> QED
  BY <1>1, <1>2, <1>3, <1>4, <1>5, <1>6, <1>7, <1>8, <1>9, <1>10, <1>11, <1>12,
      <1>13, <1>14, <1>15, <1>16, <1>17, <1>18, <1>19, <1>20, <1>21, <1>22,
      <1>23, <1>24, <1>25, <1>26, <1>27, <1>28, <1>29, <1>30, <1>31, <1>32
  DEF Procs, Next, LeaseStep, ConnectStep, CommandStep, TransferStep,
      DiscardStep, GiveUpStep, KeeperStep, CloserStep, DiscardNext,
      KeeperProbes, CloserNext, Finished

(* What one step does to the slots and to the counter.                     *)
Same    == Slots' = Slots /\ open' = open
Grows   == open < MaxSessions /\ open' = open + 1
             /\ \E x : x \notin Slots /\ Slots' = Slots \cup {x}
Shrinks == open' = (IF open = 0 THEN 0 ELSE open - 1)
             /\ \E x : x \in Slots /\ Slots' = Slots \ {x}
Swaps   == open' = open
             /\ \E x, y : x \in Slots /\ y \notin Slots
                           /\ Slots' = (Slots \ {x}) \cup {y}
Clears  == open' = 0 /\ Slots' = {}
SlotChange == Same \/ Grows \/ Shrinks \/ Swaps \/ Clears

(* Each step changes the slots and the counter in one of five ways.        *)
LEMMA SlotStep ==
  ASSUME TypeOK, Control, Exclusive, [Next]_vars
  PROVE  SlotChange
<1> USE PoolAssumption DEF TypeOK, Control, HoldsOK, BatchOK, Exclusive, Owned,
    Holding, GivingUp, Slots, Live, Reserved, SlotChange, Same, Grows, Shrinks,
    Swaps, Clears, vars, shared, op, Goto, Procs, Pcs, LeasePcs, Reading,
    Changing, Transfers
<1>1. ASSUME NEW w \in Workers, NEW k \in Kinds, Begin(w, k) PROVE SlotChange
  BY <1>1 DEF Begin
<1>2. ASSUME NEW w \in Workers, LeaseCheck(w) PROVE SlotChange
  <2>1. CASE connected
    BY SMTT(90), <2>1, <1>2 DEF LeaseCheck
  <2>2. CASE ~connected
    <3>1. pc[w] = "check" /\ Goto(w, "rest") /\ Fresh(w, "none")
          /\ UNCHANGED <<shared, cont, cur, batch, busy>>
      BY SMTT(90), <2>2, <1>2 DEF LeaseCheck, Fail
    <3> QED BY SMTT(90), <3>1
  <2> QED BY <2>1, <2>2
<1>3. ASSUME NEW w \in Workers, LeasePop(w) PROVE SlotChange
  <2>1. CASE idle = {}
    BY SMTT(90), <2>1, <1>3 DEF LeasePop
  <2>2. CASE idle # {}
    <3>1. PICK s \in idle :
            /\ pc[w] = "pop" /\ Goto(w, "run") /\ InTime(w)
            /\ idle' = idle \ {s} /\ cur' = [cur EXCEPT ![w] = s]
            /\ UNCHANGED <<connected, open, waiting, cont, batch, busy>>
      BY SMTT(90), <2>2, <1>3 DEF LeasePop
    <3>a. /\ s \in idle /\ s \in Sessions /\ s # NoSession
          /\ idle' = idle \ {s} /\ w \in Procs
      BY <3>1
    <3>b. cur[w] = NoSession /\ cur'[w] = s /\ batch'[w] = batch[w]
      BY <3>1
    <3>2. Owned(w)' = Owned(w) \cup {s}
      BY <3>a, <3>b
    <3>3. \A q \in Procs : q # w => Owned(q)' = Owned(q)
      BY <3>1
    <3>4. Live' = Live
      <4> HIDE DEF Owned
      <4> QED BY <3>a, <3>2, <3>3
    <3>5. Reserved' = Reserved
      BY <3>1
    <3>6. Same
      <4> HIDE DEF Live, Reserved
      <4> QED BY <3>1, <3>4, <3>5
    <3> HIDE DEF Same
    <3> QED BY <3>6
  <2> QED BY <2>1, <2>2
<1>4. ASSUME NEW w \in Workers, LeaseReserve(w) PROVE SlotChange
  BY SMTT(90), <1>4 DEF LeaseReserve, InTime
<1>5. ASSUME NEW w \in Workers, LeaseBusy(w) PROVE SlotChange
  BY SMTT(90), <1>5 DEF LeaseBusy, Fail
<1>6. ASSUME NEW w \in Workers, LeaseWait(w) PROVE SlotChange
  BY SMTT(90), <1>6 DEF LeaseWait
<1>7. ASSUME NEW w \in Workers, LeaseWake(w) PROVE SlotChange
  BY SMTT(90), <1>7 DEF LeaseWake
<1>8. ASSUME NEW w \in Workers, WaitTimeout(w) PROVE SlotChange
  BY SMTT(90), <1>8 DEF WaitTimeout
<1>9. ASSUME NEW w \in Workers, DeadlinePasses(w) PROVE SlotChange
  BY SMTT(90), <1>9 DEF DeadlinePasses
<1>10. ASSUME NEW w \in Workers, ConnectOk(w) PROVE SlotChange
  BY SMTT(90), <1>10 DEF ConnectOk
<1>11. ASSUME NEW w \in Workers, ConnectFails(w) PROVE SlotChange
  BY SMTT(90), <1>11 DEF ConnectFails, Finish
<1>12. ASSUME NEW w \in Workers, CommandOk(w) PROVE SlotChange
  BY SMTT(90), <1>12 DEF CommandOk, Finish, Sent
<1>13. ASSUME NEW w \in Workers, CommandRefused(w) PROVE SlotChange
  BY SMTT(90), <1>13 DEF CommandRefused, Finish, Sent
<1>14. ASSUME NEW w \in Workers, CommandLost(w) PROVE SlotChange
  BY SMTT(90), <1>14 DEF CommandLost, CommandLostWhen, Finish, Sent
<1>15. ASSUME NEW w \in Workers, ReaderEof(w) PROVE SlotChange
  BY SMTT(90), <1>15 DEF ReaderEof, Complete, Finish
<1>16. ASSUME NEW w \in Workers, ReaderFinish(w) PROVE SlotChange
  BY SMTT(90), <1>16 DEF ReaderFinish, Complete, Finish
<1>17. ASSUME NEW w \in Workers, WriterFinish(w) PROVE SlotChange
  BY SMTT(90), <1>17 DEF WriterFinish, Complete, Finish
<1>18. ASSUME NEW w \in Workers, TransferAborts(w) PROVE SlotChange
  BY SMTT(90), <1>18 DEF TransferAborts, Finish
<1>19. ASSUME NEW w \in Workers, DiscardDone(w) PROVE SlotChange
  BY SMTT(90), <1>19 DEF DiscardDone
<1>20. ASSUME NEW p \in Procs, End(p) PROVE SlotChange
  <2> DEFINE s == cur[p]
  <2>1. s \in Live /\ s \in Sessions /\ s \in Owned(p)
    BY <1>20 DEF End
  <2>2. Owned(p)' = Owned(p) \ {s}
    BY <1>20 DEF End
  <2>3. \A q \in Procs : q # p => Owned(q)' = Owned(q)
    BY <1>20 DEF End
  <2>4. Live' = Live \ {s}
    <3> HIDE DEF Owned
    <3> QED BY <1>20, <2>1, <2>2, <2>3 DEF End
  <2>5. Reserved' = Reserved \cup {p} /\ p \notin Slots
    BY <1>20 DEF End
  <2>6. Reserved \cap Sessions = {} /\ s # p
    BY <2>1
  <2>7. Slots' = (Slots \ {s}) \cup {p}
    <3> HIDE DEF Live, Reserved
    <3> QED BY <2>1, <2>4, <2>5, <2>6
  <2>8. open' = open
    BY <1>20 DEF End
  <2> HIDE DEF Live, Reserved, Slots
  <2>9. s \in Slots
    BY <2>1 DEF Slots
  <2>10. Swaps
    BY <2>5, <2>7, <2>8, <2>9
  <2> QED BY <2>10
<1>21. ASSUME NEW p \in Procs, Forget(p) PROVE SlotChange
  <2>1. CASE p \in Workers /\ cont[p] = "rest"
    <3>1. pc[p] = "forget" /\ Goto(p, "rest") /\ Fresh(p, "none")
      BY SMTT(90), <2>1, <1>21 DEF Forget, Resume
    <3>2. /\ open' = IF open = 0 THEN 0 ELSE open - 1
          /\ waiting' = {}
          /\ UNCHANGED <<connected, idle, cont, cur, batch, busy>>
      BY <1>21 DEF Forget
    <3> QED BY SMTT(90), <2>1, <3>1, <3>2
  <2>2. CASE ~(p \in Workers /\ cont[p] = "rest")
    BY SMTT(90), <2>2, <1>21 DEF Forget, Resume
  <2> QED BY <2>1, <2>2
<1>22. ASSUME NEW p \in Procs, ReturnCheck(p) PROVE SlotChange
  BY SMTT(90), <1>22 DEF ReturnCheck
<1>23. ASSUME NEW p \in Procs, ReturnPush(p) PROVE SlotChange
  BY SMTT(90), <1>23 DEF ReturnPush
<1>24. ASSUME NEW p \in Procs, ReturnNotify(p) PROVE SlotChange
  <2>1. CASE p \in Workers /\ cont[p] = "rest"
    <3>1. pc[p] = "notify" /\ Goto(p, "rest") /\ Fresh(p, "none")
      BY SMTT(90), <2>1, <1>24 DEF ReturnNotify, Resume
    <3>2. /\ UNCHANGED open
          /\ waiting' = {}
          /\ UNCHANGED <<connected, idle, open, cont, cur, batch, busy>>
      BY <1>24 DEF ReturnNotify
    <3> QED BY SMTT(90), <2>1, <3>1, <3>2
  <2>2. CASE ~(p \in Workers /\ cont[p] = "rest")
    BY SMTT(90), <2>2, <1>24 DEF ReturnNotify, Resume
  <2> QED BY <2>1, <2>2
<1>25. ASSUME NEW p \in Procs, Drain(p) PROVE SlotChange
  BY SMTT(90), <1>25 DEF Drain
<1>26. ASSUME NEW p \in Procs, NEW how \in {"return", "end"}, Visit(p, how)
      PROVE  SlotChange
  <2>1. PICK s \in batch[p] :
          /\ pc[p] = "batch" /\ Goto(p, how)
          /\ cur' = [cur EXCEPT ![p] = s]
          /\ batch' = [batch EXCEPT ![p] = @ \ {s}]
          /\ UNCHANGED shared
    BY <1>26 DEF Visit
  <2>2. \A q \in Procs : Owned(q)' = Owned(q)
    BY <2>1
  <2>3. Live' = Live
    <3> HIDE DEF Owned
    <3> QED BY <2>1, <2>2
  <2>4. Reserved' = Reserved
    BY <2>1
  <2> QED BY <2>1, <2>3, <2>4
<1>27. ASSUME KeeperWakes PROVE SlotChange
  BY <1>27 DEF KeeperWakes
<1>28. ASSUME KeeperDone PROVE SlotChange
  BY <1>28 DEF KeeperDone
<1>29. ASSUME CloserMarks PROVE SlotChange
  BY <1>29 DEF CloserMarks
<1>30. ASSUME CloserDone PROVE SlotChange
  BY <1>30 DEF CloserDone
<1>31. ASSUME Dropped PROVE SlotChange
  <2>1. \A q \in Procs : pc[q] \in {"rest", "closed"}
    BY <1>31 DEF Dropped
  <2>2. \A q \in Procs : Owned(q) = {}
    BY <2>1
  <2>3. \A q \in Procs : Owned(q)' = {}
    BY <1>31, <2>2 DEF Dropped
  <2>4. Live' = {}
    <3> HIDE DEF Owned
    <3> QED BY <1>31, <2>3 DEF Dropped
  <2>5. Reserved' = {}
    BY <1>31, <2>1 DEF Dropped
  <2> QED BY <1>31, <2>4, <2>5 DEF Dropped
<1>32. CASE UNCHANGED vars
  BY <1>32 DEF vars
<1> HIDE DEF TypeOK, Control, HoldsOK, BatchOK, Exclusive, Owned, Holding,
    GivingUp, Slots, Live, Reserved, SlotChange, Same, Grows, Shrinks, Swaps,
    Clears, vars, shared, op, Goto, Procs, Pcs, LeasePcs, Reading, Changing,
    Transfers
<1> QED
  BY <1>1, <1>2, <1>3, <1>4, <1>5, <1>6, <1>7, <1>8, <1>9, <1>10, <1>11, <1>12,
      <1>13, <1>14, <1>15, <1>16, <1>17, <1>18, <1>19, <1>20, <1>21, <1>22,
      <1>23, <1>24, <1>25, <1>26, <1>27, <1>28, <1>29, <1>30, <1>31, <1>32
  DEF Procs, Next, LeaseStep, ConnectStep, CommandStep, TransferStep,
      DiscardStep, GiveUpStep, KeeperStep, CloserStep, DiscardNext,
      KeeperProbes, CloserNext, Finished

(* Each of the five ways keeps the counter equal to the number of slots.   *)
LEMMA CountStep ==
  ASSUME CountOK, SlotChange
  PROVE  CountOK'
<1> USE PoolAssumption DEF CountOK, SlotsAccounted
<1> DEFINE S == Slots
           T == Slots'
<1>1. /\ IsFiniteSet(S) /\ open = Cardinality(S) /\ open <= MaxSessions
      /\ Cardinality(S) \in Nat /\ MaxSessions \in Nat \ {0}
  BY FS_CardinalityType
<1> SUFFICES IsFiniteSet(T) /\ open' = Cardinality(T) /\ open' <= MaxSessions
  OBVIOUS
<1>2. CASE Same
  BY <1>1, <1>2 DEF Same
<1>3. CASE Grows
  <2>1. PICK x : x \notin S /\ T = S \cup {x}
    BY <1>3 DEF Grows
  <2> HIDE DEF S, T
  <2>2. IsFiniteSet(T) /\ Cardinality(T) = Cardinality(S) + 1
    BY <1>1, <2>1, FS_AddElement
  <2> QED BY <1>1, <1>3, <2>2 DEF Grows
<1>4. CASE Shrinks
  <2>1. PICK x : x \in S /\ T = S \ {x}
    BY <1>4 DEF Shrinks
  <2> HIDE DEF S, T
  <2>2. IsFiniteSet(T) /\ Cardinality(T) = Cardinality(S) - 1
    BY <1>1, <2>1, FS_RemoveElement
  <2>3. Cardinality(T) \in Nat
    BY <2>2, FS_CardinalityType
  <2> QED BY <1>1, <1>4, <2>2, <2>3 DEF Shrinks
<1>5. CASE Swaps
  <2>1. PICK x, y : x \in S /\ y \notin S /\ T = (S \ {x}) \cup {y}
    BY <1>5 DEF Swaps
  <2> HIDE DEF S, T
  <2>2. IsFiniteSet(S \ {x}) /\ Cardinality(S \ {x}) = Cardinality(S) - 1
    BY <1>1, <2>1, FS_RemoveElement
  <2>3. IsFiniteSet(T) /\ Cardinality(T) = Cardinality(S \ {x}) + 1
    BY <2>1, <2>2, FS_AddElement
  <2> QED BY <1>1, <1>5, <2>2, <2>3 DEF Swaps
<1>6. CASE Clears
  BY <1>1, <1>6, FS_EmptySet DEF Clears
<1> QED BY <1>2, <1>3, <1>4, <1>5, <1>6 DEF SlotChange

(* The connection starts with its first session in the pool.               *)
LEMMA InitHolds == Init => IInv
<1> SUFFICES ASSUME Init PROVE IInv
  OBVIOUS
<1> USE PoolAssumption DEF Init, Procs
<1>1. PICK s \in Sessions : idle = {s}
  OBVIOUS
<1>2. TypeOK
  BY <1>1 DEF TypeOK, Pcs
<1>3. Control
  BY DEF Control, HoldsOK, Holding, BatchOK, RetryOK, Again, GivingUp, SentOK
<1>4. Exclusive
  BY <1>1 DEF Exclusive, Owned
<1>5. BusyOK
  BY DEF BusyOK
<1>6. Slots = {s}
  BY <1>1 DEF Slots, Live, Owned, Reserved
<1>7. CountOK
  <2>1. IsFiniteSet({s}) /\ Cardinality({s}) = 1
    BY FS_Singleton
  <2> QED BY <1>6, <2>1 DEF CountOK, SlotsAccounted
<1>8. SuccessConfirmed
  BY DEF SuccessConfirmed
<1> QED BY <1>2, <1>3, <1>4, <1>5, <1>7, <1>8 DEF IInv

(* The invariant is inductive.                                             *)
LEMMA StepHolds == IInv /\ [Next]_vars => IInv'
<1> SUFFICES ASSUME IInv, [Next]_vars PROVE IInv'
  OBVIOUS
<1>1. TypeOK'           BY TypeStep DEF IInv
<1>2. Control'          BY ControlStep DEF IInv
<1>3. Exclusive'        BY ExclusiveStep DEF IInv
<1>4. BusyOK'           BY BusyStep DEF IInv
<1>5. SuccessConfirmed' BY ConfirmedStep DEF IInv
<1>6. CountOK'          BY SlotStep, CountStep DEF IInv
<1> QED BY <1>1, <1>2, <1>3, <1>4, <1>5, <1>6 DEF IInv

(* IInv holds in every reachable state.                                   *)
THEOREM Invariance == Spec => []IInv
BY InitHolds, StepHolds, PTL DEF Spec

-----------------------------------------------------------------------------
(* Every variable of the pool keeps its type: in particular no read is     *)
(* ever attempted a third time.                                            *)
THEOREM TypeCorrect == Spec => []TypeOK
<1>1. IInv => TypeOK
  BY DEF IInv
<1> QED BY <1>1, Invariance, PTL

(* The counter `open` of the pool is always the number of its sessions and *)
(* reserved slots.                                                         *)
THEOREM SlotsCorrect == Spec => []SlotsAccounted
<1>1. IInv => SlotsAccounted
  BY DEF IInv, CountOK
<1> QED BY <1>1, Invariance, PTL

(* The sessions are a part of the slots.                                   *)
LEMMA LiveFits == IInv => IsFiniteSet(Live) /\ Cardinality(Live) <= MaxSessions
<1> SUFFICES ASSUME IInv
             PROVE  IsFiniteSet(Live) /\ Cardinality(Live) <= MaxSessions
  OBVIOUS
<1>1. IsFiniteSet(Slots) /\ Live \subseteq Slots /\ Cardinality(Slots) <= MaxSessions
  BY DEF IInv, CountOK, SlotsAccounted, Slots
<1>2. IsFiniteSet(Live) /\ Cardinality(Live) <= Cardinality(Slots)
  BY <1>1, FS_Subset
<1>3. Cardinality(Live) \in Nat /\ Cardinality(Slots) \in Nat /\ MaxSessions \in Nat
  BY <1>1, <1>2, FS_CardinalityType, PoolAssumption
<1> QED BY <1>1, <1>2, <1>3

(* MAX_SESSIONS is never exceeded.                                         *)
THEOREM LimitCorrect == Spec => []SessionLimit
<1>1. IInv => SessionLimit
  BY LiveFits DEF SessionLimit
<1> QED BY <1>1, Invariance, PTL

(* No session is ever in two hands.                                        *)
THEOREM ExclusiveCorrect == Spec => []Exclusive
<1>1. IInv => Exclusive
  BY DEF IInv
<1> QED BY <1>1, Invariance, PTL

(* A session with an outstanding reply or transfer is never pooled.        *)
THEOREM CleanCorrect == Spec => []PoolClean
<1>1. IInv => PoolClean
  <2> SUFFICES ASSUME IInv, NEW s \in busy, s \in idle PROVE FALSE
    BY DEF PoolClean
  <2>1. PICK p \in Procs : cur[p] = s
    BY DEF IInv, BusyOK
  <2>2. s \in Owned(p)
    BY <2>1, PoolAssumption DEF IInv, TypeOK, Owned
  <2> QED BY <2>2 DEF IInv, Exclusive
<1> QED BY <1>1, Invariance, PTL

(* A change is sent at most once, whatever its lease went through.         *)
THEOREM OnceCorrect == Spec => []ChangeSentOnce
<1>1. IInv => ChangeSentOnce
  BY DEF IInv, TypeOK, Control, SentOK, ChangeSentOnce
<1> QED BY <1>1, Invariance, PTL

(* A transfer that reports success has the server's final reply.           *)
THEOREM SuccessCorrect == Spec => []SuccessConfirmed
<1>1. IInv => SuccessConfirmed
  BY DEF IInv
<1> QED BY <1>1, Invariance, PTL

-----------------------------------------------------------------------------
(* Refinement of SessionPool.                                              *)

Held == [p \in Procs |-> Owned(p)]

(* SessionPool counts the same sessions.                                   *)
LEMMA ExistingIsLive == TypeOK => Promise!Existing = Live
BY PoolAssumption DEF TypeOK, Promise!Existing, Live, Owned

(* The steps of FtpPool that change what SessionPool sees of the state.    *)
LEMMA TakeOne ==
  ASSUME IInv, NEW w \in Workers, LeasePop(w), idle # {}
  PROVE  Promise!Take(w)
<1> USE PoolAssumption DEF Procs
<1>1. PICK s \in idle :
        /\ pc[w] = "pop" /\ idle' = idle \ {s}
        /\ cur' = [cur EXCEPT ![w] = s] /\ batch' = batch /\ busy' = busy
  BY DEF LeasePop
<1>2. s # NoSession /\ cur[w] = NoSession
  BY <1>1 DEF IInv, TypeOK, Control, HoldsOK, Holding
<1>3. Held' = [Held EXCEPT ![w] = @ \cup {s}]
  <2>1. Owned(w)' = Owned(w) \cup {s}
    BY <1>1, <1>2 DEF Owned, IInv, TypeOK
  <2>2. \A q \in Procs : q # w => Owned(q)' = Owned(q)
    BY <1>1 DEF Owned, IInv, TypeOK
  <2> QED BY <2>1, <2>2 DEF Held
<1> QED BY <1>1, <1>3 DEF Promise!Take, Held

LEMMA TakeAll ==
  ASSUME IInv, NEW p \in Procs, Drain(p)
  PROVE  Promise!Take(p)
<1> USE PoolAssumption
<1>1. /\ pc[p] = "drain" /\ idle' = {} /\ cur' = cur /\ busy' = busy
      /\ batch' = [batch EXCEPT ![p] = idle]
  BY DEF Drain
<1>2. batch[p] = {} /\ cur[p] = NoSession
  BY <1>1 DEF IInv, Control, HoldsOK, BatchOK, Holding, GivingUp
<1>3. Held' = [Held EXCEPT ![p] = @ \cup idle]
  <2>1. Owned(p)' = Owned(p) \cup idle
    BY <1>1, <1>2 DEF Owned, IInv, TypeOK
  <2>2. \A q \in Procs : q # p => Owned(q)' = Owned(q)
    BY <1>1 DEF Owned, IInv, TypeOK
  <2> QED BY <2>1, <2>2 DEF Held
<1> QED BY <1>1, <1>3 DEF Promise!Take, Held

(* The instance of SessionPool counts with the same operator.              *)
LEMMA SameCardinality == \A S : Promise!Cardinality(S) = Cardinality(S)
BY DEF Promise!Cardinality, Cardinality

LEMMA OpenOne ==
  ASSUME IInv, NEW w \in Workers, ConnectOk(w)
  PROVE  Promise!Open(w)
<1> USE PoolAssumption DEF Procs
<1>1. PICK s \in Sessions \ Live : cur' = [cur EXCEPT ![w] = s]
  BY DEF ConnectOk
<1>2. /\ pc[w] = "connect" /\ idle' = idle /\ batch' = batch /\ busy' = busy
  BY DEF ConnectOk, shared
<1>3. s # NoSession /\ cur[w] = NoSession
  BY <1>2 DEF IInv, Control, HoldsOK, Holding
<1>4. Held' = [Held EXCEPT ![w] = @ \cup {s}]
  <2>1. Owned(w)' = Owned(w) \cup {s}
    BY <1>1, <1>2, <1>3 DEF Owned, IInv, TypeOK
  <2>2. \A q \in Procs : q # w => Owned(q)' = Owned(q)
    BY <1>1, <1>2 DEF Owned, IInv, TypeOK
  <2> QED BY <2>1, <2>2 DEF Held
<1>5. Cardinality(Live) < MaxSessions
  <2>1. w \in Slots /\ w \notin Live /\ Live \subseteq Slots \ {w}
    BY <1>2 DEF Slots, Reserved, Live
  <2>2. IsFiniteSet(Slots) /\ Cardinality(Slots) <= MaxSessions
    BY DEF IInv, CountOK, SlotsAccounted
  <2>3. /\ IsFiniteSet(Slots \ {w})
        /\ Cardinality(Slots \ {w}) = Cardinality(Slots) - 1
    BY <2>1, <2>2, FS_RemoveElement
  <2>4. IsFiniteSet(Live) /\ Cardinality(Live) <= Cardinality(Slots \ {w})
    BY <2>1, <2>3, FS_Subset
  <2>5. /\ Cardinality(Live) \in Nat /\ Cardinality(Slots) \in Nat
        /\ Cardinality(Slots \ {w}) \in Nat
    BY <2>2, <2>3, <2>4, FS_CardinalityType
  <2> QED BY <2>2, <2>3, <2>4, <2>5
<1>6. Promise!Existing = Live
  BY ExistingIsLive DEF IInv
<1>7. s \in Sessions \ Promise!Existing /\ Cardinality(Promise!Existing) < MaxSessions
  BY <1>1, <1>5, <1>6
<1>8. \E x \in Sessions \ Promise!Existing :
        Held' = [Held EXCEPT ![w] = @ \cup {x}]
  BY <1>4, <1>7
<1> QED BY <1>2, <1>7, <1>8, SameCardinality DEF Promise!Open, Held

LEMMA ParkOne ==
  ASSUME IInv, NEW p \in Procs, ReturnPush(p)
  PROVE  Promise!Park(p)
<1> USE PoolAssumption
<1> DEFINE s == cur[p]
<1>1. /\ pc[p] = "push" /\ idle' = idle \cup {s} /\ batch' = batch
      /\ cur' = [cur EXCEPT ![p] = NoSession] /\ busy' = busy
  BY DEF ReturnPush
<1>2. s # NoSession /\ s \in Sessions /\ s \in Owned(p) /\ s \notin batch[p]
  BY <1>1 DEF IInv, TypeOK, Control, HoldsOK, Holding, Owned, Exclusive
<1>3. s \notin busy
  <2> SUFFICES ASSUME s \in busy PROVE FALSE
    OBVIOUS
  <2>1. PICK q \in Procs : cur[q] = s /\ pc[q] \in {"data", "ended", "end"}
    BY DEF IInv, BusyOK
  <2>2. q # p /\ s \in Owned(q)
    BY <1>1, <1>2, <2>1 DEF Owned
  <2> QED BY <1>2, <2>2 DEF IInv, Exclusive
<1>4. Held' = [Held EXCEPT ![p] = @ \ {s}]
  <2>1. Owned(p)' = Owned(p) \ {s}
    BY <1>1, <1>2 DEF Owned, IInv, TypeOK
  <2>2. \A q \in Procs : q # p => Owned(q)' = Owned(q)
    BY <1>1 DEF Owned, IInv, TypeOK
  <2> QED BY <2>1, <2>2 DEF Held
<1> QED BY <1>1, <1>2, <1>3, <1>4 DEF Promise!Park, Held

LEMMA EndOne ==
  ASSUME IInv, NEW p \in Procs, End(p)
  PROVE  Promise!Discard(p)
<1> USE PoolAssumption
<1> DEFINE s == cur[p]
<1>1. /\ pc[p] = "end" /\ idle' = idle /\ batch' = batch
      /\ cur' = [cur EXCEPT ![p] = NoSession] /\ busy' = busy \ {s}
  BY DEF End, shared
<1>2. s # NoSession /\ s \in Owned(p) /\ s \notin batch[p]
  BY <1>1 DEF IInv, TypeOK, Control, HoldsOK, Holding, Owned, Exclusive
<1>3. Held' = [Held EXCEPT ![p] = @ \ {s}]
  <2>1. Owned(p)' = Owned(p) \ {s}
    BY <1>1, <1>2 DEF Owned, IInv, TypeOK
  <2>2. \A q \in Procs : q # p => Owned(q)' = Owned(q)
    BY <1>1 DEF Owned, IInv, TypeOK
  <2> QED BY <2>1, <2>2 DEF Held
<1> QED BY <1>1, <1>2, <1>3 DEF Promise!Discard, Held

(* A session changes hands between the two places a thread keeps it in.    *)
LEMMA VisitStutters ==
  ASSUME IInv, NEW p \in Procs, NEW how, Visit(p, how)
  PROVE  UNCHANGED Promise!poolVars
<1> USE PoolAssumption
<1>1. PICK s \in batch[p] :
        /\ pc[p] = "batch" /\ cur' = [cur EXCEPT ![p] = s]
        /\ batch' = [batch EXCEPT ![p] = @ \ {s}]
        /\ idle' = idle /\ busy' = busy
  BY DEF Visit, shared
<1>2. cur[p] = NoSession /\ s # NoSession
  BY <1>1 DEF IInv, TypeOK, Control, HoldsOK, Holding
<1>3. Held' = Held
  BY <1>1, <1>2 DEF Held, Owned, IInv, TypeOK
<1> QED BY <1>1, <1>3 DEF Promise!poolVars, Held

(* What becomes of a command or a transfer leaves the sessions where they  *)
(* are and changes at most the standing of the one it used.                *)
LEMMA UseOne ==
  ASSUME IInv, NEW w \in Workers,
         \/ CommandStep(w)
         \/ TransferStep(w)
  PROVE  Promise!Use(w) \/ UNCHANGED Promise!poolVars
<1> USE PoolAssumption DEF Procs
<1>1. pc[w] \in {"run", "data", "ended"} /\ idle' = idle /\ cur' = cur /\ batch' = batch
  BY DEF CommandStep, TransferStep, CommandOk, CommandRefused, CommandLost,
    CommandLostWhen, ReaderEof, ReaderFinish, WriterFinish, Complete,
    TransferAborts, shared
<1>2. busy' \in {busy, busy \cup {cur[w]}, busy \ {cur[w]}}
  BY DEF CommandStep, TransferStep, CommandOk, CommandRefused, CommandLost,
    CommandLostWhen, ReaderEof, ReaderFinish, WriterFinish, Complete,
    TransferAborts
<1>3. cur[w] # NoSession /\ cur[w] \in Held[w]
  BY <1>1 DEF IInv, Control, HoldsOK, Holding, Held, Owned
<1>4. Held' = Held
  BY <1>1 DEF Held, Owned
<1>5. CASE busy' = busy
  BY <1>1, <1>4, <1>5 DEF Promise!poolVars, Held
<1>6. CASE busy' # busy
  BY <1>1, <1>2, <1>3, <1>4, <1>6 DEF Promise!Use, Held
<1> QED BY <1>5, <1>6

(* All other steps leave the sessions alone.                               *)
LEMMA OtherStutters ==
  ASSUME idle' = idle, cur' = cur, batch' = batch, busy' = busy
  PROVE  UNCHANGED Promise!poolVars
BY DEF Promise!poolVars, Owned

LEMMA StepImplements == IInv /\ [Next]_vars => [Promise!PoolNext]_(Promise!poolVars)
<1> SUFFICES ASSUME IInv, [Next]_vars
             PROVE  Promise!PoolNext \/ UNCHANGED Promise!poolVars
  OBVIOUS
<1> DEFINE Goal == Promise!PoolNext \/ UNCHANGED Promise!poolVars
<1> USE DEF Procs
<1>1. ASSUME NEW w \in Workers, LeasePop(w) PROVE Goal
  <2>1. CASE idle = {}
    BY <1>1, <2>1, OtherStutters DEF LeasePop
  <2>2. CASE idle # {}
    BY <1>1, <2>2, TakeOne DEF Promise!PoolNext
  <2> QED BY <2>1, <2>2
<1>2. ASSUME NEW w \in Workers, ConnectOk(w) PROVE Goal
  BY <1>2, OpenOne DEF Promise!PoolNext
<1>3. ASSUME NEW w \in Workers, CommandStep(w) \/ TransferStep(w) PROVE Goal
  BY <1>3, UseOne DEF Promise!PoolNext
<1>4. ASSUME NEW p \in Procs, Drain(p) PROVE Goal
  BY <1>4, TakeAll DEF Promise!PoolNext
<1>5. ASSUME NEW p \in Procs, ReturnPush(p) PROVE Goal
  BY <1>5, ParkOne DEF Promise!PoolNext
<1>6. ASSUME NEW p \in Procs, End(p) PROVE Goal
  BY <1>6, EndOne DEF Promise!PoolNext
<1>7. ASSUME NEW p \in Procs, NEW how, Visit(p, how) PROVE Goal
  BY <1>7, VisitStutters
<1>8. ASSUME Dropped PROVE Goal
  <2>1. UNCHANGED <<cur, batch, busy>> /\ idle' = {}
    BY <1>8 DEF Dropped
  <2> QED BY <2>1 DEF Promise!PoolNext, Promise!Drop, Owned
<1>9. ASSUME NEW w \in Workers, NEW k \in Kinds, Begin(w, k) PROVE Goal
  BY <1>9, OtherStutters DEF Begin, shared
<1>10. ASSUME NEW w \in Workers,
              \/ LeaseCheck(w) \/ LeaseReserve(w) \/ LeaseBusy(w)
              \/ LeaseWait(w) \/ LeaseWake(w) \/ WaitTimeout(w)
              \/ DeadlinePasses(w) \/ ConnectFails(w) \/ DiscardDone(w)
       PROVE  Goal
  BY <1>10, OtherStutters DEF LeaseCheck, LeaseReserve, LeaseBusy, LeaseWait,
    LeaseWake, WaitTimeout, DeadlinePasses, ConnectFails, DiscardDone, shared
<1>11. ASSUME NEW p \in Procs, Forget(p) \/ ReturnCheck(p) \/ ReturnNotify(p)
       PROVE  Goal
  BY <1>11, OtherStutters DEF Forget, ReturnCheck, ReturnNotify, shared
<1>12. ASSUME KeeperWakes \/ KeeperDone \/ CloserMarks \/ CloserDone
       PROVE  Goal
  BY <1>12, OtherStutters DEF KeeperWakes, KeeperDone, CloserMarks, CloserDone,
    shared
<1>13. ASSUME UNCHANGED vars PROVE Goal
  BY <1>13, OtherStutters DEF vars, shared
<1> HIDE DEF Goal
<1>14. ASSUME NEW w \in Workers, LeaseStep(w) \/ ConnectStep(w) \/ DiscardStep(w)
       PROVE  Goal
  BY <1>1, <1>2, <1>7, <1>10, <1>14
    DEF LeaseStep, ConnectStep, DiscardStep, DiscardNext
<1>15. ASSUME NEW p \in Procs, GiveUpStep(p) PROVE Goal
  BY <1>4, <1>5, <1>6, <1>11, <1>15 DEF GiveUpStep
<1>16. ASSUME KeeperStep \/ CloserMarks \/ CloserStep PROVE Goal
  BY <1>7, <1>12, <1>16
    DEF KeeperStep, CloserStep, KeeperProbes, CloserNext
<1>17. Goal
  BY <1>3, <1>8, <1>9, <1>10, <1>13, <1>14, <1>15, <1>16 DEF Next, Finished
<1> QED BY <1>17 DEF Goal

(* The pool with its two mutexes, its counter and its condition variable   *)
(* implements the abstract pool of sessions.                               *)
THEOREM PromiseKept == Spec => PoolPromise
<1>1. Init => Promise!PoolInit
  BY PoolAssumption DEF Init, Promise!PoolInit, Owned, Procs
<1> QED BY <1>1, Invariance, StepImplements, PTL DEF Spec, PoolPromise, Promise!PoolSpec
=============================================================================
