--------------------- MODULE NotificationDeliveryProofs ---------------------
(***************************************************************************)
(* Proofs about NotificationDelivery, for every set of events and workers  *)
(* and any number of attempts and faults.  The property to prove says      *)
(* nothing of locks; the invariant has to, since what keeps two workers    *)
(* from sending is the mark, and what keeps a notice from being taken for  *)
(* sent is, without a fault, the lock.                                     *)
(***************************************************************************)
EXTENDS NotificationDelivery, TLAPS

Busy(w) == pc[w] # "idle"

\* A worker that is not idle has a row.
HasRow == \A w \in Workers : Busy(w) => row[w] \in Events

\* The row lock: one holder, of a row that is PENDING and has attempts left.
LockInv ==
  /\ \A w \in Workers : holds[w] => Busy(w) /\ status[row[w]] = "PENDING"
  /\ \A v, w \in Workers : holds[v] /\ holds[w] /\ row[v] = row[w] => v = w
  /\ \A e \in Events : status[e] = "PENDING" => attempt[e] < MaxAttempt
  /\ faults = 0 => \A w \in Workers : Busy(w) => holds[w]

\* The mark: who has set it is the only one to send, and has not sent yet.
MarkInv ==
  /\ \A e \in Events : sent[e] # 0 => e \in processed
  /\ \A w \in Workers : pc[w] = "send" => row[w] \in processed /\ sent[row[w]] = 0
  /\ \A v, w \in Workers : pc[v] = "send" /\ pc[w] = "send" /\ row[v] = row[w] => v = w

\* Without a fault, a marked event is sent or about to be.
SendInv ==
  /\ \A e \in processed :
       faults > 0 \/ sent[e] # 0 \/ \E w \in Workers : pc[w] = "send" /\ row[w] = e
  /\ \A w \in Workers :
       pc[w] = "done" => row[w] \in processed /\ (faults > 0 \/ sent[row[w]] # 0)

IInv == TypeOK /\ HasRow /\ LockInv /\ MarkInv /\ SendInv /\ NoticeAtMostOnce /\ LossNeedsFault
-----------------------------------------------------------------------------
\* Nothing has happened yet.
LEMMA InitHolds == Init => IInv
  BY NoneAssumption, BoundsAssumption
  DEF Init, IInv, TypeOK, HasRow, LockInv, MarkInv, SendInv, Busy, NoticeAtMostOnce, LossNeedsFault

\* Picking a row: it is free, so the lock has one holder again.
LEMMA PickKeeps == ASSUME NEW w \in Workers, IInv, Pick(w) PROVE IInv'
  <1> USE NoneAssumption, BoundsAssumption
  <1> USE DEF IInv, TypeOK, Pick, At, Go
  <1>1. TypeOK'  OBVIOUS
  <1>2. HasRow'  BY DEF HasRow, Busy
  <1>3. LockInv'  BY DEF LockInv, Busy
  <1>4. MarkInv'  BY DEF MarkInv
  <1>5. SendInv'  BY DEF SendInv
  <1>6. NoticeAtMostOnce'  BY DEF NoticeAtMostOnce
  <1>7. LossNeedsFault'  BY DEF LossNeedsFault
  <1>8. QED  BY <1>1, <1>2, <1>3, <1>4, <1>5, <1>6, <1>7

\* The first delivery marks the row and alone goes on to send.  A later one finds
\* the mark: without a fault the other deliverer is gone and has sent, because
\* it held the lock that this one holds now.
LEMMA MarkProcessedKeeps == ASSUME NEW w \in Workers, IInv, MarkProcessed(w) PROVE IInv'
  <1> USE NoneAssumption, BoundsAssumption
  <1> USE DEF IInv, TypeOK, MarkProcessed, FirstDelivery, At, Go
  <1>1. TypeOK'  BY DEF HasRow, Busy
  <1>2. HasRow'  BY DEF HasRow, Busy
  <1>3. LockInv'  BY DEF LockInv, Busy
  <1>4. MarkInv'  BY DEF HasRow, MarkInv, Busy
  <1>5. SendInv'  BY DEF LockInv, SendInv, Busy
  <1>6. NoticeAtMostOnce'  BY DEF NoticeAtMostOnce
  <1>7. LossNeedsFault'  BY DEF LossNeedsFault
  <1>8. QED  BY <1>1, <1>2, <1>3, <1>4, <1>5, <1>6, <1>7

\* A failing statement may mark the row, and is a fault itself.
LEMMA MarkFailsKeeps == ASSUME NEW w \in Workers, IInv, MarkFails(w) PROVE IInv'
  <1> USE NoneAssumption, BoundsAssumption
  <1> USE DEF IInv, TypeOK, MarkFails, At, Go
  <1>1. TypeOK'  BY DEF HasRow, Busy
  <1>2. HasRow'  BY DEF HasRow, Busy
  <1>3. LockInv'  BY DEF LockInv, Busy
  <1>4. MarkInv'  BY DEF MarkInv
  <1>5. SendInv'  BY DEF SendInv
  <1>6. NoticeAtMostOnce'  BY DEF NoticeAtMostOnce
  <1>7. LossNeedsFault'  BY DEF LossNeedsFault
  <1>8. QED  BY <1>1, <1>2, <1>3, <1>4, <1>5, <1>6, <1>7

\* The sender is the one that set the mark, so nothing was sent before.
LEMMA SendKeeps == ASSUME NEW w \in Workers, IInv, Send(w) PROVE IInv'
  <1> USE NoneAssumption, BoundsAssumption
  <1> USE DEF IInv, TypeOK, Send, At, Go
  <1>1. TypeOK'  BY DEF HasRow, Busy
  <1>2. HasRow'  BY DEF HasRow, Busy
  <1>3. LockInv'  BY DEF LockInv, Busy
  <1>4. MarkInv'  BY DEF MarkInv
  <1>5. SendInv'  BY DEF MarkInv, SendInv
  <1>6. NoticeAtMostOnce'  BY DEF MarkInv, NoticeAtMostOnce
  <1>7. LossNeedsFault'  BY DEF LossNeedsFault
  <1>8. QED  BY <1>1, <1>2, <1>3, <1>4, <1>5, <1>6, <1>7

\* A failing sender is a fault: the mark need not mean a notice any more.
LEMMA SendFailsKeeps == ASSUME NEW w \in Workers, IInv, SendFails(w) PROVE IInv'
  <1> USE NoneAssumption, BoundsAssumption
  <1> USE DEF IInv, TypeOK, SendFails, At, Go
  <1>1. TypeOK'  OBVIOUS
  <1>2. HasRow'  BY DEF HasRow, Busy
  <1>3. LockInv'  BY DEF LockInv, Busy
  <1>4. MarkInv'  BY DEF MarkInv
  <1>5. SendInv'  BY DEF SendInv
  <1>6. NoticeAtMostOnce'  BY DEF NoticeAtMostOnce
  <1>7. LossNeedsFault'  BY DEF LossNeedsFault
  <1>8. QED  BY <1>1, <1>2, <1>3, <1>4, <1>5, <1>6, <1>7

\* The row leaves PENDING, or has an attempt left; nobody else holds it.
LEMMA SettleKeeps == ASSUME NEW w \in Workers, IInv, Settle(w) PROVE IInv'
  <1> USE NoneAssumption, BoundsAssumption
  <1> USE DEF IInv, TypeOK, Settle, Release, GivenUp, At, Go
  <1>1. TypeOK'  BY DEF LockInv, Busy
  <1>2. HasRow'  BY DEF HasRow, Busy
  <1>3. LockInv'  BY DEF HasRow, LockInv, Busy
  <1>4. MarkInv'  BY DEF MarkInv
  <1>5. SendInv'  BY DEF SendInv
  <1>6. NoticeAtMostOnce'  BY DEF NoticeAtMostOnce
  <1>7. LossNeedsFault'  BY DEF SendInv, LossNeedsFault
  <1>8. QED  BY <1>1, <1>2, <1>3, <1>4, <1>5, <1>6, <1>7

\* A lost connection frees the lock and is a fault.
LEMMA LoseConnectionKeeps == ASSUME NEW w \in Workers, IInv, LoseConnection(w) PROVE IInv'
  <1> USE NoneAssumption, BoundsAssumption
  <1> USE DEF IInv, TypeOK, LoseConnection
  <1>1. TypeOK'  OBVIOUS
  <1>2. HasRow'  BY DEF HasRow, Busy
  <1>3. LockInv'  BY DEF LockInv, Busy
  <1>4. MarkInv'  BY DEF MarkInv
  <1>5. SendInv'  BY DEF SendInv
  <1>6. NoticeAtMostOnce'  BY DEF NoticeAtMostOnce
  <1>7. LossNeedsFault'  BY DEF LossNeedsFault
  <1>8. QED  BY <1>1, <1>2, <1>3, <1>4, <1>5, <1>6, <1>7

\* A crash forgets the worker, mark or no mark, and is a fault.
LEMMA CrashKeeps == ASSUME NEW w \in Workers, IInv, Crash(w) PROVE IInv'
  <1> USE NoneAssumption, BoundsAssumption
  <1> USE DEF IInv, TypeOK, Crash, Release, At, Go
  <1>1. TypeOK'  OBVIOUS
  <1>2. HasRow'  BY DEF HasRow, Busy
  <1>3. LockInv'  BY DEF LockInv, Busy
  <1>4. MarkInv'  BY DEF MarkInv
  <1>5. SendInv'  BY DEF SendInv
  <1>6. NoticeAtMostOnce'  BY DEF NoticeAtMostOnce
  <1>7. LossNeedsFault'  BY DEF LossNeedsFault
  <1>8. QED  BY <1>1, <1>2, <1>3, <1>4, <1>5, <1>6, <1>7

\* Idling preserves the invariant.
LEMMA StutterKeeps == ASSUME IInv, UNCHANGED vars PROVE IInv'
  BY DEF vars, IInv, TypeOK, HasRow, LockInv, MarkInv, SendInv, Busy, NoticeAtMostOnce, LossNeedsFault

\* The invariant is inductive: it holds in every reachable state.
THEOREM NoticeInvariant == Spec => []IInv
  <1>1. ASSUME IInv, [Next]_vars PROVE IInv'
    <2>1. CASE UNCHANGED vars  BY <1>1, <2>1, StutterKeeps
    <2>2. ASSUME NEW w \in Workers, Worker(w) PROVE IInv'
      BY <1>1, <2>2, PickKeeps, MarkProcessedKeeps, MarkFailsKeeps, SendKeeps, SendFailsKeeps, SettleKeeps
      DEF Worker, Handle
    <2>3. ASSUME NEW w \in Workers, LoseConnection(w) PROVE IInv'  BY <1>1, <2>3, LoseConnectionKeeps
    <2>4. ASSUME NEW w \in Workers, Crash(w) PROVE IInv'  BY <1>1, <2>4, CrashKeeps
    <2>5. QED  BY <1>1, <2>1, <2>2, <2>3, <2>4 DEF Next
  <1>2. QED  BY <1>1, InitHolds, PTL DEF Spec

\* Every variable keeps its type: no row is tried more than MaxAttempt times.
\* (outbox/relay.go settlement)
THEOREM NoticeTypeCorrect == Spec => []TypeOK
  BY NoticeInvariant, PTL DEF IInv

\* No notice is sent twice, for any number of workers, lost connections, crashes
\* and failed statements.  (notification handler.go Handle)
THEOREM NoNoticeTwice == Spec => []NoticeAtMostOnce
  BY NoticeInvariant, PTL DEF IInv

\* A notice is lost to a fault only, and leaves its mark behind.
\* (notification handler.go Handle)
THEOREM LossIsTraced == Spec => []LossNeedsFault
  BY NoticeInvariant, PTL DEF IInv
=============================================================================
