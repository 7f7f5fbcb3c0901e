---------------------- MODULE TransferRefinementProofs ----------------------
(***************************************************************************)
(* The transfer flow implements the payment promise, for any numbers of    *)
(* calls, requests, workers and faults: its initial states map to initial  *)
(* states, the insert maps to Accept, an order that reaches the bank to    *)
(* TakeOrder, the writes of the two handlers to Move, and every other step *)
(* to a stutter.                                                           *)
(***************************************************************************)
EXTENDS TransferRefinement, TransferHistoryProofs

\* What the promise's variables are, without choosing among stored transfers
\* and without counting orders.
ReadsTables ==
  /\ \A c \in Calls : IsStored(c) =>
       stateOf[AppOf[c]] = transfers[c].status /\ toldOf[AppOf[c]] = notices[c]
  /\ \A a \in Requests : Stored(a) = {} => stateOf[a] = "NONE" /\ toldOf[a] = << >>

ReadsBank ==
  \A a \in Requests : orderedOf[a] = IF \E o \in orders : AppOf[o.pays] = a THEN 1 ELSE 0

Reads == ReadsTables /\ ReadsBank

\* One request has one stored transfer and at most one order, so the mapping reads
\* exactly those.
LEMMA MappingReads == IInv => Reads
<1>. SUFFICES ASSUME IInv PROVE Reads
  OBVIOUS
<1>1. ASSUME NEW c \in Calls, IsStored(c)
      PROVE  stateOf[AppOf[c]] = transfers[c].status /\ toldOf[AppOf[c]] = notices[c]
  <2>1. Stored(AppOf[c]) = {c}
    BY <1>1 DEF Stored, IsStored, IInv, RowInv
  <2>2. TransferOf(AppOf[c]) = c /\ Stored(AppOf[c]) # {}
    BY <2>1 DEF TransferOf
  <2>3. AppOf[c] \in Requests
    BY DEF Requests
  <2>. QED
    BY <2>2, <2>3 DEF stateOf, toldOf
<1>2. ASSUME NEW a \in Requests, Stored(a) = {}
      PROVE  stateOf[a] = "NONE" /\ toldOf[a] = << >>
  BY <1>2 DEF stateOf, toldOf
<1>3. ASSUME NEW a \in Requests
      PROVE  orderedOf[a] = IF \E o \in orders : AppOf[o.pays] = a THEN 1 ELSE 0
  <2>. DEFINE mine == {o \in orders : AppOf[o.pays] = a}
  <2>1. orderedOf[a] = Cardinality(mine)
    BY DEF orderedOf
  <2>2. CASE mine = {}
    <3>1. Cardinality(mine) = 0
      BY <2>2, FS_EmptySet
    <3>. QED
      BY <2>1, <2>2, <3>1
  <2>3. CASE mine # {}
    <3>1. PICK o \in mine : TRUE
      BY <2>3
    <3>2. mine = {o}
      BY <3>1, OrdersApart DEF OneOrderPerRequest
    <3>3. Cardinality({o}) = 1
      BY FS_Singleton
    <3>. QED
      BY <2>1, <3>1, <3>2, <3>3
  <2>. QED
    BY <2>2, <2>3
<1>. QED
  BY <1>1, <1>2, <1>3 DEF Reads, ReadsTables, ReadsBank

\* The steps that change what the mapping reads of the tables change one request.
LEMMA OneRequestMoves ==
  ASSUME Reads, Reads', NEW i \in Calls, transfers'[i].status # "NONE",
         IInv', IsStored(i) \/ Stored(AppOf[i]) = {},
         \A c \in Calls \ {i} : transfers'[c] = transfers[c] /\ notices'[c] = notices[c]
  PROVE  /\ stateOf' = [stateOf EXCEPT ![AppOf[i]] = transfers'[i].status]
         /\ toldOf' = [toldOf EXCEPT ![AppOf[i]] = notices'[i]]
<1>1. stateOf'[AppOf[i]] = transfers'[i].status /\ toldOf'[AppOf[i]] = notices'[i]
  BY DEF Reads, ReadsTables, IsStored
<1>2. ASSUME NEW a \in Requests \ {AppOf[i]}
      PROVE  stateOf'[a] = stateOf[a] /\ toldOf'[a] = toldOf[a]
  <2>1. CASE Stored(a) = {}
    <3>1. Stored(a)' = {}
      BY <1>2, <2>1 DEF Stored
    <3>. QED
      BY <2>1, <3>1 DEF Reads, ReadsTables
  <2>2. CASE Stored(a) # {}
    <3>1. PICK c \in Calls : AppOf[c] = a /\ IsStored(c)
      BY <2>2 DEF Stored, IsStored
    <3>2. c # i /\ IsStored(c)'
      BY <1>2, <3>1 DEF IsStored
    <3>. QED
      BY <3>1, <3>2 DEF Reads, ReadsTables
  <2>. QED
    BY <2>1, <2>2
<1>3. /\ DOMAIN stateOf = Requests /\ stateOf' = [a \in Requests |-> stateOf'[a]]
      /\ DOMAIN toldOf = Requests /\ toldOf' = [a \in Requests |-> toldOf'[a]]
      /\ stateOf = [a \in Requests |-> stateOf[a]] /\ toldOf = [a \in Requests |-> toldOf[a]]
  BY DEF stateOf, toldOf
<1>. QED
  BY <1>1, <1>2, <1>3

\* A step that leaves the orders of the bank alone leaves their numbers alone.
LEMMA SameOrders == ASSUME orders' = orders PROVE orderedOf' = orderedOf
BY DEF orderedOf

-----------------------------------------------------------------------------
\* The insert is the promise's Accept.  (usecase_request.go)
LEMMA InsertAccepts ==
  ASSUME IInv, IInv', NoticeInv, NoticeInv', Reads, Reads', NEW c \in Calls, CallInsert(c)
  PROVE  Promise!Accept(AppOf[c])
<1>1. /\ ~IsStored(c) /\ Stored(AppOf[c]) = {} /\ transfers'[c] = NewTransfer(c)
      /\ \A d \in Calls \ {c} : transfers'[d] = transfers[d]
      /\ notices' = notices
  BY InsertWrites
<1>2. AppOf[c] \in Requests
  BY DEF Requests
<1>3. stateOf[AppOf[c]] = "NONE" /\ toldOf[AppOf[c]] = << >> /\ notices[c] = << >>
  BY <1>1, <1>2 DEF Reads, ReadsTables, NoticeInv
<1>4. transfers'[c].status = "PENDING"
  BY <1>1 DEF NewTransfer
<1>5. /\ stateOf' = [stateOf EXCEPT ![AppOf[c]] = "PENDING"]
      /\ toldOf' = [toldOf EXCEPT ![AppOf[c]] = << >>]
  BY <1>1, <1>3, <1>4, OneRequestMoves
<1>6. toldOf' = toldOf
  BY <1>3, <1>5 DEF toldOf
<1>7. orderedOf' = orderedOf
  BY SameOrders DEF CallInsert, bankVars
<1>. QED
  BY <1>3, <1>5, <1>6, <1>7 DEF Promise!Accept

\* A write of a handler is the promise's Move.
LEMMA WriteMoves ==
  ASSUME IInv, IInv', Reads, Reads', NEW i \in Calls, IsStored(i), NEW to \in Status,
         to \in validTransitions[transfers[i].status], transfers'[i].status = to,
         \A c \in Calls \ {i} : transfers'[c] = transfers[c],
         notices' = [notices EXCEPT ![i] = @ \o StateChangeNotice(transfers[i].status, to)],
         orders' = orders,
         to = "REQUESTED" => \E o \in orders : o.pays = i
  PROVE  \E a \in Requests : Promise!Move(a, to)
<1>. DEFINE a == AppOf[i]
<1>1. a \in Requests /\ stateOf[a] = transfers[i].status /\ toldOf[a] = notices[i]
  BY DEF Requests, Reads, ReadsTables
<1>2. /\ notices'[i] = notices[i] \o StateChangeNotice(transfers[i].status, to)
      /\ \A c \in Calls \ {i} : notices'[c] = notices[c]
  BY DEF IInv, TypeOK, TablesType
<1>3. to # "NONE"
  BY DEF Status
<1>4. stateOf' = [stateOf EXCEPT ![a] = to] /\ toldOf' = [toldOf EXCEPT ![a] = notices'[i]]
  BY <1>2, <1>3, OneRequestMoves
<1>5. toldOf' = [toldOf EXCEPT ![a] = @ \o StateChangeNotice(stateOf[a], to)]
  BY <1>1, <1>2, <1>4
<1>6. orderedOf' = orderedOf
  BY SameOrders
<1>7. to = "REQUESTED" => orderedOf[a] = 1
  BY <1>1 DEF Reads, ReadsBank
<1>8. stateOf[a] # "NONE" /\ to \in validTransitions[stateOf[a]]
  BY <1>1 DEF IsStored
<1>. QED
  BY <1>1, <1>4, <1>5, <1>6, <1>7, <1>8
  DEF Promise!Move, Promise!validTransitions, Promise!StateChangeNotice, Promise!Announced,
      validTransitions, StateChangeNotice, Announced


\* The bank takes an order when it decides or when a late request arrives; such a step
\* writes no table.
LEMMA WhoOrders ==
  ASSUME IInv, [Next]_vars
  PROVE  \/ orders' = orders
         \/ \E m : /\ orders' = orders \cup {m} /\ m \notin orders
                   /\ UNCHANGED <<transfers, notices>>
<1>1. ASSUME NEW m, TakeOrder(m)
      PROVE  orders' = orders \/ (orders' = orders \cup {m} /\ m \notin orders)
  BY <1>1 DEF TakeOrder
<1>2. ASSUME NEW w \in Workers, BankDecides(w)
      PROVE  /\ UNCHANGED <<transfers, notices>>
             /\ orders' = orders \/ \E m : TakeOrder(m)
  BY <1>2 DEF BankDecides, tables
<1>3. ASSUME NEW m \in late, BankReceivesLate(m)
      PROVE  TakeOrder(m) /\ UNCHANGED <<transfers, notices>>
  BY <1>3 DEF BankReceivesLate, tables
<1>4. ASSUME NEW w \in Workers, WorkerStep(w) \/ WorkerFault(w)
      PROVE  orders' = orders
  BY <1>4 DEF WorkerStep, Pick, CommitBatch, StartSend, StartCheck, CallBank, BankAnswers,
     BankSilent, Record, RecordFails, Load, Apply, ApplyFails, RollBack, WorkerFault, Crash,
     LoseConnection, LoseUpdate, bankVars
<1>5. ASSUME \/ \E c \in Calls : CallStep(c)
             \/ \E k \in Keys : BankMoves(k)
             \/ EmergencyStop
             \/ \E r \in Rows : Restore(r)
             \/ UNCHANGED vars
      PROVE  orders' = orders
  BY <1>5 DEF CallStep, CallFind, CallInsert, CallDuplicate, CallRefind, CallFails,
     BankMoves, EmergencyStop, Restore, vars, bankVars
<1>. QED
  BY <1>1, <1>2, <1>3, <1>4, <1>5 DEF Next

\* An order is taken for a stored transfer whose request had none.  (the idempotency key
\* of the transfer, however often the request is sent)
LEMMA OrderIsTaken ==
  ASSUME IInv, IInv', Reads, Reads', NEW m, m \notin orders, orders' = orders \cup {m},
         UNCHANGED <<transfers, notices>>
  PROVE  \E a \in Requests : Promise!TakeOrder(a)
<1>. DEFINE a == AppOf[m.pays]
<1>1. m.pays \in Calls /\ transfers'[m.pays].status # "NONE"
  BY DEF IInv, TypeOK, BankType, BankInv, IsStored
<1>2. a \in Requests
  BY <1>1 DEF Requests
<1>3. stateOf' = stateOf /\ toldOf' = toldOf
  BY DEF stateOf, toldOf, Stored, TransferOf
<1>4. stateOf[a] # "NONE"
  <2>1. IsStored(m.pays)
    BY <1>1 DEF IsStored
  <2>2. stateOf[a] = transfers[m.pays].status
    BY <1>1, <2>1 DEF Reads, ReadsTables
  <2>. QED
    BY <2>1, <2>2 DEF IsStored
<1>5. \A o \in orders : AppOf[o.pays] # a
  <2>1. OneOrderPerRequest'
    BY OrdersApart, PTL
  <2>. QED
    BY <2>1 DEF OneOrderPerRequest
<1>6. orderedOf[a] = 0 /\ orderedOf'[a] = 1
  BY <1>2, <1>5 DEF Reads, ReadsBank
<1>7. ASSUME NEW b \in Requests \ {a}
      PROVE  orderedOf'[b] = orderedOf[b]
  BY <1>7 DEF Reads, ReadsBank
<1>8. orderedOf = [b \in Requests |-> orderedOf[b]] /\ orderedOf' = [b \in Requests |-> orderedOf'[b]]
  BY DEF orderedOf
<1>9. orderedOf' = [orderedOf EXCEPT ![a] = 1]
  BY <1>2, <1>6, <1>7, <1>8
<1>. QED
  BY <1>2, <1>3, <1>4, <1>6, <1>9 DEF Promise!TakeOrder

-----------------------------------------------------------------------------
(***************************************************************************)
(* The refinement, step by step.                                           *)
(***************************************************************************)

\* Nothing is accepted, ordered or told at the start.
LEMMA InitMapsToInit == Init => Promise!PromiseInit
<1>. SUFFICES ASSUME Init PROVE Promise!PromiseInit
  OBVIOUS
<1>1. \A a : Stored(a) = {}
  BY DEF Init, Stored, NoRow
<1>2. \A a : {o \in orders : AppOf[o.pays] = a} = {}
  BY DEF Init
<1>3. orderedOf = [a \in Requests |-> 0]
  BY <1>2, FS_EmptySet DEF orderedOf
<1>. QED
  BY <1>1, <1>3 DEF Promise!PromiseInit, stateOf, toldOf

\* Record moves the request of its transfer; it is REQUESTED only with its order.
LEMMA RecordMoves ==
  ASSUME IInv, IInv', JobInv, AheadInv, Reads, Reads', NEW w \in Workers, Record(w)
  PROVE  \E a \in Requests : \E to \in Status : Promise!Move(a, to)
<1>1. PICK i \in Calls : i = cur[w][1]
  BY RecordWrites
<1>2. /\ wpc[w] = "record" /\ transfers[i].status = "PENDING"
      /\ Recorded(w).status \in {"REQUESTED", "FAILED"}
      /\ transfers'[i].status = Recorded(w).status
      /\ \A c \in Calls \ {i} : transfers'[c] = transfers[c]
      /\ notices' = [notices EXCEPT ![i] = @ \o StateChangeNotice("PENDING", Recorded(w).status)]
  BY <1>1, RecordWrites
<1>3. transfers'[i].status = IF resp[w] = "accepted" THEN "REQUESTED" ELSE "FAILED"
  BY <1>1, RecordQueues
<1>4. orders' = orders
  BY DEF Record, bankVars
<1>5. Recorded(w).status = "REQUESTED" => \E o \in orders : o.pays = i
  <2>1. SUFFICES ASSUME resp[w] = "accepted" PROVE \E o \in orders : o.pays = i
    BY <1>2, <1>3
  <2>2. KnownToBank(i)
    BY <1>1, <1>2, <2>1 DEF AheadInv, Heard
  <2>3. [key |-> i, pays |-> i] \in orders
    BY <2>2 DEF AheadInv, OrdersKnown, Keys
  <2>. QED
    BY <2>3
<1>6. IsStored(i) /\ Recorded(w).status \in Status
      /\ Recorded(w).status \in validTransitions[transfers[i].status]
  BY <1>2, PendingMoves DEF IsStored, Status
<1>. QED
  BY <1>2, <1>4, <1>5, <1>6, WriteMoves

\* Apply moves the request of its transfer as the bank has moved its order.
LEMMA ApplyMoves ==
  ASSUME IInv, IInv', AheadInv, Reads, Reads', NEW w \in Workers, Apply(w)
  PROVE  \E a \in Requests : \E to \in Status : Promise!Move(a, to)
<1>1. PICK i \in Calls : i = cur[w][1]
  BY ApplyWrites
<1>2. /\ wpc[w] = "apply" /\ IsStored(i) /\ resp[w] \in Status /\ resp[w] \in validTransitions[transfers[i].status]
      /\ transfers'[i].status = resp[w]
      /\ \A c \in Calls \ {i} : transfers'[c] = transfers[c]
      /\ notices' = [notices EXCEPT ![i] = @ \o StateChangeNotice(transfers[i].status, resp[w])]
  BY <1>1, ApplyWrites
<1>3. orders' = orders
  BY DEF Apply, bankVars
<1>4. \E o \in orders : o.pays = i
  <2>1. resp[w] \in DOMAIN Reached /\ bank[i] \in Reached[resp[w]]
    BY <1>1, <1>2 DEF AheadInv, Heard
  <2>2. KnownToBank(i)
    BY <2>1 DEF KnownToBank, Reached, BankNext
  <2>3. [key |-> i, pays |-> i] \in orders
    BY <2>2 DEF AheadInv, OrdersKnown, Keys
  <2>. QED
    BY <2>3
<1>. QED
  BY <1>2, <1>3, <1>4, WriteMoves

\* Every step of the flow is a step of the promise or a stutter.
LEMMA StepMapsToStep ==
  ASSUME IInv, IInv', HistoryInv, HistoryInv', [Next]_vars
  PROVE  [Promise!PromiseNext]_(Promise!promiseVars)
<1>1. Reads /\ Reads'
  BY MappingReads, PTL
<1>. USE DEF HistoryInv
<1>2. CASE UNCHANGED <<transfers, notices, orders>>
  <2>1. stateOf' = stateOf /\ toldOf' = toldOf /\ orderedOf' = orderedOf
    BY <1>2 DEF stateOf, toldOf, orderedOf, Stored, TransferOf
  <2>. QED
    BY <2>1 DEF Promise!promiseVars
<1>3. ASSUME NEW m, orders' = orders \cup {m}, m \notin orders, UNCHANGED <<transfers, notices>>
      PROVE  Promise!PromiseNext
  BY <1>1, <1>3, OrderIsTaken DEF Promise!PromiseNext
<1>4. ASSUME NEW c \in Calls, CallInsert(c)
      PROVE  Promise!PromiseNext
  BY <1>1, <1>4, InsertAccepts DEF Promise!PromiseNext, Requests
<1>5. ASSUME NEW w \in Workers, Record(w) \/ Apply(w)
      PROVE  Promise!PromiseNext
  BY <1>1, <1>5, RecordMoves, ApplyMoves DEF Promise!PromiseNext, Promise!Status, Status
<1>. QED
  BY <1>2, <1>3, <1>4, <1>5, WhoWrites, WhoOrders

\* Every behaviour of the flow, with its crashes, stale copies, lost answers and
\* ambiguous commits, is a behaviour of the promise: a request is accepted at most once,
\* the bank takes at most one order for it, it moves along the graph and is REQUESTED
\* only after the bank has the order, and every announced move is announced with it.
THEOREM FlowKeepsPromise == Spec => KeepsPromise
<1>1. Init => Promise!PromiseInit
  BY InitMapsToInit
<1>2. IInv /\ IInv' /\ HistoryInv /\ HistoryInv' /\ [Next]_vars
        => [Promise!PromiseNext]_(Promise!promiseVars)
  BY StepMapsToStep
<1>. QED
  BY <1>1, <1>2, InvariantHolds, HistoryHolds, PTL DEF Spec, KeepsPromise, Promise!PromiseSpec
=============================================================================
