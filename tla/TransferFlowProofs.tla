------------------------- MODULE TransferFlowProofs -------------------------
(***************************************************************************)
(* Proofs about TransferFlow, for any numbers of calls, workers, batches,  *)
(* attempts and faults.  The inductive invariant ties the copy of a        *)
(* transfer that a handler holds to the stored row by its version.         *)
(***************************************************************************)
EXTENDS TransferFlow, SequenceTheorems, TLAPS

IsStored(c) == transfers[c].status # "NONE"

\* A stored row carries the key of the execution that inserted it, and no two
\* stored rows share an app_request_id.
RowInv ==
  /\ \A c \in Calls : IsStored(c) => transfers[c].key = c
  /\ \A c, d \in Calls : IsStored(c) /\ IsStored(d) /\ AppOf[c] = AppOf[d] => c = d

\* What a handler knows about the transfer it works on: its copy is either the
\* stored row or has an older version.
HoldsCopy(w) ==
  LET t == transfers[cur[w][1]] IN
  /\ IsStored(cur[w][1])
  /\ snap[w].key = cur[w][1]
  /\ snap[w].version <= t.version
  /\ snap[w].version = t.version => snap[w] = t

HandlerInv(w) ==
  /\ wpc[w] \in {"send", "await", "record", "load", "apply"} => cur[w] \in Refs
  /\ wpc[w] \in {"send", "await", "record", "apply"} => HoldsCopy(w)
  /\ wpc[w] \in {"send", "await", "record"} => snap[w].status = "PENDING"
  /\ wpc[w] \in {"idle", "dispatch", "send"} => resp[w] = "none"
  /\ wpc[w] \in {"await", "record"} => resp[w] \in {"none", "accepted", "rejected"}
  /\ wpc[w] = "load" => resp[w] \in Status
  /\ wpc[w] = "apply" => resp[w] \in Status /\ resp[w] \in validTransitions[snap[w].status]

\* Every request that can still arrive and every order belongs to a stored
\* transfer and carries its key.
BankInv ==
  \A m \in late \cup orders : m.key = m.pays /\ IsStored(m.pays)

IInv == TypeOK /\ RowInv /\ (\A w \in Workers : HandlerInv(w)) /\ BankInv

-----------------------------------------------------------------------------
\* Every word of the bank means a status.  (mapSunabarStatus)
LEMMA WordMeaning ==
  ASSUME NEW word \in BankWord
  PROVE  mapSunabarStatus[word] \in Status
BY DEF BankWord, mapSunabarStatus, Status

\* What the send handler writes is a legal move from PENDING.  (status.go)
LEMMA PendingMoves == {"REQUESTED", "FAILED"} \subseteq validTransitions["PENDING"]
BY DEF validTransitions

\* A transition publishes one notice or none.  (state_event.go)
LEMMA NoticeType ==
  ASSUME NEW from \in Status, NEW to \in Status
  PROVE  StateChangeNotice(from, to) \in Seq([from: Status, to: Status])
<1>1. CASE to \in Announced
  <2>1. [from |-> from, to |-> to] \in [from: Status, to: Status]
    OBVIOUS
  <2>. QED  BY <1>1, <2>1 DEF StateChangeNotice
<1>2. CASE to \notin Announced
  BY <1>2 DEF StateChangeNotice
<1>. QED  BY <1>1, <1>2

\* Replacing the elements of a sequence leaves a sequence.
LEMMA SameLengthSeq ==
  ASSUME NEW S, NEW s \in Seq(S), NEW f,
         f = [n \in DOMAIN s |-> f[n]],
         \A n \in DOMAIN s : f[n] \in S
  PROVE  f \in Seq(S)
<1>1. DOMAIN s = 1..Len(s) /\ Len(s) \in Nat
  OBVIOUS
<1>2. f \in [1..Len(s) -> S]
  BY <1>1
<1>. QED
  BY <1>1, <1>2, SeqDef

\* Nothing is stored, sent or in work at the start.
THEOREM InitIInv == Init => IInv
<1>. SUFFICES ASSUME Init PROVE IInv
  OBVIOUS
<1>1. TypeOK
  BY FaultAssumption
  DEF Init, TypeOK, TablesType, CallsType, BankType, WorkersType, NoRow, Row, Status, Keys
<1>2. RowInv
  BY DEF Init, RowInv, IsStored, NoRow
<1>3. \A w \in Workers : HandlerInv(w)
  BY DEF Init, HandlerInv
<1>4. BankInv
  BY DEF Init, BankInv
<1>. QED
  BY <1>1, <1>2, <1>3, <1>4 DEF IInv

-----------------------------------------------------------------------------
(***************************************************************************)
(* Frame lemmas.  A step that changes rows only by raising their version   *)
(* keeps what every other worker knows and what the bank's requests need.  *)
(***************************************************************************)
RowsGrow ==
  \A c \in Calls :
    \/ transfers'[c] = transfers[c]
    \/ ~IsStored(c)
    \/ /\ transfers'[c].status # "NONE"
       /\ transfers'[c].version \in Nat
       /\ transfers'[c].version > transfers[c].version

Untouched(v) ==
  /\ wpc'[v] = wpc[v] /\ cur'[v] = cur[v]
  /\ snap'[v] = snap[v] /\ resp'[v] = resp[v]

\* Rows only grow in version, so a copy held by a worker that does not move stays
\* the stored row or becomes an older version of it.
LEMMA OthersKeep ==
  ASSUME TypeOK, NEW v \in Workers, HandlerInv(v), Untouched(v), RowsGrow
  PROVE  HandlerInv(v)'
<1>1. ASSUME wpc[v] \in {"send", "await", "record", "apply"}
      PROVE  HoldsCopy(v)'
  <2>1. HoldsCopy(v) /\ cur[v] \in Refs
    BY <1>1 DEF HandlerInv
  <2>2. cur[v][1] \in Calls
    BY <2>1 DEF Refs
  <2>3. transfers[cur[v][1]].version \in Nat /\ snap[v].version \in Nat
    BY <2>2 DEF TypeOK, TablesType, WorkersType, Row
  <2>4. CASE transfers'[cur[v][1]] = transfers[cur[v][1]]
    BY <2>1, <2>4 DEF HoldsCopy, Untouched, IsStored
  <2>5. CASE /\ transfers'[cur[v][1]].status # "NONE"
             /\ transfers'[cur[v][1]].version \in Nat
             /\ transfers'[cur[v][1]].version > transfers[cur[v][1]].version
    <3>1. /\ snap[v].version <= transfers'[cur[v][1]].version
          /\ snap[v].version # transfers'[cur[v][1]].version
      BY <2>1, <2>3, <2>5 DEF HoldsCopy
    <3>. QED
      BY <2>1, <2>5, <3>1 DEF HoldsCopy, Untouched, IsStored
  <2>. QED
    BY <2>1, <2>2, <2>4, <2>5 DEF RowsGrow, HoldsCopy
<1>. QED
  BY <1>1 DEF HandlerInv, Untouched

\* No transfer is ever deleted.
LEMMA StoredStays ==
  ASSUME RowsGrow, NEW c \in Calls, IsStored(c)
  PROVE  IsStored(c)'
BY DEF RowsGrow, IsStored

\* What the bank knows keeps belonging to stored transfers.
LEMMA BankKeeps ==
  ASSUME TypeOK, BankInv, RowsGrow, late' = late, orders' = orders
  PROVE  BankInv'
<1>1. \A m \in late \cup orders : m.pays \in Calls
  BY DEF TypeOK, BankType
<1>. QED
  BY <1>1, StoredStays DEF BankInv

\* A step that leaves the table transfers alone keeps what is said of its rows.
LEMMA RowsKeep ==
  ASSUME RowInv, transfers' = transfers
  PROVE  RowInv' /\ RowsGrow
BY DEF RowInv, RowsGrow, IsStored

OnlyTouches(w) == \A v \in Workers \ {w} : Untouched(v)

\* A step of one worker: its own part has to be shown, the others follow.
LEMMA HandlersKeep ==
  ASSUME IInv, RowsGrow, NEW w \in Workers, OnlyTouches(w), HandlerInv(w)'
  PROVE  \A v \in Workers : HandlerInv(v)'
BY OthersKeep DEF IInv, OnlyTouches

\* A step of no worker.
LEMMA AllHandlersKeep ==
  ASSUME IInv, RowsGrow, \A v \in Workers : Untouched(v)
  PROVE  \A v \in Workers : HandlerInv(v)'
BY OthersKeep DEF IInv

\* A step that leaves the workers' variables alone touches no worker.
LEMMA WorkerUntouched ==
  ASSUME UNCHANGED worker
  PROVE  (\A v \in Workers : Untouched(v)) /\ (WorkersType => WorkersType')
BY DEF worker, Untouched, WorkersType

\* The empty copy is a row.
LEMMA NoRowType == NoRow \in Row
BY DEF NoRow, Row

\* The return of a handler, whatever its verdict.  (relay.go dispatch)
LEMMA ReturnKeeps ==
  ASSUME WorkersType, NEW w \in Workers, NEW r, NEW verdict, Return(w, r, verdict)
  PROVE  WorkersType' /\ HandlerInv(w)' /\ OnlyTouches(w)
<1>. USE DEF WorkersType, Return
<1>1. done' \in [Workers -> SUBSET Refs] /\ tried' \in [Workers -> SUBSET Refs]
  OBVIOUS
<1>2. WorkersType'
  BY <1>1, NoRowType
<1>3. HandlerInv(w)'
  BY DEF HandlerInv
<1>4. OnlyTouches(w)
  BY DEF OnlyTouches, Untouched
<1>. QED
  BY <1>2, <1>3, <1>4

\* The end of a batch, by commit or crash.  (relay.go ProcessBatch)
LEMMA ForgetKeeps ==
  ASSUME WorkersType, NEW w \in Workers, ForgetBatch(w)
  PROVE  WorkersType' /\ HandlerInv(w)' /\ OnlyTouches(w)
<1>. USE DEF WorkersType, ForgetBatch
<1>2. WorkersType'
  BY NoRowType
<1>3. HandlerInv(w)'
  BY DEF HandlerInv
<1>4. OnlyTouches(w)
  BY DEF OnlyTouches, Untouched
<1>. QED
  BY <1>2, <1>3, <1>4

\* Faults are counted within their bound.
LEMMA FaultType ==
  ASSUME faults \in 0..MaxFaults, Fault
  PROVE  faults' \in 0..MaxFaults
BY FaultAssumption DEF Fault

-----------------------------------------------------------------------------
(***************************************************************************)
(* The steps of the calls.                                                 *)
(***************************************************************************)
LEMMA AnswerType ==
  ASSUME CallsType, NEW c \in Calls, NEW id \in Calls \cup {NONE}, Answer(c, id)
  PROVE  CallsType'
BY DEF CallsType, Answer

\* Calls that write nothing: they only move themselves.
LEMMA QuietCall ==
  ASSUME IInv, CallsType', UNCHANGED <<tables, bankVars, worker>>, faults' \in 0..MaxFaults
  PROVE  IInv'
<1>1. TypeOK'
  BY WorkerUntouched DEF IInv, TypeOK, TablesType, BankType, tables, bankVars
<1>2. RowInv' /\ RowsGrow
  BY RowsKeep DEF IInv, tables
<1>3. \A v \in Workers : HandlerInv(v)'
  BY <1>2, WorkerUntouched, AllHandlersKeep
<1>4. BankInv'
  BY <1>2, BankKeeps DEF IInv, bankVars
<1>. QED
  BY <1>1, <1>2, <1>3, <1>4 DEF IInv

\* The first look-up writes nothing.  (usecase_request.go Execute)
LEMMA CallFindKeeps == ASSUME IInv, NEW c \in Calls, CallFind(c) PROVE IInv'
<1>1. CallsType'
  <2>1. CASE Stored(AppOf[c]) # {}
    BY <2>1, AnswerType DEF CallFind, IInv, TypeOK, Stored
  <2>2. CASE Stored(AppOf[c]) = {}
    BY <2>2 DEF CallFind, IInv, TypeOK, CallsType
  <2>. QED  BY <2>1, <2>2
<1>. QED
  BY <1>1, QuietCall DEF CallFind, IInv, TypeOK

\* An insert refused as a duplicate writes nothing.
LEMMA CallDuplicateKeeps == ASSUME IInv, NEW c \in Calls, CallDuplicate(c) PROVE IInv'
<1>1. CallsType'
  BY DEF CallDuplicate, IInv, TypeOK, CallsType
<1>. QED
  BY <1>1, QuietCall DEF CallDuplicate, IInv, TypeOK

\* The second look-up writes nothing.
LEMMA CallRefindKeeps == ASSUME IInv, NEW c \in Calls, CallRefind(c) PROVE IInv'
<1>1. CallsType'
  BY AnswerType DEF CallRefind, IInv, TypeOK, Stored
<1>. QED
  BY <1>1, QuietCall DEF CallRefind, IInv, TypeOK

\* A failed call writes nothing.
LEMMA CallFailsKeeps == ASSUME IInv, NEW c \in Calls, CallFails(c) PROVE IInv'
<1>1. CallsType'
  BY AnswerType DEF CallFails, IInv, TypeOK
<1>. QED
  BY <1>1, QuietCall, FaultType DEF CallFails, IInv, TypeOK

\* A new event is a row of the outbox.
LEMMA NewEventType ==
  ASSUME NEW type \in EventType, NEW no \in Keys \cup {NONE}
  PROVE  NewEvent(type, no) \in Event
BY DEF NewEvent, Event

\* The insert stores a transfer under a key of its own, and only if no other row has
\* its app_request_id.
LEMMA CallInsertKeeps == ASSUME IInv, NEW c \in Calls, CallInsert(c) PROVE IInv'
<1>. USE DEF CallInsert
<1>1. Stored(AppOf[c]) = {} /\ ~IsStored(c)
  BY DEF UniqueKey, Stored, IsStored
<1>2. NewTransfer(c) \in Row /\ NewTransfer(c).status = "PENDING" /\ NewTransfer(c).key = c
  BY DEF NewTransfer, Row, Status, Keys
<1>3. transfers' = [transfers EXCEPT ![c] = NewTransfer(c)]
  OBVIOUS
<1>4. TablesType'
  <2>1. NewEvent("TransferRequested", NONE) \in Event
    BY NewEventType DEF EventType
  <2>2. Append(outbox[c], NewEvent("TransferRequested", NONE)) \in Seq(Event)
    BY <2>1, AppendProperties DEF IInv, TypeOK, TablesType
  <2>. QED
    BY <1>2, <1>3, <2>2 DEF IInv, TypeOK, TablesType
<1>5. CallsType' /\ faults' \in 0..MaxFaults
  BY AnswerType, FaultType DEF IInv, TypeOK
<1>6. TypeOK'
  BY <1>4, <1>5, WorkerUntouched DEF IInv, TypeOK, BankType, bankVars
<1>7. RowsGrow
  BY <1>1, <1>3 DEF IInv, TypeOK, TablesType, RowsGrow
<1>8. RowInv'
  <2>1. \A d \in Calls \ {c} : transfers'[d] = transfers[d]
    BY <1>3 DEF IInv, TypeOK, TablesType
  <2>2. transfers'[c] = NewTransfer(c)
    BY <1>3 DEF IInv, TypeOK, TablesType
  <2>3. \A d \in Calls : IsStored(d) => AppOf[d] # AppOf[c]
    BY <1>1 DEF Stored, IsStored
  <2>. QED
    BY <1>2, <2>1, <2>2, <2>3 DEF IInv, RowInv, IsStored
<1>9. \A v \in Workers : HandlerInv(v)'
  BY <1>7, WorkerUntouched, AllHandlersKeep
<1>10. BankInv'
  BY <1>7, BankKeeps DEF IInv, bankVars
<1>. QED
  BY <1>6, <1>8, <1>9, <1>10 DEF IInv

-----------------------------------------------------------------------------
(***************************************************************************)
(* The steps of the relay and the operator.  None of them touches a        *)
(* transfer.                                                               *)
(***************************************************************************)
\* What a worker has sent to the bank belongs to a stored transfer.
LEMMA InFlightGood ==
  ASSUME IInv, NEW w \in Workers, NEW m \in InFlight(w)
  PROVE  m \in [key: Keys, pays: Calls] /\ m.key = m.pays /\ IsStored(m.pays)
<1>1. wpc[w] = "await" /\ m = [key |-> snap[w].key, pays |-> cur[w][1]]
  BY DEF InFlight, RequestKey
<1>2. HoldsCopy(w) /\ cur[w] \in Refs
  BY <1>1 DEF IInv, HandlerInv
<1>. QED
  BY <1>1, <1>2 DEF HoldsCopy, Refs, Keys

\* A step of a worker, or of the bank answering it, that changes no transfer
\* and makes no request but the one in flight known to the bank.
LEMMA QuietStep ==
  ASSUME IInv, NEW w \in Workers, OnlyTouches(w), HandlerInv(w)', WorkersType', BankType',
         TablesType', UNCHANGED <<transfers, api>>, faults' \in 0..MaxFaults,
         late' \cup orders' \subseteq late \cup orders \cup InFlight(w)
  PROVE  IInv'
<1>1. TypeOK'
  BY DEF IInv, TypeOK, CallsType, api
<1>2. RowInv' /\ RowsGrow
  BY RowsKeep DEF IInv
<1>3. \A v \in Workers : HandlerInv(v)'
  BY <1>2, HandlersKeep
<1>4. BankInv'
  BY InFlightGood DEF IInv, BankInv, IsStored
<1>. QED
  BY <1>1, <1>2, <1>3, <1>4 DEF IInv

\* Variables that do not change keep their types.
LEMMA FrameTypes ==
  ASSUME TypeOK
  PROVE  /\ UNCHANGED tables => TablesType'
         /\ UNCHANGED bankVars => BankType'
         /\ UNCHANGED faults => faults' \in 0..MaxFaults
BY DEF TypeOK, TablesType, BankType, tables, bankVars

\* Every row of the outbox has a reference and is an event.
LEMMA RowsAreRefs ==
  ASSUME TypeOK
  PROVE  Rows \subseteq Refs /\ \A r \in Rows : EventAt(r) \in Event
<1>. SUFFICES ASSUME NEW r \in Rows
              PROVE  r \in Refs /\ EventAt(r) \in Event
  OBVIOUS
<1>1. PICK c \in Calls : r \in {<<c, n>> : n \in DOMAIN outbox[c]}
  BY DEF Rows
<1>2. PICK n \in DOMAIN outbox[c] : r = <<c, n>>
  BY <1>1
<1>3. outbox[c] \in Seq(Event)
  BY DEF TypeOK, TablesType
<1>4. n \in Nat \ {0} /\ outbox[c][n] \in Event
  BY <1>2, <1>3, ElementOfSeq, LenProperties
<1>. QED
  BY <1>2, <1>4 DEF Refs, EventAt

\* Locking a batch changes no row.
LEMMA PickKeeps == ASSUME IInv, NEW w \in Workers, Pick(w) PROVE IInv'
<1>. USE DEF Pick
<1>1. PICK rs \in SUBSET Rows : /\ batch' = [batch EXCEPT ![w] = rs]
                                /\ todo' = [todo EXCEPT ![w] = rs]
  OBVIOUS
<1>2. rs \subseteq Refs
  BY RowsAreRefs DEF IInv
<1>3. WorkersType'
  BY <1>1, <1>2 DEF IInv, TypeOK, WorkersType
<1>4. HandlerInv(w)' /\ OnlyTouches(w)
  BY DEF IInv, TypeOK, WorkersType, HandlerInv, OnlyTouches, Untouched
<1>. QED
  BY <1>3, <1>4, QuietStep, FrameTypes DEF IInv, tables, bankVars

\* A row after a failed or a successful attempt is a row.
LEMMA RetriedType ==
  ASSUME NEW e \in Event
  PROVE  Retried(e) \in Event /\ Delivered(e) \in Event
<1>. DEFINE n == e.attempt + 1
<1>1. n \in Nat /\ MaxAttempt \in Nat
  BY AttemptAssumption DEF Event
<1>2. Retried(e) = [e EXCEPT !.attempt = n,
                             !.status = IF n >= MaxAttempt THEN "FAILED" ELSE e.status]
  BY DEF Retried, Event
<1>3. Delivered(e) = [e EXCEPT !.attempt = n, !.status = "SENT"]
  BY DEF Delivered, Event
<1>4. (IF n >= MaxAttempt THEN "FAILED" ELSE e.status) \in {"PENDING", "SENT", "FAILED"}
  BY DEF Event
<1>. HIDE DEF n
<1>. QED
  BY <1>1, <1>2, <1>3, <1>4 DEF Event

\* A row after the commit of a batch is a row.
LEMMA SettleType ==
  ASSUME NEW w \in Workers, NEW r, EventAt(r) \in Event
  PROVE  Settle(w, r) \in Event
<1>1. Retried(EventAt(r)) \in Event /\ Delivered(EventAt(r)) \in Event
  BY RetriedType
<1>. QED
  BY <1>1 DEF Settle

\* The commit of a batch settles outbox rows and touches no transfer.
LEMMA CommitBatchKeeps == ASSUME IInv, NEW w \in Workers, CommitBatch(w) PROVE IInv'
<1>. USE DEF CommitBatch
<1>1. ASSUME NEW c \in Calls
      PROVE  outbox'[c] \in Seq(Event)
  <2>1. outbox[c] \in Seq(Event)
    BY DEF IInv, TypeOK, TablesType
  <2>2. outbox'[c] = [n \in DOMAIN outbox[c] |-> Settle(w, <<c, n>>)]
    OBVIOUS
  <2>3. \A n \in DOMAIN outbox[c] : Settle(w, <<c, n>>) \in Event
    BY <2>1, SettleType, ElementOfSeq, LenProperties DEF EventAt
  <2>. QED
    BY <2>1, <2>2, <2>3, SameLengthSeq
<1>2. TablesType'
  BY <1>1 DEF IInv, TypeOK, TablesType
<1>3. WorkersType' /\ HandlerInv(w)' /\ OnlyTouches(w)
  BY ForgetKeeps DEF IInv, TypeOK
<1>. QED
  BY <1>2, <1>3, QuietStep, FrameTypes DEF IInv, bankVars

\* Without its locks a worker goes on with the copy it has: the invariant does
\* not speak of locks.
LEMMA LoseConnectionKeeps == ASSUME IInv, NEW w \in Workers, LoseConnection(w) PROVE IInv'
<1>. USE DEF LoseConnection
<1>1. WorkersType'
  BY DEF IInv, TypeOK, WorkersType
<1>2. HandlerInv(w)' /\ OnlyTouches(w)
  BY DEF IInv, HandlerInv, HoldsCopy, IsStored, OnlyTouches, Untouched, tables
<1>. QED
  BY <1>1, <1>2, QuietStep, FrameTypes, FaultType DEF IInv, TypeOK, bankVars, tables

\* A lost update of the relay only forgets an outcome.
LEMMA LoseUpdateKeeps ==
  ASSUME IInv, NEW w \in Workers, NEW r, LoseUpdate(w, r) PROVE IInv'
<1>. USE DEF LoseUpdate
<1>1. WorkersType'
  BY DEF IInv, TypeOK, WorkersType
<1>2. HandlerInv(w)' /\ OnlyTouches(w)
  BY DEF IInv, HandlerInv, HoldsCopy, IsStored, OnlyTouches, Untouched, tables
<1>. QED
  BY <1>1, <1>2, QuietStep, FrameTypes, FaultType DEF IInv, TypeOK, bankVars, tables

\* A request that was in flight may arrive late.
LEMMA LateType ==
  ASSUME IInv, NEW w \in Workers, late' = late \cup InFlight(w), UNCHANGED <<orders, bank>>
  PROVE  BankType' /\ late' \cup orders' \subseteq late \cup orders \cup InFlight(w)
BY InFlightGood DEF IInv, TypeOK, BankType

\* A crash forgets the worker; its request may still arrive.
LEMMA CrashKeeps == ASSUME IInv, NEW w \in Workers, Crash(w) PROVE IInv'
<1>. USE DEF Crash
<1>1. WorkersType' /\ HandlerInv(w)' /\ OnlyTouches(w)
  BY ForgetKeeps DEF IInv, TypeOK
<1>. QED
  BY <1>1, QuietStep, LateType, FrameTypes, FaultType DEF IInv, TypeOK, tables

-----------------------------------------------------------------------------
(***************************************************************************)
(* The steps of the two handlers.  Those that only return to the relay are *)
(* of one kind.                                                            *)
(***************************************************************************)
LEMMA ReturnsQuietly ==
  ASSUME IInv, NEW w \in Workers, NEW r, NEW verdict, Return(w, r, verdict),
         UNCHANGED <<tables, api, bankVars>>, faults' \in 0..MaxFaults
  PROVE  IInv'
<1>1. WorkersType' /\ HandlerInv(w)' /\ OnlyTouches(w)
  BY ReturnKeeps DEF IInv, TypeOK
<1>. QED
  BY <1>1, QuietStep, FrameTypes DEF IInv, tables, bankVars

\* The handler reads the transfer: its copy is the stored row.
LEMMA StartSendKeeps ==
  ASSUME IInv, NEW w \in Workers, NEW r \in todo[w], StartSend(w, r) PROVE IInv'
<1>. USE DEF StartSend
<1>1. ASSUME NEW verdict, Return(w, r, verdict), UNCHANGED faults \/ Fault
      PROVE  IInv'
  BY <1>1, ReturnsQuietly, FaultType, FrameTypes DEF IInv, TypeOK
<1>2. CASE /\ transfers[r[1]].status = "PENDING"
           /\ wpc' = [wpc EXCEPT ![w] = "send"]
           /\ cur' = [cur EXCEPT ![w] = r]
           /\ snap' = [snap EXCEPT ![w] = transfers[r[1]]]
           /\ UNCHANGED <<batch, todo, done, tried, resp, faults>>
  <2>1. r \in Refs /\ r[1] \in Calls
    BY DEF IInv, TypeOK, WorkersType, Refs
  <2>2. transfers[r[1]] \in Row
    BY <2>1 DEF IInv, TypeOK, TablesType
  <2>3. WorkersType'
    BY <1>2, <2>1, <2>2 DEF IInv, TypeOK, WorkersType
  <2>4. OnlyTouches(w)
    BY <1>2 DEF IInv, TypeOK, WorkersType, OnlyTouches, Untouched
  <2>5. /\ wpc'[w] = "send" /\ cur'[w] = r /\ snap'[w] = transfers[r[1]]
        /\ resp'[w] = "none"
    BY <1>2 DEF IInv, TypeOK, WorkersType, HandlerInv
  <2>6. HoldsCopy(w)'
    <3>1. transfers[r[1]].key = r[1] /\ transfers[r[1]].version \in Nat
      BY <1>2, <2>1, <2>2 DEF IInv, RowInv, IsStored, Row
    <3>. QED
      BY <1>2, <2>5, <3>1 DEF HoldsCopy, IsStored, tables
  <2>7. HandlerInv(w)'
    BY <1>2, <2>1, <2>5, <2>6 DEF HandlerInv
  <2>. QED
    BY <1>2, <2>3, <2>4, <2>7, QuietStep, FrameTypes DEF IInv, tables, bankVars
<1>. QED
  BY <1>1, <1>2

\* The steps that only move on to the next stage of the same handler.
LEMMA MovesOn ==
  ASSUME IInv, NEW w \in Workers, NEW next \in {"await", "record"}, wpc[w] \in {"send", "await"},
         wpc' = [wpc EXCEPT ![w] = next],
         UNCHANGED <<tables, api, bankVars, batch, todo, done, tried, cur, snap, resp, faults>>
  PROVE  IInv'
<1>1. WorkersType' /\ OnlyTouches(w)
  BY DEF IInv, TypeOK, WorkersType, OnlyTouches, Untouched
<1>2. HandlerInv(w)'
  BY DEF IInv, TypeOK, WorkersType, HandlerInv, HoldsCopy, IsStored, tables
<1>. QED
  BY <1>1, <1>2, QuietStep, FrameTypes DEF IInv, tables, bankVars

\* The request leaves with the key of the copy.
LEMMA CallBankKeeps == ASSUME IInv, NEW w \in Workers, CallBank(w) PROVE IInv'
BY MovesOn DEF CallBank

\* The answer is kept until it is recorded.
LEMMA BankAnswersKeeps == ASSUME IInv, NEW w \in Workers, BankAnswers(w) PROVE IInv'
BY MovesOn DEF BankAnswers

\* A request given up unanswered may still arrive.
LEMMA BankSilentKeeps == ASSUME IInv, NEW w \in Workers, BankSilent(w) PROVE IInv'
<1>. USE DEF BankSilent
<1>1. WorkersType' /\ HandlerInv(w)' /\ OnlyTouches(w)
  BY ReturnKeeps DEF IInv, TypeOK
<1>. QED
  BY <1>1, QuietStep, LateType, FrameTypes DEF IInv, TypeOK, tables

\* A rolled back transaction of the send handler.
LEMMA RecordFailsKeeps == ASSUME IInv, NEW w \in Workers, RecordFails(w) PROVE IInv'
BY ReturnsQuietly, FrameTypes DEF RecordFails, RollBack, IInv, TypeOK

\* A rolled back transaction of the status handler.
LEMMA ApplyFailsKeeps == ASSUME IInv, NEW w \in Workers, ApplyFails(w) PROVE IInv'
BY ReturnsQuietly, FrameTypes DEF ApplyFails, RollBack, IInv, TypeOK

\* The status handler keeps the status it was told.
LEMMA StartCheckKeeps ==
  ASSUME IInv, NEW w \in Workers, NEW r \in todo[w], StartCheck(w, r) PROVE IInv'
<1>. USE DEF StartCheck
<1>1. CASE Return(w, r, "retry")
  BY <1>1, ReturnsQuietly, FrameTypes DEF IInv, TypeOK
<1>2. CASE ~Return(w, r, "retry")
  <2>. DEFINE seen == mapSunabarStatus[bank[EventAt(r).applyNo]]
  <2>1. /\ bank[EventAt(r).applyNo] \in BankWord
        /\ resp' = [resp EXCEPT ![w] = seen]
        /\ cur' = [cur EXCEPT ![w] = r]
        /\ wpc' = [wpc EXCEPT ![w] = "load"]
        /\ UNCHANGED <<batch, todo, done, tried, snap>>
    BY <1>2
  <2>2. seen \in Status /\ r \in Refs
    BY <2>1, WordMeaning DEF IInv, TypeOK, WorkersType
  <2>. HIDE DEF seen
  <2>3. WorkersType' /\ OnlyTouches(w)
    BY <2>1, <2>2 DEF IInv, TypeOK, WorkersType, OnlyTouches, Untouched
  <2>4. HandlerInv(w)'
    BY <2>1, <2>2 DEF IInv, TypeOK, WorkersType, HandlerInv
  <2>. QED
    BY <2>3, <2>4, QuietStep, FrameTypes DEF IInv, TypeOK, tables, bankVars
<1>. QED
  BY <1>1, <1>2

\* It reads the transfer, and goes on only with a legal move from the copy.
LEMMA LoadKeeps == ASSUME IInv, NEW w \in Workers, Load(w) PROVE IInv'
<1>. USE DEF Load
<1>1. ASSUME NEW verdict, Return(w, cur[w], verdict)
      PROVE  IInv'
  BY <1>1, ReturnsQuietly, FrameTypes DEF IInv, TypeOK
<1>2. CASE /\ transfers[cur[w][1]].status # "NONE"
           /\ resp[w] \in validTransitions[transfers[cur[w][1]].status]
           /\ wpc' = [wpc EXCEPT ![w] = "apply"]
           /\ snap' = [snap EXCEPT ![w] = transfers[cur[w][1]]]
           /\ UNCHANGED <<batch, todo, done, tried, cur, resp>>
  <2>1. cur[w] \in Refs /\ cur[w][1] \in Calls /\ resp[w] \in Status
    BY DEF IInv, HandlerInv, Refs
  <2>2. transfers[cur[w][1]] \in Row
    BY <2>1 DEF IInv, TypeOK, TablesType
  <2>3. WorkersType' /\ OnlyTouches(w)
    BY <1>2, <2>2 DEF IInv, TypeOK, WorkersType, OnlyTouches, Untouched
  <2>4. IsStored(cur[w][1])
    BY <1>2 DEF IsStored
  <2>5. /\ wpc'[w] = "apply" /\ snap'[w] = transfers[cur[w][1]]
        /\ cur'[w] = cur[w] /\ resp'[w] = resp[w]
    BY <1>2 DEF IInv, TypeOK, WorkersType
  <2>6. HoldsCopy(w)'
    <3>1. transfers[cur[w][1]].key = cur[w][1] /\ transfers[cur[w][1]].version \in Nat
      BY <2>1, <2>2, <2>4 DEF IInv, RowInv, Row
    <3>. QED
      BY <2>4, <2>5, <3>1 DEF HoldsCopy, IsStored, tables
  <2>7. HandlerInv(w)'
    BY <1>2, <2>1, <2>5, <2>6 DEF HandlerInv
  <2>. QED
    BY <2>3, <2>7, QuietStep, FrameTypes DEF IInv, TypeOK, tables, bankVars
<1>. QED
  BY <1>1, <1>2

-----------------------------------------------------------------------------
(***************************************************************************)
(* The two steps that write a transfer.  The version check makes the copy  *)
(* the handler holds the stored row itself.                                *)
(***************************************************************************)
LEMMA UpdateWrites ==
  ASSUME IInv, NEW w \in Workers, cur[w] \in Refs, HoldsCopy(w),
         NEW new \in Row, new.key = snap[w].key, new.version = snap[w].version,
         new.status \in Status, Update(w, new)
  PROVE  /\ snap[w] = transfers[cur[w][1]]
         /\ transfers' \in [Calls -> Row]
         /\ notices' \in [Calls -> Seq([from: Status, to: Status])]
         /\ RowInv' /\ RowsGrow
         /\ \A c \in Calls \ {cur[w][1]} : transfers'[c] = transfers[c]
         /\ transfers'[cur[w][1]].status = new.status
<1>. DEFINE i == cur[w][1]
            row == [new EXCEPT !.version = @ + 1]
<1>1. i \in Calls /\ transfers[i] \in Row /\ snap[w] \in Row
  BY DEF Refs, IInv, TypeOK, TablesType, WorkersType
<1>2. snap[w] = transfers[i] /\ IsStored(i) /\ transfers[i].key = i
  BY <1>1 DEF Update, Unchanged, HoldsCopy
<1>3. /\ row \in Row /\ row.status = new.status /\ row.key = i
      /\ row.version = transfers[i].version + 1
  BY <1>1, <1>2 DEF Row
<1>4. new.status # "NONE"
  BY DEF Status
<1>. HIDE DEF row
<1>5. transfers' = [transfers EXCEPT ![i] = row]
  BY DEF Update, row
<1>6. transfers' \in [Calls -> Row] /\ transfers'[i] = row
  BY <1>1, <1>3, <1>5 DEF IInv, TypeOK, TablesType
<1>7. \A c \in Calls \ {i} : transfers'[c] = transfers[c]
  BY <1>5 DEF IInv, TypeOK, TablesType
<1>8. RowsGrow
  <2>1. transfers[i].version \in Nat
    BY <1>1 DEF Row
  <2>2. transfers'[i].status # "NONE" /\ transfers'[i].version \in Nat
        /\ transfers'[i].version > transfers[i].version
    BY <1>3, <1>4, <1>6, <2>1
  <2>. QED
    BY <1>7, <2>2 DEF RowsGrow
<1>9. RowInv'
  <2>1. \A c \in Calls : IsStored(c)' = IsStored(c) /\ (IsStored(c)' => transfers'[c].key = c)
    BY <1>2, <1>3, <1>4, <1>6, <1>7 DEF IsStored, IInv, RowInv
  <2>. QED
    BY <2>1 DEF IInv, RowInv
<1>10. notices' \in [Calls -> Seq([from: Status, to: Status])]
  <2>1. snap[w].status \in Status
    BY <1>1, <1>2 DEF IsStored, Row
  <2>2. StateChangeNotice(snap[w].status, new.status) \in Seq([from: Status, to: Status])
    BY <2>1, NoticeType
  <2>3. notices[i] \in Seq([from: Status, to: Status])
    BY <1>1 DEF IInv, TypeOK, TablesType
  <2>4. notices[i] \o StateChangeNotice(snap[w].status, new.status)
          \in Seq([from: Status, to: Status])
    BY <2>2, <2>3, ConcatProperties
  <2>. QED
    BY <2>4 DEF Update, IInv, TypeOK, TablesType
<1>. QED
  BY <1>2, <1>3, <1>6, <1>7, <1>8, <1>9, <1>10

\* After the write the handler returns, and that is all.
LEMMA WritesAndReturns ==
  ASSUME IInv, NEW w \in Workers, NEW r, NEW verdict, Return(w, r, verdict),
         RowInv', RowsGrow, TablesType', UNCHANGED <<api, bankVars>>, faults' \in 0..MaxFaults
  PROVE  IInv'
<1>1. WorkersType' /\ HandlerInv(w)' /\ OnlyTouches(w)
  BY ReturnKeeps DEF IInv, TypeOK
<1>2. TypeOK'
  BY <1>1 DEF IInv, TypeOK, CallsType, BankType, api, bankVars
<1>3. \A v \in Workers : HandlerInv(v)'
  BY <1>1, HandlersKeep
<1>4. BankInv'
  BY BankKeeps DEF IInv, bankVars
<1>. QED
  BY <1>2, <1>3, <1>4 DEF IInv

\* The row that Record writes.
Recorded(w) ==
  IF resp[w] = "accepted"
  THEN [snap[w] EXCEPT !.status = "REQUESTED", !.applyNo = snap[w].key]
  ELSE [snap[w] EXCEPT !.status = "FAILED"]

\* What Record writes is a legal move of the copy, under the same key and version.
LEMMA RecordedType ==
  ASSUME IInv, NEW w \in Workers, wpc[w] = "record"
  PROVE  /\ cur[w] \in Refs /\ HoldsCopy(w) /\ snap[w].status = "PENDING"
         /\ Recorded(w) \in Row
         /\ Recorded(w).key = snap[w].key /\ Recorded(w).version = snap[w].version
         /\ Recorded(w).status \in {"REQUESTED", "FAILED"}
         /\ resp[w] = "accepted" => Recorded(w).applyNo \in Keys
<1>1. cur[w] \in Refs /\ HoldsCopy(w) /\ snap[w].status = "PENDING"
  BY DEF IInv, HandlerInv
<1>2. snap[w] \in Row /\ snap[w].key \in Keys
  BY <1>1 DEF IInv, TypeOK, WorkersType, HoldsCopy, Refs, Keys
<1>. QED
  BY <1>1, <1>2 DEF Recorded, Row, Status

\* Recording the bank's answer: the version check makes the copy the stored row.
LEMMA RecordKeeps == ASSUME IInv, NEW w \in Workers, Record(w) PROVE IInv'
<1>1. /\ wpc[w] = "record"
      /\ Update(w, Recorded(w))
      /\ outbox' = IF resp[w] = "accepted"
                   THEN [outbox EXCEPT ![cur[w][1]] =
                           Append(@, NewEvent("StatusCheck", Recorded(w).applyNo))]
                   ELSE outbox
      /\ \/ Return(w, cur[w], "ok") /\ UNCHANGED faults
         \/ Return(w, cur[w], "retry") /\ Fault
      /\ UNCHANGED <<api, bankVars>>
  BY DEF Record, Recorded
<1>2. cur[w] \in Refs /\ cur[w][1] \in Calls
  BY <1>1, RecordedType DEF Refs
<1>3. /\ transfers' \in [Calls -> Row]
      /\ notices' \in [Calls -> Seq([from: Status, to: Status])]
      /\ RowInv' /\ RowsGrow
  BY <1>1, RecordedType, UpdateWrites DEF Status
<1>4. outbox' \in [Calls -> Seq(Event)]
  <2>1. CASE resp[w] = "accepted"
    <3>1. NewEvent("StatusCheck", Recorded(w).applyNo) \in Event
      BY <1>1, <2>1, RecordedType, NewEventType DEF EventType
    <3>2. Append(outbox[cur[w][1]], NewEvent("StatusCheck", Recorded(w).applyNo)) \in Seq(Event)
      BY <1>2, <3>1, AppendProperties DEF IInv, TypeOK, TablesType
    <3>. QED
      BY <1>1, <2>1, <3>2 DEF IInv, TypeOK, TablesType
  <2>2. CASE resp[w] # "accepted"
    BY <1>1, <2>2 DEF IInv, TypeOK, TablesType
  <2>. QED
    BY <2>1, <2>2
<1>. QED
  BY <1>1, <1>3, <1>4, WritesAndReturns, FaultType DEF TablesType, IInv, TypeOK

\* What Apply writes is a legal move of the copy, under the same key and version.
LEMMA AppliedType ==
  ASSUME IInv, NEW w \in Workers, wpc[w] = "apply"
  PROVE  LET new == [snap[w] EXCEPT !.status = resp[w]]
         IN  /\ cur[w] \in Refs /\ HoldsCopy(w) /\ resp[w] \in validTransitions[snap[w].status]
             /\ new \in Row /\ new.key = snap[w].key /\ new.version = snap[w].version
             /\ new.status \in Status /\ new.status = resp[w]
<1>1. /\ cur[w] \in Refs /\ HoldsCopy(w) /\ resp[w] \in Status
      /\ resp[w] \in validTransitions[snap[w].status]
  BY DEF IInv, HandlerInv
<1>2. snap[w] \in Row
  BY DEF IInv, TypeOK, WorkersType
<1>. QED
  BY <1>1, <1>2 DEF Row

\* Applying an observed status: the version check makes the copy the stored row.
LEMMA ApplyKeeps == ASSUME IInv, NEW w \in Workers, Apply(w) PROVE IInv'
<1>. USE DEF Apply
<1>1. /\ transfers' \in [Calls -> Row]
      /\ notices' \in [Calls -> Seq([from: Status, to: Status])]
      /\ RowInv' /\ RowsGrow
  BY AppliedType, UpdateWrites
<1>. QED
  BY <1>1, WritesAndReturns, FaultType DEF TablesType, IInv, TypeOK

-----------------------------------------------------------------------------
(***************************************************************************)
(* The steps of the bank and of the operator.                              *)
(***************************************************************************)

\* TakeOrder makes at most the order asked for.
LEMMA TakeOrderType ==
  ASSUME BankType, NEW m \in [key: Keys, pays: Calls], TakeOrder(m), UNCHANGED late
  PROVE  BankType' /\ orders' \subseteq orders \cup {m}
BY DEF BankType, TakeOrder, BankWord, mapSunabarStatus

\* The bank takes a request in flight, which carries the stored key.
LEMMA BankDecidesKeeps == ASSUME IInv, NEW w \in Workers, BankDecides(w) PROVE IInv'
<1>. USE DEF BankDecides
<1>1. PICK m \in InFlight(w) : TakeOrder(m) \/ UNCHANGED <<orders, bank>>
  OBVIOUS
<1>2. m \in [key: Keys, pays: Calls]
  BY <1>1, InFlightGood
<1>3. BankType' /\ orders' \subseteq orders \cup InFlight(w)
  BY <1>1, <1>2, TakeOrderType DEF IInv, TypeOK, BankType
<1>4. wpc[w] = "await"
  BY <1>1 DEF InFlight
<1>5. resp' = [resp EXCEPT ![w] = resp'[w]] /\ resp'[w] \in {"accepted", "rejected"}
  BY DEF IInv, TypeOK, WorkersType
<1>6. WorkersType' /\ OnlyTouches(w)
  BY <1>5 DEF IInv, TypeOK, WorkersType, OnlyTouches, Untouched
<1>7. HandlerInv(w)'
  BY <1>4, <1>5 DEF IInv, HandlerInv, HoldsCopy, IsStored, tables
<1>. QED
  BY <1>3, <1>6, <1>7, QuietStep, FrameTypes DEF IInv, TypeOK, tables

\* A step of nobody at work: the workers, the transfers and the calls stand
\* still.
LEMMA OutsideStep ==
  ASSUME IInv, UNCHANGED <<transfers, api, worker>>, TablesType', BankType', BankInv',
         faults' \in 0..MaxFaults
  PROVE  IInv'
<1>1. TypeOK'
  BY WorkerUntouched DEF IInv, TypeOK, CallsType, api
<1>2. RowInv' /\ RowsGrow
  BY RowsKeep DEF IInv
<1>3. \A v \in Workers : HandlerInv(v)'
  BY <1>2, WorkerUntouched, AllHandlersKeep
<1>. QED
  BY <1>1, <1>2, <1>3 DEF IInv

\* The bank takes a late request, which carries the stored key.
LEMMA BankReceivesLateKeeps == ASSUME IInv, NEW m \in late, BankReceivesLate(m) PROVE IInv'
<1>. USE DEF BankReceivesLate
<1>1. m \in [key: Keys, pays: Calls]
  BY DEF IInv, TypeOK, BankType
<1>2. BankType' /\ orders' \subseteq orders \cup {m}
  BY <1>1, TakeOrderType DEF IInv, TypeOK
<1>3. BankInv'
  BY <1>2 DEF IInv, BankInv, IsStored, tables
<1>. QED
  BY <1>2, <1>3, OutsideStep, FrameTypes DEF IInv, TypeOK, tables

\* The bank moves an order by itself.
LEMMA BankMovesKeeps == ASSUME IInv, NEW k \in Keys, BankMoves(k) PROVE IInv'
<1>. USE DEF BankMoves
<1>1. BankType'
  BY DEF IInv, TypeOK, BankType, BankNext, BankWord, mapSunabarStatus
<1>2. BankInv'
  BY DEF IInv, BankInv, IsStored, tables
<1>. QED
  BY <1>1, <1>2, OutsideStep, FrameTypes DEF IInv, TypeOK, tables

\* The emergency stop changes outbox rows only.  (emergency-stop.sh)
LEMMA EmergencyStopKeeps == ASSUME IInv, EmergencyStop PROVE IInv'
<1>. USE DEF EmergencyStop
<1>1. ASSUME NEW c \in Calls
      PROVE  outbox'[c] \in Seq(Event)
  <2>1. outbox[c] \in Seq(Event)
    BY DEF IInv, TypeOK, TablesType
  <2>2. outbox'[c] = [n \in DOMAIN outbox[c] |-> outbox'[c][n]]
    OBVIOUS
  <2>3. ASSUME NEW n \in DOMAIN outbox[c]
        PROVE  outbox'[c][n] \in Event
    <3>1. outbox[c][n] \in Event
      BY <2>1, ElementOfSeq, LenProperties
    <3>2. [outbox[c][n] EXCEPT !.status = "FAILED"] \in Event
      BY <3>1 DEF Event
    <3>3. outbox'[c][n] \in {outbox[c][n], [outbox[c][n] EXCEPT !.status = "FAILED"]}
      OBVIOUS
    <3>. QED
      BY <3>1, <3>2, <3>3
  <2>. QED
    BY <2>1, <2>2, <2>3, SameLengthSeq
<1>2. TablesType'
  BY <1>1 DEF IInv, TypeOK, TablesType
<1>3. BankType' /\ BankInv'
  BY DEF IInv, TypeOK, BankType, BankInv, IsStored, bankVars
<1>. QED
  BY <1>2, <1>3, OutsideStep, FaultType DEF IInv, TypeOK

\* So does the restore of a row.
LEMMA RestoreKeeps == ASSUME IInv, NEW r \in Rows, Restore(r) PROVE IInv'
<1>. USE DEF Restore
<1>1. TablesType'
  <2>1. r \in Refs /\ EventAt(r) \in Event
    BY RowsAreRefs DEF IInv
  <2>2. outbox[r[1]] \in Seq(Event) /\ r[1] \in Calls
    BY <2>1 DEF Refs, IInv, TypeOK, TablesType
  <2>3. [EventAt(r) EXCEPT !.status = "PENDING"] \in Event
    BY <2>1 DEF Event
  <2>4. outbox' = [outbox EXCEPT ![r[1]] =
                     [@ EXCEPT ![r[2]] = [EventAt(r) EXCEPT !.status = "PENDING"]]]
    BY DEF EventAt
  <2>5. r[2] \in 1..Len(outbox[r[1]])
    BY <2>2, LenProperties DEF Rows
  <2>6. [outbox[r[1]] EXCEPT ![r[2]] = [EventAt(r) EXCEPT !.status = "PENDING"]] \in Seq(Event)
    BY <2>2, <2>3, <2>5, ExceptSeq
  <2>. QED
    BY <2>2, <2>4, <2>6 DEF IInv, TypeOK, TablesType
<1>2. BankType' /\ BankInv'
  BY DEF IInv, TypeOK, BankType, BankInv, IsStored, bankVars
<1>. QED
  BY <1>1, <1>2, OutsideStep, FaultType DEF IInv, TypeOK

-----------------------------------------------------------------------------
(***************************************************************************)
(* The invariant, and what follows from it.                                *)
(***************************************************************************)

\* Every step keeps the invariant.
THEOREM StepIInv == IInv /\ [Next]_vars => IInv'
<1>. SUFFICES ASSUME IInv, [Next]_vars PROVE IInv'
  OBVIOUS
<1>1. ASSUME NEW c \in Calls, CallStep(c) PROVE IInv'
  BY <1>1, CallFindKeeps, CallInsertKeeps, CallDuplicateKeeps, CallRefindKeeps, CallFailsKeeps
  DEF CallStep
<1>2. ASSUME NEW w \in Workers, WorkerStep(w) PROVE IInv'
  BY <1>2, PickKeeps, CommitBatchKeeps, StartSendKeeps, StartCheckKeeps, CallBankKeeps,
     BankAnswersKeeps, BankSilentKeeps, RecordKeeps, RecordFailsKeeps, LoadKeeps, ApplyKeeps,
     ApplyFailsKeeps
  DEF WorkerStep
<1>3. ASSUME NEW w \in Workers, WorkerFault(w) PROVE IInv'
  BY <1>3, CrashKeeps, LoseConnectionKeeps, LoseUpdateKeeps DEF WorkerFault
<1>4. CASE UNCHANGED vars
  <2>1. UNCHANGED <<tables, api, bankVars, worker, faults>>
    BY <1>4 DEF vars
  <2>2. CallsType' /\ faults' \in 0..MaxFaults
    BY <2>1 DEF IInv, TypeOK, CallsType, api
  <2>. QED
    BY <2>1, <2>2, QuietCall
<1>. QED
  BY <1>1, <1>2, <1>3, <1>4, BankDecidesKeeps, BankReceivesLateKeeps, BankMovesKeeps,
     EmergencyStopKeeps, RestoreKeeps
  DEF Next

\* Under every interleaving of calls, workers, bank, faults and operator, a
\* handler's copy of a transfer is the stored row or an older version of it.
THEOREM InvariantHolds == Spec => []IInv
<1>. QED
  BY InitIInv, StepIInv, PTL DEF Spec

\* Every variable keeps its type, for any numbers of calls and workers.
THEOREM TypeCorrect == Spec => []TypeOK
<1>1. IInv => TypeOK
  BY DEF IInv
<1>. QED
  BY <1>1, InvariantHolds, PTL

\* One request has one order: an order carries the key of the stored transfer it
\* pays, and one app_request_id has one stored transfer.
LEMMA OrdersApart == IInv => OneOrderPerRequest
<1>. SUFFICES ASSUME IInv, NEW o1 \in orders, NEW o2 \in orders,
                     AppOf[o1.pays] = AppOf[o2.pays]
              PROVE  o1 = o2
  BY DEF OneOrderPerRequest
<1>1. o1 \in [key: Keys, pays: Calls] /\ o2 \in [key: Keys, pays: Calls]
  BY DEF IInv, TypeOK, BankType
<1>2. /\ o1.key = o1.pays /\ IsStored(o1.pays)
      /\ o2.key = o2.pays /\ IsStored(o2.pays)
  BY DEF IInv, BankInv
<1>3. o1.pays = o2.pays
  BY <1>1, <1>2 DEF IInv, RowInv
<1>. QED
  BY <1>1, <1>2, <1>3

\* No client request is paid twice, whatever is retried, crashes or arrives late.
THEOREM NoDoublePayment == Spec => []OneOrderPerRequest
BY OrdersApart, InvariantHolds, PTL

-----------------------------------------------------------------------------
(***************************************************************************)
(* The stored status moves along the transition graph.  Only three steps   *)
(* write a transfer at all.                                                *)
(***************************************************************************)
Moves(c) == transfers[c].status # "NONE" /\ transfers'[c].status # transfers[c].status
Legal == \A c \in Calls : Moves(c) => transfers'[c].status \in validTransitions[transfers[c].status]

\* A step that writes no transfer moves no status.
LEMMA StillIsLegal == ASSUME UNCHANGED transfers PROVE Legal
BY DEF Legal, Moves

\* An insert moves no stored status.
LEMMA InsertIsLegal == ASSUME IInv, NEW c \in Calls, CallInsert(c) PROVE Legal
<1>1. transfers[c].status = "NONE"
  BY DEF CallInsert, UniqueKey, Stored
<1>2. \A d \in Calls \ {c} : transfers'[d] = transfers[d]
  BY DEF CallInsert, IInv, TypeOK, TablesType
<1>. QED
  BY <1>1, <1>2 DEF Legal, Moves

\* The send handler moves a status from PENDING, which the row still has.
LEMMA RecordIsLegal == ASSUME IInv, NEW w \in Workers, Record(w) PROVE Legal
<1>1. wpc[w] = "record" /\ Update(w, Recorded(w))
  BY DEF Record, Recorded
<1>2. /\ snap[w] = transfers[cur[w][1]]
      /\ \A c \in Calls \ {cur[w][1]} : transfers'[c] = transfers[c]
      /\ transfers'[cur[w][1]].status = Recorded(w).status
  BY <1>1, RecordedType, UpdateWrites DEF Status
<1>3. Recorded(w).status \in validTransitions[transfers[cur[w][1]].status]
  BY <1>1, <1>2, RecordedType, PendingMoves
<1>. QED
  BY <1>2, <1>3 DEF Legal, Moves

\* The status handler moves the row from the status it checked the move for.
LEMMA ApplyIsLegal == ASSUME IInv, NEW w \in Workers, Apply(w) PROVE Legal
<1>1. /\ snap[w] = transfers[cur[w][1]]
      /\ \A c \in Calls \ {cur[w][1]} : transfers'[c] = transfers[c]
      /\ transfers'[cur[w][1]].status = resp[w]
  BY AppliedType, UpdateWrites DEF Apply
<1>2. resp[w] \in validTransitions[transfers[cur[w][1]].status]
  BY <1>1, AppliedType DEF Apply
<1>. QED
  BY <1>1, <1>2 DEF Legal, Moves

\* No step moves a status off the graph.
LEMMA StepIsLegal == ASSUME IInv, [Next]_vars PROVE Legal
<1>. USE StillIsLegal DEF tables
<1>1. ASSUME NEW c \in Calls, CallStep(c) PROVE Legal
  BY <1>1, InsertIsLegal DEF CallStep, CallFind, CallDuplicate, CallRefind, CallFails
<1>2. ASSUME NEW w \in Workers, WorkerStep(w) PROVE Legal
  <2>1. CASE Record(w) \/ Apply(w)
    BY <2>1, RecordIsLegal, ApplyIsLegal
  <2>2. CASE ~(Record(w) \/ Apply(w))
    BY <1>2, <2>2 DEF WorkerStep, Pick, CommitBatch, StartSend, StartCheck, CallBank, BankAnswers,
       BankSilent, RecordFails, Load, ApplyFails, RollBack
  <2>. QED
    BY <2>1, <2>2
<1>3. ASSUME NEW w \in Workers, WorkerFault(w) \/ BankDecides(w) PROVE Legal
  BY <1>3 DEF WorkerFault, Crash, LoseConnection, LoseUpdate, BankDecides
<1>4. CASE UNCHANGED vars
  BY <1>4 DEF vars
<1>5. ASSUME \/ \E m \in late : BankReceivesLate(m)
             \/ \E k \in Keys : BankMoves(k)
             \/ EmergencyStop
             \/ \E r \in Rows : Restore(r)
      PROVE  Legal
  BY <1>5 DEF BankReceivesLate, BankMoves, EmergencyStop, Restore
<1>. QED
  BY <1>1, <1>2, <1>3, <1>4, <1>5 DEF Next

\* However stale the copy a handler writes, a stored status only moves along
\* the transition graph and never leaves a terminal status.
THEOREM StatusMovesLegally == Spec => StatusFollowsGraph
<1>1. IInv /\ [Next]_vars =>
        [\A c \in Calls :
           transfers[c].status # "NONE" /\ transfers'[c].status # transfers[c].status
             => transfers'[c].status \in validTransitions[transfers[c].status]]_transfers
  BY StepIsLegal DEF Legal, Moves
<1>. QED
  BY <1>1, InvariantHolds, PTL DEF Spec, StatusFollowsGraph
=============================================================================
