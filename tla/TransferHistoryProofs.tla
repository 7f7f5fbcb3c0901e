----------------------- MODULE TransferHistoryProofs ------------------------
(***************************************************************************)
(* Further proofs about TransferFlow, on top of the invariant that         *)
(* TransferFlowProofs shows: what the calls answer, what the notices tell, *)
(* which rows the outbox holds and when they are done, and that no         *)
(* transfer runs ahead of the bank.  Each part is inductive relative to    *)
(* the parts before it.                                                    *)
(***************************************************************************)
EXTENDS TransferFlowProofs, FiniteSetTheorems

\* Every answered call was answered with a stored transfer of its request.
AnswerInv ==
  \A c \in Calls : reply[c] # NONE => IsStored(reply[c]) /\ AppOf[reply[c]] = AppOf[c]

\* The notices of a stored transfer tell its history; the others have none.
Told(ns, n) == IF n = 0 THEN "PENDING" ELSE ns[n].to

History(ns, status) ==
  /\ \A n \in DOMAIN ns : Leads(Told(ns, n - 1), ns[n].from)
  /\ Leads(Told(ns, Len(ns)), status)

NoticeInv ==
  \A c \in Calls : IF IsStored(c) THEN History(notices[c], transfers[c].status)
                                  ELSE notices[c] = << >>

\* The rows of a transfer: one that sends it, and, once the bank's acceptance
\* is recorded, a second one that asks under its order number.  A transfer
\* without an order number is either new or given up.
JobRows(c) ==
  LET t == transfers[c]
      job == outbox[c]
  IN  /\ IF IsStored(c) THEN Len(job) >= 1 /\ job[1].type = "TransferRequested"
                        ELSE Len(job) = 0 /\ t.applyNo = NONE
      /\ IF t.applyNo = NONE
         THEN Len(job) <= 1
         ELSE /\ t.applyNo = c /\ Len(job) = 2
              /\ job[2].type = "StatusCheck" /\ job[2].applyNo = c
      /\ t.status = "PENDING" => t.applyNo = NONE

JobInv == \A c \in Calls : JobRows(c)

\* The rows a worker has in hand exist, and the row whose handler runs is of the
\* handler's type.
InHand(w) ==
  /\ batch[w] \cup todo[w] \subseteq Rows
  /\ wpc[w] \in {"send", "await", "record"} =>
       cur[w] \in Rows /\ EventAt(cur[w]).type = "TransferRequested"
  /\ wpc[w] \in {"load", "apply"} =>
       cur[w] \in Rows /\ EventAt(cur[w]).type = "StatusCheck"

HandInv == \A w \in Workers : InHand(w)

\* The work of a row is done for good.
Finished(r) ==
  CASE EventAt(r).type = "TransferRequested" -> transfers[r[1]].status # "PENDING"
    [] EventAt(r).type = "StatusCheck" -> IsTerminal(transfers[r[1]].status)

\* What is SENT, and what a worker is about to commit as SENT, is finished.
DoneInv ==
  /\ \A r \in Rows : EventAt(r).status = "SENT" => Finished(r)
  /\ \A w \in Workers : \A r \in done[w] : r \in Rows /\ Finished(r)

\* Orders and status words of the bank go together, and what the code has recorded or
\* a handler is about to record has been reached by the bank.
KnownToBank(k) == bank[k] # "None"

OrdersKnown == \A k \in Keys : KnownToBank(k) <=> [key |-> k, pays |-> k] \in orders

Heard(w) ==
  /\ wpc[w] \in {"await", "record"} /\ resp[w] = "accepted" => KnownToBank(cur[w][1])
  /\ wpc[w] \in {"load", "apply"} =>
       resp[w] \in DOMAIN Reached /\ bank[cur[w][1]] \in Reached[resp[w]]

AheadInv == OrdersKnown /\ NeverAheadOfBank /\ \A w \in Workers : Heard(w)

-----------------------------------------------------------------------------
(***************************************************************************)
(* Who writes what.                                                        *)
(***************************************************************************)

\* Only the insert and the two handlers write the tables transfers and notices.
LEMMA WhoWrites ==
  ASSUME [Next]_vars
  PROVE  \/ UNCHANGED <<transfers, notices>>
         \/ \E c \in Calls : CallInsert(c)
         \/ \E w \in Workers : Record(w) \/ Apply(w)
<1>. USE DEF tables
<1>1. ASSUME NEW c \in Calls, CallStep(c)
      PROVE  CallInsert(c) \/ UNCHANGED <<transfers, notices>>
  BY <1>1 DEF CallStep, CallFind, CallDuplicate, CallRefind, CallFails
<1>2. ASSUME NEW w \in Workers, WorkerStep(w)
      PROVE  Record(w) \/ Apply(w) \/ UNCHANGED <<transfers, notices>>
  BY <1>2 DEF WorkerStep, Pick, CommitBatch, StartSend, StartCheck, CallBank, BankAnswers,
     BankSilent, RecordFails, Load, ApplyFails, RollBack
<1>3. ASSUME NEW w \in Workers, WorkerFault(w) \/ BankDecides(w)
      PROVE  UNCHANGED <<transfers, notices>>
  BY <1>3 DEF WorkerFault, Crash, LoseConnection, LoseUpdate, BankDecides
<1>4. CASE UNCHANGED vars
  BY <1>4 DEF vars
<1>5. ASSUME \/ \E m \in late : BankReceivesLate(m)
             \/ \E k \in Keys : BankMoves(k)
             \/ EmergencyStop
             \/ \E r \in Rows : Restore(r)
      PROVE  UNCHANGED <<transfers, notices>>
  BY <1>5 DEF BankReceivesLate, BankMoves, EmergencyStop, Restore
<1>. QED
  BY <1>1, <1>2, <1>3, <1>4, <1>5 DEF Next

\* The insert writes the row of its own call, which had none.
LEMMA InsertWrites ==
  ASSUME IInv, NEW c \in Calls, CallInsert(c)
  PROVE  /\ ~IsStored(c) /\ Stored(AppOf[c]) = {}
         /\ transfers' = [transfers EXCEPT ![c] = NewTransfer(c)]
         /\ transfers'[c] = NewTransfer(c)
         /\ \A d \in Calls \ {c} : transfers'[d] = transfers[d]
         /\ RowsGrow /\ UNCHANGED notices
<1>1. ~IsStored(c) /\ Stored(AppOf[c]) = {}
  BY DEF CallInsert, UniqueKey, Stored, IsStored
<1>2. transfers' = [transfers EXCEPT ![c] = NewTransfer(c)]
  BY DEF CallInsert
<1>3. transfers'[c] = NewTransfer(c) /\ \A d \in Calls \ {c} : transfers'[d] = transfers[d]
  BY <1>2 DEF IInv, TypeOK, TablesType
<1>. QED
  BY <1>1, <1>2, <1>3 DEF RowsGrow, CallInsert

\* Record moves the stored row of its transfer, which is PENDING, and publishes.
LEMMA RecordWrites ==
  ASSUME IInv, NEW w \in Workers, Record(w)
  PROVE  LET i == cur[w][1]
             new == Recorded(w)
         IN  /\ wpc[w] = "record" /\ cur[w] \in Refs /\ i \in Calls
             /\ snap[w] = transfers[i] /\ transfers[i].status = "PENDING"
             /\ transfers[i].key = i
             /\ new \in Row /\ new.status \in {"REQUESTED", "FAILED"}
             /\ transfers' = [transfers EXCEPT ![i] = [new EXCEPT !.version = @ + 1]]
             /\ transfers'[i].status = new.status
             /\ \A c \in Calls \ {i} : transfers'[c] = transfers[c]
             /\ notices' = [notices EXCEPT ![i] = @ \o StateChangeNotice("PENDING", new.status)]
             /\ RowsGrow
<1>1. wpc[w] = "record" /\ Update(w, Recorded(w))
  BY DEF Record, Recorded
<1>2. /\ cur[w] \in Refs /\ cur[w][1] \in Calls /\ HoldsCopy(w) /\ snap[w].status = "PENDING"
      /\ Recorded(w) \in Row /\ Recorded(w).status \in {"REQUESTED", "FAILED"}
  BY <1>1, RecordedType DEF Refs
<1>3. /\ snap[w] = transfers[cur[w][1]]
      /\ \A c \in Calls \ {cur[w][1]} : transfers'[c] = transfers[c]
      /\ transfers'[cur[w][1]].status = Recorded(w).status
      /\ RowsGrow
  BY <1>1, RecordedType, UpdateWrites DEF Status
<1>4. transfers[cur[w][1]].key = cur[w][1]
  BY <1>2, <1>3 DEF HoldsCopy
<1>. QED
  BY <1>1, <1>2, <1>3, <1>4 DEF Update

\* Apply moves the stored row of its transfer along the graph, and publishes.
LEMMA ApplyWrites ==
  ASSUME IInv, NEW w \in Workers, Apply(w)
  PROVE  LET i == cur[w][1]
         IN  /\ wpc[w] = "apply" /\ cur[w] \in Refs /\ i \in Calls
             /\ snap[w] = transfers[i] /\ IsStored(i)
             /\ resp[w] \in Status /\ resp[w] \in validTransitions[transfers[i].status]
             /\ transfers' = [transfers EXCEPT ![i] =
                                [snap[w] EXCEPT !.status = resp[w], !.version = @ + 1]]
             /\ transfers'[i].status = resp[w]
             /\ \A c \in Calls \ {i} : transfers'[c] = transfers[c]
             /\ notices' = [notices EXCEPT ![i] =
                              @ \o StateChangeNotice(transfers[i].status, resp[w])]
             /\ RowsGrow
<1>. DEFINE new == [snap[w] EXCEPT !.status = resp[w]]
<1>1. wpc[w] = "apply" /\ Update(w, new)
  BY DEF Apply
<1>2. /\ cur[w] \in Refs /\ cur[w][1] \in Calls /\ HoldsCopy(w)
      /\ resp[w] \in validTransitions[snap[w].status] /\ new.status = resp[w]
      /\ resp[w] \in Status
  BY <1>1, AppliedType DEF Refs
<1>3. /\ snap[w] = transfers[cur[w][1]]
      /\ \A c \in Calls \ {cur[w][1]} : transfers'[c] = transfers[c]
      /\ transfers'[cur[w][1]].status = resp[w]
      /\ RowsGrow
  BY <1>1, AppliedType, UpdateWrites
<1>4. [new EXCEPT !.version = @ + 1] = [snap[w] EXCEPT !.status = resp[w], !.version = @ + 1]
  BY DEF IInv, TypeOK, WorkersType, Row
<1>5. IsStored(cur[w][1])
  BY <1>2 DEF HoldsCopy
<1>. HIDE DEF new
<1>6. /\ transfers' = [transfers EXCEPT ![cur[w][1]] = [new EXCEPT !.version = @ + 1]]
      /\ notices' = [notices EXCEPT ![cur[w][1]] = @ \o StateChangeNotice(snap[w].status, resp[w])]
  BY <1>1, <1>2 DEF Update
<1>. QED
  BY <1>1, <1>2, <1>3, <1>4, <1>5, <1>6

\* No step deletes a transfer or lowers a version.
LEMMA StepGrows == ASSUME IInv, [Next]_vars PROVE RowsGrow
<1>1. CASE UNCHANGED transfers
  BY <1>1 DEF RowsGrow
<1>. QED
  BY <1>1, WhoWrites, InsertWrites, RecordWrites, ApplyWrites

-----------------------------------------------------------------------------
(***************************************************************************)
(* What the calls answer.                                                  *)
(***************************************************************************)

\* A step that answers nothing, or answers c with a transfer of its request that is
\* stored by then.
LEMMA AnswersKeep ==
  ASSUME IInv, RowsGrow, AnswerInv, NEW c \in Calls, NEW id \in Calls \cup {NONE},
         UNCHANGED reply \/ Answer(c, id),
         id # NONE => IsStored(id)' /\ AppOf[id] = AppOf[c]
  PROVE  AnswerInv'
<1>1. reply \in [Calls -> Calls \cup {NONE}]
  BY DEF IInv, TypeOK, CallsType
<1>2. \A d \in Calls : reply[d] # NONE =>
        transfers'[reply[d]].status # "NONE" /\ AppOf[reply[d]] = AppOf[d]
  <2>. SUFFICES ASSUME NEW d \in Calls, reply[d] # NONE
                PROVE  transfers'[reply[d]].status # "NONE" /\ AppOf[reply[d]] = AppOf[d]
    OBVIOUS
  <2>1. reply[d] \in Calls /\ IsStored(reply[d]) /\ AppOf[reply[d]] = AppOf[d]
    BY <1>1 DEF AnswerInv
  <2>. QED
    BY <2>1 DEF RowsGrow, IsStored
<1>3. CASE UNCHANGED reply
  BY <1>2, <1>3 DEF AnswerInv, IsStored
<1>4. CASE Answer(c, id)
  <2>1. reply'[c] = id /\ \A d \in Calls \ {c} : reply'[d] = reply[d]
    BY <1>1, <1>4 DEF Answer
  <2>. QED
    BY <1>2, <2>1 DEF AnswerInv, IsStored
<1>. QED
  BY <1>3, <1>4

\* A call answers with what it finds stored, or has stored itself.
LEMMA StepAnswers == ASSUME IInv, AnswerInv, [Next]_vars PROVE AnswerInv'
<1>. USE StepGrows, AnswersKeep, CallsAssumption
<1>1. CASE UNCHANGED reply
  <2>1. CASE Calls = {}
    BY <2>1 DEF AnswerInv
  <2>. QED
    BY <1>1, <2>1
<1>2. ASSUME NEW c \in Calls, CallFind(c) \/ CallRefind(c), ~UNCHANGED reply
      PROVE  AnswerInv'
  <2>1. PICK id \in Stored(AppOf[c]) : Answer(c, id)
    BY <1>2 DEF CallFind, CallRefind
  <2>2. id \in Calls /\ IsStored(id)' /\ AppOf[id] = AppOf[c]
    BY <2>1, StoredStays DEF Stored, IsStored
  <2>. QED
    BY <2>1, <2>2
<1>3. ASSUME NEW c \in Calls, CallInsert(c)
      PROVE  AnswerInv'
  <2>1. transfers'[c] = NewTransfer(c)
    BY <1>3, InsertWrites
  <2>2. IsStored(c)'
    BY <2>1 DEF IsStored, NewTransfer
  <2>. QED
    BY <1>3, <2>2 DEF CallInsert
<1>4. ASSUME NEW c \in Calls, CallFails(c)
      PROVE  AnswerInv'
  BY <1>4 DEF CallFails
<1>5. \/ UNCHANGED reply
      \/ \E c \in Calls : CallFind(c) \/ CallInsert(c) \/ CallRefind(c) \/ CallFails(c)
  <2>1. ASSUME NEW w \in Workers, WorkerStep(w)
        PROVE  UNCHANGED reply
    BY <2>1 DEF WorkerStep, Pick, CommitBatch, StartSend, StartCheck, CallBank, BankAnswers,
       BankSilent, Record, RecordFails, Load, Apply, ApplyFails, RollBack, api
  <2>2. ASSUME NEW w \in Workers, WorkerFault(w) \/ BankDecides(w)
        PROVE  UNCHANGED reply
    BY <2>2 DEF WorkerFault, Crash, LoseConnection, LoseUpdate, BankDecides, api
  <2>3. ASSUME NEW c \in Calls, CallDuplicate(c)
        PROVE  UNCHANGED reply
    BY <2>3 DEF CallDuplicate
  <2>4. CASE UNCHANGED vars
    BY <2>4 DEF vars, api
  <2>. QED
    BY <2>1, <2>2, <2>3, <2>4
    DEF Next, CallStep, BankReceivesLate, BankMoves, EmergencyStop, Restore, api
<1>. QED
  BY <1>1, <1>2, <1>3, <1>4, <1>5

-----------------------------------------------------------------------------
(***************************************************************************)
(* What the notices tell.                                                  *)
(***************************************************************************)
Notices == Seq([from: Status, to: Status])

\* A legal move, with the notice it publishes, continues a history.
LEMMA HistoryGoesOn ==
  ASSUME NEW ns \in Notices, NEW s \in Status, NEW to \in Status, to \in validTransitions[s],
         History(ns, s)
  PROVE  History(ns \o StateChangeNotice(s, to), to)
<1>1. CASE to \in Announced
  <2>. DEFINE new == Append(ns, [from |-> s, to |-> to])
  <2>1. ns \o StateChangeNotice(s, to) = new
    BY <1>1 DEF StateChangeNotice, Notices
  <2>2. /\ DOMAIN new = 1..(Len(ns) + 1) /\ DOMAIN ns = 1..Len(ns) /\ Len(ns) \in Nat
        /\ Len(new) = Len(ns) + 1
        /\ new[Len(ns) + 1] = [from |-> s, to |-> to]
        /\ \A n \in 1..Len(ns) : new[n] = ns[n]
    BY AppendProperties, LenProperties DEF Notices
  <2>. HIDE DEF new
  <2>3. \A n \in 0..Len(ns) : Told(new, n) = Told(ns, n)
    BY <2>2 DEF Told
  <2>4. Told(new, Len(new)) = to
    BY <2>2 DEF Told
  <2>5. ASSUME NEW n \in DOMAIN new
        PROVE  Leads(Told(new, n - 1), new[n].from)
    <3>1. CASE n = Len(ns) + 1
      <4>1. Leads(Told(ns, Len(ns)), s)
        BY DEF History
      <4>2. n - 1 = Len(ns) /\ Told(new, n - 1) = Told(ns, Len(ns)) /\ new[n].from = s
        BY <2>2, <2>3, <3>1
      <4>. QED
        BY <4>1, <4>2
    <3>2. CASE n \in 1..Len(ns)
      <4>1. Leads(Told(ns, n - 1), ns[n].from)
        BY <2>2, <3>2 DEF History
      <4>2. Told(new, n - 1) = Told(ns, n - 1) /\ new[n] = ns[n]
        BY <2>2, <2>3, <3>2
      <4>. QED
        BY <4>1, <4>2
    <3>. QED
      BY <2>2, <3>1, <3>2
  <2>. QED
    BY <2>1, <2>4, <2>5 DEF History, Leads
<1>2. CASE to \notin Announced
  <2>1. to = "APPROVED" /\ s # "APPROVED"
    BY <1>2 DEF Announced, validTransitions, Status
  <2>2. ns \o StateChangeNotice(s, to) = ns
    BY <1>2 DEF StateChangeNotice, Notices
  <2>3. Told(ns, Len(ns)) = s
    BY <2>1 DEF History, Leads
  <2>. QED
    BY <2>1, <2>2, <2>3 DEF History, Leads
<1>. QED
  BY <1>1, <1>2

\* A legal move of one stored transfer that publishes its notice.
LEMMA MoveTells ==
  ASSUME IInv, NoticeInv, NEW i \in Calls, IsStored(i), NEW to \in Status,
         to \in validTransitions[transfers[i].status], transfers'[i].status = to,
         \A c \in Calls \ {i} : transfers'[c] = transfers[c],
         notices' = [notices EXCEPT ![i] = @ \o StateChangeNotice(transfers[i].status, to)]
  PROVE  NoticeInv'
<1>1. notices \in [Calls -> Notices] /\ transfers[i].status \in Status
  BY DEF IInv, TypeOK, TablesType, Notices, Row, IsStored
<1>2. History(notices[i], transfers[i].status)
  BY DEF NoticeInv
<1>3. History(notices'[i], to)
  BY <1>1, <1>2, HistoryGoesOn
<1>4. to # "NONE"
  BY DEF Status
<1>5. \A c \in Calls \ {i} : notices'[c] = notices[c]
  BY <1>1
<1>. QED
  BY <1>3, <1>4, <1>5 DEF NoticeInv, IsStored

\* Every step publishes what it does to a status, and nothing else.
LEMMA StepTells == ASSUME IInv, NoticeInv, [Next]_vars PROVE NoticeInv'
<1>1. CASE UNCHANGED <<transfers, notices>>
  BY <1>1 DEF NoticeInv, IsStored
<1>2. ASSUME NEW c \in Calls, CallInsert(c)
      PROVE  NoticeInv'
  <2>1. /\ ~IsStored(c) /\ transfers'[c] = NewTransfer(c)
        /\ \A d \in Calls \ {c} : transfers'[d] = transfers[d]
        /\ notices' = notices
    BY <1>2, InsertWrites
  <2>2. History(<< >>, "PENDING")
    BY DEF History, Told, Leads
  <2>3. notices[c] = << >> /\ transfers'[c].status = "PENDING"
    BY <2>1 DEF NoticeInv, NewTransfer
  <2>. QED
    BY <2>1, <2>2, <2>3 DEF NoticeInv, IsStored
<1>3. ASSUME NEW w \in Workers, Record(w)
      PROVE  NoticeInv'
  <2>. DEFINE i == cur[w][1]
              to == Recorded(w).status
  <2>1. /\ i \in Calls /\ transfers[i].status = "PENDING" /\ to \in {"REQUESTED", "FAILED"}
        /\ Recorded(w) \in Row
        /\ transfers' = [transfers EXCEPT ![i] = [Recorded(w) EXCEPT !.version = @ + 1]]
        /\ \A c \in Calls \ {i} : transfers'[c] = transfers[c]
        /\ notices' = [notices EXCEPT ![i] = @ \o StateChangeNotice("PENDING", to)]
    BY <1>3, RecordWrites
  <2>2. IsStored(i) /\ to \in Status /\ to \in validTransitions[transfers[i].status]
    BY <2>1, PendingMoves DEF IsStored, Status
  <2>3. transfers'[i].status = to
    BY <2>1 DEF IInv, TypeOK, TablesType, Row
  <2>. HIDE DEF i, to
  <2>. QED
    BY <2>1, <2>2, <2>3, MoveTells
<1>4. ASSUME NEW w \in Workers, Apply(w)
      PROVE  NoticeInv'
  <2>. DEFINE i == cur[w][1]
  <2>1. /\ i \in Calls /\ IsStored(i) /\ snap[w] = transfers[i]
        /\ resp[w] \in Status /\ resp[w] \in validTransitions[transfers[i].status]
        /\ transfers' = [transfers EXCEPT ![i] =
                           [snap[w] EXCEPT !.status = resp[w], !.version = @ + 1]]
        /\ \A c \in Calls \ {i} : transfers'[c] = transfers[c]
        /\ notices' = [notices EXCEPT ![i] = @ \o StateChangeNotice(transfers[i].status, resp[w])]
    BY <1>4, ApplyWrites
  <2>2. transfers'[i].status = resp[w]
    BY <2>1 DEF IInv, TypeOK, TablesType, Row
  <2>. HIDE DEF i
  <2>. QED
    BY <2>1, <2>2, MoveTells
<1>. QED
  BY <1>1, <1>2, <1>3, <1>4, WhoWrites

-----------------------------------------------------------------------------
(***************************************************************************)
(* The rows of the outbox.                                                 *)
(***************************************************************************)

\* Only the insert and Record add rows; the end of a batch and the operator settle
\* the rows there are.
Settles ==
  (\E w \in Workers : CommitBatch(w)) \/ EmergencyStop \/ (\E r \in Rows : Restore(r))

\* Whoever changes the outbox is one of these.
LEMMA WhoQueues ==
  ASSUME [Next]_vars
  PROVE  \/ UNCHANGED outbox
         \/ \E c \in Calls : CallInsert(c)
         \/ \E w \in Workers : Record(w)
         \/ Settles
<1>. USE DEF tables
<1>1. ASSUME NEW c \in Calls, CallStep(c)
      PROVE  CallInsert(c) \/ UNCHANGED outbox
  BY <1>1 DEF CallStep, CallFind, CallDuplicate, CallRefind, CallFails
<1>2. ASSUME NEW w \in Workers, WorkerStep(w)
      PROVE  Record(w) \/ CommitBatch(w) \/ UNCHANGED outbox
  BY <1>2 DEF WorkerStep, Pick, StartSend, StartCheck, CallBank, BankAnswers, BankSilent,
     RecordFails, Load, Apply, ApplyFails, RollBack
<1>3. ASSUME NEW w \in Workers, WorkerFault(w) \/ BankDecides(w)
      PROVE  UNCHANGED outbox
  BY <1>3 DEF WorkerFault, Crash, LoseConnection, LoseUpdate, BankDecides
<1>4. CASE UNCHANGED vars
  BY <1>4 DEF vars
<1>. QED
  BY <1>1, <1>2, <1>3, <1>4 DEF Next, Settles, BankReceivesLate, BankMoves

\* Rows stay, and keep their type and the order number they ask for.
RowsStay ==
  \A c \in Calls : \A n \in DOMAIN outbox[c] :
    /\ n \in DOMAIN outbox'[c]
    /\ outbox'[c][n].type = outbox[c][n].type
    /\ outbox'[c][n].applyNo = outbox[c][n].applyNo

SameLengths == \A c \in Calls : Len(outbox'[c]) = Len(outbox[c])

\* A settled row keeps its type and order number.
LEMMA SettleIsSame ==
  ASSUME NEW w, NEW r, EventAt(r) \in Event
  PROVE  /\ Settle(w, r).type = EventAt(r).type
         /\ Settle(w, r).applyNo = EventAt(r).applyNo
<1>. DEFINE e == EventAt(r)
            n == e.attempt + 1
<1>1. Delivered(e).type = e.type /\ Delivered(e).applyNo = e.applyNo
  BY DEF Delivered, Event
<1>2. Retried(e).type = e.type /\ Retried(e).applyNo = e.applyNo
  <2>1. Retried(e) = [e EXCEPT !.attempt = n,
                               !.status = IF n >= MaxAttempt THEN "FAILED" ELSE e.status]
    BY DEF Retried, Event
  <2>. HIDE DEF n
  <2>. QED
    BY <2>1 DEF Event
<1>. QED
  BY <1>1, <1>2 DEF Settle

\* The outbox of a call is a sequence of events.
LEMMA JobsAreEvents ==
  ASSUME TypeOK, NEW c \in Calls
  PROVE  /\ outbox[c] \in Seq(Event) /\ Len(outbox[c]) \in Nat
         /\ DOMAIN outbox[c] = 1..Len(outbox[c])
         /\ \A n \in DOMAIN outbox[c] : outbox[c][n] \in Event
BY LenProperties, ElementOfSeq DEF TypeOK, TablesType

\* Settling rows adds none and touches no transfer.
LEMMA SettlesInPlace ==
  ASSUME IInv, IInv', Settles
  PROVE  RowsStay /\ SameLengths /\ UNCHANGED transfers
<1>1. \A c \in Calls : /\ outbox[c] \in Seq(Event) /\ outbox'[c] \in Seq(Event)
                       /\ Len(outbox[c]) \in Nat /\ DOMAIN outbox[c] = 1..Len(outbox[c])
                       /\ Len(outbox'[c]) \in Nat /\ DOMAIN outbox'[c] = 1..Len(outbox'[c])
                       /\ \A n \in DOMAIN outbox[c] : outbox[c][n] \in Event
  BY LenProperties, ElementOfSeq DEF IInv, TypeOK, TablesType
<1>2. ASSUME \A c \in Calls : DOMAIN outbox'[c] = DOMAIN outbox[c]
      PROVE  SameLengths
  BY <1>1, <1>2 DEF SameLengths
<1>3. ASSUME NEW w \in Workers, CommitBatch(w)
      PROVE  RowsStay /\ SameLengths /\ UNCHANGED transfers
  <2>1. outbox' = [c \in Calls |-> [n \in DOMAIN outbox[c] |-> Settle(w, <<c, n>>)]]
    BY <1>3 DEF CommitBatch
  <2>2. \A c \in Calls : \A n \in DOMAIN outbox[c] :
          /\ outbox'[c][n].type = outbox[c][n].type
          /\ outbox'[c][n].applyNo = outbox[c][n].applyNo
    BY <1>1, <2>1, SettleIsSame DEF EventAt
  <2>. QED
    BY <1>2, <1>3, <2>1, <2>2 DEF RowsStay, CommitBatch
<1>4. CASE EmergencyStop
  <2>1. \A c \in Calls : outbox'[c] = [n \in DOMAIN outbox[c] |->
                  IF outbox[c][n].status = "PENDING"
                  THEN [outbox[c][n] EXCEPT !.status = "FAILED"] ELSE outbox[c][n]]
    BY <1>4 DEF EmergencyStop
  <2>2. \A c \in Calls : \A n \in DOMAIN outbox[c] :
          /\ outbox'[c][n].type = outbox[c][n].type
          /\ outbox'[c][n].applyNo = outbox[c][n].applyNo
    <3>. SUFFICES ASSUME NEW c \in Calls, NEW n \in DOMAIN outbox[c]
                  PROVE  /\ outbox'[c][n].type = outbox[c][n].type
                         /\ outbox'[c][n].applyNo = outbox[c][n].applyNo
      OBVIOUS
    <3>1. outbox[c][n] \in Event
      BY <1>1
    <3>2. outbox'[c][n] \in {outbox[c][n], [outbox[c][n] EXCEPT !.status = "FAILED"]}
      BY <2>1
    <3>. QED
      BY <3>1, <3>2 DEF Event
  <2>. QED
    BY <1>2, <1>4, <2>1, <2>2 DEF RowsStay, EmergencyStop
<1>5. ASSUME NEW r \in Rows, Restore(r)
      PROVE  RowsStay /\ SameLengths /\ UNCHANGED transfers
  <2>1. /\ outbox' = [outbox EXCEPT ![r[1]][r[2]].status = "PENDING"]
        /\ outbox \in [Calls -> Seq(Event)]
    BY <1>5 DEF Restore, IInv, TypeOK, TablesType
  <2>2. \A c \in Calls : DOMAIN outbox'[c] = DOMAIN outbox[c]
    BY <2>1
  <2>3. \A c \in Calls : \A n \in DOMAIN outbox[c] :
          /\ outbox'[c][n].type = outbox[c][n].type
          /\ outbox'[c][n].applyNo = outbox[c][n].applyNo
    BY <1>1, <2>1 DEF Event
  <2>. QED
    BY <1>2, <1>5, <2>2, <2>3 DEF RowsStay, Restore
<1>. QED
  BY <1>3, <1>4, <1>5 DEF Settles

\* No move leads back to PENDING.
LEMMA NeverBackToPending ==
  ASSUME NEW s \in Status, NEW to \in validTransitions[s]
  PROVE  to \in Status \ {"PENDING"}
BY DEF validTransitions, Status

\* There are no rows at the start.
LEMMA InitJobs == Init => JobInv
BY DEF Init, JobInv, JobRows, NoRow, IsStored

\* The row that Record adds, if the bank has accepted.
LEMMA RecordQueues ==
  ASSUME IInv, JobInv, NEW w \in Workers, Record(w)
  PROVE  LET i == cur[w][1] IN
         /\ i \in Calls /\ transfers[i].status = "PENDING" /\ transfers[i].applyNo = NONE
         /\ Len(outbox[i]) = 1
         /\ transfers'[i].status = (IF resp[w] = "accepted" THEN "REQUESTED" ELSE "FAILED")
         /\ transfers'[i].applyNo = (IF resp[w] = "accepted" THEN i ELSE NONE)
         /\ \A c \in Calls \ {i} : transfers'[c] = transfers[c]
         /\ outbox' = IF resp[w] = "accepted"
                      THEN [outbox EXCEPT ![i] = Append(@, NewEvent("StatusCheck", i))]
                      ELSE outbox
<1>. DEFINE i == cur[w][1]
<1>1. /\ i \in Calls /\ snap[w] = transfers[i] /\ transfers[i].status = "PENDING"
      /\ transfers[i].key = i
      /\ transfers' = [transfers EXCEPT ![i] = [Recorded(w) EXCEPT !.version = @ + 1]]
      /\ \A c \in Calls \ {i} : transfers'[c] = transfers[c]
  BY RecordWrites
<1>2. transfers[i].applyNo = NONE /\ IsStored(i) /\ JobRows(i)
  BY <1>1 DEF JobInv, JobRows, IsStored
<1>3. Len(outbox[i]) = 1
  <2>1. Len(outbox[i]) \in Nat
    BY <1>1, JobsAreEvents DEF IInv
  <2>2. Len(outbox[i]) >= 1 /\ Len(outbox[i]) <= 1
    BY <1>2 DEF JobRows
  <2>3. \A n \in Nat : n >= 1 /\ n <= 1 => n = 1
    OBVIOUS
  <2>. QED
    BY <2>1, <2>2, <2>3
<1>4. transfers[i] \in Row
  BY <1>1 DEF IInv, TypeOK, TablesType
<1>5. CASE resp[w] = "accepted"
  <2>1. Recorded(w) = [transfers[i] EXCEPT !.status = "REQUESTED", !.applyNo = i]
    BY <1>1, <1>5 DEF Recorded
  <2>2. transfers'[i].status = "REQUESTED" /\ transfers'[i].applyNo = i
    BY <1>1, <1>4, <2>1 DEF IInv, TypeOK, TablesType, Row
  <2>3. outbox' = [outbox EXCEPT ![i] = Append(@, NewEvent("StatusCheck", i))]
    BY <1>1, <1>4, <1>5 DEF Record, Row
  <2>. QED
    BY <1>1, <1>2, <1>3, <1>5, <2>2, <2>3
<1>6. CASE resp[w] # "accepted"
  <2>1. Recorded(w) = [transfers[i] EXCEPT !.status = "FAILED"]
    BY <1>1, <1>6 DEF Recorded
  <2>2. transfers'[i].status = "FAILED" /\ transfers'[i].applyNo = NONE
    BY <1>1, <1>2, <1>4, <2>1 DEF IInv, TypeOK, TablesType, Row
  <2>3. outbox' = outbox
    BY <1>6 DEF Record
  <2>. QED
    BY <1>1, <1>2, <1>3, <1>6, <2>2, <2>3
<1>. QED
  BY <1>5, <1>6

\* A row appended to a sequence of events.
LEMMA AppendJob ==
  ASSUME NEW job \in Seq(Event), NEW e \in Event
  PROVE  /\ Len(Append(job, e)) = Len(job) + 1
         /\ DOMAIN Append(job, e) = 1..(Len(job) + 1)
         /\ Append(job, e)[Len(job) + 1] = e
         /\ \A n \in 1..Len(job) : Append(job, e)[n] = job[n]
BY AppendProperties, LenProperties

\* The rows of a transfer follow its life: one comes with it, one with the order number.
LEMMA StepQueues == ASSUME IInv, IInv', JobInv, [Next]_vars PROVE JobInv'
<1>1. CASE UNCHANGED <<transfers, outbox>>
  BY <1>1 DEF JobInv, JobRows, IsStored
<1>2. ASSUME NEW c \in Calls, CallInsert(c)
      PROVE  JobInv'
  <2>. DEFINE e == NewEvent("TransferRequested", NONE)
  <2>1. /\ ~IsStored(c) /\ transfers'[c] = NewTransfer(c)
        /\ \A d \in Calls \ {c} : transfers'[d] = transfers[d]
    BY <1>2, InsertWrites
  <2>2. /\ outbox[c] \in Seq(Event) /\ Len(outbox[c]) = 0
        /\ outbox' = [outbox EXCEPT ![c] = Append(@, e)]
    BY <1>2, <2>1, JobsAreEvents DEF CallInsert, JobInv, JobRows, IInv
  <2>3. e \in Event /\ e.type = "TransferRequested"
    BY NewEventType DEF EventType, NewEvent
  <2>. HIDE DEF e
  <2>4. /\ outbox'[c] = Append(outbox[c], e)
        /\ \A d \in Calls \ {c} : outbox'[d] = outbox[d]
    BY <2>2 DEF IInv, TypeOK, TablesType
  <2>5. Len(outbox'[c]) = 1 /\ outbox'[c][1] = e
    BY <2>2, <2>3, <2>4, AppendJob
  <2>6. transfers'[c].status = "PENDING" /\ transfers'[c].applyNo = NONE
    BY <2>1 DEF NewTransfer
  <2>7. JobRows(c)'
    BY <2>3, <2>5, <2>6 DEF JobRows, IsStored
  <2>8. ASSUME NEW d \in Calls \ {c} PROVE JobRows(d)'
    BY <2>1, <2>4, <2>8 DEF JobInv, JobRows, IsStored
  <2>. QED
    BY <2>7, <2>8 DEF JobInv
<1>3. ASSUME NEW w \in Workers, Record(w)
      PROVE  JobInv'
  <2>0. PICK i \in Calls : i = cur[w][1]
    BY <1>3, RecordWrites
  <2>. DEFINE e == NewEvent("StatusCheck", i)
  <2>1. /\ transfers[i].status = "PENDING" /\ transfers[i].applyNo = NONE
        /\ Len(outbox[i]) = 1
        /\ transfers'[i].status = (IF resp[w] = "accepted" THEN "REQUESTED" ELSE "FAILED")
        /\ transfers'[i].applyNo = (IF resp[w] = "accepted" THEN i ELSE NONE)
        /\ \A c \in Calls \ {i} : transfers'[c] = transfers[c]
        /\ outbox' = IF resp[w] = "accepted" THEN [outbox EXCEPT ![i] = Append(@, e)] ELSE outbox
    BY <1>3, <2>0, RecordQueues
  <2>2. e \in Event /\ e.type = "StatusCheck" /\ e.applyNo = i /\ i # NONE
    BY NewEventType, CallsAssumption DEF EventType, NewEvent, Keys
  <2>. HIDE DEF e
  <2>3. /\ outbox[i] \in Seq(Event) /\ outbox[i][1].type = "TransferRequested"
        /\ \A c \in Calls \ {i} : outbox'[c] = outbox[c]
    BY <2>1, JobsAreEvents DEF JobInv, JobRows, IsStored, IInv, TypeOK, TablesType
  <2>4. JobRows(i)'
    <3>1. CASE resp[w] = "accepted"
      <4>1. outbox'[i] = Append(outbox[i], e)
        BY <2>1, <3>1 DEF IInv, TypeOK, TablesType
      <4>2. Len(outbox'[i]) = 2 /\ outbox'[i][1] = outbox[i][1] /\ outbox'[i][2] = e
        BY <2>1, <2>2, <2>3, <4>1, AppendJob
      <4>. QED
        BY <2>1, <2>2, <2>3, <3>1, <4>2 DEF JobRows, IsStored
    <3>2. CASE resp[w] # "accepted"
      <4>1. outbox'[i] = outbox[i] /\ Len(outbox'[i]) = 1
        BY <2>1, <3>2
      <4>2. Len(outbox'[i]) >= 1 /\ Len(outbox'[i]) <= 1
        BY <4>1
      <4>. QED
        BY <2>1, <2>3, <3>2, <4>1, <4>2 DEF JobRows, IsStored
    <3>. QED
      BY <3>1, <3>2
  <2>5. ASSUME NEW d \in Calls \ {i} PROVE JobRows(d)'
    BY <2>1, <2>3, <2>5 DEF JobInv, JobRows, IsStored
  <2>. QED
    BY <2>4, <2>5 DEF JobInv
<1>4. ASSUME NEW w \in Workers, Apply(w)
      PROVE  JobInv'
  <2>0. PICK i \in Calls : i = cur[w][1]
    BY <1>4, ApplyWrites
  <2>1. /\ IsStored(i) /\ snap[w] = transfers[i]
        /\ resp[w] \in validTransitions[transfers[i].status]
        /\ transfers' = [transfers EXCEPT ![i] =
                           [snap[w] EXCEPT !.status = resp[w], !.version = @ + 1]]
        /\ \A c \in Calls \ {i} : transfers'[c] = transfers[c]
        /\ outbox' = outbox
    BY <1>4, <2>0, ApplyWrites DEF Apply
  <2>2. transfers[i] \in Row /\ transfers[i].status \in Status
    BY <2>1 DEF IInv, TypeOK, TablesType, Row, IsStored
  <2>3. transfers'[i].status = resp[w] /\ transfers'[i].applyNo = transfers[i].applyNo
    BY <2>1, <2>2 DEF IInv, TypeOK, TablesType, Row
  <2>4. resp[w] \in Status \ {"PENDING"}
    BY <2>1, <2>2, NeverBackToPending
  <2>5. JobRows(i)'
    BY <2>1, <2>3, <2>4 DEF JobInv, JobRows, IsStored, Status
  <2>6. ASSUME NEW d \in Calls \ {i} PROVE JobRows(d)'
    BY <2>1, <2>6 DEF JobInv, JobRows, IsStored
  <2>. QED
    BY <2>5, <2>6 DEF JobInv
<1>5. CASE Settles
  <2>1. RowsStay /\ SameLengths /\ UNCHANGED transfers
    BY <1>5, SettlesInPlace
  <2>2. ASSUME NEW c \in Calls PROVE JobRows(c)'
    <3>1. /\ JobRows(c) /\ DOMAIN outbox[c] = 1..Len(outbox[c]) /\ Len(outbox[c]) \in Nat
          /\ Len(outbox'[c]) = Len(outbox[c])
      BY <2>1, JobsAreEvents DEF IInv, JobInv, SameLengths
    <3>2. \A n \in 1..Len(outbox[c]) : /\ outbox'[c][n].type = outbox[c][n].type
                                       /\ outbox'[c][n].applyNo = outbox[c][n].applyNo
      BY <2>1, <3>1 DEF RowsStay
    <3>. QED
      BY <2>1, <3>1, <3>2 DEF JobRows, IsStored
  <2>. QED
    BY <2>2 DEF JobInv
<1>. QED
  BY <1>1, <1>2, <1>3, <1>4, <1>5, WhoWrites, WhoQueues

\* What JobRows says of the rows by their type.
LEMMA JobsOf ==
  ASSUME IInv, JobInv, NEW c \in Calls
  PROVE  /\ Jobs(c, "TransferRequested") = IF IsStored(c) THEN {1} ELSE {}
         /\ Jobs(c, "StatusCheck") = IF transfers[c].applyNo = NONE THEN {} ELSE {2}
<1>1. /\ JobRows(c) /\ Len(outbox[c]) \in Nat /\ DOMAIN outbox[c] = 1..Len(outbox[c])
  BY JobsAreEvents DEF IInv, JobInv
<1>. QED
  BY <1>1 DEF Jobs, JobRows

-----------------------------------------------------------------------------
(***************************************************************************)
(* What the workers have in hand.                                          *)
(***************************************************************************)

\* No step removes a row of the outbox or makes it another one.
LEMMA StepStays == ASSUME IInv, IInv', [Next]_vars PROVE RowsStay
<1>1. CASE UNCHANGED outbox
  BY <1>1 DEF RowsStay
<1>2. ASSUME NEW i \in Calls, NEW e \in Event, outbox' = [outbox EXCEPT ![i] = Append(@, e)]
      PROVE  RowsStay
  <2>1. /\ \A c \in Calls : /\ outbox[c] \in Seq(Event) /\ Len(outbox[c]) \in Nat
                            /\ DOMAIN outbox[c] = 1..Len(outbox[c])
        /\ outbox'[i] = Append(outbox[i], e)
        /\ \A c \in Calls \ {i} : outbox'[c] = outbox[c]
    BY <1>2, JobsAreEvents DEF IInv, TypeOK, TablesType
  <2>2. \A n \in DOMAIN outbox[i] : n \in DOMAIN outbox'[i] /\ outbox'[i][n] = outbox[i][n]
    BY <2>1, AppendJob
  <2>. QED
    BY <2>1, <2>2 DEF RowsStay
<1>3. ASSUME NEW c \in Calls, CallInsert(c)
      PROVE  RowsStay
  BY <1>2, <1>3, NewEventType DEF CallInsert, EventType
<1>4. ASSUME NEW w \in Workers, Record(w), ~UNCHANGED outbox
      PROVE  RowsStay
  <2>1. /\ outbox' = [outbox EXCEPT ![cur[w][1]] =
                        Append(@, NewEvent("StatusCheck", Recorded(w).applyNo))]
        /\ resp[w] = "accepted" /\ wpc[w] = "record"
    BY <1>4 DEF Record, Recorded
  <2>2. NewEvent("StatusCheck", Recorded(w).applyNo) \in Event /\ cur[w][1] \in Calls
    BY <2>1, RecordedType, NewEventType DEF EventType, Refs
  <2>. QED
    BY <1>2, <2>1, <2>2
<1>. QED
  BY <1>1, <1>3, <1>4, WhoQueues, SettlesInPlace

\* A row that exists goes on to exist with its type.
LEMMA RowStays ==
  ASSUME RowsStay, NEW r \in Rows
  PROVE  r \in Rows' /\ outbox'[r[1]][r[2]].type = EventAt(r).type
BY DEF RowsStay, Rows, EventAt

\* No row is deleted.
LEMMA RowsGrowOn == ASSUME RowsStay PROVE Rows \subseteq Rows'
BY DEF RowsStay, Rows

\* A step that leaves worker v alone.
Apart(v) ==
  /\ Untouched(v)
  /\ batch'[v] = batch[v] /\ todo'[v] = todo[v] /\ done'[v] = done[v]

\* What a worker that a step leaves alone has in hand is in hand after it.
LEMMA ApartHands ==
  ASSUME RowsStay, NEW v \in Workers, InHand(v), Apart(v)
  PROVE  InHand(v)'
<1>1. Rows \subseteq Rows' /\ \A r \in Rows : outbox'[r[1]][r[2]].type = EventAt(r).type
  BY RowStays
<1>2. wpc'[v] = wpc[v] /\ cur'[v] = cur[v] /\ batch'[v] = batch[v] /\ todo'[v] = todo[v]
  BY DEF Apart, Untouched
<1>. QED
  BY <1>1, <1>2 DEF InHand, EventAt

\* Only w changes what it has in hand.
AllApartFrom(w) == \A v \in Workers \ {w} : Apart(v)

\* A step of worker w keeps what the others have in hand.
LEMMA HandsKeep ==
  ASSUME RowsStay, HandInv, NEW w \in Workers, AllApartFrom(w), InHand(w)'
  PROVE  HandInv'
BY ApartHands DEF HandInv, AllApartFrom

\* A handler that returns keeps the batch, and has no row in hand of its own.
LEMMA ReturnHands ==
  ASSUME IInv, RowsStay, HandInv, NEW w \in Workers, NEW r, NEW verdict, Return(w, r, verdict)
  PROVE  HandInv' /\ AllApartFrom(w)
<1>1. /\ wpc'[w] = "dispatch" /\ batch'[w] = batch[w] /\ todo'[w] \subseteq todo[w]
      /\ AllApartFrom(w)
  BY DEF IInv, TypeOK, WorkersType, Return, AllApartFrom, Apart, Untouched
<1>2. InHand(w)'
  BY <1>1, RowsGrowOn DEF HandInv, InHand
<1>. QED
  BY <1>1, <1>2, HandsKeep

\* A worker whose transaction has ended has nothing in hand.
LEMMA ForgetHands ==
  ASSUME IInv, RowsStay, HandInv, NEW w \in Workers, ForgetBatch(w)
  PROVE  HandInv' /\ AllApartFrom(w)
<1>1. wpc'[w] = "idle" /\ batch'[w] = {} /\ todo'[w] = {} /\ AllApartFrom(w)
  BY DEF IInv, TypeOK, WorkersType, ForgetBatch, AllApartFrom, Apart, Untouched
<1>2. InHand(w)'
  BY <1>1 DEF InHand
<1>. QED
  BY <1>1, <1>2, HandsKeep

\* A handler that goes on keeps its row, or takes one of its batch of the right type.
LEMMA GoesOnHands ==
  ASSUME IInv, RowsStay, HandInv, NEW w \in Workers, NEW r \in Rows,
         NEW next \in {"send", "await", "record", "load", "apply"},
         wpc' = [wpc EXCEPT ![w] = next], cur' = [cur EXCEPT ![w] = r],
         \A v \in Workers \ {w} : snap'[v] = snap[v] /\ resp'[v] = resp[v],
         UNCHANGED <<batch, todo, done>>,
         EventAt(r).type = (IF next \in {"load", "apply"} THEN "StatusCheck"
                                                          ELSE "TransferRequested")
  PROVE  HandInv'
<1>1. /\ wpc'[w] = next /\ cur'[w] = r /\ batch'[w] = batch[w] /\ todo'[w] = todo[w]
      /\ AllApartFrom(w)
  BY DEF IInv, TypeOK, WorkersType, AllApartFrom, Apart, Untouched
<1>2. Rows \subseteq Rows' /\ outbox'[r[1]][r[2]].type = EventAt(r).type
  BY RowStays
<1>3. InHand(w)'
  BY <1>1, <1>2 DEF HandInv, InHand, EventAt
<1>. QED
  BY <1>1, <1>3, HandsKeep

\* Nobody has anything in hand at the start.
LEMMA InitHands == Init => HandInv
BY DEF Init, HandInv, InHand

\* Whatever changes what a worker has in hand, from the batch query on.
LEMMA StepHands == ASSUME IInv, IInv', HandInv, [Next]_vars PROVE HandInv'
<1>0. RowsStay
  BY StepStays
<1>. USE <1>0
<1>1. CASE UNCHANGED worker
  <2>1. \A v \in Workers : Apart(v)
    BY <1>1 DEF worker, Apart, Untouched
  <2>. QED
    BY <2>1, ApartHands DEF HandInv
<1>2. ASSUME NEW w \in Workers, \/ Pick(w) \/ LoseConnection(w) \/ \E r \in batch[w] : LoseUpdate(w, r)
                                \/ BankDecides(w)
      PROVE  HandInv'
  <2>1. AllApartFrom(w)
    BY <1>2 DEF IInv, TypeOK, WorkersType, AllApartFrom, Apart, Untouched, Pick, LoseConnection,
       LoseUpdate, BankDecides
  <2>2. CASE Pick(w)
    <3>1. wpc'[w] = "dispatch" /\ batch'[w] \subseteq Rows /\ todo'[w] \subseteq Rows
      BY <2>2 DEF Pick, IInv, TypeOK, WorkersType
    <3>2. InHand(w)'
      BY <3>1, RowsGrowOn DEF InHand
    <3>. QED
      BY <2>1, <3>2, HandsKeep
  <2>3. CASE ~Pick(w)
    <3>1. /\ wpc'[w] = wpc[w] /\ cur'[w] = cur[w] /\ todo'[w] = todo[w]
          /\ batch'[w] \subseteq batch[w]
      BY <1>2, <2>3 DEF IInv, TypeOK, WorkersType, LoseConnection, LoseUpdate, BankDecides
    <3>2. Rows \subseteq Rows' /\ \A r \in Rows : outbox'[r[1]][r[2]].type = EventAt(r).type
      BY RowStays
    <3>3. InHand(w)'
      BY <3>1, <3>2 DEF HandInv, InHand, EventAt
    <3>. QED
      BY <2>1, <3>3, HandsKeep
  <2>. QED
    BY <2>2, <2>3
<1>3. ASSUME NEW w \in Workers, CommitBatch(w) \/ Crash(w)
      PROVE  HandInv'
  BY <1>3, ForgetHands DEF CommitBatch, Crash
<1>4. ASSUME NEW w \in Workers, NEW r, NEW verdict, Return(w, r, verdict)
      PROVE  HandInv'
  BY <1>4, ReturnHands
<1>5. ASSUME NEW w \in Workers, BankSilent(w) \/ Record(w) \/ RecordFails(w) \/ Apply(w) \/ ApplyFails(w)
      PROVE  HandInv'
  BY <1>4, <1>5 DEF BankSilent, Record, RecordFails, Apply, ApplyFails, RollBack
<1>6. ASSUME NEW w \in Workers, NEW r \in todo[w], StartSend(w, r) \/ StartCheck(w, r)
      PROVE  HandInv'
  <2>1. r \in Rows
    BY DEF HandInv, InHand
  <2>2. CASE \E verdict \in {"ok", "retry", "skip"} : Return(w, r, verdict)
    BY <1>4, <2>2
  <2>3. CASE StartSend(w, r) /\ ~ \E verdict \in {"ok", "retry", "skip"} : Return(w, r, verdict)
    <3>1. /\ wpc' = [wpc EXCEPT ![w] = "send"] /\ cur' = [cur EXCEPT ![w] = r]
          /\ snap' = [snap EXCEPT ![w] = transfers[r[1]]]
          /\ EventAt(r).type = "TransferRequested"
          /\ UNCHANGED <<batch, todo, done, tried, resp, faults>>
      BY <2>3 DEF StartSend
    <3>2. \A v \in Workers \ {w} : snap'[v] = snap[v] /\ resp'[v] = resp[v]
      BY <3>1 DEF IInv, TypeOK, WorkersType
    <3>. QED
      BY <2>1, <3>1, <3>2, GoesOnHands
  <2>4. CASE StartCheck(w, r) /\ ~ \E verdict \in {"ok", "retry", "skip"} : Return(w, r, verdict)
    <3>1. /\ wpc' = [wpc EXCEPT ![w] = "load"] /\ cur' = [cur EXCEPT ![w] = r]
          /\ resp' = [resp EXCEPT ![w] = mapSunabarStatus[bank[EventAt(r).applyNo]]]
          /\ EventAt(r).type = "StatusCheck"
          /\ UNCHANGED <<batch, todo, done, tried, snap>>
      BY <2>4 DEF StartCheck
    <3>2. \A v \in Workers \ {w} : snap'[v] = snap[v] /\ resp'[v] = resp[v]
      BY <3>1 DEF IInv, TypeOK, WorkersType
    <3>. QED
      BY <2>1, <3>1, <3>2, GoesOnHands
  <2>. QED
    BY <1>6, <2>2, <2>3, <2>4
<1>7. ASSUME NEW w \in Workers, CallBank(w) \/ BankAnswers(w) \/ Load(w)
      PROVE  HandInv'
  <2>1. CASE \E verdict \in {"ok", "retry"} : Return(w, cur[w], verdict)
    BY <1>4, <2>1
  <2>2. CASE CallBank(w) \/ BankAnswers(w)
    <3>1. PICK next \in {"await", "record"} : wpc' = [wpc EXCEPT ![w] = next]
      BY <2>2 DEF CallBank, BankAnswers
    <3>2. /\ wpc[w] \in {"send", "await"} /\ cur' = [cur EXCEPT ![w] = cur[w]]
          /\ UNCHANGED <<batch, todo, done, snap, resp>>
      BY <2>2 DEF CallBank, BankAnswers, IInv, TypeOK, WorkersType
    <3>3. cur[w] \in Rows /\ EventAt(cur[w]).type = "TransferRequested"
      BY <3>2 DEF HandInv, InHand
    <3>. QED
      BY <3>1, <3>2, <3>3, GoesOnHands
  <2>3. CASE Load(w) /\ ~ \E verdict \in {"ok", "retry"} : Return(w, cur[w], verdict)
    <3>1. /\ wpc[w] = "load" /\ wpc' = [wpc EXCEPT ![w] = "apply"]
          /\ snap' = [snap EXCEPT ![w] = transfers[cur[w][1]]]
          /\ UNCHANGED <<batch, todo, done, tried, cur, resp>>
      BY <2>3 DEF Load
    <3>2. /\ cur' = [cur EXCEPT ![w] = cur[w]]
          /\ \A v \in Workers \ {w} : snap'[v] = snap[v] /\ resp'[v] = resp[v]
      BY <3>1 DEF IInv, TypeOK, WorkersType
    <3>3. cur[w] \in Rows /\ EventAt(cur[w]).type = "StatusCheck"
      BY <3>1 DEF HandInv, InHand
    <3>. QED
      BY <3>1, <3>2, <3>3, GoesOnHands
  <2>. QED
    BY <1>7, <2>1, <2>2, <2>3
<1>8. ASSUME NEW w \in Workers, WorkerStep(w) \/ WorkerFault(w) \/ BankDecides(w)
      PROVE  HandInv'
  BY <1>2, <1>3, <1>5, <1>6, <1>7, <1>8 DEF WorkerStep, WorkerFault
<1>9. ASSUME \/ \E c \in Calls : CallStep(c)
             \/ \E m \in late : BankReceivesLate(m)
             \/ \E k \in Keys : BankMoves(k)
             \/ EmergencyStop
             \/ \E r \in Rows : Restore(r)
             \/ UNCHANGED vars
      PROVE  UNCHANGED worker
  BY <1>9 DEF CallStep, CallFind, CallInsert, CallDuplicate, CallRefind, CallFails,
     BankReceivesLate, BankMoves, EmergencyStop, Restore, vars, worker
<1>. QED
  BY <1>1, <1>8, <1>9 DEF Next

-----------------------------------------------------------------------------
(***************************************************************************)
(* What is done.                                                           *)
(***************************************************************************)

\* A row belongs to a stored transfer.
LEMMA RowsAreStored ==
  ASSUME IInv, JobInv, NEW r \in Rows
  PROVE  /\ r[1] \in Calls /\ IsStored(r[1]) /\ transfers[r[1]].status \in Status
         /\ EventAt(r).type \in EventType
<1>1. PICK c \in Calls : \E n \in DOMAIN outbox[c] : r = <<c, n>>
  BY DEF Rows
<1>2. PICK n \in DOMAIN outbox[c] : r = <<c, n>>
  BY <1>1
<1>3. JobRows(c) /\ n \in 1..Len(outbox[c]) /\ Len(outbox[c]) \in Nat /\ outbox[c][n] \in Event
  BY JobsAreEvents DEF IInv, JobInv
<1>4. IsStored(c)
  BY <1>3 DEF JobRows
<1>. QED
  BY <1>2, <1>3, <1>4 DEF IInv, TypeOK, TablesType, Row, IsStored, EventAt, Event

\* What is finished stays finished: a status never returns to PENDING and never
\* leaves a terminal one.
LEMMA FinishedStays ==
  ASSUME IInv, JobInv, RowsStay, Legal, NEW r \in Rows, Finished(r)
  PROVE  Finished(r)'
<1>1. /\ r[1] \in Calls /\ IsStored(r[1]) /\ transfers[r[1]].status \in Status
      /\ EventAt(r).type \in EventType
  BY RowsAreStored
<1>2. outbox'[r[1]][r[2]].type = EventAt(r).type
  BY RowStays
<1>3. \/ transfers'[r[1]].status = transfers[r[1]].status
      \/ transfers'[r[1]].status \in validTransitions[transfers[r[1]].status]
  BY <1>1 DEF Legal, Moves, IsStored
<1>4. transfers[r[1]].status # "PENDING" => transfers'[r[1]].status # "PENDING"
  BY <1>1, <1>3, NeverBackToPending
<1>5. IsTerminal(transfers[r[1]].status) => IsTerminal(transfers'[r[1]].status)
  BY <1>1, <1>3 DEF validTransitions, IsTerminal
<1>. QED
  BY <1>1, <1>2, <1>4, <1>5 DEF Finished, EventAt, EventType

\* Only the end of a batch makes a row SENT, and only one that the batch counts as done.
LEMMA WhoSends ==
  ASSUME IInv, IInv', [Next]_vars, NEW r \in Rows', outbox'[r[1]][r[2]].status = "SENT"
  PROVE  r \in Rows /\ (EventAt(r).status = "SENT" \/ \E w \in Workers : r \in done[w])
<1>c. PICK c \in Calls : \E n \in DOMAIN outbox'[c] : r = <<c, n>>
  BY DEF Rows
<1>n. PICK n \in DOMAIN outbox'[c] : r = <<c, n>>
  BY <1>c
<1>1. /\ outbox[c] \in Seq(Event) /\ Len(outbox[c]) \in Nat
      /\ DOMAIN outbox[c] = 1..Len(outbox[c])
      /\ \A m \in DOMAIN outbox[c] : outbox[c][m] \in Event
      /\ outbox'[c][n].status = "SENT"
  BY <1>n, JobsAreEvents DEF IInv
<1>. SUFFICES /\ n \in DOMAIN outbox[c]
              /\ outbox[c][n].status = "SENT" \/ \E w \in Workers : <<c, n>> \in done[w]
  BY <1>n DEF Rows, EventAt
<1>2. CASE UNCHANGED outbox
  BY <1>1, <1>2
<1>3. ASSUME NEW i \in Calls, NEW e \in Event, e.status = "PENDING",
             outbox' = [outbox EXCEPT ![i] = Append(@, e)]
      PROVE  n \in DOMAIN outbox[c] /\ outbox[c][n].status = "SENT"
  <2>1. CASE c # i
    BY <1>1, <1>3, <2>1 DEF IInv, TypeOK, TablesType
  <2>2. CASE c = i
    <3>1. outbox'[c] = Append(outbox[c], e)
      BY <1>3, <2>2 DEF IInv, TypeOK, TablesType
    <3>2. n \in 1..(Len(outbox[c]) + 1) /\ n # Len(outbox[c]) + 1
      BY <1>1, <1>3, <3>1, AppendJob
    <3>3. n \in 1..Len(outbox[c])
      BY <1>1, <3>2
    <3>. QED
      BY <1>1, <1>3, <3>1, <3>3, AppendJob
  <2>. QED
    BY <2>1, <2>2
<1>4. CASE \E d \in Calls : CallInsert(d)
  <2>1. PICK d \in Calls : CallInsert(d)
    BY <1>4
  <2>2. /\ NewEvent("TransferRequested", NONE) \in Event
        /\ NewEvent("TransferRequested", NONE).status = "PENDING"
    BY NewEventType DEF EventType, NewEvent
  <2>. QED
    BY <1>3, <2>1, <2>2 DEF CallInsert
<1>5. ASSUME NEW w \in Workers, Record(w), ~UNCHANGED outbox
      PROVE  n \in DOMAIN outbox[c] /\ outbox[c][n].status = "SENT"
  <2>1. /\ outbox' = [outbox EXCEPT ![cur[w][1]] =
                        Append(@, NewEvent("StatusCheck", Recorded(w).applyNo))]
        /\ resp[w] = "accepted" /\ wpc[w] = "record"
    BY <1>5 DEF Record, Recorded
  <2>2. /\ NewEvent("StatusCheck", Recorded(w).applyNo) \in Event /\ cur[w][1] \in Calls
        /\ NewEvent("StatusCheck", Recorded(w).applyNo).status = "PENDING"
    BY <2>1, RecordedType, NewEventType DEF EventType, Refs, NewEvent
  <2>. QED
    BY <1>3, <2>1, <2>2
<1>6. ASSUME NEW w \in Workers, CommitBatch(w)
      PROVE  n \in DOMAIN outbox[c] /\ (outbox[c][n].status = "SENT" \/ <<c, n>> \in done[w])
  <2>1. outbox'[c] = [m \in DOMAIN outbox[c] |-> Settle(w, <<c, m>>)]
    BY <1>6 DEF CommitBatch
  <2>2. n \in DOMAIN outbox[c] /\ Settle(w, <<c, n>>).status = "SENT"
    BY <1>1, <2>1
  <2>. DEFINE e == outbox[c][n]
              a == e.attempt + 1
  <2>3. e \in Event /\ EventAt(<<c, n>>) = e
    BY <1>1, <2>2 DEF EventAt
  <2>4. Retried(e) = [e EXCEPT !.attempt = a,
                               !.status = IF a >= MaxAttempt THEN "FAILED" ELSE e.status]
    BY <2>3 DEF Retried, Event
  <2>. HIDE DEF a
  <2>5. Retried(e).status \in {"FAILED", e.status}
    BY <2>3, <2>4 DEF Event
  <2>. QED
    BY <2>2, <2>3, <2>5 DEF Settle
<1>7. CASE EmergencyStop
  <2>1. outbox'[c] = [m \in DOMAIN outbox[c] |->
                  IF outbox[c][m].status = "PENDING"
                  THEN [outbox[c][m] EXCEPT !.status = "FAILED"] ELSE outbox[c][m]]
    BY <1>7 DEF EmergencyStop
  <2>2. n \in DOMAIN outbox[c] /\ outbox[c][n] \in Event
    BY <1>1, <2>1
  <2>3. outbox'[c][n] \in {outbox[c][n], [outbox[c][n] EXCEPT !.status = "FAILED"]}
    BY <2>1, <2>2
  <2>. QED
    BY <1>1, <2>2, <2>3 DEF Event
<1>8. ASSUME NEW q \in Rows, Restore(q)
      PROVE  n \in DOMAIN outbox[c] /\ outbox[c][n].status = "SENT"
  <2>1. /\ outbox' = [outbox EXCEPT ![q[1]][q[2]].status = "PENDING"]
        /\ outbox \in [Calls -> Seq(Event)]
    BY <1>8 DEF Restore, IInv, TypeOK, TablesType
  <2>2. DOMAIN outbox'[c] = DOMAIN outbox[c]
    BY <2>1
  <2>3. \/ outbox'[c][n] = outbox[c][n]
        \/ outbox'[c][n] = [outbox[c][n] EXCEPT !.status = "PENDING"]
    BY <1>1, <2>1, <2>2
  <2>. QED
    BY <1>1, <2>2, <2>3 DEF Event
<1>. QED
  BY <1>2, <1>4, <1>5, <1>6, <1>7, <1>8, WhoQueues DEF Settles

\* A handler that returns counts its row as done only with the verdict "ok".
LEMMA ReturnDone ==
  ASSUME IInv, NEW w \in Workers, NEW r, NEW verdict, Return(w, r, verdict)
  PROVE  /\ \A v \in Workers \ {w} : done'[v] = done[v]
         /\ \A q \in done'[w] \ done[w] : q = r /\ q \in batch[w] /\ verdict = "ok"
BY DEF IInv, TypeOK, WorkersType, Return

\* A row comes to be done in the step in which its handler finishes it.
LEMMA WhoFinishes ==
  ASSUME IInv, IInv', HandInv, [Next]_vars, NEW v \in Workers, NEW q \in done'[v] \ done[v]
  PROVE  q \in batch[v] /\ Finished(q)'
<1>0. RowsStay
  BY StepStays
<1>1. ASSUME NEW w \in Workers, NEW r \in Rows, NEW verdict \in {"ok", "retry", "skip"},
             Return(w, r, verdict),
             verdict = "ok" =>
               CASE EventAt(r).type = "TransferRequested" -> transfers'[r[1]].status # "PENDING"
                 [] EventAt(r).type = "StatusCheck" -> IsTerminal(transfers'[r[1]].status)
      PROVE  q \in batch[v] /\ Finished(q)'
  <2>1. v = w /\ q = r /\ q \in batch[v] /\ verdict = "ok"
    BY <1>1, ReturnDone
  <2>2. outbox'[q[1]][q[2]].type = EventAt(q).type
    BY <1>0, <1>1, <2>1, RowStays
  <2>. QED
    BY <1>1, <2>1, <2>2 DEF Finished, EventAt
<1>2. ASSUME NEW w \in Workers, NEW r, NEW verdict \in {"retry", "skip"}, Return(w, r, verdict)
      PROVE  FALSE
  BY <1>2, ReturnDone
<1>3. ASSUME NEW w \in Workers, NEW r \in todo[w], StartSend(w, r)
      PROVE  q \in batch[v] /\ Finished(q)'
  <2>1. r \in Rows /\ UNCHANGED transfers /\ EventAt(r).type = "TransferRequested"
    BY <1>3 DEF HandInv, InHand, StartSend, tables
  <2>2. CASE transfers[r[1]].status # "PENDING" /\ Return(w, r, "ok")
    BY <1>1, <2>1, <2>2
  <2>3. CASE Return(w, r, "skip") \/ Return(w, r, "retry")
    BY <1>2, <2>3
  <2>4. CASE UNCHANGED done
    BY <2>4
  <2>. QED
    BY <1>3, <2>2, <2>3, <2>4 DEF StartSend
<1>4. ASSUME NEW w \in Workers, Record(w)
      PROVE  q \in batch[v] /\ Finished(q)'
  <2>1. cur[w] \in Rows /\ EventAt(cur[w]).type = "TransferRequested"
    BY <1>4 DEF Record, HandInv, InHand
  <2>2. transfers'[cur[w][1]].status \in {"REQUESTED", "FAILED"}
    BY <1>4, RecordWrites
  <2>3. CASE Return(w, cur[w], "ok")
    BY <1>1, <2>1, <2>2, <2>3
  <2>4. CASE Return(w, cur[w], "retry")
    BY <1>2, <2>4
  <2>. QED
    BY <1>4, <2>3, <2>4 DEF Record
<1>5. ASSUME NEW w \in Workers, Load(w)
      PROVE  q \in batch[v] /\ Finished(q)'
  <2>1. cur[w] \in Rows /\ EventAt(cur[w]).type = "StatusCheck" /\ UNCHANGED transfers
    BY <1>5 DEF Load, HandInv, InHand, tables
  <2>2. CASE IsTerminal(transfers[cur[w][1]].status) /\ Return(w, cur[w], "ok")
    BY <1>1, <2>1, <2>2
  <2>3. CASE Return(w, cur[w], "retry")
    BY <1>2, <2>3
  <2>4. CASE UNCHANGED done
    BY <2>4
  <2>. QED
    BY <1>5, <2>2, <2>3, <2>4 DEF Load
<1>6. ASSUME NEW w \in Workers, Apply(w)
      PROVE  q \in batch[v] /\ Finished(q)'
  <2>1. cur[w] \in Rows /\ EventAt(cur[w]).type = "StatusCheck"
    BY <1>6 DEF Apply, HandInv, InHand
  <2>2. transfers'[cur[w][1]].status = resp[w]
    BY <1>6, ApplyWrites
  <2>3. CASE Return(w, cur[w], "ok") /\ IsTerminal(resp[w])
    BY <1>1, <2>1, <2>2, <2>3
  <2>4. CASE Return(w, cur[w], "retry")
    BY <1>2, <2>4
  <2>. QED
    BY <1>6, <2>3, <2>4 DEF Apply, AfterObserving
<1>7. ASSUME NEW w \in Workers, NEW r \in todo[w], StartCheck(w, r)
      PROVE  FALSE
  <2>1. CASE Return(w, r, "retry")
    BY <1>2, <2>1
  <2>2. CASE UNCHANGED done
    BY <2>2
  <2>. QED
    BY <1>7, <2>1, <2>2 DEF StartCheck
<1>8. ASSUME NEW w \in Workers, BankSilent(w) \/ RecordFails(w) \/ ApplyFails(w)
      PROVE  FALSE
  BY <1>2, <1>8 DEF BankSilent, RecordFails, ApplyFails, RollBack
<1>9. ASSUME NEW w \in Workers, \/ CommitBatch(w) \/ Crash(w) \/ LoseConnection(w)
                                \/ \E r \in batch[w] : LoseUpdate(w, r)
      PROVE  FALSE
  <2>1. done'[v] \subseteq done[v]
    BY <1>9 DEF IInv, TypeOK, WorkersType, CommitBatch, Crash, ForgetBatch, LoseConnection, LoseUpdate
  <2>. QED
    BY <2>1
<1>10. ASSUME NEW w \in Workers, Pick(w) \/ CallBank(w) \/ BankAnswers(w) \/ BankDecides(w)
       PROVE  FALSE
  BY <1>10 DEF Pick, CallBank, BankAnswers, BankDecides
<1>11. ASSUME \/ \E c \in Calls : CallStep(c)
              \/ \E m \in late : BankReceivesLate(m)
              \/ \E k \in Keys : BankMoves(k)
              \/ EmergencyStop
              \/ \E r \in Rows : Restore(r)
              \/ UNCHANGED vars
       PROVE  FALSE
  <2>1. UNCHANGED worker
    BY <1>11 DEF CallStep, CallFind, CallInsert, CallDuplicate, CallRefind, CallFails,
       BankReceivesLate, BankMoves, EmergencyStop, Restore, vars
  <2>. QED
    BY <2>1 DEF worker
<1>. QED
  BY <1>3, <1>4, <1>5, <1>6, <1>7, <1>8, <1>9, <1>10, <1>11 DEF Next, WorkerStep, WorkerFault

\* What is marked as done is done.
LEMMA StepDone ==
  ASSUME IInv, IInv', JobInv, HandInv, DoneInv, [Next]_vars
  PROVE  DoneInv'
<1>1. RowsStay /\ Legal /\ Rows \subseteq Rows'
  BY StepStays, StepIsLegal, RowsGrowOn
<1>2. ASSUME NEW r \in Rows', outbox'[r[1]][r[2]].status = "SENT"
      PROVE  Finished(r)'
  <2>1. r \in Rows /\ Finished(r)
    BY <1>2, WhoSends DEF DoneInv
  <2>. QED
    BY <1>1, <2>1, FinishedStays
<1>3. ASSUME NEW w \in Workers, NEW r \in done'[w]
      PROVE  r \in Rows' /\ Finished(r)'
  <2>1. CASE r \in done[w]
    <3>1. r \in Rows /\ Finished(r)
      BY <2>1 DEF DoneInv
    <3>. QED
      BY <1>1, <3>1, FinishedStays
  <2>2. CASE r \notin done[w]
    <3>1. r \in batch[w] /\ Finished(r)'
      BY <2>2, WhoFinishes
    <3>. QED
      BY <1>1, <3>1 DEF HandInv, InHand
  <2>. QED
    BY <2>1, <2>2
<1>. QED
  BY <1>2, <1>3 DEF DoneInv, EventAt

-----------------------------------------------------------------------------
(***************************************************************************)
(* What the bank knows.                                                    *)
(***************************************************************************)

\* What the code makes of a word of the bank, the bank has reached.
LEMMA WordIsReached ==
  ASSUME NEW word \in BankWord
  PROVE  /\ mapSunabarStatus[word] \in DOMAIN Reached
         /\ word \in Reached[mapSunabarStatus[word]]
BY DEF BankWord, mapSunabarStatus, Reached, BankNext

\* What the bank has reached, it does not leave.
LEMMA ReachedForGood ==
  ASSUME NEW s \in DOMAIN Reached, NEW word \in Reached[s], NEW next \in BankNext[word]
  PROVE  next \in Reached[s]
BY DEF Reached, BankNext

\* The words of the bank are those that follow a request.
LEMMA AllWords == DOMAIN BankNext = BankWord /\ Reached["REQUESTED"] = BankWord
BY DEF Reached, BankNext, BankWord, mapSunabarStatus

\* The bank only adds orders, and its words only move forward.
Forward(k) ==
  \/ bank'[k] = bank[k]
  \/ bank[k] = "None" /\ bank'[k] = "AcceptedToBank"
  \/ bank[k] \in BankWord /\ bank'[k] \in BankNext[bank[k]]

BankGoesOn == orders \subseteq orders' /\ \A k \in Keys : Forward(k)

\* TakeOrder gives the key of the request a word and the request an order, unless it
\* has both.
LEMMA TakeOrderGoesOn ==
  ASSUME IInv, IInv', OrdersKnown, NEW k \in Keys, TakeOrder([key |-> k, pays |-> k])
  PROVE  OrdersKnown' /\ BankGoesOn /\ KnownToBank(k)'
<1>. DEFINE m == [key |-> k, pays |-> k]
<1>1. \A o \in orders : o = [key |-> o.key, pays |-> o.key] /\ o.key \in Keys
  BY DEF IInv, TypeOK, BankType, BankInv
<1>2. CASE \E o \in orders : o.key = k
  <2>1. UNCHANGED <<orders, bank>> /\ m \in orders
    BY <1>1, <1>2 DEF TakeOrder
  <2>. QED
    BY <2>1 DEF OrdersKnown, BankGoesOn, Forward, KnownToBank
<1>3. CASE ~ \E o \in orders : o.key = k
  <2>1. orders' = orders \cup {m} /\ bank' = [bank EXCEPT ![k] = "AcceptedToBank"]
    BY <1>3 DEF TakeOrder
  <2>2. bank[k] = "None" /\ bank'[k] = "AcceptedToBank"
    BY <1>3, <2>1 DEF IInv, TypeOK, BankType, OrdersKnown, KnownToBank
  <2>3. \A j \in Keys \ {k} : bank'[j] = bank[j]
    BY <2>1 DEF IInv, TypeOK, BankType
  <2>4. \A j \in Keys \ {k} : [key |-> j, pays |-> j] # m
    OBVIOUS
  <2>. QED
    BY <2>1, <2>2, <2>3, <2>4 DEF OrdersKnown, BankGoesOn, Forward, KnownToBank
<1>. QED
  BY <1>2, <1>3

\* A request that is in flight or late is one for the transfer whose key it carries.
LEMMA RequestsAreOwn ==
  ASSUME IInv, NEW m, m \in late \/ \E w \in Workers : m \in InFlight(w)
  PROVE  m.key \in Keys /\ m = [key |-> m.key, pays |-> m.key]
<1>1. m \in [key: Keys, pays: Calls] /\ m.key = m.pays
  BY InFlightGood DEF IInv, TypeOK, BankType, BankInv
<1>. QED
  BY <1>1

\* What the bank knows after a step, it knew before or learns in it.
LEMMA StepBank ==
  ASSUME IInv, IInv', OrdersKnown, [Next]_vars
  PROVE  OrdersKnown' /\ BankGoesOn
<1>1. CASE UNCHANGED <<orders, bank>>
  BY <1>1 DEF OrdersKnown, KnownToBank, BankGoesOn, Forward
<1>2. ASSUME NEW w \in Workers, BankDecides(w), ~UNCHANGED <<orders, bank>>
      PROVE  OrdersKnown' /\ BankGoesOn
  <2>1. PICK m \in InFlight(w) : TakeOrder(m)
    BY <1>2 DEF BankDecides
  <2>2. m.key \in Keys /\ m = [key |-> m.key, pays |-> m.key]
    BY <2>1, RequestsAreOwn
  <2>. QED
    BY <2>1, <2>2, TakeOrderGoesOn
<1>3. ASSUME NEW m \in late, BankReceivesLate(m)
      PROVE  OrdersKnown' /\ BankGoesOn
  <2>1. TakeOrder(m) /\ m.key \in Keys /\ m = [key |-> m.key, pays |-> m.key]
    BY <1>3, RequestsAreOwn DEF BankReceivesLate
  <2>. QED
    BY <2>1, TakeOrderGoesOn
<1>4. ASSUME NEW k \in Keys, BankMoves(k)
      PROVE  OrdersKnown' /\ BankGoesOn
  <2>1. PICK word \in BankNext[bank[k]] : bank' = [bank EXCEPT ![k] = word]
    BY <1>4 DEF BankMoves
  <2>2. /\ bank[k] \in BankWord /\ bank'[k] = word /\ orders' = orders
        /\ \A j \in Keys \ {k} : bank'[j] = bank[j]
    BY <1>4, <2>1, AllWords DEF BankMoves, IInv, TypeOK, BankType
  <2>3. bank[k] # "None" /\ word # "None"
    BY <2>2 DEF BankWord, mapSunabarStatus, BankNext
  <2>. QED
    BY <2>1, <2>2, <2>3 DEF OrdersKnown, KnownToBank, BankGoesOn, Forward
<1>5. ASSUME NEW w \in Workers, WorkerStep(w) \/ WorkerFault(w)
      PROVE  UNCHANGED <<orders, bank>>
  BY <1>5 DEF WorkerStep, Pick, CommitBatch, StartSend, StartCheck, CallBank, BankAnswers,
     BankSilent, Record, RecordFails, Load, Apply, ApplyFails, RollBack, WorkerFault, Crash,
     LoseConnection, LoseUpdate, bankVars
<1>6. ASSUME \/ \E c \in Calls : CallStep(c)
             \/ EmergencyStop
             \/ \E r \in Rows : Restore(r)
             \/ UNCHANGED vars
      PROVE  UNCHANGED <<orders, bank>>
  BY <1>6 DEF CallStep, CallFind, CallInsert, CallDuplicate, CallRefind, CallFails,
     EmergencyStop, Restore, vars, bankVars
<1>. QED
  BY <1>1, <1>2, <1>3, <1>4, <1>5, <1>6 DEF Next

\* What the bank knows and has reached, it goes on to.
LEMMA KnownStays ==
  ASSUME BankGoesOn, NEW k \in Keys
  PROVE  /\ KnownToBank(k) => bank'[k] # "None"
         /\ \A s \in DOMAIN Reached : bank[k] \in Reached[s] => bank'[k] \in Reached[s]
<1>1. Forward(k)
  BY DEF BankGoesOn
<1>2. \A word \in BankWord : \A next \in BankNext[word] : next # "None"
  BY DEF BankWord, mapSunabarStatus, BankNext
<1>3. \A s \in DOMAIN Reached : "None" \notin Reached[s]
  BY DEF Reached, BankNext
<1>. QED
  BY <1>1, <1>2, <1>3, ReachedForGood DEF Forward, KnownToBank

\* A status check asks for its own transfer.
LEMMA ChecksOwn ==
  ASSUME IInv, JobInv, NEW r \in Rows, EventAt(r).type = "StatusCheck"
  PROVE  r[1] \in Calls /\ EventAt(r).applyNo = r[1]
<1>1. PICK c \in Calls : \E n \in DOMAIN outbox[c] : r = <<c, n>>
  BY DEF Rows
<1>2. PICK n \in DOMAIN outbox[c] : r = <<c, n>>
  BY <1>1
<1>3. /\ JobRows(c) /\ n \in 1..Len(outbox[c]) /\ Len(outbox[c]) \in Nat
      /\ outbox[c][n].type = "StatusCheck"
  BY <1>2, JobsAreEvents DEF IInv, JobInv, EventAt
<1>4. n # 1
  BY <1>3 DEF JobRows
<1>5. outbox[c][n].applyNo = c
  BY <1>3, <1>4 DEF JobRows
<1>. QED
  BY <1>2, <1>5 DEF EventAt

\* A worker that does not move goes on to know what it knew.
LEMMA ApartHears ==
  ASSUME IInv, BankGoesOn, NEW v \in Workers, Heard(v), Untouched(v)
  PROVE  Heard(v)'
<1>1. /\ wpc'[v] = wpc[v] /\ cur'[v] = cur[v] /\ resp'[v] = resp[v]
      /\ wpc[v] \in {"await", "record", "load", "apply"} => cur[v][1] \in Keys
  BY DEF Untouched, IInv, HandlerInv, Refs, Keys
<1>. QED
  BY <1>1, KnownStays DEF Heard, KnownToBank

\* Only what worker w knows has to be shown.
LEMMA OthersHear ==
  ASSUME IInv, BankGoesOn, NEW w \in Workers, OnlyTouches(w), Heard(w)',
         \A v \in Workers : Heard(v)
  PROVE  \A v \in Workers : Heard(v)'
BY ApartHears DEF OnlyTouches

\* A handler hears from the bank what the bank knows.
LEMMA StepHears ==
  ASSUME IInv, IInv', JobInv, HandInv, OrdersKnown, \A v \in Workers : Heard(v), [Next]_vars
  PROVE  \A v \in Workers : Heard(v)'
<1>0. BankGoesOn
  BY StepBank
<1>1. CASE \A v \in Workers : Untouched(v)
  BY <1>0, <1>1, ApartHears
<1>2. ASSUME NEW w \in Workers, OnlyTouches(w), wpc'[w] \in {"idle", "dispatch", "send"}
      PROVE  \A v \in Workers : Heard(v)'
  <2>1. Heard(w)'
    BY <1>2 DEF Heard
  <2>. QED
    BY <1>0, <1>2, <2>1, OthersHear
<1>3. ASSUME NEW w \in Workers, NEW r, NEW verdict, Return(w, r, verdict)
      PROVE  \A v \in Workers : Heard(v)'
  <2>1. OnlyTouches(w) /\ wpc'[w] = "dispatch"
    BY <1>3, ReturnKeeps DEF IInv, TypeOK, Return, WorkersType
  <2>. QED
    BY <1>2, <2>1
<1>4. ASSUME NEW w \in Workers, \/ Pick(w) \/ CommitBatch(w) \/ Crash(w) \/ BankSilent(w)
                                \/ Record(w) \/ RecordFails(w) \/ Apply(w) \/ ApplyFails(w)
      PROVE  \A v \in Workers : Heard(v)'
  <2>1. CASE Pick(w)
    <3>1. OnlyTouches(w) /\ wpc'[w] = "dispatch"
      BY <2>1 DEF IInv, TypeOK, WorkersType, Pick, OnlyTouches, Untouched
    <3>. QED
      BY <1>2, <3>1
  <2>2. CASE CommitBatch(w) \/ Crash(w)
    <3>1. OnlyTouches(w) /\ wpc'[w] = "idle"
      BY <2>2, ForgetKeeps DEF IInv, TypeOK, WorkersType, CommitBatch, Crash, ForgetBatch
    <3>. QED
      BY <1>2, <3>1
  <2>. QED
    BY <1>3, <1>4, <2>1, <2>2 DEF BankSilent, Record, RecordFails, Apply, ApplyFails, RollBack
<1>5. ASSUME NEW w \in Workers, LoseConnection(w) \/ \E r \in batch[w] : LoseUpdate(w, r)
      PROVE  \A v \in Workers : Heard(v)'
  <2>1. \A v \in Workers : Untouched(v)
    BY <1>5 DEF LoseConnection, LoseUpdate, Untouched
  <2>. QED
    BY <1>1, <2>1
<1>6. ASSUME NEW w \in Workers, CallBank(w) \/ BankAnswers(w)
      PROVE  \A v \in Workers : Heard(v)'
  <2>1. /\ OnlyTouches(w) /\ wpc[w] \in {"send", "await"} /\ wpc'[w] \in {"await", "record"}
        /\ cur'[w] = cur[w] /\ resp'[w] = resp[w] /\ bank' = bank
    BY <1>6 DEF IInv, TypeOK, WorkersType, CallBank, BankAnswers, OnlyTouches, Untouched, bankVars
  <2>2. wpc[w] = "send" => resp[w] = "none"
    BY DEF IInv, HandlerInv
  <2>3. Heard(w)'
    BY <2>1, <2>2 DEF Heard, KnownToBank
  <2>. QED
    BY <1>0, <2>1, <2>3, OthersHear
<1>7. ASSUME NEW w \in Workers, BankDecides(w)
      PROVE  \A v \in Workers : Heard(v)'
  <2>1. PICK m \in InFlight(w) : TakeOrder(m) \/ resp'[w] = "rejected"
    BY <1>7 DEF BankDecides, IInv, TypeOK, WorkersType
  <2>2. /\ OnlyTouches(w) /\ wpc'[w] = "await" /\ cur'[w] = cur[w]
        /\ m.pays = cur[w][1]
    BY <1>7, <2>1 DEF IInv, TypeOK, WorkersType, BankDecides, OnlyTouches, Untouched, InFlight
  <2>3. m.key \in Keys /\ m = [key |-> m.key, pays |-> m.key] /\ m.key = m.pays
    BY <2>1, RequestsAreOwn
  <2>4. Heard(w)'
    <3>1. CASE TakeOrder(m)
      <4>1. bank'[m.key] # "None"
        BY <2>3, <3>1, TakeOrderGoesOn DEF KnownToBank
      <4>. QED
        BY <2>2, <2>3, <4>1 DEF Heard, KnownToBank
    <3>2. CASE resp'[w] = "rejected"
      BY <2>2, <3>2 DEF Heard
    <3>. QED
      BY <2>1, <3>1, <3>2
  <2>. QED
    BY <1>0, <2>2, <2>4, OthersHear
<1>8. ASSUME NEW w \in Workers, NEW r \in todo[w], StartSend(w, r)
      PROVE  \A v \in Workers : Heard(v)'
  <2>1. OnlyTouches(w) /\ wpc'[w] \in {"dispatch", "send"}
    BY <1>8 DEF IInv, TypeOK, WorkersType, StartSend, Return, OnlyTouches, Untouched
  <2>. QED
    BY <1>2, <2>1
<1>9. ASSUME NEW w \in Workers, NEW r \in todo[w], StartCheck(w, r), ~Return(w, r, "retry")
      PROVE  \A v \in Workers : Heard(v)'
  <2>. DEFINE word == bank[EventAt(r).applyNo]
  <2>1. r \in Rows /\ EventAt(r).applyNo = r[1]
    BY <1>9, ChecksOwn DEF HandInv, InHand, StartCheck
  <2>2. /\ word \in BankWord /\ bank' = bank
        /\ resp' = [resp EXCEPT ![w] = mapSunabarStatus[word]]
        /\ cur' = [cur EXCEPT ![w] = r] /\ wpc' = [wpc EXCEPT ![w] = "load"]
        /\ snap' = snap
    BY <1>9 DEF StartCheck, bankVars
  <2>3. /\ OnlyTouches(w) /\ wpc'[w] = "load" /\ cur'[w] = r
        /\ resp'[w] = mapSunabarStatus[word]
    BY <2>2 DEF IInv, TypeOK, WorkersType, OnlyTouches, Untouched
  <2>4. Heard(w)'
    BY <2>1, <2>2, <2>3, WordIsReached DEF Heard
  <2>. QED
    BY <1>0, <2>3, <2>4, OthersHear
<1>10. ASSUME NEW w \in Workers, Load(w), ~ \E verdict \in {"ok", "retry"} : Return(w, cur[w], verdict)
       PROVE  \A v \in Workers : Heard(v)'
  <2>1. /\ wpc[w] = "load" /\ wpc' = [wpc EXCEPT ![w] = "apply"]
        /\ snap' = [snap EXCEPT ![w] = transfers[cur[w][1]]]
        /\ UNCHANGED <<cur, resp, bank>>
    BY <1>10 DEF Load, bankVars
  <2>2. OnlyTouches(w) /\ wpc'[w] = "apply"
    BY <2>1 DEF IInv, TypeOK, WorkersType, OnlyTouches, Untouched
  <2>3. Heard(w)'
    BY <2>1, <2>2 DEF Heard
  <2>. QED
    BY <1>0, <2>2, <2>3, OthersHear
<1>11. ASSUME NEW w \in Workers, WorkerStep(w) \/ WorkerFault(w)
       PROVE  \A v \in Workers : Heard(v)'
  BY <1>3, <1>4, <1>5, <1>6, <1>8, <1>9, <1>10, <1>11 DEF WorkerStep, WorkerFault
<1>12. ASSUME \/ \E c \in Calls : CallStep(c)
              \/ \E m \in late : BankReceivesLate(m)
              \/ \E k \in Keys : BankMoves(k)
              \/ EmergencyStop
              \/ \E r \in Rows : Restore(r)
              \/ UNCHANGED vars
       PROVE  \A v \in Workers : Heard(v)'
  <2>1. UNCHANGED worker
    BY <1>12 DEF CallStep, CallFind, CallInsert, CallDuplicate, CallRefind, CallFails,
       BankReceivesLate, BankMoves, EmergencyStop, Restore, vars
  <2>. QED
    BY <1>1, <2>1, WorkerUntouched
<1>. QED
  BY <1>7, <1>11, <1>12 DEF Next

\* Only what the bank has reached is recorded.
LEMMA StepAhead ==
  ASSUME IInv, IInv', JobInv, JobInv', HandInv, AheadInv, [Next]_vars
  PROVE  AheadInv'
<1>1. OrdersKnown' /\ BankGoesOn /\ \A v \in Workers : Heard(v)'
  BY StepBank, StepHears DEF AheadInv
<1>. DEFINE Behind(c) ==
       LET t == transfers[c] IN
       t.applyNo # NONE => t.status \in DOMAIN Reached /\ bank[c] \in Reached[t.status]
<1>2. \A c \in Calls : Behind(c)
  BY DEF AheadInv, NeverAheadOfBank, JobInv, JobRows
<1>3. ASSUME NEW c \in Calls, transfers'[c] = transfers[c]
      PROVE  Behind(c)'
  BY <1>1, <1>2, <1>3, KnownStays DEF Keys
<1>4. ASSUME NEW c \in Calls, CallInsert(c)
      PROVE  \A d \in Calls : Behind(d)'
  <2>0. transfers'[c] = NewTransfer(c)
    BY <1>4, InsertWrites
  <2>1. Behind(c)'
    BY <2>0 DEF NewTransfer
  <2>. QED
    BY <1>3, <1>4, <2>1, InsertWrites
<1>5. ASSUME NEW w \in Workers, Record(w)
      PROVE  \A d \in Calls : Behind(d)'
  <2>1. PICK i \in Calls : i = cur[w][1]
    BY <1>5, RecordWrites
  <2>2. /\ wpc[w] = "record" /\ bank' = bank
        /\ transfers'[i].status = (IF resp[w] = "accepted" THEN "REQUESTED" ELSE "FAILED")
        /\ transfers'[i].applyNo = (IF resp[w] = "accepted" THEN i ELSE NONE)
        /\ \A c \in Calls \ {i} : transfers'[c] = transfers[c]
    BY <1>5, <2>1, RecordQueues DEF Record, bankVars
  <2>3. Behind(i)'
    <3>1. CASE resp[w] = "accepted"
      <4>1. bank[i] \in BankWord
        BY <2>1, <2>2, <3>1 DEF AheadInv, Heard, KnownToBank, IInv, TypeOK, BankType, Keys
      <4>2. "REQUESTED" \in DOMAIN Reached
        BY DEF Reached
      <4>. QED
        BY <2>2, <3>1, <4>1, <4>2, AllWords
    <3>2. CASE resp[w] # "accepted"
      BY <2>2, <3>2
    <3>. QED
      BY <3>1, <3>2
  <2>. QED
    BY <1>3, <2>2, <2>3
<1>6. ASSUME NEW w \in Workers, Apply(w)
      PROVE  \A d \in Calls : Behind(d)'
  <2>1. PICK i \in Calls : i = cur[w][1]
    BY <1>6, ApplyWrites
  <2>2. /\ wpc[w] = "apply" /\ bank' = bank
        /\ transfers'[i].status = resp[w]
        /\ \A c \in Calls \ {i} : transfers'[c] = transfers[c]
    BY <1>6, <2>1, ApplyWrites DEF Apply, bankVars
  <2>3. resp[w] \in DOMAIN Reached /\ bank[i] \in Reached[resp[w]]
    BY <2>1, <2>2 DEF AheadInv, Heard
  <2>. QED
    BY <1>3, <2>2, <2>3
<1>7. \A c \in Calls : Behind(c)'
  BY <1>3, <1>4, <1>5, <1>6, WhoWrites
<1>8. ASSUME NEW c \in Calls, transfers'[c].applyNo # NONE
      PROVE  /\ [key |-> transfers'[c].applyNo, pays |-> c] \in orders'
             /\ transfers'[c].status \in DOMAIN Reached
             /\ bank'[transfers'[c].applyNo] \in Reached[transfers'[c].status]
  <2>1. transfers'[c].applyNo = c
    BY <1>8 DEF JobInv, JobRows
  <2>2. transfers'[c].status \in DOMAIN Reached /\ bank'[c] \in Reached[transfers'[c].status]
    BY <1>7, <1>8
  <2>3. bank'[c] # "None"
    BY <2>2 DEF Reached, BankNext
  <2>4. [key |-> c, pays |-> c] \in orders'
    BY <1>1, <2>3 DEF OrdersKnown, KnownToBank, Keys
  <2>. QED
    BY <2>1, <2>2, <2>4
<1>. QED
  BY <1>1, <1>8 DEF AheadInv, NeverAheadOfBank

-----------------------------------------------------------------------------
(***************************************************************************)
(* The whole invariant, and what follows from it.                          *)
(***************************************************************************)
\* All parts of the invariant hold together.
HistoryInv == AnswerInv /\ NoticeInv /\ JobInv /\ HandInv /\ DoneInv /\ AheadInv

\* Every behaviour keeps the whole invariant.
THEOREM HistoryHolds == Spec => []HistoryInv
<1>1. Init => AnswerInv /\ NoticeInv /\ DoneInv /\ AheadInv
  <2>1. Init => Rows = {}
    BY DEF Init, Rows
  <2>2. Init => AnswerInv /\ NoticeInv
    BY DEF Init, AnswerInv, NoticeInv, NoRow, IsStored
  <2>3. Init => DoneInv
    BY <2>1 DEF Init, DoneInv
  <2>4. Init => AheadInv
    BY DEF Init, AheadInv, OrdersKnown, KnownToBank, NeverAheadOfBank, NoRow, Heard
  <2>. QED
    BY <2>2, <2>3, <2>4
<1>2. HistoryInv <=> AnswerInv /\ NoticeInv /\ JobInv /\ HandInv /\ DoneInv /\ AheadInv
  BY DEF HistoryInv
<1>. QED
  BY <1>1, <1>2, InitHands, InitJobs, StepAnswers, StepTells, StepQueues, StepHands, StepDone,
     StepAhead, InvariantHolds, PTL DEF Spec

\* All calls with one app_request_id that are answered with a transfer are answered
\* with the same one, which is stored.
THEOREM OneAnswerPerRequest == Spec => []SameAnswer
<1>1. IInv /\ HistoryInv => SameAnswer
  <2>. SUFFICES ASSUME IInv, HistoryInv, NEW c \in Calls, NEW d \in Calls,
                       reply[c] # NONE, AppOf[c] = AppOf[d]
                PROVE  IsStored(reply[c]) /\ reply[d] \in {reply[c], NONE}
    BY DEF SameAnswer, IsStored
  <2>1. reply[c] \in Calls \cup {NONE} /\ reply[d] \in Calls \cup {NONE}
    BY DEF IInv, TypeOK, CallsType
  <2>. QED
    BY <2>1 DEF HistoryInv, AnswerInv, IInv, RowInv
<1>. QED
  BY <1>1, InvariantHolds, HistoryHolds, PTL

\* The published notices of a transfer tell its history: each change that is announced
\* is announced once, in order, from the status it left.
THEOREM NoticesAreTrue == Spec => []NoticesTellHistory
<1>1. HistoryInv => NoticesTellHistory
  BY DEF HistoryInv, NoticeInv, NoticesTellHistory, History, Told, IsStored
<1>. QED
  BY <1>1, HistoryHolds, PTL

\* Each stored transfer has exactly one TransferRequested row, and exactly one StatusCheck
\* row if and only if the bank's acceptance is recorded.
THEOREM JobsAreUnique == Spec => []OneJobEach
<1>1. IInv /\ HistoryInv => OneJobEach
  BY JobsOf, FS_EmptySet, FS_Singleton DEF HistoryInv, OneJobEach, IsStored
<1>. QED
  BY <1>1, InvariantHolds, HistoryHolds, PTL

\* The outbox never says done too early: a TransferRequested row is SENT only once its
\* transfer has left PENDING, a StatusCheck row only once it is terminal.
THEOREM SentIsDone == Spec => []SentMeansDone
<1>1. HistoryInv => SentMeansDone
  BY DEF HistoryInv, DoneInv, SentMeansDone, Finished
<1>. QED
  BY <1>1, HistoryHolds, PTL

\* A transfer that carries an order number has its own order at the bank, and its status
\* never runs ahead of the bank's.
THEOREM BankComesFirst == Spec => []NeverAheadOfBank
<1>1. HistoryInv => NeverAheadOfBank
  BY DEF HistoryInv, AheadInv
<1>. QED
  BY <1>1, HistoryHolds, PTL
=============================================================================
