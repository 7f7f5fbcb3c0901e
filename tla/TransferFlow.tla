---------------------------- MODULE TransferFlow ----------------------------
(***************************************************************************)
(* The life of transfers, from the HTTP call that requests one to the last *)
(* status query: the request use case, the outbox table, the relay workers *)
(* that drain it, the two event handlers that talk to the bank, and the    *)
(* bank as the code sees it.  Processes crash, connections are lost,       *)
(* answers of the bank are lost or late, commits are ambiguous.            *)
(*                                                                         *)
(* Time is left out: a PENDING row may be due at any moment, so a batch is *)
(* any set of at most BatchSize unlocked PENDING rows.  The rows of the    *)
(* notification events are kept apart, in `notices`: their handler does    *)
(* not touch a transfer.  The decision of the circuit breaker is a free    *)
(* choice here.                                                            *)
(***************************************************************************)
EXTENDS Integers, Sequences, FiniteSets, TransferDomain

CONSTANTS
  Calls,       \* executions of the request use case, one per HTTP call
  AppOf,       \* the app_request_id each call carries
  Workers,     \* relay workers: a process with its connection and its tx
  BatchSize,   \* LIMIT of the batch query
  MaxAttempt,  \* attempts after which the relay gives an event up
  MaxFaults,   \* bound: crashes, lost connections, operator interventions ...
  MayFail,     \* whether reads, bank calls and handler transactions may fail
  NONE         \* no key, no order number, no transfer

ASSUME CallsAssumption == NONE \notin Calls
ASSUME BatchAssumption == BatchSize \in Nat \ {0}
ASSUME AttemptAssumption == MaxAttempt \in Nat \ {0}
ASSUME FaultAssumption == MaxFaults \in Nat /\ MayFail \in BOOLEAN

VARIABLES
  transfers,   \* the table transfers, by id
  outbox,      \* rows of outbox_events that carry a transfer forward, by id
  notices,     \* published state-change events, by id, in commit order
  apc, reply,  \* where each call stands, and the transfer it answered with
  late,        \* requests given up while unanswered: they may still arrive
  orders,      \* transfer orders the bank holds
  bank,        \* status word of the order made under each idempotency key
  wpc,         \* where each worker stands
  batch,       \* rows a worker has locked in its transaction
  todo,        \* rows of its batch not dispatched yet
  done, tried, \* rows it updated (uncommitted): handled, failed once more
  cur,         \* the row whose handler runs
  snap,        \* the transfer as that handler read it
  resp,        \* what the bank answered that handler
  faults       \* faults and interventions so far

api == <<apc, reply>>
bankVars == <<late, orders, bank>>
tables == <<transfers, outbox, notices>>
worker == <<wpc, batch, todo, done, tried, cur, snap, resp>>
vars == <<tables, api, bankVars, worker, faults>>

-----------------------------------------------------------------------------
(***************************************************************************)
(* The tables.  The id of a transfer is generated by the call that inserts *)
(* it, so the call stands for the id, and for the API idempotency key the  *)
(* same execution generates and stores.                                    *)
(***************************************************************************)
Keys == Calls

Row == [status: Status \cup {"NONE"}, key: Keys \cup {NONE},
        applyNo: Keys \cup {NONE}, version: Nat]

NoRow == [status |-> "NONE", key |-> NONE, applyNo |-> NONE, version |-> 0]

NewTransfer(c) == [status |-> "PENDING", key |-> c, applyNo |-> NONE, version |-> 1]

EventType == {"TransferRequested", "StatusCheck"}

Event == [type: EventType, applyNo: Keys \cup {NONE},
          status: {"PENDING", "SENT", "FAILED"}, attempt: Nat]

NewEvent(type, no) ==
  [type |-> type, applyNo |-> no, status |-> "PENDING", attempt |-> 0]

\* A row of the outbox: the transfer it belongs to and its position there.
Refs == Calls \X (Nat \ {0})
EventAt(r) == outbox[r[1]][r[2]]
Rows == UNION {{<<c, n>> : n \in DOMAIN outbox[c]} : c \in Calls}

\* The transfers stored for an app_request_id.
Stored(a) == {c \in Calls : transfers[c].status # "NONE" /\ AppOf[c] = a}

\* The unique index on app_request_id (and a mutant without it).
NoUniqueKey(c) == TRUE
UniqueKey(c) == Stored(AppOf[c]) = {}

Fault == faults < MaxFaults /\ faults' = faults + 1

Init ==
  /\ transfers = [c \in Calls |-> NoRow]
  /\ outbox = [c \in Calls |-> << >>]
  /\ notices = [c \in Calls |-> << >>]
  /\ apc = [c \in Calls |-> "find"]
  /\ reply = [c \in Calls |-> NONE]
  /\ late = {}
  /\ orders = {}
  /\ bank = [k \in Keys |-> "None"]
  /\ wpc = [w \in Workers |-> "idle"]
  /\ batch = [w \in Workers |-> {}]
  /\ todo = [w \in Workers |-> {}]
  /\ done = [w \in Workers |-> {}]
  /\ tried = [w \in Workers |-> {}]
  /\ cur = [w \in Workers |-> NONE]
  /\ snap = [w \in Workers |-> NoRow]
  /\ resp = [w \in Workers |-> "none"]
  /\ faults = 0

-----------------------------------------------------------------------------
(***************************************************************************)
(* The request use case.  It looks the app_request_id up outside any       *)
(* transaction, inserts a row and its TransferRequested event in one       *)
(* transaction, and on a duplicate looks the winner up again.  Every step  *)
(* may fail, and the caller then gets an error (reply NONE).               *)
(***************************************************************************)
Answer(c, id) ==
  /\ apc' = [apc EXCEPT ![c] = "end"]
  /\ reply' = [reply EXCEPT ![c] = id]

CallFind(c) ==
  /\ apc[c] = "find"
  /\ IF Stored(AppOf[c]) # {}
     THEN \E id \in Stored(AppOf[c]) : Answer(c, id)
     ELSE apc' = [apc EXCEPT ![c] = "insert"] /\ UNCHANGED reply
  /\ UNCHANGED <<tables, bankVars, worker, faults>>

\* The row and the event commit together.  The commit may succeed and still be
\* reported as an error.
CallInsert(c) ==
  /\ apc[c] = "insert"
  /\ UniqueKey(c)
  /\ transfers' = [transfers EXCEPT ![c] = NewTransfer(c)]
  /\ outbox' = [outbox EXCEPT ![c] = Append(@, NewEvent("TransferRequested", NONE))]
  /\ \/ Answer(c, c) /\ UNCHANGED faults
     \/ Answer(c, NONE) /\ Fault
  /\ UNCHANGED <<notices, bankVars, worker>>

CallDuplicate(c) ==
  /\ apc[c] = "insert"
  /\ ~UniqueKey(c)
  /\ apc' = [apc EXCEPT ![c] = "refind"]
  /\ UNCHANGED <<tables, reply, bankVars, worker, faults>>

CallRefind(c) ==
  /\ apc[c] = "refind"
  /\ \E id \in Stored(AppOf[c]) : Answer(c, id)
  /\ UNCHANGED <<tables, bankVars, worker, faults>>

CallFails(c) ==
  /\ apc[c] # "end"
  /\ Answer(c, NONE)
  /\ Fault
  /\ UNCHANGED <<tables, bankVars, worker>>

-----------------------------------------------------------------------------
(***************************************************************************)
(* The relay.  A worker locks a batch inside its transaction, dispatches   *)
(* the rows one by one, and commits the updates of all of them at the end. *)
(***************************************************************************)
Locked == UNION {batch[w] : w \in Workers}

Pick(w) ==
  /\ wpc[w] = "idle"
  /\ \E rs \in SUBSET {r \in Rows \ Locked : EventAt(r).status = "PENDING"} :
       /\ rs # {} /\ Cardinality(rs) <= BatchSize
       /\ batch' = [batch EXCEPT ![w] = rs]
       /\ todo' = [todo EXCEPT ![w] = rs]
  /\ wpc' = [wpc EXCEPT ![w] = "dispatch"]
  /\ UNCHANGED <<tables, api, bankVars, done, tried, cur, snap, resp, faults>>

\* The handler of row r has returned.  The relay updates the row inside its
\* transaction (only logging an update that fails, as on a dead connection):
\* "ok" to SENT, "retry" counts an attempt, "skip" only moves the due time.
Return(w, r, verdict) ==
  /\ wpc' = [wpc EXCEPT ![w] = "dispatch"]
  /\ todo' = [todo EXCEPT ![w] = @ \ {r}]
  /\ done' = [done EXCEPT ![w] = IF verdict = "ok" THEN @ \cup ({r} \cap batch[w]) ELSE @]
  /\ tried' = [tried EXCEPT ![w] = IF verdict = "retry" THEN @ \cup ({r} \cap batch[w]) ELSE @]
  /\ cur' = [cur EXCEPT ![w] = NONE]
  /\ snap' = [snap EXCEPT ![w] = NoRow]
  /\ resp' = [resp EXCEPT ![w] = "none"]
  /\ UNCHANGED batch

\* A row after one more failed attempt (and a mutant that gives up quietly),
\* and after success.
QuietlyRetried(e) ==
  LET n == e.attempt + 1
  IN  [e EXCEPT !.attempt = n, !.status = IF n >= MaxAttempt THEN "SENT" ELSE @]

Retried(e) ==
  LET n == e.attempt + 1
  IN  [e EXCEPT !.attempt = n, !.status = IF n >= MaxAttempt THEN "FAILED" ELSE @]

Delivered(e) == [e EXCEPT !.attempt = @ + 1, !.status = "SENT"]

\* The row updates of one transaction (and a mutant that forgets WHERE id = ?).
SettleAll(w, r) ==
  IF done[w] # {} /\ r \in batch[w] THEN Delivered(EventAt(r)) ELSE EventAt(r)

Settle(w, r) ==
  CASE r \in done[w]  -> Delivered(EventAt(r))
    [] r \in tried[w] -> Retried(EventAt(r))
    [] OTHER          -> EventAt(r)

ForgetBatch(w) ==
  /\ wpc' = [wpc EXCEPT ![w] = "idle"]
  /\ batch' = [batch EXCEPT ![w] = {}]
  /\ todo' = [todo EXCEPT ![w] = {}]
  /\ done' = [done EXCEPT ![w] = {}]
  /\ tried' = [tried EXCEPT ![w] = {}]
  /\ cur' = [cur EXCEPT ![w] = NONE]
  /\ snap' = [snap EXCEPT ![w] = NoRow]
  /\ resp' = [resp EXCEPT ![w] = "none"]

\* End of ProcessBatch.  Without its connection the commit fails: done and
\* tried are empty then, and the rows stay as they were.
CommitBatch(w) ==
  /\ wpc[w] = "dispatch"
  /\ todo[w] = {}
  /\ outbox' = [c \in Calls |-> [n \in DOMAIN outbox[c] |-> Settle(w, <<c, n>>)]]
  /\ ForgetBatch(w)
  /\ UNCHANGED <<transfers, notices, api, bankVars, faults>>

\* The server rolls the transaction back and frees the locks; the worker does
\* not notice and goes on dispatching.
LoseConnection(w) ==
  /\ batch[w] # {}
  /\ batch' = [batch EXCEPT ![w] = {}]
  /\ done' = [done EXCEPT ![w] = {}]
  /\ tried' = [tried EXCEPT ![w] = {}]
  /\ Fault
  /\ UNCHANGED <<tables, api, bankVars, wpc, todo, cur, snap, resp>>

\* One row update of the relay fails and is only logged.
LoseUpdate(w, r) ==
  /\ r \in done[w] \cup tried[w]
  /\ done' = [done EXCEPT ![w] = @ \ {r}]
  /\ tried' = [tried EXCEPT ![w] = @ \ {r}]
  /\ Fault
  /\ UNCHANGED <<tables, api, bankVars, wpc, batch, todo, cur, snap, resp>>

\* The request of a worker carries the stored idempotency key (mutant: a key per
\* attempt).  It is in flight until the bank has decided on it.
KeyPerTry(w) == <<snap[w].key, EventAt(cur[w]).attempt>>
RequestKey(w) == snap[w].key

InFlight(w) ==
  IF wpc[w] = "await" /\ resp[w] = "none" THEN {[key |-> RequestKey(w), pays |-> cur[w][1]]} ELSE {}

\* The process dies or is told to stop.
Crash(w) ==
  /\ wpc[w] # "idle"
  /\ late' = late \cup InFlight(w)
  /\ ForgetBatch(w)
  /\ Fault
  /\ UNCHANGED <<tables, api, orders, bank>>

-----------------------------------------------------------------------------
(***************************************************************************)
(* The update of a transfer: optimistic, on the version the handler read   *)
(* (and a mutant that does not check it).                                  *)
(***************************************************************************)
AnyVersion(w) == TRUE
Unchanged(w) == transfers[cur[w][1]].version = snap[w].version

Update(w, new) ==
  /\ Unchanged(w)
  /\ transfers' = [transfers EXCEPT ![cur[w][1]] = [new EXCEPT !.version = @ + 1]]
  /\ notices' = [notices EXCEPT ![cur[w][1]] =
                     @ \o StateChangeNotice(snap[w].status, new.status)]

\* The handler's own transaction is rolled back: the version has moved on, or
\* the database refuses.
RollBack(w) ==
  /\ Return(w, cur[w], "retry")
  /\ UNCHANGED <<tables, api, bankVars, faults>>

-----------------------------------------------------------------------------
(***************************************************************************)
(* SendToSunabarHandler, for TransferRequested.                            *)
(***************************************************************************)

\* Read the transfer; nothing to do unless it is PENDING; ask the breaker.
StartSend(w, r) ==
  /\ wpc[w] = "dispatch" /\ r \in todo[w]
  /\ EventAt(r).type = "TransferRequested"
  /\ \/ /\ transfers[r[1]].status # "PENDING"
        /\ Return(w, r, "ok") /\ UNCHANGED faults
     \/ /\ transfers[r[1]].status = "PENDING"
        /\ wpc' = [wpc EXCEPT ![w] = "send"]
        /\ cur' = [cur EXCEPT ![w] = r]
        /\ snap' = [snap EXCEPT ![w] = transfers[r[1]]]
        /\ UNCHANGED <<batch, todo, done, tried, resp, faults>>
     \/ /\ transfers[r[1]].status = "PENDING"   \* the breaker is open
        /\ Return(w, r, "skip") /\ Fault
     \/ MayFail /\ Return(w, r, "retry") /\ UNCHANGED faults  \* the read fails
  /\ UNCHANGED <<tables, api, bankVars>>

\* The request leaves.
CallBank(w) ==
  /\ wpc[w] = "send"
  /\ wpc' = [wpc EXCEPT ![w] = "await"]
  /\ UNCHANGED <<tables, api, bankVars, batch, todo, done, tried, cur, snap, resp, faults>>

\* The answer arrives in time.
BankAnswers(w) ==
  /\ wpc[w] = "await"
  /\ resp[w] # "none"
  /\ wpc' = [wpc EXCEPT ![w] = "record"]
  /\ UNCHANGED <<tables, api, bankVars, batch, todo, done, tried, cur, snap, resp, faults>>

\* A 5xx, a lost answer or the five-second timeout: whether the bank has the
\* order is unknown.
BankSilent(w) ==
  /\ wpc[w] = "await"
  /\ MayFail
  /\ late' = late \cup InFlight(w)
  /\ Return(w, cur[w], "retry")
  /\ UNCHANGED <<tables, api, orders, bank, faults>>

\* The handler's transaction: status, notice and, if accepted, the status
\* check commit together.  An ambiguous commit is reported as an error.
Record(w) ==
  LET i   == cur[w][1]
      new == IF resp[w] = "accepted"
             THEN [snap[w] EXCEPT !.status = "REQUESTED", !.applyNo = snap[w].key]
             ELSE [snap[w] EXCEPT !.status = "FAILED"]
  IN  /\ wpc[w] = "record"
      /\ Update(w, new)
      /\ outbox' = IF resp[w] = "accepted"
                   THEN [outbox EXCEPT ![i] = Append(@, NewEvent("StatusCheck", new.applyNo))]
                   ELSE outbox
      /\ \/ Return(w, cur[w], "ok") /\ UNCHANGED faults
         \/ Return(w, cur[w], "retry") /\ Fault
      /\ UNCHANGED <<api, bankVars>>

RecordFails(w) ==
  /\ wpc[w] = "record"
  /\ MayFail \/ ~Unchanged(w)
  /\ RollBack(w)

-----------------------------------------------------------------------------
(***************************************************************************)
(* CheckStatusHandler, for StatusCheck.                                    *)
(***************************************************************************)

\* Ask the bank first: an error, and a status word the code does not know,
\* cost an attempt.
StartCheck(w, r) ==
  /\ wpc[w] = "dispatch" /\ r \in todo[w]
  /\ EventAt(r).type = "StatusCheck"
  /\ \/ /\ bank[EventAt(r).applyNo] \in BankWord
        /\ resp' = [resp EXCEPT ![w] = mapSunabarStatus[bank[EventAt(r).applyNo]]]
        /\ cur' = [cur EXCEPT ![w] = r]
        /\ wpc' = [wpc EXCEPT ![w] = "load"]
        /\ UNCHANGED <<batch, todo, done, tried, snap>>
     \/ MayFail /\ Return(w, r, "retry")
  /\ UNCHANGED <<tables, api, bankVars, faults>>

\* Then read the transfer.  Observing a status that is not final asks for
\* another attempt (ErrStillInFlight), and so does an illegal transition.
Load(w) ==
  LET t == transfers[cur[w][1]]
  IN  /\ wpc[w] = "load"
      /\ \/ IsTerminal(t.status) /\ Return(w, cur[w], "ok")
         \/ ~IsTerminal(t.status) /\ t.status # "NONE"
             /\ resp[w] \notin validTransitions[t.status] /\ Return(w, cur[w], "retry")
         \/ /\ t.status # "NONE"
            /\ resp[w] \in validTransitions[t.status]
            /\ wpc' = [wpc EXCEPT ![w] = "apply"]
            /\ snap' = [snap EXCEPT ![w] = t]
            /\ UNCHANGED <<batch, todo, done, tried, cur, resp>>
         \/ (MayFail \/ t.status = "NONE")   \* the read fails, or finds nothing
             /\ Return(w, cur[w], "retry")
      /\ UNCHANGED <<tables, api, bankVars, faults>>

\* Only a final status ends the status check.
AfterObserving(s) == IF IsTerminal(s) THEN "ok" ELSE "retry"

\* The status moves and the notice is published in one transaction.
Apply(w) ==
  /\ wpc[w] = "apply"
  /\ Update(w, [snap[w] EXCEPT !.status = resp[w]])
  /\ \/ /\ Return(w, cur[w], AfterObserving(resp[w]))
        /\ UNCHANGED faults
     \/ Return(w, cur[w], "retry") /\ Fault
  /\ UNCHANGED <<outbox, api, bankVars>>

ApplyFails(w) ==
  /\ wpc[w] = "apply"
  /\ MayFail \/ ~Unchanged(w)
  /\ RollBack(w)

-----------------------------------------------------------------------------
(***************************************************************************)
(* The bank.  It accepts a request once per idempotency key and answers    *)
(* every repetition with the number of that order, or it refuses with a    *)
(* 4xx; a request that was given up may still arrive.  It moves an order   *)
(* forward on its own, and may skip the approval.                          *)
(***************************************************************************)
BankNext ==
  [AcceptedToBank   |-> {"AwaitingApproval", "Approved", "Settled", "Failed"},
   AwaitingApproval |-> {"Approved", "Settled", "Failed"},
   Approved         |-> {"Settled", "Failed"},
   Settled          |-> {},
   Failed           |-> {}]

TakeOrder(m) ==
  IF \E o \in orders : o.key = m.key
  THEN UNCHANGED <<orders, bank>>
  ELSE /\ orders' = orders \cup {m}
       /\ bank' = [bank EXCEPT ![m.key] = "AcceptedToBank"]

BankDecides(w) ==
  /\ \/ /\ \E m \in InFlight(w) : TakeOrder(m)
        /\ resp' = [resp EXCEPT ![w] = "accepted"]
     \/ /\ MayFail /\ InFlight(w) # {}
        /\ resp' = [resp EXCEPT ![w] = "rejected"]
        /\ UNCHANGED <<orders, bank>>
  /\ UNCHANGED <<tables, api, late, wpc, batch, todo, done, tried, cur, snap, faults>>

BankReceivesLate(m) ==
  /\ \A o \in orders : o.key # m.key
  /\ TakeOrder(m)
  /\ UNCHANGED <<tables, api, late, worker, faults>>

BankMoves(k) ==
  /\ bank[k] \in DOMAIN BankNext
  /\ \E word \in BankNext[bank[k]] : bank' = [bank EXCEPT ![k] = word]
  /\ UNCHANGED <<tables, api, late, orders, worker, faults>>

-----------------------------------------------------------------------------
(***************************************************************************)
(* The operator.  The emergency stop turns every PENDING row to FAILED; its*)
(* UPDATE waits for row locks.  Rows are put back one at a time, with their*)
(* attempts as they were.                                                  *)
(***************************************************************************)
EmergencyStop ==
  /\ Locked = {}
  /\ outbox' = [c \in Calls |-> [n \in DOMAIN outbox[c] |->
                  IF outbox[c][n].status = "PENDING"
                  THEN [outbox[c][n] EXCEPT !.status = "FAILED"] ELSE outbox[c][n]]]
  /\ Fault
  /\ UNCHANGED <<transfers, notices, api, bankVars, worker>>

Restore(r) ==
  /\ EventAt(r).status = "FAILED"
  /\ outbox' = [outbox EXCEPT ![r[1]][r[2]].status = "PENDING"]
  /\ Fault
  /\ UNCHANGED <<transfers, notices, api, bankVars, worker>>

-----------------------------------------------------------------------------
CallStep(c) ==
  CallFind(c) \/ CallInsert(c) \/ CallDuplicate(c) \/ CallRefind(c) \/ CallFails(c)

WorkerStep(w) ==
  \/ Pick(w) \/ CommitBatch(w)
  \/ \E r \in todo[w] : StartSend(w, r) \/ StartCheck(w, r)
  \/ CallBank(w) \/ BankAnswers(w) \/ BankSilent(w) \/ Record(w) \/ RecordFails(w)
  \/ Load(w) \/ Apply(w) \/ ApplyFails(w)

WorkerFault(w) ==
  \/ Crash(w) \/ LoseConnection(w)
  \/ \E r \in batch[w] : LoseUpdate(w, r)

Next ==
  \/ \E c \in Calls : CallStep(c)
  \/ \E w \in Workers : WorkerStep(w) \/ WorkerFault(w)
  \/ \E w \in Workers : BankDecides(w)
  \/ \E m \in late : BankReceivesLate(m)
  \/ \E k \in Keys : BankMoves(k)
  \/ EmergencyStop
  \/ \E r \in Rows : Restore(r)

Spec == Init /\ [][Next]_vars

\* Each worker runs a ticker loop that survives every error: it keeps taking
\* steps while it can.  Nothing is assumed of callers, bank and operator.
FairSpec == Spec /\ \A w \in Workers : WF_vars(WorkerStep(w))

-----------------------------------------------------------------------------
(***************************************************************************)
(* Properties                                                              *)
(***************************************************************************)

TablesType ==
  /\ transfers \in [Calls -> Row]
  /\ outbox \in [Calls -> Seq(Event)]
  /\ notices \in [Calls -> Seq([from: Status, to: Status])]

CallsType ==
  /\ apc \in [Calls -> {"find", "insert", "refind", "end"}]
  /\ reply \in [Calls -> Calls \cup {NONE}]

BankType ==
  /\ late \subseteq [key: Keys, pays: Calls]
  /\ orders \subseteq [key: Keys, pays: Calls]
  /\ bank \in [Keys -> BankWord \cup {"None"}]

WorkersType ==
  /\ wpc \in [Workers -> {"idle", "dispatch", "send", "await", "record", "load", "apply"}]
  /\ batch \in [Workers -> SUBSET Refs]
  /\ todo \in [Workers -> SUBSET Refs]
  /\ done \in [Workers -> SUBSET Refs]
  /\ tried \in [Workers -> SUBSET Refs]
  /\ cur \in [Workers -> Refs \cup {NONE}]
  /\ snap \in [Workers -> Row]
  /\ resp \in [Workers -> {"none", "accepted", "rejected"} \cup Status]

\* Every variable keeps its type.
TypeOK == TablesType /\ CallsType /\ BankType /\ WorkersType /\ faults \in 0..MaxFaults

\* No client request is paid twice: over all calls carrying the same
\* app_request_id, all retries, workers, crashes and lost answers, the bank
\* holds at most one order.  (usecase_request.go, handler_send_to_sunabar.go)
OneOrderPerRequest ==
  \A o1, o2 \in orders : AppOf[o1.pays] = AppOf[o2.pays] => o1 = o2

\* All calls with one app_request_id that are answered with a transfer are
\* answered with the same one, which is stored.  (usecase_request.go)
SameAnswer ==
  \A c, d \in Calls :
    reply[c] # NONE /\ AppOf[c] = AppOf[d] =>
      /\ transfers[reply[c]].status # "NONE"
      /\ reply[d] \in {reply[c], NONE}

\* However stale the copy a handler writes, a stored status only moves along
\* the transition graph and never leaves a terminal status.  (status.go and
\* the version check of repository_sql.go)
StatusFollowsGraph ==
  [][\A c \in Calls :
       transfers[c].status # "NONE" /\ transfers'[c].status # transfers[c].status
         => transfers'[c].status \in validTransitions[transfers[c].status]]_transfers

\* The published notices of a transfer tell its history: each status change
\* that is announced is announced once, in order, from the status it left.
\* APPROVED is the one status entered in silence.  (Update and Publish in one
\* transaction in both handlers)
Leads(a, b) == a = b \/ (b = "APPROVED" /\ b \in validTransitions[a])

NoticesTellHistory ==
  \A c \in Calls : transfers[c].status # "NONE" =>
    LET ns == notices[c]
        told(n) == IF n = 0 THEN "PENDING" ELSE ns[n].to
    IN  /\ \A n \in DOMAIN ns : Leads(told(n - 1), ns[n].from)
        /\ Leads(told(Len(ns)), transfers[c].status)

\* A transfer that carries an order number has its own order at the bank, and
\* its status never runs ahead of the bank's: SETTLED only when the bank has
\* settled it.  (handler_send_to_sunabar.go, handler_check_status.go)
Reached ==
  [REQUESTED         |-> DOMAIN BankNext,
   AWAITING_APPROVAL |-> DOMAIN BankNext \ {"AcceptedToBank"},
   APPROVED          |-> {"Approved", "Settled", "Failed"},
   SETTLED           |-> {"Settled"},
   FAILED            |-> {"Failed"}]

NeverAheadOfBank ==
  \A c \in Calls :
    LET t == transfers[c] IN
    t.applyNo # NONE =>
      /\ [key |-> t.applyNo, pays |-> c] \in orders
      /\ t.status \in DOMAIN Reached
      /\ bank[t.applyNo] \in Reached[t.status]

\* The outbox never says done too early: a TransferRequested row is SENT only
\* once its transfer has left PENDING, a StatusCheck row only once it is
\* terminal.  (the relay commits after the handler's own transaction)
SentMeansDone ==
  \A r \in Rows : EventAt(r).status = "SENT" =>
    CASE EventAt(r).type = "TransferRequested" -> transfers[r[1]].status # "PENDING"
      [] EventAt(r).type = "StatusCheck" -> IsTerminal(transfers[r[1]].status)

\* Each stored transfer has exactly one TransferRequested row, and exactly one
\* StatusCheck row if and only if the bank's acceptance is recorded.
\* (the transactional outbox)
Jobs(c, type) == {n \in DOMAIN outbox[c] : outbox[c][n].type = type}

OneJobEach ==
  \A c \in Calls :
    /\ Cardinality(Jobs(c, "TransferRequested")) = IF transfers[c].status = "NONE" THEN 0 ELSE 1
    /\ Cardinality(Jobs(c, "StatusCheck")) = IF transfers[c].applyNo = NONE THEN 0 ELSE 1

\* No transfer is forgotten: each stored one becomes terminal, or one of its
\* rows ends FAILED, where the FAILED count of the metrics and the operator
\* see it.  (relay.go: a row is retried until SENT or FAILED)
NothingForgotten ==
  \A c \in Calls :
    transfers[c].status # "NONE" ~>
      \/ IsTerminal(transfers[c].status)
      \/ \E n \in DOMAIN outbox[c] : outbox[c][n].status = "FAILED"

\* What the README claims of the outbox, "atomicity of the business update and
\* the call of the external API": a transfer given up without an order number
\* has no order at the bank.  A 4xx after a lost answer breaks it.
FailedMeansNoOrder ==
  \A c \in Calls : transfers[c].status = "FAILED" /\ transfers[c].applyNo = NONE
    => \A o \in orders : o.pays # c

\* What the article claims of status checks, "as long as the relay runs, status
\* checks go round": once the bank has brought an order to its end, the
\* transfer gets there too.  An approval that takes longer than the attempts
\* breaks it.
OutcomeObserved ==
  \A c \in Calls :
    (transfers[c].applyNo # NONE /\ bank[transfers[c].applyNo] \in {"Settled", "Failed"})
      ~> IsTerminal(transfers[c].status)
=============================================================================
