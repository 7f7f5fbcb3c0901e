-------------------------- MODULE DatabaseSessions --------------------------
(***************************************************************************)
(* Who waits for whom at the database.  Every process has a connection     *)
(* pool of limited size; its goroutines take connections from it, and some *)
(* of them take a second one while they hold the first: the relay runs its *)
(* handlers inside the transaction that locks the batch, and the           *)
(* reconciler reads the invoice inside its transaction.  Transactions also *)
(* wait for each other's row locks, across processes, and some calls to    *)
(* the bank are made while a connection is held.                           *)
(*                                                                         *)
(* What a goroutine does is a script of steps: take a connection, lock a   *)
(* row, insert into a table, call the bank, give the connection back       *)
(* (commit, rollback, or the end of a statement run through the pool).     *)
(* What the statements compute is left out, so the branch taken is a free  *)
(* choice among scripts.  Row locks of the batch query are left out: SKIP  *)
(* LOCKED never waits for them.                                            *)
(*                                                                         *)
(* Transactions run at InnoDB's default isolation unless they say          *)
(* otherwise.  An insert that meets a stored key locks that row, shared or *)
(* exclusive, and the range before it; range locks go together, but an     *)
(* insert into a locked range waits.  All keys of a table are taken to lie *)
(* in one range.                                                           *)
(***************************************************************************)
EXTENDS Integers, Sequences, FiniteSets

CONSTANTS
  Clients,       \* requests to cmd/api
  Relays,        \* relay loops of cmd/relay
  Collectors,    \* its metrics tickers
  Reconcilers,   \* loops of cmd/reconciler
  Processes,
  ProcessOf,     \* the process each of them runs in
  MaxOpenConns,  \* size of each process's connection pool (a limit, so not 0)
  Transfers,     \* rows of transfers: one lock for a row and its app_request_id
  Accounts,      \* rows of accounts
  Deposits       \* rows of incoming_transactions

Tasks == Clients \cup Relays \cup Collectors \cup Reconcilers

\* Tasks that take a second connection while they hold one.
Nesting == Relays \cup Reconcilers

TasksOf(p) == {t \in Tasks : ProcessOf[t] = p}

\* A task has one of the four kinds of work, in one process.  The loops that nest
\* run in commands of their own, not in the one that serves the clients.
ASSUME TasksAssumption ==
  /\ IsFiniteSet(Tasks)
  /\ ProcessOf \in [Tasks -> Processes]
  /\ Clients \cap (Relays \cup Collectors \cup Reconcilers) = {}
  /\ Relays \cap (Collectors \cup Reconcilers) = {} /\ Collectors \cap Reconcilers = {}
  /\ \A c \in Clients : TasksOf(ProcessOf[c]) \cap Nesting = {}

ASSUME PoolAssumption == MaxOpenConns \in [Processes -> Nat \ {0}]

\* Any process keeps at least one connection that no nesting task can hold
\* while it waits for another.  (The default is 20 connections for one loop.)
ASSUME NestingAssumption ==
  \A p \in Processes : Cardinality(TasksOf(p) \cap Nesting) < MaxOpenConns[p]

\* Tables whose ranges are locked or inserted into.
Tables == {"transfers", "accounts", "incoming_transactions", "outbox"}

\* Rows of different tables are different rows, and a range is not a row.
ASSUME RowsAssumption ==
  /\ Transfers \cap Accounts = {} /\ Transfers \cap Deposits = {} /\ Accounts \cap Deposits = {}
  /\ (Transfers \cup Accounts \cup Deposits) \cap (Tables \cup {"invoice"}) = {}

VARIABLES
  rest,  \* what is left of each task's script
  held   \* its open connections, innermost last: the locks <<what, mode>> of each

vars == <<rest, held>>

-----------------------------------------------------------------------------
(***************************************************************************)
(* Steps and scripts.                                                      *)
(***************************************************************************)
Open     == [do |-> "open",   what |-> "connection"]
Close    == [do |-> "close",  what |-> "connection"]
Bank     == [do |-> "bank",   what |-> "answer"]
Return   == [do |-> "return", what |-> "handler"]
Lock(x)  == [do |-> "exclusive", what |-> x]
Share(x) == [do |-> "shared",    what |-> x]
RangeLock(table) == [do |-> "range",  what |-> table]
Into(table)      == [do |-> "insert", what |-> table]
Rows(table)      == [do |-> "rows",   what |-> table]

\* A statement run through the pool, and a transaction.
Query == <<Open, Close>>
Do(body) == <<Open>> \o body \o <<Close>>

\* An INSERT of row x, whose key is free, or stored (found is the lock that the
\* statement then takes), or free again when that lock is granted: whoever had
\* inserted the row was rolled back.
New(table, x) == <<Into(table), Lock(x)>>
Stored(table, found) == <<RangeLock(table), found>>
FreeAgain(table, x, found) == Stored(table, found) \o New(table, x)
Inserts(table, x, found) ==
  {New(table, x), Stored(table, found), FreeAgain(table, x, found)}

-----------------------------------------------------------------------------
\* POST /transfers.  The second look at a duplicate comes after the rollback.
DuplicateRequest(x) == Query \o Do(Stored("transfers", Share(x))) \o Query

NewRequests(x) ==
  {Query \o Do(insert \o <<Into("outbox")>>) :
     insert \in {New("transfers", x), FreeAgain("transfers", x, Share(x))}}

\* POST /accounts/sync and POST /virtual-accounts: the bank first, then a
\* transaction.  The accounts come in the order of the bank's answer; the new
\* row of a virtual account is nobody else's.
SyncAccounts == <<Bank>> \o Do(<<Rows("accounts")>>)
IssueVirtualAccount == <<Bank>> \o Do(<< >>)

\* GET /metrics and the metrics ticker of the relay: one query after the
\* other.  (Mutant: the rows of the first are not closed.)
FirstKept == <<Open>> \o Query
CollectFromDB == Query \o Query

\* The requests that only read: a statement each, or the bank alone.
GetTransfer         == Query
ListAccounts        == Query
ListVirtualAccounts == Query
Healthz             == Query
GetBalance          == <<Bank>>

ClientScripts ==
  {SyncAccounts, IssueVirtualAccount, CollectFromDB, GetTransfer, ListAccounts,
   ListVirtualAccounts, Healthz, GetBalance}
    \cup UNION {{DuplicateRequest(x)} \cup NewRequests(x) : x \in Transfers}

-----------------------------------------------------------------------------
\* The handlers of the relay, each up to its end (any of them may end early).
\* (Mutant: the bank is called inside the transaction that updates the row.)
BankInside(x) == Query \o Do(<<Lock(x), Bank, Into("outbox")>>)
Send(x)  == Query \o <<Bank>> \o Do(<<Lock(x), Into("outbox")>>)
Check(x) == <<Bank>> \o Query \o Do(<<Lock(x), Into("outbox")>>)
Notify   == Query

Handlers == {Notify} \cup UNION {{Send(x), Check(x)} : x \in Transfers}

\* READ COMMITTED: the batch query locks the rows it returns and no range.
\* (Mutant: the default isolation, which also locks the range it has read.)
RepeatableSelect == <<RangeLock("outbox")>>
SelectBatch == << >>

\* A batch: its handlers run one after the other inside its transaction.
Batch(handler) == Do(SelectBatch \o handler \o <<Return>>)

\* The reconciler's work on one account: the bank's statement, and a
\* transaction in which the invoice is read through the pool, the deposits come
\* in the order of the statement, and the invoice is updated last.
Reconcile ==
  <<Bank>> \o Do(Query \o <<Rows("incoming_transactions"), Lock("invoice"), Into("outbox")>>)

\* A tick: the list of accounts, then one account after the other.
Tick == ListVirtualAccounts \o Reconcile \o <<Return>>

Work(t) ==
  CASE t \in Clients     -> ClientScripts
    [] t \in Relays      -> {Batch(h) : h \in Handlers}
    [] t \in Collectors  -> {CollectFromDB}
    [] t \in Reconcilers -> {Tick}

\* What may follow in the same batch or tick: the next row or account.
Further(t) == IF t \in Relays THEN Handlers ELSE {Reconcile}

\* What is run for a row of a list: an upsert of an account, an INSERT IGNORE of
\* a deposit.  (The match of a new deposit to its invoice updates the same row.)
Statements(table) ==
  IF table = "accounts" THEN UNION {Inserts(table, a, Lock(a)) : a \in Accounts}
  ELSE UNION {Inserts(table, d, Share(d)) : d \in Deposits}

-----------------------------------------------------------------------------
Idle(t) == rest[t] = << >>
Busy == {t \in Tasks : ~Idle(t)}
NextOf(t) == Head(rest[t])

Count(script, do) == Cardinality({n \in DOMAIN script : script[n].do = do})

\* The open connections of a process.
InUse(p) == UNION {{t} \X (1 .. Len(held[t])) : t \in TasksOf(p)}

\* The modes of other transactions' locks that a step has to wait for.
Against(do) ==
  CASE do = "exclusive" -> {"exclusive", "shared"}
    [] do = "shared"    -> {"exclusive"}
    [] do = "insert"    -> {"range"}
    [] OTHER            -> {}

\* Connection n of task u has a lock that t's next step has to wait for.
Blocks(u, n, t) ==
  \E mode \in Against(NextOf(t).do) : <<NextOf(t).what, mode>> \in held[u][n]

\* The tasks with such a connection, other than t's innermost one.
Blockers(t) ==
  {u \in Tasks : \E n \in DOMAIN held[u] : Blocks(u, n, t) /\ (u # t \/ n # Len(held[t]))}

\* Those who must move before t can take its next step: one of those who have
\* the connections of its pool, or all who block it.
WaitsFor(t) ==
  IF Idle(t) THEN {}
  ELSE IF NextOf(t).do # "open" THEN Blockers(t)
  ELSE IF Cardinality(InUse(ProcessOf[t])) >= MaxOpenConns[ProcessOf[t]]
  THEN {u \in TasksOf(ProcessOf[t]) : held[u] # << >>} ELSE {}

Init ==
  /\ rest = [t \in Tasks |-> << >>]
  /\ held = [t \in Tasks |-> << >>]

Start(t) ==
  /\ Idle(t)
  /\ \E script \in Work(t) : rest' = [rest EXCEPT ![t] = script]
  /\ UNCHANGED held

Advance(t) == rest' = [rest EXCEPT ![t] = Tail(@)]

Take(t) ==
  /\ ~Idle(t) /\ NextOf(t).do = "open" /\ WaitsFor(t) = {}
  /\ held' = [held EXCEPT ![t] = Append(@, {})]
  /\ Advance(t)

\* The innermost connection keeps a lock until it ends; an insert only passes
\* the range by.
Execute(t) ==
  /\ ~Idle(t) /\ WaitsFor(t) = {}
  /\ \/ /\ NextOf(t).do \in {"exclusive", "shared", "range"}
        /\ held' = [held EXCEPT ![t][Len(held[t])] = @ \cup {<<NextOf(t).what, NextOf(t).do>>}]
     \/ NextOf(t).do = "insert" /\ UNCHANGED held
  /\ Advance(t)

\* The next row of a list, in whatever order it comes, or the end of the list.
NextRow(t) ==
  /\ ~Idle(t) /\ NextOf(t).do = "rows"
  /\ \/ Advance(t)
     \/ \E next \in Statements(NextOf(t).what) : rest' = [rest EXCEPT ![t] = next \o @]
  /\ UNCHANGED held

GiveBack(t) ==
  /\ ~Idle(t) /\ NextOf(t).do = "close"
  /\ held' = [held EXCEPT ![t] = SubSeq(@, 1, Len(@) - 1)]
  /\ Advance(t)

\* The bank answers, or the client gives up after its timeout.
Answered(t) ==
  /\ ~Idle(t) /\ NextOf(t).do = "bank"
  /\ Advance(t)
  /\ UNCHANGED held

\* The batch or the tick goes on with the next row or account, or is done.
Returned(t) ==
  /\ ~Idle(t) /\ NextOf(t).do = "return"
  /\ \/ Advance(t)
     \/ \E next \in Further(t) : rest' = [rest EXCEPT ![t] = next \o @]
  /\ UNCHANGED held

\* A handler, or the work on an account, ends early, in most cases with an
\* error: what it holds itself is given back, and the loop goes on behind it.
ReturnsEarly(t) ==
  \E n \in DOMAIN rest[t] :
    LET onward == SubSeq(rest[t], n, Len(rest[t]))
        outer  == Count(onward, "close") - Count(onward, "open")
    IN  /\ n > 1 /\ rest[t][n].do = "return"
        /\ outer <= Len(held[t])
        /\ rest' = [rest EXCEPT ![t] = onward]
        /\ held' = [held EXCEPT ![t] = SubSeq(@, 1, outer)]

\* An error of the request, of the batch or of the tick itself, a timeout of
\* its context, or the end of the process.
Abandon(t) ==
  /\ ~Idle(t)
  /\ rest' = [rest EXCEPT ![t] = << >>]
  /\ held' = [held EXCEPT ![t] = << >>]

Next ==
  \E t \in Tasks :
    \/ Start(t) \/ Take(t) \/ Execute(t) \/ NextRow(t) \/ GiveBack(t)
    \/ Answered(t) \/ Returned(t) \/ ReturnsEarly(t) \/ Abandon(t)

Spec == Init /\ [][Next]_vars

-----------------------------------------------------------------------------
Locks ==
  ((Transfers \cup Accounts \cup Deposits \cup {"invoice"}) \X {"exclusive", "shared"})
    \cup (Tables \X {"range"})

\* No pool hands out more than it has, nobody holds more than two connections,
\* and a task that has ended has given everything back.  (db.go Open and
\* SetMaxOpenConns, the deferred rollbacks and Closes)
TypeOK ==
  /\ \A t \in Tasks :
       /\ Len(held[t]) <= 2
       /\ \A n \in DOMAIN held[t] : held[t][n] \subseteq Locks
       /\ Idle(t) => held[t] = << >>
  /\ \A p \in Processes : Cardinality(InUse(p)) <= MaxOpenConns[p]

Waiting == {t \in Tasks : WaitsFor(t) # {}}

\* Nobody in the set can move before somebody else in it has: all who have the
\* connections of an exhausted pool are in it, or somebody who has a lock.
Stuck(set) ==
  \A t \in set :
    IF NextOf(t).do = "open" THEN WaitsFor(t) \subseteq set ELSE WaitsFor(t) \cap set # {}

\* The database knows that t's transaction waits for that of each of these: a
\* task that waits for a lock does so with its innermost connection.
InnermostBlockers(t) ==
  {u \in Tasks \ {t} : held[u] # << >> /\ Blocks(u, Len(held[u]), t)}

\* A circle that the database sees and ends, by rolling one of its members back.
SeenCircle(set) ==
  \A t \in set : NextOf(t).do # "open" /\ InnermostBlockers(t) \cap set # {}

\* A deadlock always has a circle that the database sees, and whom it rolls back
\* is a request that fails alone or the work on an account, which the next tick
\* repeats: no circle needs a pool or the outer one of two nested transactions
\* to close, which nobody would ever end, or the relay, where the victim would be
\* the handler of a payment.  (relay.go ProcessBatch with handlers that need a
\* connection and insert into the outbox; usecase.go Execute with its nested
\* read; the INSERT IGNOREs and upserts in the bank's order)
DeadlocksAreSeen ==
  \A set \in (SUBSET Waiting) \ {{}} :
    Stuck(set) =>
      \E circle \in (SUBSET set) \ {{}} :
        /\ SeenCircle(circle)
        /\ circle \subseteq Clients \/ circle \subseteq Reconcilers

\* No request of a client ever waits for an answer that the bank owes to
\* somebody else: neither it nor anyone it waits for, directly or through
\* others, waits for a task that is calling the bank.  (The outbox keeps the
\* bank's latency out of the API: relay.go holds its transaction across the
\* calls, but no lock and no connection that a request needs.)
Calling == {t \in Tasks : ~Idle(t) /\ NextOf(t).do = "bank"}

ClientsNeverWaitForBank ==
  \A c \in Clients \cap Waiting :
    \E chain \in SUBSET (Tasks \ Calling) :
      c \in chain /\ \A t \in chain : WaitsFor(t) \subseteq chain
=============================================================================
