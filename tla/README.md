# A TLA+ development for go-sunabar-payments

The repository is a payment service in Go on top of the sunabar banking API:
an HTTP API that accepts transfers, a MySQL database with a shared outbox
table, a relay process that turns outbox rows into calls of the bank and into
notices, and a reconciler that matches incoming money against invoices. This
directory models the parts in which the order of events decides whether money
moves once, twice or never, checks them with TLC and proves the central
properties with TLAPS. Paths below are relative to the repository root
(`src/` here).

## 1. The system

### Components, their state and their operations

| Component | State | Operations that change it | How others reach it |
|---|---|---|---|
| Request use case (`internal/modules/transfer/application/usecase_request.go`, `transport_http.go`) | rows of `transfers` (status, keys, version) and their first outbox row | `Execute`: look up, insert row and event in one transaction, look the winner up on a duplicate | HTTP `POST /transfers` in `cmd/api` |
| Outbox (`internal/platform/outbox`) | rows of `outbox_events` (status, attempt_count, next_attempt_at), `event_processed` | `Publish`; `ProcessBatch`/`dispatch`; `MarkProcessed` | publishers inside business transactions; the relay process `cmd/relay` |
| Send handler (`handler_send_to_sunabar.go`) | transfer row, outbox rows, circuit breaker | read, breaker, bank call, one transaction | the relay, for `TransferRequested` |
| Status handler (`handler_check_status.go`) | transfer row, outbox rows | bank call, read, one transaction | the relay, for `TransferStatusCheckScheduled` |
| Circuit breaker (`circuit_breaker.go`) | state, failure count, opening time, probes, samples | `Allow`, `RecordSuccess`, `RecordFailure`, `State` | the send handler |
| Notification (`internal/modules/notification`) | `event_processed` rows, the notices sent | `MarkProcessed`, then `Send` | the relay, for the four state-change events |
| Reconciliation (`internal/modules/reconciliation`) | `invoices`, `incoming_transactions`, outbox rows | `IssueInvoice`, `Reconcile` | `Reconcile` from `cmd/reconciler`; `IssueInvoice` is offered by the module's `Service`, no route leads to it |
| Account (`internal/modules/account`) | `accounts`, `virtual_accounts` | `SyncAccounts`, `IssueVirtualAccount` | HTTP; the ticks of `cmd/reconciler` list the virtual accounts |
| Reconciler process (`cmd/reconciler`) | the rest of its tick | list, visit one account after the other | a timer |
| Connection pools and transactions (`internal/platform/database`, `transaction`) | open connections and the locks they hold | take, lock, give back | everything that reads or writes |
| Sunabar client (`internal/platform/sunabar`) | cached OAuth2 token | the bank calls | handlers, use cases |
| Metrics (`internal/platform/observability`) | gauges | `CollectFromDB` | a ticker in `cmd/relay`, `GET /metrics` |
| Operations (`scripts/emergency-stop.sh`) | outbox rows | stop: PENDING to FAILED; restore one row | the operator |

The processes share nothing but the database: calls, relay workers,
reconcilers and the operator interleave at every statement that is not inside
one transaction, and a handler keeps what it read across a bank call of up to
five seconds.

### What is hard

- **Interleaving.** A handler runs outside the relay's transaction. When the
  connection of a relay worker is lost, its row locks are gone while the handler
  runs on, and a second worker takes the same rows. Two HTTP calls may carry the
  same `app_request_id`. Two reconcilers may work on one account.
- **Failure between two commits.** Handler and relay commit separately; a mark
  in `event_processed` and the notice are separate; a commit may be ambiguous.
- **The bank.** An answer may be late or lost while the order was accepted.
- **Time.** Backoff, the breaker's timeout and window, `next_attempt_at`.
- **Limits.** LIMIT of the batch, `MaxAttempt`, probes of the breaker, the size of a
  connection pool.
- **Nesting.** The relay runs its handlers inside the transaction that locks the
  batch, and the reconciler reads the invoice inside its own: both take a second
  connection while they hold one, and write to a table that the first one has locked.

### What makes each part correct

| Component | Property | Where |
|---|---|---|
| Request, send handler | a client request is paid once at most | `OneOrderPerRequest` (proved) |
| Request | equal `app_request_id`, equal answer | `SameAnswer` (proved) |
| Transfer rows | every stored status follows the graph of `status.go` | `StatusFollowsGraph` (proved) |
| Both handlers | the service never claims more than the bank did | `NeverAheadOfBank` (proved) |
| Both handlers | published notices tell the history without gap or repetition | `NoticesTellHistory` (proved) |
| Outbox | a row is SENT after its work is done, each transfer has each job once | `SentMeansDone`, `OneJobEach` (both proved) |
| Outbox | nothing is forgotten | `NothingForgotten` |
| Relay queue | skips are free, rows are served in turn | `AttemptsAreSpentOnFailures` (proved), `ServedInTurn` |
| Notification | a notice is sent once at most, and lost to a fault only | `NoticeAtMostOnce`, `LossNeedsFault` (both proved) |
| Reconciliation | no deposit is credited twice; books that balance stay so | `NoDoubleCredit`, `BooksBalance`, `EventsTellStatus` (all proved) |
| Account, reconciler | no row or answer without an account at the bank; a deposit on an account handed out is recorded in the end | `CollectionTypeOK` (proved), `DepositsRecorded` |
| Pools, transactions | a deadlock is one that the database sees and ends, at the cost of a request or of one account's tick; no request waits for the bank's answer to somebody else | `DeadlocksAreSeen`, `ClientsNeverWaitForBank` (both proved) |
| All of the transfer | request, outbox, handlers and bank keep `PaymentPromise` | `KeepsPromise` (proved) |
| Breaker | opens for a reason, stays shut long enough, never locks itself up | `CountsTheRun`, `OpensForAReason`, `ShutForResetTimeout`, `NeverStuck` (all proved) |

The hazards behind them, each with its line, are listed in `PROJECT.json`.

## 2. The modules

| Module | Models | State | Actions and the code they stand for |
|---|---|---|---|
| `TransferDomain` | `status.go`, `events.go`, `state_event.go`, `mapSunabarStatus` | none | the status graph and the notice that goes with a transition |
| `TransferFlow` | request use case, outbox, relay, both handlers, operator; the bank as the code uses it | tables `transfers`, `outbox`, `notices`; position and local copies of every call and worker; orders and late requests at the bank | `Call*` = `Execute`; `Pick`, `Return`, `CommitBatch` = `ProcessBatch`/`dispatch`; `StartSend` to `Record` = `SendToSunabarHandler.Handle`; `StartCheck`, `Load`, `Apply` = `CheckStatusHandler.Handle`; `EmergencyStop`, `Restore` = `emergency-stop.sh`; `Crash`, `LoseConnection`, `LoseUpdate` = faults |
| `PaymentPromise` | what the service promises per `app_request_id` | status, orders, notices of each request | `Accept`, `TakeOrder`, `Move` |
| `TransferRefinement` | that `TransferFlow` keeps the promise | refinement mapping `stateOf`, `orderedOf`, `toldOf` | `INSTANCE PaymentPromise` |
| `RelayQueue` | the order and timing of the outbox | the queue, waits, attempts, locked rows; of each worker the rows it still has to dispatch | `Publish`; `Poll` = the batch query; `Dispatch` = `dispatch` with its three outcomes and the row without a handler; `Commit`; `Tick` |
| `NotificationDelivery` | relay, `MarkProcessed`, sender | outbox rows, `event_processed`, notices sent, row locks | `Pick`, `MarkProcessed`, `Send`, `Settle`, and each of them failing |
| `Reconciliation` | `IssueInvoice`, `Reconcile` on one account | invoice, recorded and matched deposits, events, each reconciler's page and copy | `ListTransactions`, `FindInvoice`, `Commit`, `Fail` |
| `Collection` (extends `Reconciliation`) | `IssueVirtualAccount`, the tick of `cmd/reconciler` | each call's progress, accounts at the bank, rows of `virtual_accounts`, what is left of each tick | `BankIssues`, `Insert`, `IssueFails`; `Tick`, `VisitOther`, `Lists` to `VisitFails` = one visit, made of `Reconciliation`'s steps; `Restart` |
| `DatabaseSessions` | pools and locks of all processes | each task's remaining steps, its open connections and their locks | `Take`, `Execute`, `GiveBack`, `Answered`; `NextRow` = the next element of a list from the bank; `ReturnsEarly` = an error inside a batch or tick; `Abandon` = an error of the whole |
| `CircuitBreaker` | `circuit_breaker.go`, as the send handler calls it | the breaker's fields; the clock; each caller's position | `Allow`, `State`, `RecordSuccess`, `RecordFailure` |
| `TransferFlowProofs`, `TransferHistoryProofs`, `TransferRefinementProofs` | | | theorems about `TransferFlow`: its safety, its histories, its refinement; each extends the one before |
| `CollectionProofs` | | | theorems about `Collection` and `Reconciliation` |
| `NotificationDeliveryProofs`, `CircuitBreakerProofs`, `RelayQueueProofs`, `DatabaseSessionsProofs` | | | theorems about the module of that name |
| `MC...` | | | model values, symmetry and overrides of constants for TLC |

How the models meet: `TransferFlow` is the composition of request, outbox,
handlers and bank. Three parts of it are abstract there and detailed elsewhere:
the answer of the breaker (any answer in `TransferFlow`; `CircuitBreaker`), the
order and delay of rows (any due row; `RelayQueue`), and the delivery of
state-change events, which touch no transfer (`notices`; `NotificationDelivery`).
`Collection` composes `Reconciliation` with what comes before it: its steps are
conjoined with the queue of the tick, and its invariants are checked again under
the composition. `DatabaseSessions` lies across all of them: it forgets what the
statements compute and keeps which connection runs them, which lock they need and
when the bank is called. Where the other models say "a transaction is one step",
it is the one that says that the step comes to an end.

Abstractions worth knowing when the models are read beside the code:

- The id of a transfer and its API idempotency key are made by the same
  execution and stand for it: `Keys == Calls`. `idgen.go` is taken to be unique.
- A transaction is one step, or has no effect. What the code reads before it
  is a step of its own, so that everything may happen in between. A commit that
  reports an error after it took effect is a choice in `CallInsert`, `Record`
  and `Apply`.
- Request bodies, headers, JSON, amounts of a transfer, wording of notices and
  logging are left out.
- An account of `Collection` is named by the call that the bank took, since
  every call makes a key of its own. The other accounts of a tick are not modelled
  beyond the fact that a visit takes a step and may fail: accounts share no row
  (the unique key on deposits is `(virtual_account_id, item_key)`).
- `DatabaseSessions` has exclusive and shared locks of rows and keys, range locks, and
  inserts that wait for range locks of others. An insert that meets a stored key takes a shared lock
  (an exclusive one in an upsert) of the row and locks the range before it; if the key is
  free again by the time the lock is granted, it goes on as an insert. The bank's lists come in
  any order. Three simplifications make tasks wait more often than they would in InnoDB: a transfer row
  and its `app_request_id` are one lock, all keys of a table lie in one range, and all
  reconcilers work on one account with one invoice. One makes them wait less: a lock request that
  is itself waiting does not yet keep later ones back. Left out are the locks of the batch query (SKIP
  LOCKED never waits for them), the range locks of the emergency stop, and the lock wait
  timeout, which ends a wait and causes none; a rolled back victim is an `Abandon` or a `ReturnsEarly`.
- `NotificationDelivery` leaves out the branch of `handler.go:46-48` that marks an event and sends nothing: it
  is for an event of a type without a notice or with an unreadable payload, and the relay hands the handler the four
  state-change events only, whose payload the transfer module has written.
- A page of the bank's statement is any part of the statement, which covers
  the 24-hour window and the `hasNext` that the code ignores.
- `RelayQueue` keeps the time *left* until a row is due, and for rows that are
  due only their order, so that its state space is finite though time is not.

## 3. What the runs show

| Run | Instance | Properties | What it shows |
|---|---|---|---|
| `flow_race` | 2 calls with one `app_request_id`, 2 workers, batches of 2, 2 attempts, 2 faults | `TypeOK`, `OneOrderPerRequest`, `SameAnswer`, `StatusFollowsGraph`, `NoticesTellHistory`, `NeverAheadOfBank`, `SentMeansDone`, `OneJobEach`, `KeepsPromise` | no two of crash, lost connection, lost update, ambiguous commit, stop and restore break the books of a request, and `TransferFlow` implements `PaymentPromise` |
| `flow_live` | 1 call, 2 workers, fair | `NothingForgotten` | every stored transfer gets terminal or leaves a FAILED row |
| `queue_served` | 2 rows with a handler, 1 without, 2 workers, batches of 2 | `TypeOK`, `AttemptsAreSpentOnFailures`, `ServedInTurn` | skips cost no attempt; nobody starves while unhandled rows are fewer than a batch |
| `notice_twice` | 2 events, 2 workers, 3 faults | `TypeOK`, `NoticeAtMostOnce`, `LossNeedsFault` | redelivery repeats no notice |
| `collect` | 2 accounts being issued, 2 reconcilers, 2 deposits, an invoice of 2; one reconciler fair | `TypeOK`, `CollectionTypeOK`, `NoDoubleCredit`, `EventsTellStatus`, `BooksBalance`, `DepositsRecorded` | a deposit listed again and again is credited once; only an outdated copy makes the books differ; neither a failing account nor a restart keeps a deposit from being recorded |
| `sessions` | 2 requests, a relay, its ticker, 2 reconcilers; pools of 2; 2 accounts and 2 deposits in any order | `TypeOK`, `DeadlocksAreSeen`, `ClientsNeverWaitForBank` | with one connection more than loops that nest, no deadlock hides behind a pool: two syncs with lists in different order, or two reconcilers that both list a stored deposit and each insert a new one, do wait for each other, and the database ends it; READ COMMITTED is what keeps a batch from blocking its own handlers |
| `breaker` | 2 callers, threshold 2, window 2, 4 ticks, 4 results | `TypeOK`, `CountsTheRun`, `NeverStuck`, `OpensForAReason`, `ShutForResetTimeout` | the breaker's promises with results that come in late |

Five runs end in a counterexample, and each is a disagreement between code and
documentation:

| Run | Violated | The disagreement |
|---|---|---|
| `flow_failed` | `FailedMeansNoOrder` | A 4xx on a retry marks the transfer FAILED although an earlier attempt, given up unanswered, was or will be accepted (`handler_send_to_sunabar.go:119`). No fault is needed. `README.md:8` claims atomicity of update and external call. |
| `flow_outcome` | `OutcomeObserved` | `ErrStillInFlight` is an ordinary error and uses up attempts (`relay.go:209`); a bank that takes longer is never asked again, although `final-article.md:151` says that status checks go round as long as the relay runs. |
| `queue_starved` | `ServedInTurn` | Rows without a handler keep their place at the head of the queue (`relay.go:179`), and the reconciliation events have none (`cmd/relay/main.go:69`): `BatchSize` of them stop the relay. |
| `reconcile_late` | `StatusFollowsIncomings` | A deposit recorded in a transaction that found no invoice is never matched (`usecase.go:152`), be the invoice issued right after that look or later, although `domain/invoice.go:23` derives the status from the total of the deposits. |
| `notice_lost` | `SentMeansNoticed` | The mark commits before the notice is sent (`handler.go:38`). When the relay ends in between, the next delivery takes the mark for a notice and nobody sends it: at most once, where `ADR-0005:14` says exactly once. |

Smaller disagreements met while modelling, without a run of their own:

- `notification/application/handler.go:6` says the relay deduplicates with
  `event_processed`; the relay never does, and its `Consumer` setting is unused.
- `account/application/usecase.go:110` says that a repetition gets the same virtual account; each
  execution makes a new key (line 114), so it gets another one. `Collection` has one
  account per call for this reason.
- `SyncAccounts` answers with freshly made ids (`usecase.go:40`), while the upsert keeps the id
  of a stored row. `POST /virtual-accounts` has a 409 for `ErrAlreadyExists`, which the
  repository never returns.
- Two reconcilers at once may lose an update of `paid_amount`: the invoice is read
  outside the transaction and written back without a version. `BooksBalance`
  states precisely when, and `NoDoubleCredit` that it never errs upward.
- The breaker books a result in the state in which it finds the breaker. With
  several callers a late failure can reopen a HALF_OPEN breaker whose probe is
  still out, and a second probe follows after the timeout. `cmd/relay` has one
  caller per breaker, so this needs a second user of the package.
- `circuit_breaker.go:42` and `:50` speak of exceeding (超える) the threshold and the
  rate; the code opens on reaching them (`>=`), and so does the model.

### Bounds, and why they are enough

- **Two calls, two workers.** The properties are about one transfer and
  those who work on it. Two workers give every order of a stale and a
  fresh copy; the proofs remove the bound for the properties they cover.
- **`MaxFaults` 2 (3 for notices).** Counts crashes, lost connections, lost row
  updates, ambiguous commits, skips by the breaker, the emergency stop and every
  restored row. Two suffice for the combinations that matter: a lost connection and
  an ambiguous commit, a stop and its restore. Refusals by the bank, timeouts and
  failing statements are not counted: they are bounded by the attempts alone.
- **`MaxAttempt` 2 or 3** instead of 50 (`cmd/relay`; 10 in the package): the first attempt, one after a failure, and
  the last one are different cases; attempts in the middle are alike.
- **`BatchSize` 2**: rows of different fate in one commit. 1 in `flow_failed`
  and `flow_outcome`, where no batch matters, and in `queue_starved`, where one
  unhandled row is then enough.
- **`MaxBackoff` 3**: delays of 2, and of 4 cut to 3. `Clamped` keeps the exponent in 0..30 as
  in the code, and with these attempts the upper clamp is out of reach.
- **`MaxTime` 4, `MaxResults` 4** in `CircuitBreaker`: time for opening, timeout, probe
  and a second opening, and results enough to fill threshold, `MinRequests` and
  window. The actions they guard only stop; deadlock is not checked there.
- **Two deposits of 1 and 2, an invoice of 2** in `collect`: every status of an invoice,
  OPEN, PARTIAL, CLEARED and EXCESS. `reconcile_late` has a debit as well.
- **Two accounts** in `collect`: the watched one first or last in a tick.
- **Pools of two** in `sessions`: the smallest that `NestingAssumption` allows for a loop. The
  assumption is needed: with a pool of one, relay and reconciler wait for
  themselves. The code asks for 20; `DB_MAX_OPEN_CONNS=1` would break it (and is ignored
  when `DB_DSN` is set). `TasksAssumption` says that the loops run in commands of their own, not in
  `cmd/api`, and `RowsAssumption` that rows of different tables are different.
- **Two accounts, two deposits, one transfer** in `sessions`: lists of any length and order over two rows, each
  stored, new or free again, so both orders of two rows and a shared range occur. `InPairs` bounds what TLC
  explores, not the system: while a reconciler runs, one other task does (the other reconciler
  for the deadlocks of two ticks, the relay or a request for what they share). A reconciler shares only
  the outbox with the API and the relay, and the proof has no such bound.
- Deadlock is not checked where everything may be done (all rows SENT or FAILED);
  `collect`, `reconcile_late` and `sessions` do check it. In `sessions` an abandoned task is always
  possible, so a deadlock is looked for by `DeadlocksAreSeen` instead, as a set of tasks of which none can move before another does.
- `sessions` uses the symmetry of the two requests. `flow_race` uses the symmetry of calls and workers: both are
  compared only, never chosen or ordered (`TransferOf` chooses from a set with
  one member at most). No liveness is checked under symmetry.

### Fairness

`FairSpec` of `TransferFlow`: weak fairness of each worker's steps, no more. `cmd/relay`
runs `ProcessBatch` from a ticker in a loop that logs errors and goes on, a handler has
a timeout of five seconds, so a worker that can move does. Nothing is assumed of the
bank, the callers or the operator; faults are finitely many because `MaxFaults`
bounds them, and a skip by the breaker counts as one: a breaker that stays open for
ever would keep a row PENDING for ever, and rightly so. `RelayQueue` adds weak fairness
of `Tick`: time passes.

`Collection` is fair to one reconciler, `Steady`, and leaves the other one free. Its timer
runs for ever and every call it makes has a timeout, hence weak fairness of its steps. A
call may fail any number of times, but not for ever: strong fairness of leaving
another account behind (done or failed, both count), of an answer of the bank with the whole statement,
and of reading and committing with such an answer. This is what the code cannot provide
itself; where it fails (`hasNext`, an outage beyond 24 hours) deposits do get lost, see the hazards.

## 4. What is proved

Every invariant and every action property of the passing runs is a theorem, for any
values of the constants that satisfy the named assumptions of the module: any numbers
of calls, workers, processes, rows, attempts and faults, any limits and amounts. Every
part of an inductive invariant that TLC can evaluate was checked on the instance of the module's run
before it was proved. Only liveness is left to TLC.

**Transfers** (`TransferFlowProofs`): `TypeCorrect`, `NoDoublePayment`
(`OneOrderPerRequest`) and `StatusMovesLegally` (`StatusFollowsGraph`).
`OneOrderPerRequest` speaks of orders only and is not inductive. The invariant that is
(`IInv`, theorem `InvariantHolds`) has three more parts. `RowInv`: a stored row
carries the key of the execution that made it, and one `app_request_id` has one row.
`BankInv`: every order, and every request that may still arrive, carries the key of a
stored transfer, so that the bank's own idempotency makes them one.
`HandlerInv`: the copy that a handler holds is the stored row or an older
version of it. This last part is what the version column is for, and the proof uses it
twice: for the key that goes to the bank, and for `StatusFollowsGraph`, where a write
that passes the version check is a legal move from the row as it is.
No part of the proof relies on the row locks.

**Histories** (`TransferHistoryProofs`): `OneAnswerPerRequest`, `NoticesAreTrue`,
`JobsAreUnique`, `SentIsDone` and `BankComesFirst` (`SameAnswer`, `NoticesTellHistory`,
`OneJobEach`, `SentMeansDone`, `NeverAheadOfBank`). The invariant `HistoryInv` has six parts, each
inductive given `IInv` and the parts before it: an answer names a stored transfer of its
request; notices are a path of the status graph that ends at the stored status; a
transfer has its first job, and the second one from the moment its order is recorded; what
a worker has in hand is a row of the type its handler is for; what is SENT, or about to be
committed as SENT, is finished; and what a worker has heard from the bank is true by now
of the bank, whose orders only move on. The last two are where stale copies matter: a worker
that has lost its locks may still record what it heard, and what it heard stays true.

**The promise** (`TransferRefinementProofs`): `FlowKeepsPromise`, that every behaviour of
`TransferFlow` is one of `PaymentPromise` under the mapping of `TransferRefinement`. Of all
steps only four are not stutters: the insert of a row is `Accept`, the bank taking an
order, in time or late, is `TakeOrder`, and `Record` and `Apply` are `Move`, by `StatusFollowsGraph`
and because the notices of a row grow by the one that goes with the move.

**Notices** (`NotificationDeliveryProofs`): `NoticeTypeCorrect`, `NoNoticeTwice` and
`LossIsTraced`. The invariant says who may send
(`MarkInv`: the one that set the mark, which has not sent yet), what the lock
guarantees (`LockInv`: one holder of a PENDING row with attempts left) and what a mark
means without a fault (`SendInv`: sent, or about to be). `NoNoticeTwice` needs the mark only;
`LossIsTraced` needs the lock, since without it a second delivery could see the
mark of a first one that is still sending, and report success.

**Books** (`CollectionProofs`): `ReconciliationTypes`, `CreditedOnce`, `EventsAreTrue`,
`BooksStayBalanced`, and of the composition `CollectionReconciles` (each of its behaviours is one
of `Reconciliation`, so that the former theorems hold of it) and `AccountsAreKept`. The invariant behind `NoDoubleCredit` is
`CreditInv`: an invoice, as stored *or as anybody has read it*, has no more credited than is
matched; a writer adds deposits that it finds unrecorded in the same transaction, so even an outdated
copy can lose a credit but never double one. `Total` is a fold of the library over a set, about
which no library fact exists. The lemmas show that the recursion behind it has a solution for
every finite set and that its value does not depend on the order of the elements, by taking a
smallest subset where they would fail.

**Breaker** (`CircuitBreakerProofs`): `BreakerTypes`, `RunsAreCounted`, `BreakerMovesOn`,
`BreakerStaysShut` and `TripsAreJustified`. The model keeps a log of all results, the code a
counter, a time and the pruned samples. `BreakerInv` relates them: the counter is the
length of the run of failures at the end of the log (`CountsTheRun`), `openedAt` is the time of the last
entry that opened (`TripInv`), and the samples are the end of the log, whose dropped entries had
left the window when some later result came (`WindowInv`). Pruning therefore forgets nothing that a later decision would count.

**Queue** (`RelayQueueProofs`): `RelayHolds`, `QueueTypes` and `OnlyFailuresCost`. The queue holds
every PENDING row once (`QueueInv`), and what a worker has still to dispatch it has locked
alone (`BatchInv`): so attempts count what was tried, whatever the order of dispatch.

**Pools and locks** (`DatabaseSessionsProofs`): `SessionsHold`, `PoolsAreKept`, `DeadlocksEndThemselves` and
`ClientsAreFreeOfBank`. A script is a sequence of steps, and each step has connections that it expects and
connections that it leaves (`Moves`). `Leads` says that a script has a way from one to the other, and is
shown for every script of the program from lemmas about putting scripts together. The
invariant `SessionsInv` says that what is left of every task's script leads from what it has
to nothing; that an early return is followed by the end of the batch only; that of two nested connections the
inner one alone has locks, and none but those of its kind of work (`LocksOf`); and that no pool is overdrawn. The locks
are not known exactly: a script leads from connection *shapes* to shapes, each with the locks it may have (`Fits`), so that
lists in any order and of any length are covered.
`DeadlocksAreSeen` follows. Suppose a set of tasks of which none can move before another in it does. If one
waits for a connection, all who have connections of its pool are in the set; were each of these
waiting for a second one, `NestingAssumption` says that they do not exhaust the pool, so one of
them waits for a lock. Whoever waits for a lock waits for the innermost connection of somebody, which is what the
database sees. Somebody in the set who is waited for in this way has a lock and waits too, so for a lock
again; it is not the ticker, which locks nothing, nor the relay, which waits for the one row of its transaction before it
has a lock, and never for the outbox, whose range nobody locks. So it is a request or a reconciler, and those never
want each other's locks (`LocksAreApart`): the requests of the set that wait for locks, or else the reconcilers, are a
circle of their own.
That nobody deadlocks at all is not so: the code sorts no list, and INSERT IGNORE of a stored key takes a shared lock.
For `ClientsNeverWaitForBank` the chain is the client, the users of its pool and everybody who
has a lock: the bank is called without locks, and inside a connection only by loops of other processes.

Assumptions, each named in the module that declares the constants: `NONE` is no call, limits are
positive, unhandled rows are rows, amounts are integers, tasks are finitely many, a pool is larger than the number of nesting loops of its process
(`NestingAssumption`), and each row has one table (`RowsAssumption`).

Out of the prover's reach and checked by TLC only: liveness (`NothingForgotten`, `ServedInTurn`,
`OutcomeObserved`, `DepositsRecorded`), since it needs fairness and `ENABLED`. The five
counterexamples of section 3 are TLC's as well.

## 5. Not modelled, and next

Left out, and why:

- HTTP and JSON, validation of bodies, masking, logging, the wording of notices, start and
  shutdown of servers, the manual probe, build and infrastructure files: no state that a
  decision depends on.
- `OAuth2TokenSource` (`auth.go:61`): no command builds it; all use `StaticTokenSource`, which has no state.
- The values of the gauges (a status that no row has any more keeps its old count, `metrics.go:69`)
  and the columns that `SyncAccounts` writes: read by nothing but the routes that show them.
- The lifetime of an idempotency key at the bank, and the 24 hours and `hasNext` of a
  statement: facts of the bank and of its traffic that the code does not fix.
- The mock bank beyond `handleTransfer`: its answers are instances of the free choices.

Next, proofs: that `OneOrderPerRequest` and its like carry over to what a client sees, as properties
of `PaymentPromise` itself; that `Clamped` backoff never shrinks as attempts grow; that
`RelayQueue` serves rows of one wait in the order of the queue, the safety half of `ServedInTurn`.
