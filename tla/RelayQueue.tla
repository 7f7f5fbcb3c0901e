----------------------------- MODULE RelayQueue -----------------------------
(***************************************************************************)
(* The outbox as a queue in time: the order in which the relay serves its  *)
(* rows, the delays after failures and skips, the attempts they cost, and  *)
(* the rows that no handler is registered for.  What the handlers do, and  *)
(* what happens when a worker loses its transaction, is in TransferFlow;   *)
(* here a handler only succeeds, fails or asks to be skipped.              *)
(*                                                                         *)
(* Time is relative: a row carries the time left until its next_attempt_at,*)
(* and -1 when that is past.  How long it is past shows in the order of    *)
(* the queue alone, which keeps the state space finite.                    *)
(***************************************************************************)
EXTENDS Integers, Sequences, FiniteSets, SequencesExt

CONSTANTS
  Rows,        \* outbox rows that are published sooner or later
  Unhandled,   \* those whose event_type has no handler
  Workers,     \* relay workers
  BatchSize,   \* LIMIT of the batch query
  MaxAttempt,  \* attempts after which a row is given up
  MaxBackoff,  \* ten minutes
  SkipDelay    \* skipAttemptBackoff

ASSUME RowsAssumption == Unhandled \subseteq Rows
ASSUME LimitsAssumption == BatchSize \in Nat \ {0} /\ MaxAttempt \in Nat \ {0}
ASSUME DelayAssumption == MaxBackoff \in Nat \ {0} /\ SkipDelay \in Nat \ {0}

VARIABLES
  queue,     \* the PENDING rows in the order of next_attempt_at
  wait,      \* time left until next_attempt_at, -1 if past
  status,    \* status of each row, "none" before it is published
  attempt,   \* attempt_count of each row
  failures,  \* handler failures of each row (history only)
  locked,    \* rows a worker has locked in its transaction
  batch      \* those it has not dispatched yet

vars == <<queue, wait, status, attempt, failures, locked, batch>>

Init ==
  /\ queue = << >>
  /\ wait = [r \in Rows |-> 0]
  /\ status = [r \in Rows |-> "none"]
  /\ attempt = [r \in Rows |-> 0]
  /\ failures = [r \in Rows |-> 0]
  /\ locked = [w \in Workers |-> {}]
  /\ batch = [w \in Workers |-> {}]

-----------------------------------------------------------------------------
\* The exponential backoff, with its clamps: the exponent is kept within 0..30
\* so that the shift does not overflow.
Clamped(n) == IF n < 0 THEN 0 ELSE IF n > 30 THEN 30 ELSE n

\* (Mutant: without the ten-minute cap.)
Uncapped(n) == 2 ^ Clamped(n)
backoffDuration(n) == IF 2 ^ Clamped(n) > MaxBackoff THEN MaxBackoff ELSE 2 ^ Clamped(n)

Position(r) == CHOOSE i \in DOMAIN queue : queue[i] = r
Without(r) == RemoveAt(queue, Position(r))

\* Row r, out of the queue so far, is due after d: its place is any one that
\* keeps the queue in order (the order of equal times is up to the database).
Enqueue(q, r, d) ==
  \E n \in 0..Len(q) :
    /\ \A i \in 1..n : wait[q[i]] <= d
    /\ \A i \in (n + 1)..Len(q) : wait[q[i]] >= d
    /\ queue' = InsertAt(q, n + 1, r)
    /\ wait' = [wait EXCEPT ![r] = d]

Publish(r) ==
  /\ status[r] = "none"
  /\ status' = [status EXCEPT ![r] = "PENDING"]
  /\ Enqueue(queue, r, 0)
  /\ UNCHANGED <<attempt, failures, locked, batch>>

\* The batch query: the due rows that no worker has locked, oldest first, and
\* as many as a batch holds.  A row keeps its place in the queue until it is
\* dispatched.  (Mutant: a query that takes the newest first.)
Due(r) == wait[r] <= 0 /\ \A w \in Workers : r \notin locked[w]
DueRows == {r \in ToSet(queue) : Due(r)}
NewestFirst(first, rest) == \A r \in first, s \in rest : Position(r) > Position(s)
OldestFirst(first, rest) == \A r \in first, s \in rest : Position(r) < Position(s)

Poll(w) ==
  /\ locked[w] = {}
  /\ \E rows \in SUBSET DueRows :
       /\ rows # {} /\ Cardinality(rows) <= BatchSize
       /\ Cardinality(rows) < BatchSize => rows = DueRows
       /\ OldestFirst(rows, DueRows \ rows)
       /\ batch' = [batch EXCEPT ![w] = rows]
       /\ locked' = [locked EXCEPT ![w] = rows]
  /\ UNCHANGED <<queue, wait, status, attempt, failures>>

Leave(r, s) ==
  /\ status' = [status EXCEPT ![r] = s]
  /\ queue' = Without(r)
  /\ UNCHANGED wait

Succeeds(r) ==
  /\ attempt' = [attempt EXCEPT ![r] = @ + 1]
  /\ Leave(r, "SENT")
  /\ UNCHANGED failures

\* ErrSkipAttempt: a short delay and no attempt spent (mutant: one is).
CountedSkip(r) == attempt' = [attempt EXCEPT ![r] = @ + 1]
FreeSkip(r) == UNCHANGED attempt

Skips(r) ==
  /\ FreeSkip(r)
  /\ Enqueue(Without(r), r, SkipDelay)
  /\ UNCHANGED <<status, failures>>

Fails(r) ==
  /\ attempt' = [attempt EXCEPT ![r] = @ + 1]
  /\ failures' = [failures EXCEPT ![r] = @ + 1]
  /\ IF attempt'[r] >= MaxAttempt
     THEN Leave(r, "FAILED")
     ELSE Enqueue(Without(r), r, backoffDuration(attempt'[r])) /\ UNCHANGED status

\* A row nobody handles stays PENDING and keeps its time.
Dispatch(w) ==
  \E r \in batch[w] :
    /\ OldestFirst({r}, batch[w] \ {r})
    /\ IF r \in Unhandled
       THEN UNCHANGED <<queue, wait, status, attempt, failures>>
       ELSE Succeeds(r) \/ Skips(r) \/ Fails(r)
    /\ batch' = [batch EXCEPT ![w] = @ \ {r}]
    /\ UNCHANGED locked

Commit(w) ==
  /\ locked[w] # {} /\ batch[w] = {}
  /\ locked' = [locked EXCEPT ![w] = {}]
  /\ UNCHANGED <<queue, wait, status, attempt, failures, batch>>

Tick ==
  /\ \E i \in DOMAIN queue : wait[queue[i]] >= 0
  /\ wait' = [r \in Rows |-> IF r \in ToSet(queue) /\ wait[r] >= 0 THEN wait[r] - 1 ELSE wait[r]]
  /\ UNCHANGED <<queue, status, attempt, failures, locked, batch>>

Worker(w) == Poll(w) \/ Dispatch(w) \/ Commit(w)

Next ==
  \/ \E r \in Rows : Publish(r)
  \/ \E w \in Workers : Worker(w)
  \/ Tick

\* The ticker keeps every worker going, and time passes.
Spec == Init /\ [][Next]_vars /\ WF_vars(Tick) /\ \A w \in Workers : WF_vars(Worker(w))

-----------------------------------------------------------------------------
\* Every variable keeps its type; no row is tried more than MaxAttempt times and
\* none waits longer than the caps allow.  (relay.go dispatch, backoffDuration)
TypeOK ==
  /\ queue \in Seq(Rows)
  /\ wait \in [Rows -> -1..Max({MaxBackoff, SkipDelay})]
  /\ status \in [Rows -> {"none", "PENDING", "SENT", "FAILED"}]
  /\ attempt \in [Rows -> 0..MaxAttempt]
  /\ failures \in [Rows -> 0..MaxAttempt]
  /\ locked \in [Workers -> SUBSET Rows]
  /\ batch \in [Workers -> SUBSET Rows]

\* Attempts are spent on failures and on the final success only, never on a
\* skip: a row is FAILED after MaxAttempt real failures and not before.
\* (relay.go:198, the budget that ErrSkipAttempt must not touch)
AttemptsAreSpentOnFailures ==
  \A r \in Rows :
    /\ status[r] = "FAILED" <=> failures[r] = MaxAttempt
    /\ attempt[r] = failures[r] + (IF status[r] = "SENT" THEN 1 ELSE 0)

\* No row is left behind: a row with a handler is taken into a batch again and
\* again until it is done, whatever the other rows do.  (relay.go: ORDER BY
\* next_attempt_at LIMIT ?.)  It holds as long as fewer rows without a handler
\* are queued than a batch can take.
ServedInTurn ==
  \A r \in Rows \ Unhandled :
    status[r] = "PENDING" ~> (status[r] # "PENDING" \/ \E w \in Workers : r \in locked[w])
=============================================================================
