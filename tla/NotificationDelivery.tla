------------------------ MODULE NotificationDelivery ------------------------
(***************************************************************************)
(* A state-change event on its way from the outbox to the sender.  The     *)
(* relay delivers at least once: its own record that a row is done is lost *)
(* with its transaction.  The notification handler takes a second delivery *)
(* for a duplicate by the row (event_id, consumer) of event_processed,     *)
(* which it inserts first, with a statement of its own that no transaction *)
(* of the relay undoes.                                                    *)
(*                                                                         *)
(* A worker handles one row here.  Rows of a batch share a transaction but *)
(* nothing else, and the wait for the rest of the batch is a wait before   *)
(* Settle.                                                                 *)
(***************************************************************************)
EXTENDS Integers, FiniteSets

CONSTANTS
  Events,      \* ids of outbox rows with a state-change event
  Workers,     \* relay workers
  None,        \* no row
  MaxAttempt,  \* attempts after which a row is given up
  MaxFaults    \* bound: losses of a connection, a process or a send

ASSUME NoneAssumption == None \notin Events
ASSUME BoundsAssumption == MaxAttempt \in Nat \ {0} /\ MaxFaults \in Nat

VARIABLES
  status,     \* status of each outbox row
  attempt,    \* attempt_count of each outbox row
  processed,  \* event ids in event_processed for consumer "notification"
  sent,       \* how often each notice was sent
  row,        \* the row each worker handles
  holds,      \* whether the worker's transaction, with the row lock, is alive
  pc,         \* where the worker is
  faults      \* faults so far

vars == <<status, attempt, processed, sent, row, holds, pc, faults>>

Init ==
  /\ status = [e \in Events |-> "PENDING"]
  /\ attempt = [e \in Events |-> 0]
  /\ processed = {}
  /\ sent = [e \in Events |-> 0]
  /\ row = [w \in Workers |-> None]
  /\ holds = [w \in Workers |-> FALSE]
  /\ pc = [w \in Workers |-> "idle"]
  /\ faults = 0

At(w, label) == pc[w] = label

Go(w, label) == pc' = [pc EXCEPT ![w] = label]

-----------------------------------------------------------------------------
\* The batch query skips rows that another transaction has locked.
Pick(w) ==
  /\ At(w, "idle")
  /\ \E e \in Events :
       /\ status[e] = "PENDING"
       /\ \A v \in Workers : ~(holds[v] /\ row[v] = e)
       /\ row' = [row EXCEPT ![w] = e]
  /\ holds' = [holds EXCEPT ![w] = TRUE]
  /\ Go(w, "mark")
  /\ UNCHANGED <<status, attempt, processed, sent, faults>>

\* INSERT IGNORE: the number of affected rows tells a duplicate.
\* (Mutants: nobody asks; the test is the wrong way round.)
AnyDelivery(e) == TRUE
LaterDelivery(e) == e \in processed
FirstDelivery(e) == e \notin processed

MarkProcessed(w) ==
  /\ At(w, "mark")
  /\ IF FirstDelivery(row[w])
     THEN /\ processed' = processed \union {row[w]}
          /\ Go(w, "send")
     ELSE /\ Go(w, "done")
          /\ UNCHANGED processed
  /\ UNCHANGED <<status, attempt, sent, row, holds, faults>>

\* The statement fails, before or after it took effect.
MarkFails(w) ==
  /\ At(w, "mark")
  /\ faults < MaxFaults
  /\ faults' = faults + 1
  /\ processed' \in {processed, processed \union {row[w]}}
  /\ Go(w, "failed")
  /\ UNCHANGED <<status, attempt, sent, row, holds>>

Send(w) ==
  /\ At(w, "send")
  /\ sent' = [sent EXCEPT ![row[w]] = @ + 1]
  /\ Go(w, "done")
  /\ UNCHANGED <<status, attempt, processed, row, holds, faults>>

\* A sender that fails.  (StdoutSender never does; the port allows it.)
SendFails(w) ==
  /\ At(w, "send")
  /\ faults < MaxFaults
  /\ faults' = faults + 1
  /\ Go(w, "failed")
  /\ UNCHANGED <<status, attempt, processed, sent, row, holds>>

-----------------------------------------------------------------------------
Release(w) ==
  /\ row' = [row EXCEPT ![w] = None]
  /\ holds' = [holds EXCEPT ![w] = FALSE]
  /\ Go(w, "idle")

\* (Mutant: one attempt too many.)
PastLimit(n) == n > MaxAttempt
GivenUp(n) == n >= MaxAttempt

\* The updates of the row, committed with the batch.  Without the connection
\* nothing is recorded.
Settle(w) ==
  /\ pc[w] \in {"done", "failed"}
  /\ IF ~holds[w]
     THEN UNCHANGED <<status, attempt>>
     ELSE /\ attempt' = [attempt EXCEPT ![row[w]] = @ + 1]
          /\ status' = [status EXCEPT ![row[w]] =
               CASE At(w, "done") -> "SENT"
                 [] At(w, "failed") /\ GivenUp(attempt'[row[w]]) -> "FAILED"
                 [] OTHER -> "PENDING"]
  /\ Release(w)
  /\ UNCHANGED <<processed, sent, faults>>

\* The database gives up the worker's connection: its transaction is rolled
\* back and its locks are free while the handler still runs.
LoseConnection(w) ==
  /\ holds[w]
  /\ faults < MaxFaults
  /\ faults' = faults + 1
  /\ holds' = [holds EXCEPT ![w] = FALSE]
  /\ UNCHANGED <<status, attempt, processed, sent, row, pc>>

\* The relay process ends, and starts again.
Crash(w) ==
  /\ ~At(w, "idle")
  /\ faults < MaxFaults
  /\ faults' = faults + 1
  /\ Release(w)
  /\ UNCHANGED <<status, attempt, processed, sent>>

Handle(w) == MarkProcessed(w) \/ MarkFails(w) \/ Send(w) \/ SendFails(w)

Worker(w) == Pick(w) \/ Handle(w) \/ Settle(w)

Next == \E w \in Workers : Worker(w) \/ LoseConnection(w) \/ Crash(w)

Spec == Init /\ [][Next]_vars

-----------------------------------------------------------------------------
\* Every variable keeps its type, and no row is tried more than MaxAttempt times.
\* (relay.go dispatch)
TypeOK ==
  /\ status \in [Events -> {"PENDING", "SENT", "FAILED"}]
  /\ attempt \in [Events -> 0..MaxAttempt]
  /\ processed \subseteq Events
  /\ sent \in [Events -> Nat]
  /\ row \in [Workers -> Events \union {None}]
  /\ holds \in [Workers -> BOOLEAN]
  /\ pc \in [Workers -> {"idle", "mark", "send", "done", "failed"}]
  /\ faults \in 0..MaxFaults

\* Nobody is told the same thing twice, even by two workers that handle one
\* row at the same time after a connection was lost.  (notification handler.go
\* Handle; ADR-005)
NoticeAtMostOnce == \A e \in Events : sent[e] <= 1

\* A notice is lost to a fault only, and leaves a trace: a row that is SENT
\* without its notice has a row in event_processed.  (the order of
\* MarkProcessed and Send in Handle)
LossNeedsFault ==
  \A e \in Events : status[e] = "SENT" /\ sent[e] = 0 => faults > 0 /\ e \in processed

\* "Side effects that are not idempotent, like notices, are guaranteed to happen
\* exactly once" (docs/adr/0005-notification-consumer-idempotency.md:14).
\* Violated: a fault between MarkProcessed and Send leaves a row that is SENT
\* and a notice that nobody will send any more.
SentMeansNoticed ==
  \A e \in Events :
    status[e] = "SENT" /\ ~(\E w \in Workers : At(w, "send") /\ row[w] = e) => sent[e] = 1
=============================================================================
