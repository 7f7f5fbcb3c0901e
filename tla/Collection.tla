----------------------------- MODULE Collection -----------------------------
(***************************************************************************)
(* The life of the virtual accounts around Reconciliation.  A call issues  *)
(* an account: the bank first, then a row of virtual_accounts.  Ticks of   *)
(* the reconciler list the rows and visit one account after the other;     *)
(* the visit of one of them, Watched, is Reconciliation's, and the others  *)
(* appear only by the time and the errors they cost.                       *)
(*                                                                         *)
(* A call makes a new idempotency key, so the bank never takes two calls   *)
(* for one, and an account is named by the call that the bank took.        *)
(* (With issueRequestCount above 1 the bank issues further accounts; the   *)
(* client keeps the first.)                                                *)
(***************************************************************************)
EXTENDS Reconciliation

CONSTANTS
  Issues,   \* calls of IssueVirtualAccount, and the accounts they lead to
  Watched,  \* the account whose deposits are followed
  Steady    \* a reconciler that keeps going

ASSUME CollectionAssumption == Watched \in Issues /\ Steady \in Reconcilers

VARIABLES
  issue,   \* what each call has reached
  held,    \* accounts that exist at the bank
  stored,  \* the rows of virtual_accounts, in the order of created_at
  queue    \* what is left of each reconciler's tick

accountVars == <<issue, held, stored>>

allVars == <<vars, accountVars, queue>>

IsStored(c) == \E n \in DOMAIN stored : stored[n] = c

CollectionInit ==
  /\ Init
  /\ issue = [c \in Issues |-> "ready"]
  /\ held = {}
  /\ stored = << >>
  /\ queue = [r \in Reconcilers |-> << >>]

-----------------------------------------------------------------------------
(***************************************************************************)
(* IssueVirtualAccount.                                                    *)
(***************************************************************************)
Goes(c, to) == issue' = [issue EXCEPT ![c] = to]

\* The bank issues an account.  The answer may be lost, may come too late or
\* may have an empty vaList: then the call ends with an error.
BankIssues(c) ==
  /\ issue[c] = "ready"
  /\ held' = held \union {c}
  /\ Goes(c, "issued") \/ Goes(c, "failed")
  /\ UNCHANGED <<vars, stored, queue>>

\* What the insert waits for.  (Mutant: the row comes before the account.)
BeforeTheBank(c) == issue[c] \in {"ready", "issued"}
MayInsert(c) == issue[c] = "issued"

\* The row is inserted and the caller told, unless the commit reports an error
\* after it took effect.
Insert(c) ==
  /\ MayInsert(c)
  /\ stored' = Append(stored, c)
  /\ Goes(c, "answered") \/ Goes(c, "failed")
  /\ UNCHANGED <<vars, held, queue>>

\* The bank refuses, the insert fails, or the process ends.
IssueFails(c) ==
  /\ issue[c] \in {"ready", "issued"}
  /\ Goes(c, "failed")
  /\ UNCHANGED <<vars, held, stored, queue>>

IssueVirtualAccount(c) == BankIssues(c) \/ Insert(c) \/ IssueFails(c)

\* Money and an invoice need the account at the bank.
MoneyMoves == Watched \in held /\ BankBooks /\ UNCHANGED <<accountVars, queue>>

InvoiceIssued == Watched \in held /\ IssueInvoice /\ UNCHANGED <<accountVars, queue>>

-----------------------------------------------------------------------------
(***************************************************************************)
(* The reconciler.                                                         *)
(***************************************************************************)
\* A tick begins with the rows there are.  (When the list cannot be read,
\* nothing happens until the next tick.)
Tick(r) ==
  /\ queue[r] = << >>
  /\ queue' = [queue EXCEPT ![r] = stored]
  /\ UNCHANGED <<vars, accountVars>>

\* An error is logged, and the loop goes on with the next account.
\* (Mutant: it ends the tick.)
GiveUpTick(rest) == << >>
AfterError(rest) == Tail(rest)

Visits(r, c) == queue[r] # << >> /\ Head(queue[r]) = c

\* Another account is done, or fails.
VisitOther(r) ==
  /\ \E c \in Issues \ {Watched} : Visits(r, c)
  /\ \/ queue' = [queue EXCEPT ![r] = Tail(@)]
     \/ queue' = [queue EXCEPT ![r] = AfterError(@)]
  /\ UNCHANGED <<vars, accountVars>>

Lists(r) ==
  /\ Visits(r, Watched)
  /\ ListTransactions(r)
  /\ UNCHANGED <<accountVars, queue>>

\* The bank does not answer, or its answer cannot be parsed.
ListFails(r) ==
  /\ Visits(r, Watched) /\ pc[r] = "idle"
  /\ queue' = [queue EXCEPT ![r] = AfterError(@)]
  /\ UNCHANGED <<vars, accountVars>>

Reads(r) == FindInvoice(r) /\ UNCHANGED <<accountVars, queue>>

Commits(r) ==
  /\ Commit(r)
  /\ queue' = [queue EXCEPT ![r] = Tail(@)]
  /\ UNCHANGED accountVars

VisitFails(r) ==
  /\ Fail(r)
  /\ queue' = [queue EXCEPT ![r] = AfterError(@)]
  /\ UNCHANGED accountVars

\* The process ends and another one starts.
Restart(r) ==
  /\ queue[r] # << >>
  /\ queue' = [queue EXCEPT ![r] = << >>]
  /\ IF pc[r] = "idle" THEN UNCHANGED vars ELSE Fail(r)
  /\ UNCHANGED accountVars

Reconciler(r) ==
  \/ Tick(r) \/ VisitOther(r) \/ Lists(r) \/ ListFails(r)
  \/ Reads(r) \/ Commits(r) \/ VisitFails(r) \/ Restart(r)

CollectionNext ==
  \/ \E c \in Issues : IssueVirtualAccount(c)
  \/ MoneyMoves \/ InvoiceIssued
  \/ \E r \in Reconcilers : Reconciler(r)

(***************************************************************************)
(* Fairness.  One reconciler keeps going, and what it tries again and again*)
(* does not fail for ever: another account is left behind some time, an    *)
(* answer with the whole statement comes some time, and a visit with such  *)
(* an answer goes through some time.  Nothing is asked of the other        *)
(* reconcilers, and other accounts may fail in every tick.                 *)
(***************************************************************************)
Fairness(r) ==
  /\ WF_allVars(Reconciler(r))
  /\ SF_allVars(VisitOther(r))
  /\ SF_allVars(Lists(r) /\ list'[r] = statement)
  /\ SF_allVars(Reads(r) /\ list[r] = statement)
  /\ SF_allVars(Commits(r) /\ list[r] = statement)

CollectionSpec == CollectionInit /\ [][CollectionNext]_allVars /\ Fairness(Steady)

-----------------------------------------------------------------------------
\* Every variable keeps its type, each account has one row, a caller who got
\* an account finds it in the table, and the table holds no account that the
\* bank does not know.  (usecase.go:110, "the bank's call comes first, and the
\* row follows when it succeeded")
CollectionTypeOK ==
  /\ issue \in [Issues -> {"ready", "issued", "answered", "failed"}]
  /\ held \subseteq Issues
  /\ \A r \in Reconcilers : \A n \in DOMAIN queue[r] : IsStored(queue[r][n])
  /\ \A n \in DOMAIN stored : stored[n] \in held
  /\ \A m, n \in DOMAIN stored : stored[m] = stored[n] => m = n
  /\ \A c \in Issues : issue[c] = "answered" => IsStored(c)

\* A deposit on an account that was handed out gets recorded in the end,
\* whatever happens to the other accounts in the same ticks, to other calls
\* or to a reconciler that is restarted.  (cmd/reconciler/main.go tick, runOne)
DepositsRecorded ==
  \A i \in Items :
    (issue[Watched] = "answered" /\ Creditable(i) /\ i \in statement) ~> (i \in incomings)
=============================================================================
