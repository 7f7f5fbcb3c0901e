--------------------------- MODULE Reconciliation ---------------------------
(***************************************************************************)
(* The matching of incoming money against the invoice of one virtual       *)
(* account (every row involved belongs to one virtual account, so accounts *)
(* do not meet).  A reconciler lists the account's transactions at the     *)
(* bank, reads the invoice, and then, in one transaction, records the new  *)
(* deposits and writes the invoice back.  The invoice is read through the  *)
(* pool, outside that transaction and without a lock, so what is written   *)
(* back rests on a copy.                                                   *)
(*                                                                         *)
(* Commit is one step: two transactions that record the same deposit, and  *)
(* two that update the invoice, wait for each other's row locks, so their  *)
(* statements take effect in the order of the commits.                     *)
(***************************************************************************)
EXTENDS Integers, Sequences, FiniteSets, FiniteSetsExt

CONSTANTS
  Reconcilers,     \* processes that reconcile the account
  Items,           \* entries of the bank's statement, by item_key
  Credits,         \* those with transactionType "credit"
  Amount,          \* amount of each entry
  InvoiceAmounts   \* amounts an invoice may be issued with

ASSUME ItemsAssumption == Credits \subseteq Items /\ Amount \in [Items -> Int]
ASSUME InvoiceAssumption == InvoiceAmounts \subseteq Int

VARIABLES
  statement,  \* entries on the bank's statement so far
  invoice,    \* the row of invoices for the account, or NoInvoice
  incomings,  \* item_keys in incoming_transactions
  matched,    \* those with a matched_invoice_id
  published,  \* Reconciliation* events in outbox_events, in commit order
  pc,         \* what each reconciler does
  list,       \* the entries the bank answered with
  copy        \* the invoice it has read

vars == <<statement, invoice, incomings, matched, published, pc, list, copy>>

NoInvoice == [amount |-> 0, paid |-> 0, status |-> "NONE"]

InvoiceStatus == {"OPEN", "PARTIAL", "CLEARED", "EXCESS"}

\* The sum of the amounts of some entries.
Total(entries) == MapThenSumSet(LAMBDA i : Amount[i], entries)

Init ==
  /\ statement = {}
  /\ invoice = NoInvoice
  /\ incomings = {}
  /\ matched = {}
  /\ published = << >>
  /\ pc = [r \in Reconcilers |-> "idle"]
  /\ list = [r \in Reconcilers |-> {}]
  /\ copy = [r \in Reconcilers |-> NoInvoice]

-----------------------------------------------------------------------------
\* Money arrives at, or leaves, the virtual account.
BankBooks ==
  /\ \E i \in Items \ statement : statement' = statement \union {i}
  /\ UNCHANGED <<invoice, incomings, matched, published, pc, list, copy>>

NewInvoice(a) == [amount |-> a, paid |-> 0, status |-> "OPEN"]

\* One invoice per virtual account: a second one is ErrInvoiceAlreadyExists.
IssueInvoice ==
  /\ invoice = NoInvoice
  /\ \E a \in InvoiceAmounts : invoice' = NewInvoice(a)
  /\ UNCHANGED <<statement, incomings, matched, published, pc, list, copy>>

\* The answer covers 24 hours and one page (hasNext is not followed): any part
\* of the statement.
ListTransactions(r) ==
  /\ pc[r] = "idle"
  /\ \E page \in SUBSET statement : list' = [list EXCEPT ![r] = page]
  /\ pc' = [pc EXCEPT ![r] = "listed"]
  /\ UNCHANGED <<statement, invoice, incomings, matched, published, copy>>

FindInvoice(r) ==
  /\ pc[r] = "listed"
  /\ copy' = [copy EXCEPT ![r] = invoice]
  /\ pc' = [pc EXCEPT ![r] = "read"]
  /\ UNCHANGED <<statement, invoice, incomings, matched, published, list>>

-----------------------------------------------------------------------------
Creditable(i) == i \in Credits /\ Amount[i] > 0

\* INSERT IGNORE tells a new row from one that is there already.
\* (Mutant: every listed deposit counts as new.)
AllListed(r) == {i \in list[r] : Creditable(i)}
Inserted(r) == {i \in list[r] : Creditable(i) /\ i \notin incomings}

\* The status that goes with a paid amount.
StatusFor(paid, amount) ==
  CASE paid = 0 -> "OPEN"
    [] paid # 0 /\ paid < amount -> "PARTIAL"
    [] paid # 0 /\ paid = amount -> "CLEARED"
    [] OTHER -> "EXCESS"

\* The copy after every new deposit was applied to it.
Applied(r) ==
  LET paid == copy[r].paid + Total(Inserted(r))
  IN  [copy[r] EXCEPT !.paid = paid, !.status = StatusFor(paid, copy[r].amount)]

\* UPDATE writes status and paid_amount of the copy whatever the row holds.
\* (Mutant: it writes the status only.)
OnlyStatus(inv) == [invoice EXCEPT !.status = inv.status]
Update(inv) == [invoice EXCEPT !.status = inv.status, !.paid = inv.paid]

\* An event for each status but OPEN.
\* (Mutant: the event tells what was read, not what is written.)
StaleEvent(r) == <<copy[r]>>
StateEvent(r) == IF Applied(r).status = "OPEN" THEN << >> ELSE <<Applied(r)>>

\* Nothing to match, or no invoice to match it with.
\* (Mutant: the missing invoice is not considered.)
NothingNew(r) == Inserted(r) = {}
NothingToMatch(r) == copy[r] = NoInvoice \/ Inserted(r) = {}

Commit(r) ==
  /\ pc[r] = "read"
  /\ incomings' = incomings \union Inserted(r)
  /\ IF NothingToMatch(r)
     THEN UNCHANGED <<invoice, matched, published>>
     ELSE /\ matched' = matched \union Inserted(r)
          /\ invoice' = Update(Applied(r))
          /\ published' = published \o StateEvent(r)
  /\ pc' = [pc EXCEPT ![r] = "idle"]
  /\ list' = [list EXCEPT ![r] = {}]
  /\ copy' = [copy EXCEPT ![r] = NoInvoice]
  /\ UNCHANGED statement

\* Any call may fail, and a process may end: the transaction rolls back and
\* the next tick starts anew.
Fail(r) ==
  /\ pc[r] # "idle"
  /\ pc' = [pc EXCEPT ![r] = "idle"]
  /\ list' = [list EXCEPT ![r] = {}]
  /\ copy' = [copy EXCEPT ![r] = NoInvoice]
  /\ UNCHANGED <<statement, invoice, incomings, matched, published>>

Reconcile(r) == ListTransactions(r) \/ FindInvoice(r) \/ Commit(r) \/ Fail(r)

Next == BankBooks \/ IssueInvoice \/ \E r \in Reconcilers : Reconcile(r)

Spec == Init /\ [][Next]_vars

-----------------------------------------------------------------------------
Invoices == [amount : InvoiceAmounts, paid : Int, status : InvoiceStatus]

\* Every variable keeps its type.  (domain/invoice.go)
TypeOK ==
  /\ statement \subseteq Items
  /\ invoice \in Invoices \union {NoInvoice}
  /\ incomings \subseteq Items
  /\ matched \subseteq Items
  /\ published \in Seq(Invoices)
  /\ pc \in [Reconcilers -> {"idle", "listed", "read"}]
  /\ list \in [Reconcilers -> SUBSET Items]
  /\ copy \in [Reconcilers -> Invoices \union {NoInvoice}]

\* A deposit is credited once at most, however often and by however many
\* reconcilers it is listed: the paid amount never exceeds what the matched
\* deposits add up to.  (repository_sql.go InsertIfNotExists and the unique
\* key on item_key, against the copies of usecase.go Execute)
NoDoubleCredit == invoice.paid <= Total(matched)

\* Books that balance, with a status that goes with them, stay so as long as
\* nobody commits an outdated copy: that is the only way in which paid_amount
\* comes to differ from what is matched, and with one reconciler there is no such
\* copy.  (usecase.go Execute, which reads outside its transaction and writes
\* absolute values)
Balanced == invoice.paid = Total(matched) /\ invoice.status = StatusFor(invoice.paid, invoice.amount)

Outdated(r) == pc[r] = "read" /\ copy[r] \notin {invoice, NoInvoice}

BooksBalance ==
  [][invoice # NoInvoice /\ Balanced /\ (\A r \in Reconcilers : ~Outdated(r)) => Balanced']_vars

\* The last event published tells what the invoice row says, and an invoice
\* that is not OPEN has been announced.  (usecase.go publishStateEvent, in the
\* transaction of the update)
EventsTellStatus ==
  invoice # NoInvoice =>
    IF published = << >> THEN invoice.status = "OPEN" ELSE published[Len(published)] = invoice

\* "The status follows mechanically from the total of the deposits and the
\* amount invoiced" (domain/invoice.go:23), the deposits being those recorded
\* for the account.  Violated: deposits recorded before the invoice is issued
\* are never matched with it.
StatusFollowsIncomings ==
  invoice # NoInvoice => invoice.status = StatusFor(Total(incomings), invoice.amount)
=============================================================================
