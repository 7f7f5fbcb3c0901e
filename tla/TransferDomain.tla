--------------------------- MODULE TransferDomain ---------------------------
(***************************************************************************)
(* The pure part of the transfer aggregate: its statuses, the graph of     *)
(* legal transitions, the statuses whose entry is announced by an event,   *)
(* and the translation of the status words of the bank.                    *)
(***************************************************************************)

\* Every status a row of the table transfers can have.
Status == {"PENDING", "REQUESTED", "AWAITING_APPROVAL", "APPROVED",
           "SETTLED", "FAILED"}

\* The transition graph.  There are several ways out of REQUESTED because
\* the bank may skip the approval by mail.
validTransitions ==
  [PENDING           |-> {"REQUESTED", "FAILED"},
   REQUESTED         |-> {"AWAITING_APPROVAL", "APPROVED", "SETTLED", "FAILED"},
   AWAITING_APPROVAL |-> {"APPROVED", "SETTLED", "FAILED"},
   APPROVED          |-> {"SETTLED", "FAILED"},
   SETTLED           |-> {},
   FAILED            |-> {}]

IsTerminal(s) == s \in {"SETTLED", "FAILED"}

\* Observing the current status again is legal and changes nothing.
canTransition(from, to) == from = to \/ to \in validTransitions[from]

\* The statuses whose entry publishes an event.  The event type is determined
\* by the status entered, so the model names the event by that status.
Announced == {"REQUESTED", "AWAITING_APPROVAL", "SETTLED", "FAILED"}

\* The payload of a state-change event, as a sequence of zero or one notices
\* (mutant: the send handler's fixed origin copied to every event).
NoticeFromPending(from, to) ==
  IF to \in Announced THEN << [from |-> "PENDING", to |-> to] >> ELSE << >>

StateChangeNotice(from, to) ==
  IF to \in Announced THEN << [from |-> from, to |-> to] >> ELSE << >>

\* The status words of the bank that the code understands, and what it makes
\* of them.  Any other word is an error of the status query.  (Mutants: approved
\* taken for settled, and a status of its own for a failure.)
ApprovedIsSettled ==
  [AcceptedToBank |-> "REQUESTED", AwaitingApproval |-> "AWAITING_APPROVAL",
   Approved |-> "SETTLED", Settled |-> "SETTLED", Failed |-> "FAILED"]

FailedIsRejected ==
  [AcceptedToBank |-> "REQUESTED", AwaitingApproval |-> "AWAITING_APPROVAL",
   Approved |-> "APPROVED", Settled |-> "SETTLED", Failed |-> "REJECTED"]

mapSunabarStatus ==
  [AcceptedToBank   |-> "REQUESTED",
   AwaitingApproval |-> "AWAITING_APPROVAL",
   Approved         |-> "APPROVED",
   Settled          |-> "SETTLED",
   Failed           |-> "FAILED"]

BankWord == DOMAIN mapSunabarStatus
=============================================================================
