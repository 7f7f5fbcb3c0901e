--------------------------- MODULE PaymentPromise ---------------------------
(***************************************************************************)
(* What the payment service promises for each client request, identified   *)
(* by its app_request_id, whatever processes, retries and failures are     *)
(* behind it: it is accepted at most once, the bank takes at most one      *)
(* order for it, its status moves along the transition graph and is        *)
(* REQUESTED only after the bank has the order, and every announced move   *)
(* is announced together with it.                                          *)
(***************************************************************************)
EXTENDS Naturals, Sequences, TransferDomain

CONSTANT Requests   \* the app_request_ids

VARIABLES
  state,    \* status of the request, "NONE" before it is accepted
  ordered,  \* how many orders the bank holds for it
  told      \* the notices published for it

promiseVars == <<state, ordered, told>>

PromiseInit ==
  /\ state = [a \in Requests |-> "NONE"]
  /\ ordered = [a \in Requests |-> 0]
  /\ told = [a \in Requests |-> << >>]

Accept(a) ==
  /\ state[a] = "NONE"
  /\ state' = [state EXCEPT ![a] = "PENDING"]
  /\ UNCHANGED <<ordered, told>>

\* The bank takes the order: possibly long after the request was accepted,
\* even after the service has given the transfer up.
TakeOrder(a) ==
  /\ state[a] # "NONE"
  /\ ordered[a] = 0
  /\ ordered' = [ordered EXCEPT ![a] = 1]
  /\ UNCHANGED <<state, told>>

Move(a, to) ==
  /\ state[a] # "NONE"
  /\ to \in validTransitions[state[a]]
  /\ to = "REQUESTED" => ordered[a] = 1
  /\ state' = [state EXCEPT ![a] = to]
  /\ told' = [told EXCEPT ![a] = @ \o StateChangeNotice(state[a], to)]
  /\ UNCHANGED ordered

PromiseNext ==
  \E a \in Requests :
    Accept(a) \/ TakeOrder(a) \/ (\E to \in Status : Move(a, to))

PromiseSpec == PromiseInit /\ [][PromiseNext]_promiseVars
=============================================================================
