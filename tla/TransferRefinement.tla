------------------------- MODULE TransferRefinement -------------------------
(***************************************************************************)
(* The transfer flow implements the payment promise: a request is          *)
(* represented by the transfer stored for its app_request_id.              *)
(***************************************************************************)
EXTENDS TransferFlow

\* The client requests.
Requests == {AppOf[c] : c \in Calls}

\* The one transfer stored for a request.
TransferOf(a) == CHOOSE c \in Stored(a) : TRUE

\* The promise's variables, read off the tables and the bank.
stateOf == [a \in Requests |->
  IF Stored(a) = {} THEN "NONE" ELSE transfers[TransferOf(a)].status]

orderedOf == [a \in Requests |-> Cardinality({o \in orders : AppOf[o.pays] = a})]

toldOf == [a \in Requests |->
  IF Stored(a) = {} THEN << >> ELSE notices[TransferOf(a)]]

\* The promise about this flow.
Promise == INSTANCE PaymentPromise
             WITH state <- stateOf, ordered <- orderedOf, told <- toldOf

\* Every behaviour of the flow, with its crashes, stale copies, lost answers
\* and ambiguous commits, is a behaviour of the promise.
KeepsPromise == Promise!PromiseSpec
=============================================================================
