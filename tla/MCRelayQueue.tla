---------------------------- MODULE MCRelayQueue ----------------------------
(* Instances of RelayQueue: h1, h2 and h3 have a handler, u has none. *)
EXTENDS RelayQueue

CONSTANTS h1, h2, h3, u, w1, w2

=============================================================================
