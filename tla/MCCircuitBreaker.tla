-------------------------- MODULE MCCircuitBreaker --------------------------
(* Instances of CircuitBreaker: two callers; the relay has one. *)
EXTENDS CircuitBreaker

CONSTANTS c1, c2
=============================================================================
