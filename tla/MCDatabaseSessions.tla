------------------------- MODULE MCDatabaseSessions -------------------------
(***************************************************************************)
(* Values of the constants of DatabaseSessions for TLC.                    *)
(***************************************************************************)
EXTENDS DatabaseSessions, TLC

CONSTANTS q1, q2, relay1, ticker, r1, r2

\* Two instances of the reconciler run side by side.
MCProcessOf ==
  [t \in Tasks |-> IF t \in Clients THEN "api"
                   ELSE IF t = r1 THEN "reconciler1"
                   ELSE IF t = r2 THEN "reconciler2" ELSE "relay"]

\* The smallest pools that the assumption allows for the loops; the API, which
\* nests nothing, may run two transactions at once.
MCMaxOpenConns == [p \in Processes |-> 2]

\* A bound on the states that are explored, not on the system: a reconciler runs
\* with one other task at a time.  It shares nothing with the API and the relay
\* but the outbox, into which all of them insert.
InPairs == Busy \cap Reconcilers # {} => Cardinality(Busy) <= 2

RequestSymmetry == Permutations({q1, q2})
=============================================================================
