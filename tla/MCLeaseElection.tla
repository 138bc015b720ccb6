-------------------------- MODULE MCLeaseElection --------------------------
(***************************************************************************)
(* An instance of LeaseElection for TLC.  Two ticks to the second show the *)
(* truncation; the duration is three seconds instead of 15.                *)
(***************************************************************************)
EXTENDS LeaseElection

CONSTANTS n1, n2

\* Node n2's clock is a tick ahead of node n1's.
Ahead == [n \in Node |-> IF n = n2 THEN 1 ELSE 0]
============================================================================
