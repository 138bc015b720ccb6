----------------------------- MODULE MCRouting -----------------------------
(***************************************************************************)
(* Instances of Routing for TLC: this node and one or two peers.           *)
(***************************************************************************)
EXTENDS Routing

CONSTANTS p1, p2, g0, g1, g2, n0, n1, n2

\* A pod CIDR per peer; the one of this node is the CNI bridge's affair.
Cidrs == [n \in Node |-> CASE n = n0 -> {} [] n = n1 -> {p1} [] OTHER -> {p2}]

\* Every node keeps its address, or a peer may move to another one.
Fixed == [n \in Node |-> CASE n = n0 -> {g0} [] n = n1 -> {g1} [] OTHER -> {g2}]
Moving == [n \in Node |-> IF n = n0 THEN {g0} ELSE {g1, g2}]
============================================================================
