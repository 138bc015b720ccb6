----------------------------- MODULE Leadership -----------------------------
(***************************************************************************)
(* What the LoadBalancer allocator relies on: an instance begins to lead   *)
(* only when no other instance leads.  LeaseElection implements this as    *)
(* long as leaders renew in time.                                          *)
(***************************************************************************)
CONSTANT Node

VARIABLE leader     \* the instances whose is_leader flag is set

Init == leader = [n \in Node |-> FALSE]

\* An attempt succeeds.
Lead(n) ==
    /\ \A m \in Node \ {n} : ~leader[m]
    /\ leader' = [leader EXCEPT ![n] = TRUE]

\* An attempt fails, or the instance is restarted.
Yield(n) == leader' = [leader EXCEPT ![n] = FALSE]

Next == \E n \in Node : Lead(n) \/ Yield(n)

Spec == Init /\ [][Next]_leader
============================================================================
