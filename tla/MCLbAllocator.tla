--------------------------- MODULE MCLbAllocator ---------------------------
(***************************************************************************)
(* Instances of LbAllocator for TLC, in a space of eight addresses.        *)
(***************************************************************************)
EXTENDS LbAllocator, TLC

CONSTANTS n1, n2, s1, s2, s3

Net(a, n) == [addr |-> a, size |-> n]
Of(want, dual) == [lb |-> TRUE, class |-> "unset", want |-> want, dual |-> dual, ext |-> {}]

\* Two ranges out of order, one of them with host bits set and at the top of the
\* address space, where inc_ip wraps; single addresses.
Pools == [f \in Family |-> IF f = "v4" THEN <<Net(7, 2), Net(0, 1)>> ELSE <<Net(5, 1), Net(1, 1)>>]
Both == [f \in Family |-> IF f = "v4" THEN <<Net(2, 2)>> ELSE <<Net(5, 1), Net(1, 1)>>]
Single == [f \in Family |-> IF f = "v4" THEN <<Net(3, 1), Net(7, 1)>> ELSE <<>>]

\* A Service that asks for one family, is changed to ask for both or none, and
\* one of another class that occupies addresses of the pool.
Mixed == {Of({"v4"}, FALSE),
          Of(Family, TRUE),
          [Of({"v4"}, FALSE) EXCEPT !.class = "other",
              !.ext = {[fam |-> "v4", a |-> 6], [fam |-> "v4", a |-> 0]}]}
Plain == {Of({"v4"}, FALSE)}
Optional == {Of({"v4"}, FALSE), Of(Family, FALSE)}

Symmetry == Permutations({n1, n2}) \cup Permutations({s1, s2, s3})
============================================================================
