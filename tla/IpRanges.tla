------------------------------ MODULE IpRanges ------------------------------
(***************************************************************************)
(* The LoadBalancer address pool of one IP family: IpRanges of             *)
(* crates/lballoc/src/pools.rs, as operators on a cursor.                  *)
(*                                                                         *)
(* An address is a number below Space.  A range is the CIDR it was parsed  *)
(* from: an address, possibly with host bits set, and the number of        *)
(* addresses that share its network.                                       *)
(***************************************************************************)
EXTENDS Integers, Sequences

CONSTANTS
    Space,      \* number of addresses of the family
    NoIp        \* None

ASSUME SpaceAssumption == Space \in Nat \ {0} /\ NoIp \notin 0..(Space - 1)

Address == 0..(Space - 1)

\* An IpNet: its size divides the address space.
IpNet == {r \in [addr : Address, size : 1..Space] : Space % r.size = 0}

\* IpNet::network
Network(r) == (r.addr \div r.size) * r.size

\* IpNet::contains
Contains(r, a) == a \div r.size = r.addr \div r.size

\* IpRanges::contains
InRanges(R, a) == \E i \in DOMAIN R : Contains(R[i], a)

\* The addresses of the pool, and whether no two ranges share one.
Pool(R) == {a \in Address : InRanges(R, a)}
Disjoint(R) ==
    \A i, j \in DOMAIN R : i # j => ~Contains(R[i], Network(R[j])) /\ ~Contains(R[j], Network(R[i]))

\* IpRanges::new: the first address of the first range.
NewCursor(R) ==
    IF R = <<>> THEN [index |-> 0, ip |-> NoIp]
                ELSE [index |-> 1, ip |-> Network(R[1])]

\* inc_ip: byte-wise with carry, wrapping at the top of the address space.
IncIp(a) == (a + 1) % Space

\* Mutant: the range is left one address early.
IncSkipsLast(R, c) ==
    IF Contains(R[c.index], IncIp(IncIp(c.ip)))
    THEN [c EXCEPT !.ip = IncIp(c.ip)]
    ELSE LET i == IF c.index + 1 > Len(R) THEN 1 ELSE c.index + 1
         IN  [index |-> i, ip |-> Network(R[i])]

\* inc: the next address of the range, or the first one of the next range.
Inc(R, c) ==
    IF Contains(R[c.index], IncIp(c.ip))
    THEN [c EXCEPT !.ip = IncIp(c.ip)]
    ELSE LET i == IF c.index + 1 > Len(R) THEN 1 ELSE c.index + 1
         IN  [index |-> i, ip |-> Network(R[i])]

\* The cursor after 0, 1, 2, ... increments.
Walk(R, c) ==
    LET w[k \in 0..(Len(R) * Space)] == IF k = 0 THEN c ELSE Inc(R, w[k - 1]) IN w

\* The loop of next_free_ip is left at the first address that is not allocated,
\* or on coming back to the address it started from.
Leaves(w, allocated, k) == w[k].ip \notin allocated \/ (k > 0 /\ w[k].ip = w[0].ip)

\* The loop is left after finitely many increments, wherever it starts.
Terminates(R, c, allocated) == \E k \in DOMAIN Walk(R, c) : Leaves(Walk(R, c), allocated, k)

\* next_free_ip: the address found, if any, and the cursor it leaves behind.
NextFreeIp(R, c, allocated) ==
    IF R = <<>> THEN [cursor |-> c, ip |-> NoIp]
    ELSE LET w == Walk(R, c)
             last == CHOOSE k \in DOMAIN w :
                        /\ Leaves(w, allocated, k)
                        /\ \A j \in 0..(k - 1) : ~Leaves(w, allocated, j)
         IN  [cursor |-> w[last], ip |-> IF w[last].ip \in allocated THEN NoIp ELSE w[last].ip]

============================================================================
