------------------------ MODULE LeaseElection_proofs ------------------------
(***************************************************************************)
(* Mutual exclusion of LoadBalancer leaders, for any number of nodes, any  *)
(* clock offsets, lease duration and clock resolution.                     *)
(***************************************************************************)
EXTENDS LeaseElection, TLAPS

\* What the whole-second comparison still guarantees about the ticks.
LEMMA Truncation ==
    ASSUME NEW a \in Nat, NEW b \in Nat, Second(a) - Second(b) >= Dur
    PROVE  a - b > (Dur - 1) * SubSec
<1> DEFINE p == a \div SubSec
           q == b \div SubSec
<1>1. /\ p \in Int /\ q \in Int
      /\ a >= p * SubSec
      /\ b < (q + 1) * SubSec
  BY ConstantsAssumption
<1>2. p - q >= Dur
  BY DEF Second
<1> HIDE DEF p, q
<1>3. (p - q) * SubSec >= Dur * SubSec
  BY <1>1, <1>2, ConstantsAssumption
<1> QED
  BY <1>1, <1>3, ConstantsAssumption

---------------------------------------------------------------------------
\* An attempt that may still write was allowed to, on the Lease as it is now.
Justified ==
    \A n \in Node : pc[n] = "put" /\ current[n] => CanAcquire(lease, n, Stamp(n))

\* The Lease names whoever leads, with the stamp of its last success.
Holds ==
    \A n \in Node : leader[n] => lease.holder = n /\ lease.renew = since[n] + Skew[n]

Past == \A n \in Node : start[n] <= now /\ since[n] <= now

LEMMA TypeStep == TypeOK /\ [Next]_vars => TypeOK'
<1> SUFFICES ASSUME TypeOK, [Next]_vars PROVE TypeOK'
  OBVIOUS
<1> USE ConstantsAssumption DEF TypeOK, Step
<1>1. ASSUME NEW n \in Node, Attempt(n) PROVE TypeOK'
  <2>1. CASE Start(n)
    BY <2>1 DEF Start
  <2>2. CASE GetHeld(n) \/ PutConflict(n) \/ Failed(n)
    BY <2>2 DEF GetHeld, PutConflict, Failed, Conclude
  <2>3. CASE Get(n)
    BY <2>3 DEF Get
  <2>4. CASE Put(n) \/ PutUnanswered(n)
    <3>1. Stamp(n) \in Nat
      BY DEF Stamp
    <3>2. lease' = [holder |-> n, renew |-> Stamp(n)]
      BY <2>4 DEF Put, PutUnanswered, Write, Conclude, Stamp
    <3>3. lease' \in Lease
      BY <3>1, <3>2 DEF Lease
    <3> QED
      BY <2>4, <3>3 DEF Put, PutUnanswered, Write, Conclude
  <2> QED
    BY <1>1, <2>1, <2>2, <2>3, <2>4 DEF Attempt
<1>2. ASSUME NEW n \in Node, SyncStart(n) \/ SyncEnd(n) \/ Restart(n) PROVE TypeOK'
  BY <1>2 DEF SyncStart, SyncEnd, Restart
<1>3. CASE Advance
  BY <1>3 DEF Advance
<1>4. CASE UNCHANGED vars
  BY <1>4 DEF vars
<1> QED
  BY <1>1, <1>2, <1>3, <1>4 DEF Next

\* Every variable keeps its type, and only a node that believes it leads runs a pass.
THEOREM TypeCorrect == Spec => []TypeOK
<1>1. Init => TypeOK
  BY ConstantsAssumption DEF Init, TypeOK, Step, Absent, Lease
<1> QED
  BY <1>1, TypeStep, PTL DEF Spec

LEMMA JustifiedStep == TypeOK /\ Justified /\ [Next]_vars => Justified'
<1> SUFFICES ASSUME TypeOK, Justified, [Next]_vars, NEW m \in Node,
                    pc'[m] = "put", current'[m]
             PROVE  CanAcquire(lease, m, Stamp(m))'
  BY DEF Justified
<1> USE DEF TypeOK, Step
<1>1. ASSUME NEW n \in Node, Start(n) \/ GetHeld(n) \/ PutConflict(n) \/ Failed(n)
                             \/ SyncStart(n) \/ SyncEnd(n) \/ Restart(n)
      PROVE  CanAcquire(lease, m, Stamp(m))'
  BY <1>1 DEF Start, GetHeld, PutConflict, Failed, Conclude, SyncStart, SyncEnd, Restart,
              Justified, CanAcquire, Stamp
<1>2. ASSUME NEW n \in Node, Get(n) PROVE CanAcquire(lease, m, Stamp(m))'
  BY <1>2 DEF Get, Justified, CanAcquire, Stamp
<1>3. ASSUME NEW n \in Node, Put(n) \/ PutUnanswered(n) PROVE FALSE
  BY <1>3 DEF Put, PutUnanswered, Write
<1>4. CASE Advance \/ UNCHANGED vars
  BY <1>4 DEF Advance, vars, Justified, CanAcquire, Stamp
<1> QED
  BY <1>1, <1>2, <1>3, <1>4 DEF Next, Attempt

---------------------------------------------------------------------------
\* A Lease is taken from another holder only after its time has run out on the
\* taker's clock, to within one second, however long any node stalls.
THEOREM NotStolen == Spec => NotStolenWhileFresh
<1>1. Init => Justified
  BY DEF Init, Justified
<1>2. TypeOK /\ Justified /\ [Next]_vars =>
        [\A n \in Node : (lease.holder \in Node /\ lease'.holder = n /\ lease.holder # n)
                            => Stamp(n) - lease.renew > (Dur - 1) * SubSec]_vars
  <2> SUFFICES ASSUME TypeOK, Justified, Next, NEW n \in Node,
                      lease.holder \in Node, lease'.holder = n, lease.holder # n
               PROVE  Stamp(n) - lease.renew > (Dur - 1) * SubSec
    OBVIOUS
  <2>1. Put(n) \/ PutUnanswered(n)
    <3>1. PICK m \in Node : Put(m) \/ PutUnanswered(m)
      BY DEF Next, Attempt, Start, GetHeld, Get, PutConflict, Failed, SyncStart, SyncEnd,
             Restart, Advance
    <3>2. lease'.holder = m
      BY <3>1 DEF Put, PutUnanswered, Write, Conclude, Stamp
    <3> QED
      BY <3>1, <3>2
  <2>2. Expired(lease, Stamp(n))
    BY <2>1, ConstantsAssumption DEF Put, PutUnanswered, Justified, CanAcquire
  <2>3. Stamp(n) \in Nat /\ lease.renew \in Nat
    BY ConstantsAssumption DEF TypeOK, Stamp, Lease
  <2> QED
    BY <2>2, <2>3, Truncation DEF Expired
<1> QED
  BY <1>1, <1>2, JustifiedStep, TypeCorrect, PTL DEF Spec, NotStolenWhileFresh

---------------------------------------------------------------------------
LEMMA PastStep == TypeOK /\ Past /\ [Next]_vars => Past'
<1> SUFFICES ASSUME TypeOK, Past, [Next]_vars PROVE Past'
  OBVIOUS
<1> USE DEF TypeOK, Past
<1>1. ASSUME NEW n \in Node, Start(n) \/ Get(n) \/ SyncStart(n) \/ SyncEnd(n) \/ Restart(n)
      PROVE  Past'
  BY <1>1 DEF Start, Get, SyncStart, SyncEnd, Restart
<1>2. ASSUME NEW n \in Node, GetHeld(n) \/ PutConflict(n) \/ Failed(n)
      PROVE  Past'
  BY <1>2 DEF GetHeld, PutConflict, Failed, Conclude
<1>3. ASSUME NEW n \in Node, Put(n) \/ PutUnanswered(n) PROVE Past'
  BY <1>3 DEF Put, PutUnanswered, Conclude
<1>4. CASE Advance \/ UNCHANGED vars
  BY <1>4 DEF Advance, vars
<1> QED
  BY <1>1, <1>2, <1>3, <1>4 DEF Next, Attempt

LEMMA TimelyStep == TypeOK /\ Past /\ Timely(now) /\ [Next]_vars => Timely(now)'
<1> SUFFICES ASSUME TypeOK, Past, Timely(now), [Next]_vars PROVE Timely(now)'
  OBVIOUS
<1> USE ConstantsAssumption DEF TypeOK, Timely, Past
<1>1. ASSUME NEW n \in Node, Start(n) \/ Get(n) \/ SyncStart(n) \/ SyncEnd(n) \/ Restart(n)
      PROVE  Timely(now)'
  BY <1>1 DEF Start, Get, SyncStart, SyncEnd, Restart
<1>2. ASSUME NEW n \in Node, GetHeld(n) \/ PutConflict(n) \/ Failed(n)
      PROVE  Timely(now)'
  BY <1>2 DEF GetHeld, PutConflict, Failed, Conclude
<1>3. ASSUME NEW n \in Node, Put(n) \/ PutUnanswered(n) PROVE Timely(now)'
  BY <1>3 DEF Put, PutUnanswered, Conclude
<1>4. CASE Advance
  BY <1>4 DEF Advance
<1>5. CASE UNCHANGED vars
  BY <1>5 DEF vars
<1> QED
  BY <1>1, <1>2, <1>3, <1>4, <1>5 DEF Next, Attempt

\* The timing assumption, related to the duration and to the clock offsets.
InTime == \A m, n \in Node : Stall + Skew[m] - Skew[n] <= (Dur - 1) * SubSec

\* Whoever writes the Lease finds no other leader: the Lease would still name it.
LEMMA Unopposed ==
    ASSUME InTime, TypeOK, Justified, Past, Timely(now), Holds,
           NEW n \in Node, Put(n) \/ PutUnanswered(n),
           NEW m \in Node, leader[m], m # n
    PROVE  FALSE
<1> USE ConstantsAssumption DEF TypeOK, Holds
<1>1. Expired(lease, Stamp(n))
  BY DEF Put, PutUnanswered, Justified, CanAcquire
<1>2. lease.renew = since[m] + Skew[m] /\ lease.renew \in Nat /\ Stamp(n) \in Nat
  BY DEF Lease, Stamp
<1>3. Stamp(n) - lease.renew > (Dur - 1) * SubSec
  BY <1>1, <1>2, Truncation DEF Expired
<1>4. /\ now - since[m] <= Stall
      /\ start[n] <= now
      /\ Stall + Skew[n] - Skew[m] <= (Dur - 1) * SubSec
      /\ now \in Int /\ since[m] \in Int /\ start[n] \in Int
      /\ Skew[n] \in Int /\ Skew[m] \in Int /\ Stall \in Int
  BY DEF Timely, Past, InTime
<1>5. (Dur - 1) * SubSec \in Int
  OBVIOUS
<1> QED
  BY <1>2, <1>3, <1>4, <1>5 DEF Stamp

LEMMA HoldsStep ==
    ASSUME InTime, TypeOK, Justified, Past, Timely(now), Holds, [Next]_vars
    PROVE  Holds'
<1>0. ASSUME NEW n \in Node, Put(n) \/ PutUnanswered(n) PROVE \A m \in Node : leader[m] => m = n
  BY <1>0, Unopposed
<1> USE ConstantsAssumption DEF TypeOK, Holds
<1>1. ASSUME NEW n \in Node, Start(n) \/ Get(n) \/ SyncStart(n) \/ SyncEnd(n) \/ Restart(n)
      PROVE  Holds'
  BY <1>1 DEF Start, Get, SyncStart, SyncEnd, Restart
<1>2. ASSUME NEW n \in Node, GetHeld(n) \/ PutConflict(n) \/ Failed(n)
      PROVE  Holds'
  BY <1>2 DEF GetHeld, PutConflict, Failed, Conclude
<1>3. ASSUME NEW n \in Node, Put(n) \/ PutUnanswered(n) PROVE Holds'
  <2>1. \A m \in Node : leader[m] => m = n
    BY <1>0, <1>3
  <2>2. lease' = [holder |-> n, renew |-> Stamp(n)]
    BY <1>3 DEF Put, PutUnanswered, Write
  <2>3. \A m \in Node : leader'[m] => m = n
    BY <1>3, <2>1 DEF Put, PutUnanswered, Conclude
  <2>4. leader'[n] => since'[n] = start[n]
    BY <1>3 DEF Put, PutUnanswered, Conclude
  <2> QED
    BY <2>2, <2>3, <2>4 DEF Stamp
<1>4. CASE Advance \/ UNCHANGED vars
  BY <1>4 DEF Advance, vars
<1> QED
  BY <1>1, <1>2, <1>3, <1>4 DEF Next, Attempt

Inv == TypeOK /\ Justified /\ Past /\ Timely(now) /\ Holds

LEMMA InvAlways ==
    ASSUME InTime
    PROVE  Spec => []Inv
<1>1. Init => Inv
  <2>1. Init => TypeOK
    BY ConstantsAssumption DEF Init, TypeOK, Step, Absent, Lease
  <2> QED
    BY <2>1, ConstantsAssumption DEF Init, Inv, Justified, Past, Timely, Holds
<1>2. Inv /\ [Next]_vars => Inv'
  BY TypeStep, JustifiedStep, PastStep, TimelyStep, HoldsStep DEF Inv
<1> QED
  BY <1>1, <1>2, PTL DEF Spec

\* If every attempt concludes, and every leader renews, before the Lease can run
\* out on the fastest clock, then no two instances lead at once.
THEOREM MutualExclusion ==
    ASSUME InTime
    PROVE  Spec => []AtMostOneLeader
<1>1. Inv => AtMostOneLeader
  BY DEF Inv, Holds, AtMostOneLeader
<1> QED
  BY <1>1, InvAlways, PTL

\* Under the same condition the election implements the abstract Leadership: every
\* step leaves the leaders as they are, or lets one instance begin when no other
\* leads, or lets one stop.
THEOREM Implementation ==
    ASSUME InTime
    PROVE  Spec => TakesTurns
<1>1. Init => Turns!Init
  BY DEF Init, Turns!Init
<1>2. Inv /\ [Next]_vars => [Turns!Next]_leader
  <2> SUFFICES ASSUME Inv, [Next]_vars PROVE [Turns!Next]_leader
    OBVIOUS
  <2> USE DEF Inv
  <2>1. ASSUME NEW n \in Node, Put(n) PROVE Turns!Next
    <3>1. \A m \in Node \ {n} : ~leader[m]
      BY <2>1, Unopposed
    <3>2. leader' = [leader EXCEPT ![n] = TRUE]
      BY <2>1 DEF Put, Conclude
    <3> QED
      BY <3>1, <3>2 DEF Turns!Next, Turns!Lead
  <2>2. ASSUME NEW n \in Node, GetHeld(n) \/ PutConflict(n) \/ Failed(n) \/ PutUnanswered(n)
                               \/ Restart(n)
        PROVE  Turns!Next
    <3>1. leader' = [leader EXCEPT ![n] = FALSE]
      BY <2>2 DEF GetHeld, PutConflict, Failed, PutUnanswered, Restart, Conclude
    <3> QED
      BY <3>1 DEF Turns!Next, Turns!Yield
  <2>3. ASSUME NEW n \in Node, Start(n) \/ Get(n) \/ SyncStart(n) \/ SyncEnd(n)
        PROVE  UNCHANGED leader
    BY <2>3 DEF Start, Get, SyncStart, SyncEnd
  <2>4. CASE Advance \/ UNCHANGED vars
    BY <2>4 DEF Advance, vars
  <2> QED
    BY <2>1, <2>2, <2>3, <2>4 DEF Next, Attempt
<1> QED
  BY <1>1, <1>2, InvAlways, PTL DEF Spec, TakesTurns, Turns!Spec
============================================================================
