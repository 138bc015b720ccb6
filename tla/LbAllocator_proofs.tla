------------------------- MODULE LbAllocator_proofs -------------------------
(***************************************************************************)
(* Theorems about LbAllocator, for any number of nodes, Services and       *)
(* ranges.                                                                 *)
(*                                                                         *)
(* LInv: addresses are not given out twice, when every pass starts from a  *)
(* store that has caught up.  Of next_free_ip that argument needs only that*)
(* it returns nothing or an address that is not allocated.                 *)
(*                                                                         *)
(* CInv: what a pass plans and where the cursors stand, however stale the  *)
(* store is.  It needs what the loop of next_free_ip computes, which is a  *)
(* function of the number of increments made: facts about it are proved    *)
(* by looking at the least number for which they fail (Least).             *)
(***************************************************************************)
EXTENDS LbAllocator, WellFoundedInduction, TLAPS

LEMMA FoundIsFree ==
    ASSUME NEW R, NEW c, NEW allocated,
           NextFreeIp(R, c, allocated).ip # NoIp
    PROVE  NextFreeIp(R, c, allocated).ip \notin allocated
BY DEF NextFreeIp

\* A plan holds new addresses only, one for each family at most, and only for
\* families that the Service does not have.
LEMMA PlanIsNew ==
    ASSUME NEW svc, NEW cur, NEW used,
           NEW i \in PlanAllocation(svc, cur, used).ips
    PROVE  /\ i \notin used
           /\ i.fam \notin Have(svc)
           /\ \A j \in PlanAllocation(svc, cur, used).ips : i.fam = j.fam => i = j
<1> DEFINE r == Lookup(svc, cur, used)
           got == {f \in DOMAIN r : r[f].ip # NoIp}
<1>1. PlanAllocation(svc, cur, used).ips \subseteq {[fam |-> f, a |-> r[f].ip] : f \in got}
  BY DEF PlanAllocation
<1>2. DOMAIN r = Missing(svc)
  BY DEF Lookup
<1>3. PICK f \in got : i = [fam |-> f, a |-> r[f].ip]
  BY <1>1
<1>4. r[f] = NextFreeIp(Ranges[f], cur[f], {k.a : k \in {j \in used : j.fam = f}})
  BY <1>2, <1>3 DEF Lookup
<1>5. r[f].ip \notin {k.a : k \in {j \in used : j.fam = f}}
  BY <1>3, <1>4, FoundIsFree
<1>6. i \notin used
  BY <1>3, <1>5
<1>7. i.fam \notin Have(svc)
  BY <1>2, <1>3 DEF Missing
<1>8. \A j \in PlanAllocation(svc, cur, used).ips : i.fam = j.fam => i = j
  BY <1>1, <1>3
<1> QED
  BY <1>6, <1>7, <1>8

---------------------------------------------------------------------------
Busy(n) == pc[n] # "idle"
Updating(n) == pc[n] \in {"get", "put"}
Exists(s) == api[s] # NoSvc

Shape ==
    /\ leader \in [Node -> BOOLEAN]
    /\ pc \in [Node -> {"idle", "pass", "get", "put"}]
    /\ todo \in [Node -> SUBSET Svc]
    /\ target \in [Node -> Svc \cup {NoSvc}]
    /\ current \in [Node -> BOOLEAN]
    /\ api = [s \in Svc |-> api[s]]
    /\ cache = [n \in Node |-> cache[n]]
    /\ services = [n \in Node |-> services[n]]
    /\ taken = [n \in Node |-> taken[n]]
    /\ ips = [n \in Node |-> ips[n]]

\* Only the leader is in a pass, and there is one leader.
Alone ==
    /\ \A m, n \in Node : leader[m] /\ leader[n] => m = n
    /\ \A n \in Node : Busy(n) => leader[n]

\* A pass knows of every address of the pool that is in use.
Sees ==
    \A n \in Node : Busy(n) =>
        \A s \in Svc : Exists(s) => \A i \in api[s].ingress : InPool(i) => i \in taken[n]

\* A Service that the pass has still to look at has not gained an address.
Unserved ==
    \A n \in Node : Busy(n) =>
        \A s \in todo[n] : Exists(s) => Have(api[s]) \subseteq Have(services[n][s])

\* The addresses planned are tracked, in nobody's use, and what the target lacks.
Fits ==
    \A n \in Node : Updating(n) =>
        /\ target[n] \in Svc \ todo[n]
        /\ \A i \in ips[n] : i \in taken[n] /\ \A j \in ips[n] : i.fam = j.fam => i = j
        /\ \A s \in Svc : Exists(s) => \A i \in ips[n] : InPool(i) => i \notin api[s].ingress
        /\ Exists(target[n]) => \A i \in ips[n] : i.fam \notin Have(api[target[n]])
        /\ pc[n] = "put" /\ current[n] => Exists(target[n])

LInv == Shape /\ Alone /\ Sees /\ Unserved /\ Fits /\ NoDoubleAssign /\ OnePerFamily

LEMMA ShapeStep == Shape /\ [Next]_vars => Shape'
<1> SUFFICES ASSUME Shape, [Next]_vars PROVE Shape'
  OBVIOUS
<1> USE DEF Shape
<1>1. ASSUME NEW s \in Svc, Delete(s) PROVE Shape'
  BY <1>1 DEF Delete, Outdate
<1>2. ASSUME NEW s \in Svc, NEW spec \in Specs, Apply(s, spec) PROVE Shape'
  BY <1>2 DEF Apply, Outdate
<1>3. ASSUME NEW n \in Node, CacheSync(n) PROVE Shape'
  BY <1>3 DEF CacheSync, passVars
<1>4. ASSUME NEW n \in Node, Elect(n) \/ StepDown(n) PROVE Shape'
  BY <1>4 DEF Elect, StepDown, Turns!Lead, Turns!Yield, passVars
<1>5. ASSUME NEW n \in Node, Restart(n) PROVE Shape'
  BY <1>5 DEF Restart, Turns!Yield, Drop
<1>6. ASSUME NEW n \in Node, PassStart(n) PROVE Shape'
  BY <1>6 DEF PassStart
<1>7. ASSUME NEW n \in Node, NEW s \in Svc, Plan(n, s) PROVE Shape'
  BY <1>7 DEF Plan
<1>8. ASSUME NEW n \in Node, GetStatus(n) PROVE Shape'
  BY <1>8 DEF GetStatus
<1>9. ASSUME NEW n \in Node, ReplaceStatus(n) PROVE Shape'
  BY <1>9 DEF ReplaceStatus, AppendIps, Outdate
<1>10. ASSUME NEW n \in Node, Refused(n) \/ Failed(n) \/ PassEnd(n) PROVE Shape'
  BY <1>10 DEF Refused, Failed, PassEnd, Return, Drop
<1>11. ASSUME NEW n \in Node, Unanswered(n) PROVE Shape'
  BY <1>11 DEF Unanswered, AppendIps, Return, Drop, Outdate
<1>12. CASE UNCHANGED vars
  BY <1>12 DEF vars, passVars
<1> QED
  BY <1>1, <1>2, <1>3, <1>4, <1>5, <1>6, <1>7, <1>8, <1>9, <1>10, <1>11, <1>12
     DEF Next, User, Pass

LEMMA AloneStep == Shape /\ Alone /\ [Next]_vars => Alone'
<1> SUFFICES ASSUME Shape, Alone, [Next]_vars PROVE Alone'
  OBVIOUS
<1> USE DEF Shape, Alone, Busy
<1>1. ASSUME NEW s \in Svc, Delete(s) \/ \E spec \in Specs : Apply(s, spec) PROVE Alone'
  BY <1>1 DEF Delete, Apply
<1>2. ASSUME NEW n \in Node, Elect(n) PROVE Alone'
  BY <1>2 DEF Elect, Turns!Lead
<1>3. ASSUME NEW n \in Node, StepDown(n) \/ Restart(n) PROVE Alone'
  BY <1>3 DEF StepDown, Restart, Turns!Yield
<1>4. ASSUME NEW n \in Node, CacheSync(n) \/ PassStart(n) \/ GetStatus(n) \/ ReplaceStatus(n)
      PROVE  Alone'
  BY <1>4 DEF CacheSync, PassStart, GetStatus, ReplaceStatus
<1>5. ASSUME NEW n \in Node, NEW s \in Svc, Plan(n, s) PROVE Alone'
  BY <1>5 DEF Plan
<1>6. ASSUME NEW n \in Node, Refused(n) \/ Failed(n) \/ Unanswered(n) \/ PassEnd(n) PROVE Alone'
  BY <1>6 DEF Refused, Failed, Unanswered, PassEnd, Return
<1>7. CASE UNCHANGED vars
  BY <1>7 DEF vars
<1> QED
  BY <1>1, <1>2, <1>3, <1>4, <1>5, <1>6, <1>7 DEF Next, User, Pass

---------------------------------------------------------------------------
\* What is left of the invariant once Shape and Alone are known.
Rest == Sees /\ Unserved /\ Fits /\ NoDoubleAssign /\ OnePerFamily

\* Users take addresses away but give none.
LEMMA UserStep ==
    ASSUME LInv, NEW s \in Svc, Delete(s) \/ \E spec \in Specs : Apply(s, spec)
    PROVE  Rest'
<1> USE DEF LInv, Shape
<1>1. \A t \in Svc : (api'[t] # NoSvc) =>
        api'[t].ingress = {} \/ (api[t] # NoSvc /\ api'[t].ingress = api[t].ingress)
  BY DEF Delete, Apply
<1>2. /\ \A n \in Node : current'[n] => current[n] /\ target[n] # s
      /\ \A t \in Svc \ {s} : api'[t] = api[t]
  BY DEF Delete, Apply, Outdate
<1>3. UNCHANGED <<pc, services, todo, taken, target, ips>>
  BY DEF Delete, Apply
<1>4. Sees'
  BY <1>1, <1>3 DEF Sees, Busy, Exists
<1>5. Unserved'
  BY <1>1, <1>3 DEF Unserved, Busy, Exists, Have
<1>6. Fits'
  BY <1>1, <1>2, <1>3, ZenonT(40) DEF Fits, Updating, Exists, Have
<1>7. NoDoubleAssign'
  BY <1>1 DEF NoDoubleAssign
<1>8. OnePerFamily'
  BY <1>1 DEF OnePerFamily
<1> QED
  BY <1>4, <1>5, <1>6, <1>7, <1>8 DEF Rest

\* Node n leaves the API server alone and is in no pass afterwards.
LEMMA QuietStep ==
    ASSUME LInv, Shape', NEW n \in Node, UNCHANGED api,
           \A m \in Node \ {n} : /\ pc'[m] = pc[m] /\ services'[m] = services[m]
                                 /\ todo'[m] = todo[m] /\ taken'[m] = taken[m]
                                 /\ target'[m] = target[m] /\ ips'[m] = ips[m]
                                 /\ current'[m] = current[m],
           pc'[n] = "idle"
    PROVE  Rest'
<1> USE DEF LInv
<1>1. Sees'
  BY DEF Sees, Busy, Exists
<1>2. Unserved'
  BY DEF Unserved, Busy, Exists
<1>3. Fits'
  BY DEF Fits, Updating, Exists
<1>4. NoDoubleAssign' /\ OnePerFamily'
  BY DEF NoDoubleAssign, OnePerFamily
<1> QED
  BY <1>1, <1>2, <1>3, <1>4 DEF Rest

\* A pass starts with the addresses in use, as the store has caught up.
LEMMA PassStartStep ==
    ASSUME LInv, FreshCache, NEW n \in Node, StoreCurrent(n), PassStart(n)
    PROVE  Rest'
<1> USE DEF LInv, Shape
<1>1. /\ services'[n] = api /\ taken'[n] = AllocatedIps(api)
      /\ todo'[n] \subseteq Svc
      /\ UNCHANGED api
      /\ \A m \in Node \ {n} : /\ pc'[m] = pc[m] /\ services'[m] = services[m]
                               /\ todo'[m] = todo[m] /\ taken'[m] = taken[m]
      /\ UNCHANGED <<target, ips, current>>
      /\ pc'[n] = "pass"
  BY DEF PassStart, StoreCurrent
<1>2. \A s \in Svc : api[s] # NoSvc =>
        \A i \in api[s].ingress : InPool(i) => i \in AllocatedIps(api)
  BY DEF AllocatedIps, InPool
<1>3. Sees'
  BY <1>1, <1>2 DEF Sees, Busy, Exists
<1>4. Unserved'
  BY <1>1 DEF Unserved, Busy, Exists
<1>5. Fits'
  BY <1>1 DEF Fits, Updating, Exists
<1>6. NoDoubleAssign' /\ OnePerFamily'
  BY <1>1 DEF NoDoubleAssign, OnePerFamily
<1> QED
  BY <1>3, <1>4, <1>5, <1>6 DEF Rest

\* A plan holds nothing that the pass has seen in use.
LEMMA PlanStep ==
    ASSUME LInv, NEW n \in Node, NEW s \in Svc, Plan(n, s)
    PROVE  Rest'
<1> DEFINE plan == PlanAllocation(services[n][s], cursor[n], taken[n])
<1> USE DEF LInv, Shape
<1>1. /\ s \in todo[n] /\ pc[n] = "pass"
      /\ ips'[n] = plan.ips /\ taken'[n] = taken[n] \cup plan.ips
      /\ target'[n] = s /\ todo'[n] = todo[n] \ {s}
      /\ pc'[n] \in {"pass", "get"}
      /\ \A m \in Node \ {n} : /\ pc'[m] = pc[m] /\ todo'[m] = todo[m] /\ taken'[m] = taken[m]
                               /\ target'[m] = target[m] /\ ips'[m] = ips[m]
      /\ UNCHANGED <<api, services, current>>
  BY DEF Plan
<1>2. \A i \in plan.ips : /\ i \notin taken[n] /\ i.fam \notin Have(services[n][s])
                          /\ \A j \in plan.ips : i.fam = j.fam => i = j
  BY PlanIsNew
<1> HIDE DEF plan
<1>3. Sees'
  BY <1>1 DEF Sees, Busy, Exists
<1>4. Unserved'
  BY <1>1 DEF Unserved, Busy, Exists
<1>5. Fits'
  <2>1. ASSUME NEW m \in Node, m # n, Updating(m)' PROVE FALSE
    BY <1>1, <2>1 DEF Alone, Busy, Updating
  <2>2. \A t \in Svc : Exists(t)' => \A i \in ips'[n] : InPool(i) => i \notin api'[t].ingress
    BY <1>1, <1>2 DEF Sees, Busy, Exists
  <2>3. Exists(s)' => \A i \in ips'[n] : i.fam \notin Have(api'[s])
    BY <1>1, <1>2 DEF Unserved, Busy, Exists
  <2> QED
    BY <1>1, <1>2, <2>1, <2>2, <2>3 DEF Fits, Updating
<1>6. NoDoubleAssign' /\ OnePerFamily'
  BY <1>1 DEF NoDoubleAssign, OnePerFamily
<1> QED
  BY <1>3, <1>4, <1>5, <1>6 DEF Rest

\* The planned addresses can be appended to the target.
LEMMA AppendStep ==
    ASSUME LInv, NEW n \in Node, pc[n] = "put", current[n], AppendIps(n)
    PROVE  /\ NoDoubleAssign' /\ OnePerFamily'
           /\ \A s \in Svc : Exists(s)' => Exists(s)
           /\ \A s \in Svc \ {target[n]} : api'[s] = api[s]
           /\ api'[target[n]].ingress = api[target[n]].ingress \cup ips[n]
<1> USE DEF LInv, Shape
<1>1. /\ target[n] \in Svc /\ Exists(target[n])
      /\ \A s \in Svc \ {target[n]} : api'[s] = api[s]
      /\ api'[target[n]].ingress = api[target[n]].ingress \cup ips[n]
  BY DEF AppendIps, Fits, Updating
<1>2. NoDoubleAssign'
  BY <1>1 DEF NoDoubleAssign, Fits, Updating, Exists
<1>3. OnePerFamily'
  <2>1. \A i, j \in ips[n] : i.fam = j.fam => i = j
    BY DEF Fits, Updating
  <2>2. \A i \in ips[n], j \in api[target[n]].ingress : i.fam # j.fam
    BY <1>1 DEF Fits, Updating, Have
  <2>3. \A i, j \in api[target[n]].ingress : i.fam = j.fam => i = j
    BY <1>1 DEF OnePerFamily, Exists
  <2>4. \A i, j \in api'[target[n]].ingress : i.fam = j.fam => i = j
    BY <1>1, <2>1, <2>2, <2>3
  <2> QED
    BY <1>1, <2>4 DEF OnePerFamily
<1> QED
  BY <1>1, <1>2, <1>3 DEF Exists

LEMMA ReplaceStep ==
    ASSUME LInv, NEW n \in Node, ReplaceStatus(n)
    PROVE  Rest'
<1> USE DEF LInv, Shape
<1>1. /\ \A s \in Svc : Exists(s)' => Exists(s)
      /\ \A s \in Svc \ {target[n]} : api'[s] = api[s]
      /\ api'[target[n]].ingress = api[target[n]].ingress \cup ips[n]
      /\ NoDoubleAssign' /\ OnePerFamily'
  BY AppendStep DEF ReplaceStatus
<1>2. /\ pc[n] = "put" /\ pc'[n] = "pass"
      /\ \A m \in Node \ {n} : pc'[m] = pc[m]
      /\ UNCHANGED <<services, todo, taken, target, ips>>
  BY DEF ReplaceStatus
<1>3. \A m \in Node : Busy(m)' => m = n
  BY <1>2 DEF Alone, Busy
<1>4. target[n] \in Svc \ todo[n] /\ ips[n] \subseteq taken[n]
  BY <1>2 DEF Fits, Updating
<1>5. Sees'
  BY <1>1, <1>2, <1>3, <1>4 DEF Sees, Busy, Exists
<1>6. Unserved'
  BY <1>1, <1>2, <1>3, <1>4 DEF Unserved, Busy, Exists
<1>7. Fits'
  BY <1>2, <1>3 DEF Fits, Updating, Busy
<1> QED
  BY <1>1, <1>5, <1>6, <1>7 DEF Rest

\* An update whose answer is lost ends the pass; no other node is in one.
LEMMA UnansweredStep ==
    ASSUME LInv, NEW n \in Node, Unanswered(n)
    PROVE  Rest'
<1> USE DEF LInv, Shape
<1>1. NoDoubleAssign' /\ OnePerFamily'
  BY AppendStep DEF Unanswered
<1>2. \A m \in Node : pc'[m] = "idle"
  BY DEF Unanswered, Return, Alone, Busy
<1>3. Sees' /\ Unserved' /\ Fits'
  BY <1>2 DEF Sees, Unserved, Fits, Busy, Updating
<1> QED
  BY <1>1, <1>3 DEF Rest

LEMMA RestStep ==
    ASSUME LInv, FreshCache, Shape', [Next]_vars
    PROVE  Rest'
<1> USE DEF LInv
<1>1. ASSUME NEW s \in Svc, Delete(s) \/ \E spec \in Specs : Apply(s, spec) PROVE Rest'
  BY <1>1, UserStep
<1>2. ASSUME NEW n \in Node, StoreCurrent(n), PassStart(n) PROVE Rest'
  BY <1>2, PassStartStep
<1>3. ASSUME NEW n \in Node, NEW s \in Svc, Plan(n, s) PROVE Rest'
  BY <1>3, PlanStep
<1>4. ASSUME NEW n \in Node, ReplaceStatus(n) PROVE Rest'
  BY <1>4, ReplaceStep
<1>5. ASSUME NEW n \in Node, Unanswered(n) PROVE Rest'
  BY <1>5, UnansweredStep
<1>6. ASSUME NEW n \in Node, Restart(n) \/ Refused(n) \/ Failed(n) \/ PassEnd(n) PROVE Rest'
  <2> USE DEF Shape
  <2>1. /\ UNCHANGED api
        /\ pc'[n] = "idle"
        /\ \A m \in Node \ {n} : /\ pc'[m] = pc[m] /\ services'[m] = services[m]
                                 /\ todo'[m] = todo[m] /\ taken'[m] = taken[m]
                                 /\ target'[m] = target[m] /\ ips'[m] = ips[m]
                                 /\ current'[m] = current[m]
    BY <1>6 DEF Restart, Refused, Failed, PassEnd, Return, Drop
  <2> QED
    BY <2>1, QuietStep
<1>7. ASSUME NEW n \in Node, GetStatus(n) PROVE Rest'
  <2> USE DEF Shape
  <2>1. /\ pc[n] = "get" /\ pc'[n] = "put" /\ api[target[n]] # NoSvc
        /\ \A m \in Node \ {n} : pc'[m] = pc[m] /\ current'[m] = current[m]
        /\ UNCHANGED <<api, services, todo, taken, target, ips>>
    BY <1>7 DEF GetStatus
  <2>2. Sees' /\ Unserved'
    BY <2>1 DEF Sees, Unserved, Busy, Exists
  <2>3. Fits'
    BY <2>1 DEF Fits, Updating, Exists
  <2>4. NoDoubleAssign' /\ OnePerFamily'
    BY <2>1 DEF NoDoubleAssign, OnePerFamily
  <2> QED
    BY <2>2, <2>3, <2>4 DEF Rest
<1>8. ASSUME NEW n \in Node, CacheSync(n) \/ Elect(n) \/ StepDown(n) PROVE Rest'
  <2>1. UNCHANGED <<api, pc, services, todo, taken, target, ips, current>>
    BY <1>8 DEF CacheSync, Elect, StepDown, passVars
  <2> QED
    BY <2>1 DEF Rest, Sees, Unserved, Fits, NoDoubleAssign, OnePerFamily, Busy, Updating, Exists
<1>9. CASE UNCHANGED vars
  BY <1>9 DEF vars, passVars, Rest, Sees, Unserved, Fits, NoDoubleAssign, OnePerFamily,
              Busy, Updating, Exists
<1> QED
  BY <1>1, <1>2, <1>3, <1>4, <1>5, <1>6, <1>7, <1>8, <1>9 DEF Next, User, Pass

LEMMA LInvAlways ==
    ASSUME FreshCache
    PROVE  Spec => []LInv
<1>1. Init => LInv
  BY DEF Init, Turns!Init, LInv, Shape, Alone, Sees, Unserved, Fits, NoDoubleAssign, OnePerFamily,
         Busy, Updating, Exists
<1>2. LInv /\ [Next]_vars => LInv'
  BY ShapeStep, AloneStep, RestStep DEF LInv, Rest
<1> QED
  BY <1>1, <1>2, PTL DEF Spec

---------------------------------------------------------------------------
\* With one leader at a time and a store that has caught up at the start of a
\* pass, no address of the pool is given to two Services.
THEOREM NeverDoubleAssigned ==
    ASSUME FreshCache
    PROVE  Spec => []NoDoubleAssign
<1>1. LInv => NoDoubleAssign
  BY DEF LInv
<1> QED
  BY <1>1, LInvAlways, PTL

\* Under the same condition a Service is never given two addresses of one family,
\* even if the answer to an update is lost.
THEOREM NeverOverAllocated ==
    ASSUME FreshCache
    PROVE  Spec => []OnePerFamily
<1>1. LInv => OnePerFamily
  BY DEF LInv
<1> QED
  BY <1>1, LInvAlways, PTL

---------------------------------------------------------------------------
(* The loop of next_free_ip *)

\* Induction, in the form the provers can use: a set of numbers has a least element.
LEMMA Least ==
  ASSUME NEW T \in SUBSET Nat, T # {}
  PROVE \E n \in T : \A m \in T : n <= m
<1>1. PICK n \in T : \A m \in T : <<m, n>> \notin OpToRel(<, Nat)
  BY NatLessThanWellFounded, WFMin, Zenon
<1>2. \A m \in T : ~ (m < n)
  BY <1>1 DEF OpToRel
<1> QED BY <1>2

\* The one fact about products that is needed.
LEMMA Scaled ==
  ASSUME NEW x \in Nat, NEW y \in Nat, NEW s \in Nat, x < y
  PROVE  x * s + s <= y * s
<1>1. PICK d \in Nat : y = x + 1 + d
  <2> WITNESS y - x - 1 \in Nat
  <2> QED OBVIOUS
<1>2. y * s = x * s + s + d * s /\ d * s >= 0 /\ x * s \in Nat /\ d * s \in Nat
  BY <1>1
<1> QED BY <1>2

\* A range is an interval of addresses.
LEMMA RangeInterval ==
  ASSUME NEW r \in IpNet
  PROVE  /\ Network(r) \in Address
         /\ Network(r) + r.size <= Space
         /\ \A a \in Address : Contains(r, a) <=> Network(r) <= a /\ a < Network(r) + r.size
<1>1. /\ r.addr \in Nat /\ r.size \in Nat /\ 1 <= r.size /\ r.size <= Space /\ r.addr < Space
      /\ Space \in Nat /\ Space % r.size = 0
  BY SpaceAssumption DEF IpNet, Address, SpaceAssumption
<1> DEFINE q == r.addr \div r.size
           p == Space \div r.size
<1>2. /\ q \in Nat /\ p \in Nat
      /\ q * r.size <= r.addr /\ r.addr < q * r.size + r.size
      /\ Space = p * r.size
  BY <1>1
<1> HIDE DEF q, p
<1>3. q < p
  BY <1>1, <1>2, Scaled
<1>4. q * r.size + r.size <= Space
  BY <1>1, <1>2, <1>3, Scaled
<1>5. ASSUME NEW a \in Address
      PROVE  Contains(r, a) <=> Network(r) <= a /\ a < Network(r) + r.size
  <2> DEFINE t == a \div r.size
  <2>1. a \in Nat /\ t \in Nat /\ t * r.size <= a /\ a < t * r.size + r.size
    BY <1>1 DEF Address
  <2> HIDE DEF t
  <2>2. t = q => Network(r) <= a /\ a < Network(r) + r.size
    BY <2>1 DEF Network, q
  <2>3. ASSUME q * r.size <= a, a < q * r.size + r.size, t # q PROVE FALSE
    <3>3. t * r.size \in Nat /\ q * r.size \in Nat
      BY <1>1, <1>2, <2>1
    <3>1. CASE t < q
      <4>1. t * r.size + r.size <= q * r.size
        BY <1>1, <1>2, <2>1, <3>1, Scaled
      <4> QED BY <1>1, <2>1, <2>3, <4>1, <3>3
    <3>2. CASE q < t
      <4>1. q * r.size + r.size <= t * r.size
        BY <1>1, <1>2, <2>1, <3>2, Scaled
      <4> QED BY <1>1, <2>1, <2>3, <4>1, <3>3
    <3> QED BY <1>2, <2>1, <2>3, <3>1, <3>2
  <2> QED BY <2>2, <2>3 DEF Contains, Network, t, q
<1> QED BY <1>1, <1>2, <1>4, <1>5 DEF Network, Address, q

\* A cursor: the index of a range, and an address of it.
Cursors(R) == {c \in [index : DOMAIN R, ip : Address] : Contains(R[c.index], c.ip)}
First(R, i) == [index |-> i, ip |-> Network(R[i])]
After(R, i) == IF i + 1 > Len(R) THEN 1 ELSE i + 1
LastOf(r) == Network(r) + r.size - 1
Whole(R, i) == R[i].size = Space

\* Adding one wraps at the top of the address space only.
LEMMA Wraps ==
  ASSUME NEW a \in Address
  PROVE  IncIp(a) = IF a + 1 = Space THEN 0 ELSE a + 1
<1>1. a \in Nat /\ a < Space /\ Space \in Nat /\ Space > 0
  BY SpaceAssumption DEF Address, SpaceAssumption
<1>2. CASE a + 1 = Space
  BY <1>1, <1>2 DEF IncIp
<1>3. CASE a + 1 < Space
  <2>1. (a + 1) % Space = a + 1
    BY <1>1, <1>3
  <2> QED BY <1>1, <1>3, <2>1 DEF IncIp
<1> QED BY <1>1, <1>2, <1>3

\* What inc does: one address up, or to the first one of the next range.
LEMMA IncEffect ==
  ASSUME NEW R \in Seq(IpNet), NEW c \in Cursors(R)
  PROVE  /\ Inc(R, c) \in Cursors(R)
         /\ c.ip < LastOf(R[c.index]) => Inc(R, c) = [index |-> c.index, ip |-> c.ip + 1]
         /\ c.ip = LastOf(R[c.index]) =>
               Inc(R, c) = First(R, IF Whole(R, c.index) THEN c.index ELSE After(R, c.index))
<1> DEFINE r == R[c.index]
<1>1. /\ r \in IpNet /\ c.index \in 1..Len(R) /\ Len(R) \in Nat /\ c.ip \in Address
      /\ Contains(r, c.ip) /\ c = [index |-> c.index, ip |-> c.ip]
  BY DEF Cursors
<1>2. /\ Network(r) \in Address /\ Network(r) + r.size <= Space
      /\ Network(r) <= c.ip /\ c.ip < Network(r) + r.size
      /\ r.size \in 1..Space /\ Space \in Nat /\ Space > 0
  BY <1>1, RangeInterval, SpaceAssumption DEF IpNet, SpaceAssumption
<1>3. IncIp(c.ip) \in Address /\ IncIp(c.ip) = IF c.ip + 1 = Space THEN 0 ELSE c.ip + 1
  BY <1>1, <1>2, Wraps DEF Address
<1>4. Contains(r, IncIp(c.ip)) <=> Network(r) <= IncIp(c.ip) /\ IncIp(c.ip) < Network(r) + r.size
  BY <1>1, <1>3, RangeInterval
<1>5. After(R, c.index) \in 1..Len(R) /\ R[After(R, c.index)] \in IpNet
  BY <1>1 DEF After
<1>6. \A i \in 1..Len(R) : First(R, i) \in Cursors(R)
  <2> SUFFICES ASSUME NEW i \in 1..Len(R) PROVE First(R, i) \in Cursors(R)
    OBVIOUS
  <2>1. R[i] \in IpNet
    OBVIOUS
  <2>2. Network(R[i]) \in Address /\ Contains(R[i], Network(R[i])) 
    <3>1. R[i].size > 0 /\ R[i].size \in Nat /\ Network(R[i]) \in Int
      <4>1. Network(R[i]) \in Address
        BY <2>1, RangeInterval
      <4> QED BY <2>1, <4>1, SpaceAssumption DEF IpNet, SpaceAssumption, Address
    <3> QED BY <2>1, <3>1, RangeInterval
  <2> QED BY <2>2 DEF Cursors, First
<1>7. CASE c.ip < LastOf(r)
  <2>1. IncIp(c.ip) = c.ip + 1 /\ Contains(r, IncIp(c.ip))
    BY <1>1, <1>2, <1>3, <1>4, <1>7 DEF LastOf, Address
  <2>2. Inc(R, c) = [index |-> c.index, ip |-> c.ip + 1]
    BY <1>1, <2>1 DEF Inc
  <2>3. Inc(R, c) \in Cursors(R)
    BY <1>1, <1>3, <2>1, <2>2 DEF Cursors
  <2>4. c.ip # LastOf(r)
    BY <1>1, <1>2, <1>7 DEF LastOf, Address
  <2> QED BY <2>2, <2>3, <2>4
<1>8. CASE ~(c.ip < LastOf(r))
  <2>1. c.ip + 1 = Network(r) + r.size
    BY <1>1, <1>2, <1>8 DEF LastOf, Address
  <2>2. CASE Whole(R, c.index)
    <3>1. Network(r) = 0 /\ c.ip + 1 = Space /\ IncIp(c.ip) = 0
      BY <1>2, <1>3, <2>1, <2>2 DEF Whole, Address
    <3>2. Contains(r, IncIp(c.ip))
      BY <1>2, <1>4, <3>1
    <3>3. Inc(R, c) = First(R, c.index)
      BY <1>1, <3>1, <3>2 DEF Inc, First
    <3> QED BY <1>1, <1>6, <1>8, <2>2, <3>3
  <2>3. CASE ~Whole(R, c.index)
    <3>1. ~Contains(r, IncIp(c.ip))
      BY <1>1, <1>2, <1>3, <1>4, <2>1, <2>3 DEF Whole, Address
    <3>2. Inc(R, c) = First(R, After(R, c.index))
      BY <1>1, <3>1 DEF Inc, First, After
    <3> QED BY <1>5, <1>6, <1>8, <2>3, <3>2
  <2> QED BY <2>2, <2>3
<1> QED BY <1>7, <1>8

\* The walk of next_free_ip is what its definition says.
LEMMA WalkDef ==
  ASSUME NEW R, NEW c, Len(R) * Space \in Nat
  PROVE  /\ DOMAIN Walk(R, c) = 0..(Len(R) * Space)
         /\ Walk(R, c)[0] = c
         /\ \A k \in 1..(Len(R) * Space) : Walk(R, c)[k] = Inc(R, Walk(R, c)[k - 1])
<1> DEFINE N == Len(R) * Space
           Sat(g, n) == g = [k \in 0..n |-> IF k = 0 THEN c ELSE Inc(R, g[k - 1])]
           T == {n \in Nat : ~ \E g : Sat(g, n)}
<1>1. T = {}
  <2> HIDE DEF Sat
  <2> SUFFICES ASSUME T # {} PROVE FALSE
    OBVIOUS
  <2>1. PICK n \in T : \A m \in T : n <= m
    BY Least
  <2>2. n # 0
    <3>1. Sat([k \in 0..0 |-> c], 0)
      BY DEF Sat
    <3> QED BY <3>1
  <2>3. n - 1 \in Nat /\ n - 1 \notin T
    BY <2>1, <2>2
  <2>4. PICK g : Sat(g, n - 1)
    BY <2>3
  <2> DEFINE h == [k \in 0..n |-> IF k = n THEN Inc(R, g[n - 1]) ELSE g[k]]
  <2>5. \A k \in 0..n : h[k] = IF k = 0 THEN c ELSE Inc(R, h[k - 1])
    BY <2>2, <2>4 DEF Sat
  <2>6. Sat(h, n)
    BY <2>5 DEF Sat
  <2> QED BY <2>6
<1>2. \E g : g = [k \in 0..N |-> IF k = 0 THEN c ELSE Inc(R, g[k - 1])]
  BY <1>1
<1>3. Walk(R, c) = [k \in 0..N |-> IF k = 0 THEN c ELSE Inc(R, Walk(R, c)[k - 1])]
  BY <1>2 DEF Walk
<1> HIDE DEF Sat, T, N
<1> DEFINE w == Walk(R, c)
<1> HIDE DEF w
<1>4. w = [k \in 0..N |-> IF k = 0 THEN c ELSE Inc(R, w[k - 1])]
  BY <1>3 DEF w
<1>5. N \in Nat
  BY DEF N
<1>6. DOMAIN w = 0..N /\ w[0] = c /\ \A k \in 1..N : w[k] = Inc(R, w[k - 1])
  BY <1>4, <1>5
<1> QED BY <1>6 DEF w, N

\* What a cursor is, in numbers.
LEMMA CursorFacts ==
  ASSUME NEW R \in Seq(IpNet), NEW c \in Cursors(R)
  PROVE  /\ c = [index |-> c.index, ip |-> c.ip]
         /\ c.index \in 1..Len(R) /\ R[c.index] \in IpNet
         /\ c.ip \in Nat /\ Network(R[c.index]) \in Nat /\ LastOf(R[c.index]) \in Nat
         /\ Network(R[c.index]) <= c.ip /\ c.ip <= LastOf(R[c.index])
         /\ LastOf(R[c.index]) < Space
         /\ R[c.index].size \in 1..Space
         /\ LastOf(R[c.index]) = Network(R[c.index]) + R[c.index].size - 1
<1> DEFINE r == R[c.index]
<1>1. /\ c = [index |-> c.index, ip |-> c.ip] /\ c.index \in 1..Len(R) /\ r \in IpNet
      /\ c.ip \in Address /\ Contains(r, c.ip)
  BY DEF Cursors
<1> HIDE DEF r
<1>2. /\ Network(r) \in Address /\ Network(r) + r.size <= Space
      /\ Network(r) <= c.ip /\ c.ip < Network(r) + r.size
  BY <1>1, RangeInterval
<1>3. r.size \in 1..Space
  BY <1>1 DEF IpNet
<1>4. Space \in Nat
  BY SpaceAssumption DEF SpaceAssumption
<1> QED BY <1>1, <1>2, <1>3, <1>4 DEF r, LastOf, Address

\* A run of N increments over the ranges R.
Walks(R, w, N) ==
    /\ R \in Seq(IpNet) /\ N \in Nat /\ w[0] \in Cursors(R)
    /\ \A k \in 1..N : w[k] = Inc(R, w[k - 1])

LEMMA WalkStays ==
  ASSUME NEW R, NEW w, NEW N, Walks(R, w, N)
  PROVE  \A k \in 0..N : w[k] \in Cursors(R)
<1> DEFINE T == {k \in 0..N : w[k] \notin Cursors(R)}
<1> SUFFICES ASSUME T # {} PROVE FALSE
  OBVIOUS
<1>1. N \in Nat
  BY DEF Walks
<1>2. PICK n \in T : \A m \in T : n <= m
  <2>1. T \in SUBSET Nat
    BY <1>1
  <2> HIDE DEF T
  <2> QED BY <2>1, Least
<1>3. n # 0
  BY DEF Walks
<1>4. n \in 1..N /\ n - 1 \in 0..N /\ n - 1 \notin T
  BY <1>1, <1>2, <1>3
<1>5. w[n] = Inc(R, w[n - 1]) /\ R \in Seq(IpNet) /\ w[n - 1] \in Cursors(R)
  BY <1>4 DEF Walks
<1> QED BY <1>5, IncEffect

\* Within a range the walk goes up one address at a time.
LEMMA Sweep ==
  ASSUME NEW R, NEW w, NEW N, Walks(R, w, N),
         NEW k \in 0..N, NEW d \in Nat, k + d <= N, w[k].ip + d <= LastOf(R[w[k].index])
  PROVE  w[k + d] = [index |-> w[k].index, ip |-> w[k].ip + d]
<1> DEFINE i == w[k].index
           a == w[k].ip
           T == {e \in 0..d : w[k + e] # [index |-> i, ip |-> a + e]}
<1>0. N \in Nat /\ R \in Seq(IpNet) /\ \A j \in 1..N : w[j] = Inc(R, w[j - 1])
  BY DEF Walks
<1>11. \A j \in 0..N : w[j] \in Cursors(R)
  BY WalkStays
<1>1. w[k] \in Cursors(R) /\ w[k] = [index |-> i, ip |-> a] /\ a \in Nat /\ N \in Nat
  BY <1>0, <1>11, CursorFacts
<1>2. LastOf(R[i]) \in Nat
  BY <1>0, <1>1, CursorFacts
<1> HIDE DEF i, a
<1> SUFFICES ASSUME T # {} PROVE FALSE
  BY DEF i, a
<1>3. PICK n \in T : \A m \in T : n <= m
  <2>1. T \in SUBSET Nat
    OBVIOUS
  <2> HIDE DEF T
  <2> QED BY <2>1, Least
<1>4. n # 0
  BY <1>1
<1>5. n \in 1..d /\ n - 1 \in 0..d /\ n - 1 \notin T
  BY <1>3, <1>4
<1>6. w[k + n - 1] = [index |-> i, ip |-> a + (n - 1)]
  <2>1. k + (n - 1) = k + n - 1
    BY <1>5
  <2> QED BY <1>5, <2>1
<1>7. k + n \in 1..N /\ k + n - 1 \in 0..N
  BY <1>1, <1>5
<1>8. w[k + n] = Inc(R, w[k + n - 1]) /\ w[k + n - 1] \in Cursors(R)
  BY <1>0, <1>7, <1>11
<1>9. a + (n - 1) < LastOf(R[i])
  BY <1>1, <1>2, <1>5 DEF i, a
<1>10. w[k + n] = [index |-> i, ip |-> a + (n - 1) + 1]
  <2> DEFINE c == w[k + n - 1]
  <2>1. c \in Cursors(R) /\ c.index = i /\ c.ip = a + (n - 1)
    BY <1>6, <1>8
  <2> HIDE DEF c
  <2>2. Inc(R, c) = [index |-> c.index, ip |-> c.ip + 1]
    BY <1>0, <1>9, <2>1, IncEffect
  <2> QED BY <1>8, <2>1, <2>2 DEF c
<1> QED BY <1>1, <1>5, <1>10

\* At the end of a range it goes on to the next one, unless the range is all there is.
LEMMA Hop ==
  ASSUME NEW R, NEW w, NEW N, Walks(R, w, N), NEW k \in 0..N,
         k + (LastOf(R[w[k].index]) - w[k].ip) + 1 <= N
  PROVE  /\ LastOf(R[w[k].index]) - w[k].ip \in Nat
         /\ w[k + (LastOf(R[w[k].index]) - w[k].ip) + 1] =
               First(R, IF Whole(R, w[k].index) THEN w[k].index ELSE After(R, w[k].index))
<1> DEFINE i == w[k].index
           a == w[k].ip
           d == LastOf(R[i]) - a
<1>0. N \in Nat /\ R \in Seq(IpNet) /\ \A j \in 1..N : w[j] = Inc(R, w[j - 1])
  BY DEF Walks
<1>11. \A j \in 0..N : w[j] \in Cursors(R)
  BY WalkStays
<1>1. w[k] \in Cursors(R) /\ N \in Nat
  BY <1>0, <1>11
<1>2. a \in Nat /\ LastOf(R[i]) \in Nat /\ d \in Nat
  <2>1. a \in Nat /\ LastOf(R[i]) \in Nat /\ a <= LastOf(R[i])
    BY <1>0, <1>1, CursorFacts
  <2> QED BY <2>1
<1> HIDE DEF i, a
<1>3. k + d <= N /\ a + d = LastOf(R[i]) /\ k + d \in 0..N /\ k + d + 1 \in 1..N
      /\ (k + d + 1) - 1 = k + d
  BY <1>1, <1>2 DEF i, a
<1>4. w[k + d] = [index |-> i, ip |-> LastOf(R[i])]
  BY <1>2, <1>3, Sweep DEF i, a
<1>5. w[k + d + 1] = Inc(R, w[k + d]) /\ w[k + d] \in Cursors(R)
  BY <1>0, <1>3, <1>11
<1>6. w[k + d + 1] = First(R, IF Whole(R, i) THEN i ELSE After(R, i))
  <2> DEFINE c == w[k + d]
  <2>1. c \in Cursors(R) /\ c.index = i /\ c.ip = LastOf(R[i])
    BY <1>4, <1>5
  <2> HIDE DEF c
  <2>2. Inc(R, c) = First(R, IF Whole(R, i) THEN i ELSE After(R, i))
    BY <1>0, <2>1, IncEffect
  <2> QED BY <1>5, <2>2 DEF c
<1> QED BY <1>2, <1>6 DEF i, a

\* The range j places after the i-th; ranges between which the walk is not caught; and
\* how far the walk has come.
Shift(R, i, j) == IF i + j > Len(R) THEN i + j - Len(R) ELSE i + j
Straight(R) == \A m \in DOMAIN R : Whole(R, m) => Len(R) = 1
Returns(w, N) == \E k \in 1..N : w[k].ip = w[0].ip
Offset(R, c) == c.ip - Network(R[c.index])
Reached(R, w, J, m) == \E k \in 1..(J - Offset(R, w[0])) : w[k] = First(R, m)

\* The first address of a range is one of its addresses.
LEMMA FirstIsCursor ==
  ASSUME NEW R \in Seq(IpNet), NEW i \in 1..Len(R)
  PROVE  First(R, i) \in Cursors(R)
<1>1. R[i] \in IpNet
  OBVIOUS
<1>2. Network(R[i]) \in Address
  BY <1>1, RangeInterval
<1>3. R[i].size > 0 /\ R[i].size \in Nat /\ Network(R[i]) \in Int
  BY <1>1, <1>2, SpaceAssumption DEF IpNet, SpaceAssumption, Address
<1>4. Contains(R[i], Network(R[i]))
  BY <1>1, <1>2, <1>3, RangeInterval
<1> QED BY <1>2, <1>4 DEF Cursors, First

\* The walk leaves the range it starts in.
LEMMA LapStart ==
  ASSUME NEW R, NEW w, NEW N, Walks(R, w, N), Space <= N
  PROVE  Reached(R, w, Space, After(R, w[0].index)) \/ (~Straight(R) /\ Returns(w, N))
<1> DEFINE i == w[0].index
           a == w[0].ip
           o == Offset(R, w[0])
           d == LastOf(R[i]) - a
           k == d + 1
<1>1. /\ N \in Nat /\ R \in Seq(IpNet) /\ Len(R) \in Nat /\ w[0] \in Cursors(R) /\ 0 \in 0..N
      /\ Space \in Nat /\ Space > 0
  BY SpaceAssumption DEF Walks, SpaceAssumption
<1>2. /\ i \in 1..Len(R) /\ a \in Nat /\ a < Space /\ o \in Nat /\ o <= a
      /\ Network(R[i]) \in Nat /\ R[i].size \in 1..Space /\ a <= LastOf(R[i])
      /\ LastOf(R[i]) = Network(R[i]) + R[i].size - 1 /\ o = a - Network(R[i])
      /\ i \in DOMAIN R
  BY <1>1, CursorFacts, SMTT(30) DEF Offset
<1> HIDE DEF i, a, o
<1>30. LastOf(R[i]) \in Nat /\ R[i].size \in Nat /\ 1 <= R[i].size /\ R[i].size <= Space
  BY <1>1, <1>2
<1>31. d \in Nat /\ d = R[i].size - 1 - o
  BY <1>2, <1>30
<1> HIDE DEF d
<1>32. k = R[i].size - o /\ k \in Nat /\ k > 0 /\ k = 0 + d + 1
  BY <1>2, <1>30, <1>31, SMTT(30)
<1> HIDE DEF k
<1>34. k <= Space - o
  BY <1>1, <1>2, <1>30, <1>32, SMTT(30)
<1>35. k <= N
  BY <1>1, <1>2, <1>30, <1>32, SMTT(30)
<1>36. Space - o \in Int
  BY <1>1, <1>2
<1>3. k \in 1..N /\ k \in 1..(Space - o) /\ k = 0 + d + 1
  BY <1>1, <1>32, <1>34, <1>35, <1>36
<1>4. w[k] = First(R, IF Whole(R, i) THEN i ELSE After(R, i))
  <2>1. 0 + (LastOf(R[w[0].index]) - w[0].ip) + 1 = k
    BY <1>3 DEF d, i, a
  <2> QED BY <1>1, <1>3, <2>1, Hop DEF i, a
<1>5. CASE ~Whole(R, i) \/ Len(R) = 1
  <2>1. Len(R) = 1 => After(R, i) = i
    BY <1>2 DEF After
  <2> QED BY <1>3, <1>4, <1>5, <2>1 DEF Reached, i, o
<1>6. CASE Whole(R, i) /\ Len(R) # 1
  <2>1. ~Straight(R)
    BY <1>2, <1>6 DEF Straight
  <2>2. w[k].index = i /\ w[k].ip = Network(R[i])
    BY <1>4, <1>6 DEF First
  <2>3. k + o \in 1..N /\ k + o <= N /\ k \in 0..N
    <3>1. k + o <= Space
      BY <1>1, <1>2, <1>32, <1>34
    <3>2. k + o <= N
      BY <1>1, <1>2, <1>32, <3>1
    <3>3. k + o >= 1 /\ k + o \in Int
      BY <1>2, <1>32
    <3> QED BY <1>1, <1>3, <3>2, <3>3
  <2>6. w[k].ip + o = a /\ w[k].ip + o <= LastOf(R[w[k].index])
    BY <1>2, <2>2
  <2>4. w[k + o] = [index |-> i, ip |-> a]
    <3>1. w[k + o] = [index |-> w[k].index, ip |-> w[k].ip + o]
      BY <1>2, <2>3, <2>6, Sweep, SMTT(30)
    <3> QED BY <2>2, <2>6, <3>1
  <2>5. Returns(w, N)
    BY <2>3, <2>4 DEF Returns, a
  <2> QED BY <2>1, <2>5
<1> QED BY <1>5, <1>6

\* It goes on from the first address of one range to that of the next.
LEMMA LapStep ==
  ASSUME NEW R, NEW w, NEW N, Walks(R, w, N), NEW J \in Nat, J + Space <= N,
         NEW m \in 1..Len(R), Len(R) # 1, Reached(R, w, J, m)
  PROVE  Reached(R, w, J + Space, After(R, m)) \/ (~Straight(R) /\ Returns(w, N))
<1> DEFINE a == w[0].ip
           o == Offset(R, w[0])
<1>1. /\ N \in Nat /\ R \in Seq(IpNet) /\ Len(R) \in Nat /\ w[0] \in Cursors(R) /\ 0 \in 0..N
      /\ Space \in Nat /\ Space > 0
  BY SpaceAssumption DEF Walks, SpaceAssumption
<1>2. a \in Nat /\ a < Space /\ o \in Nat /\ o <= a
  BY <1>1, CursorFacts DEF Offset
<1>3. PICK k \in 1..(J - o) : w[k] = First(R, m)
  BY DEF Reached
<1> HIDE DEF a, o
<1>4. /\ w[k].index = m /\ w[k].ip = Network(R[m]) /\ Network(R[m]) \in Nat /\ R[m].size \in 1..Space
      /\ LastOf(R[m]) = Network(R[m]) + R[m].size - 1 /\ LastOf(R[m]) < Space /\ m \in DOMAIN R
  <2> DEFINE f == First(R, m)
  <2>1. f \in Cursors(R)
    BY <1>1, FirstIsCursor
  <2>2. f.index = m /\ f.ip = Network(R[m]) /\ w[k] = f
    BY <1>3 DEF First
  <2> HIDE DEF f
  <2> QED BY <1>1, <2>1, <2>2, CursorFacts
<1>5. k \in 0..N /\ k \in Nat /\ k <= J - o /\ k > 0
  BY <1>1, <1>2
<1>6. CASE Whole(R, m)
  <2>1. ~Straight(R)
    BY <1>4, <1>6 DEF Straight
  <2>2. Network(R[m]) = 0 /\ LastOf(R[m]) = Space - 1
    BY <1>1, <1>4, <1>6 DEF Whole
  <2>3. k + a \in 1..N /\ k + a <= N /\ w[k].ip + a <= LastOf(R[m]) /\ w[k].ip + a = a
    BY <1>1, <1>2, <1>4, <1>5, <2>2
  <2>4. w[k + a] = [index |-> m, ip |-> a]
    BY <1>2, <1>4, <1>5, <2>3, Sweep, SMTT(30)
  <2>5. Returns(w, N)
    BY <2>3, <2>4 DEF Returns, a
  <2> QED BY <2>1, <2>5
<1>7. CASE ~Whole(R, m)
  <2> DEFINE q == k + R[m].size
  <2>1. q = k + (LastOf(R[w[k].index]) - w[k].ip) + 1 /\ q \in 1..((J + Space) - o) /\ q <= N
    BY <1>1, <1>2, <1>4, <1>5, SMTT(30)
  <2> HIDE DEF q
  <2>2. w[q] = First(R, After(R, m))
    <3>1. k \in 0..N /\ k + (LastOf(R[w[k].index]) - w[k].ip) + 1 <= N
      BY <1>5, <2>1, Zenon
    <3>2. w[k + (LastOf(R[w[k].index]) - w[k].ip) + 1] =
             First(R, IF Whole(R, w[k].index) THEN w[k].index ELSE After(R, w[k].index))
      BY <3>1, Hop, Zenon
    <3> QED BY <1>4, <1>7, <2>1, <3>2, Zenon
  <2>3. q \in 1..((J + Space) - Offset(R, w[0]))
    BY <2>1 DEF o
  <2>4. \E j \in 1..((J + Space) - Offset(R, w[0])) : w[j] = First(R, After(R, m))
    BY <2>2, <2>3, Zenon
  <2>5. Reached(R, w, J + Space, After(R, m))
    BY <2>4, Zenon DEF Reached
  <2> QED BY <2>5
<1> QED BY <1>6, <1>7

FullLap(R) == Len(R) * Space

\* The walk is long enough for a lap.
LEMMA LapBounds ==
  ASSUME NEW R \in Seq(IpNet), NEW j \in 1..Len(R)
  PROVE  /\ j * Space \in Nat /\ j * Space <= FullLap(R) /\ Space <= FullLap(R)
         /\ j < Len(R) => j * Space + Space <= FullLap(R)
<1>1. Space \in Nat /\ Len(R) \in Nat /\ j \in Nat /\ j <= Len(R) /\ 1 <= j
  BY SpaceAssumption DEF SpaceAssumption
<1>2. \A x \in Nat : x * Space \in Nat
  BY <1>1
<1>3. ASSUME NEW x \in Nat, x < Len(R) PROVE x * Space + Space <= FullLap(R)
  BY <1>1, <1>3, Scaled DEF FullLap
<1>4. FullLap(R) \in Nat
  BY <1>1, <1>2 DEF FullLap
<1>5. j * Space <= FullLap(R)
  <2>1. CASE j = Len(R)
    BY <1>1, <1>2, <2>1 DEF FullLap
  <2>2. CASE j < Len(R)
    <3>1. j * Space + Space <= FullLap(R) /\ j * Space \in Nat
      BY <1>1, <1>2, <1>3, <2>2
    <3> QED BY <1>1, <1>4, <3>1
  <2> QED BY <1>1, <2>1, <2>2
<1>6. Space <= FullLap(R)
  <2>1. 0 * Space + Space <= FullLap(R)
    BY <1>1, <1>3
  <2>2. 0 * Space + Space = Space
    BY <1>1
  <2> QED BY <2>1, <2>2
<1> QED BY <1>1, <1>2, <1>3, <1>5, <1>6

\* Lap by lap, the walk comes to the first address of each range, unless it is caught
\* in a range of all addresses; then it comes back to where it started all the same.
LEMMA Laps ==
  ASSUME NEW R, NEW w, NEW N, Walks(R, w, N), N = FullLap(R)
  PROVE  \A j \in 1..Len(R) :
            Reached(R, w, j * Space, Shift(R, w[0].index, j)) \/ (~Straight(R) /\ Returns(w, N))
<1> DEFINE i == w[0].index
           L == Len(R)
           Lap(j) == Reached(R, w, j * Space, Shift(R, i, j)) \/ (~Straight(R) /\ Returns(w, N))
           T == {j \in 1..L : ~Lap(j)}
<1>1. N \in Nat /\ R \in Seq(IpNet) /\ L \in Nat /\ w[0] \in Cursors(R) /\ Space \in Nat
  BY SpaceAssumption DEF Walks, SpaceAssumption
<1>2. i \in 1..L
  BY <1>1, CursorFacts
<1>3. \A j \in 1..L : j * Space \in Nat /\ j * Space <= N /\ Space <= N
  BY <1>1, LapBounds
<1> SUFFICES ASSUME T # {} PROVE FALSE
  OBVIOUS
<1> HIDE DEF i, L, Lap
<1>4. PICK n \in T : \A m \in T : n <= m
  <2>1. T \in SUBSET Nat
    BY <1>1
  <2> HIDE DEF T
  <2> QED BY <2>1, Least
<1>5. n \in 1..L /\ ~Lap(n) /\ \A m \in 1..L : m < n => Lap(m)
  BY <1>1, <1>4
<1> HIDE DEF T
<1>6. CASE n = 1
  <2>1. 1 * Space = Space /\ Space <= N
    BY <1>1, <1>3, <1>5, <1>6
  <2>2. Shift(R, i, 1) = After(R, i)
    BY <1>1, <1>2 DEF Shift, After, L
  <2>3. Reached(R, w, Space, After(R, i)) \/ (~Straight(R) /\ Returns(w, N))
    BY <2>1, LapStart DEF i
  <2>4. Lap(1)
    BY <2>1, <2>2, <2>3 DEF Lap
  <2> QED BY <1>5, <1>6, <2>4
<1>7. CASE n # 1
  <2> DEFINE p == n - 1
             J == p * Space
             m == Shift(R, i, p)
  <2>1. p \in 1..L /\ p < n /\ n = p + 1 /\ L # 1 /\ p \in Nat
    BY <1>1, <1>5, <1>7
  <2>2. J \in Nat /\ n * Space = J + Space /\ J + Space <= N
    BY <1>1, <1>3, <1>5, <2>1
  <2>3. m \in 1..L /\ After(R, m) = Shift(R, i, n)
    BY <1>1, <1>2, <1>5, <2>1 DEF Shift, After, L
  <2>4. Lap(p)
    BY <1>5, <2>1
  <2> HIDE DEF p, J, m
  <2>5. CASE Reached(R, w, J, m)
    <3>1. Reached(R, w, J + Space, After(R, m)) \/ (~Straight(R) /\ Returns(w, N))
      BY <2>1, <2>2, <2>3, <2>5, LapStep DEF L
    <3>2. Lap(n)
      BY <2>2, <2>3, <3>1 DEF Lap
    <3> QED BY <1>5, <3>2
  <2>6. CASE ~Straight(R) /\ Returns(w, N)
    BY <1>5, <2>6 DEF Lap
  <2> QED BY <2>4, <2>5, <2>6 DEF Lap, J, m
<1> QED BY <1>6, <1>7

\* The walk comes back to the address it starts from.
LEMMA WalkReturns ==
  ASSUME NEW R, NEW w, NEW N, Walks(R, w, N), N = FullLap(R)
  PROVE  Returns(w, N)
<1> DEFINE i == w[0].index
           a == w[0].ip
           o == Offset(R, w[0])
<1>1. /\ N \in Nat /\ R \in Seq(IpNet) /\ Len(R) \in Nat /\ w[0] \in Cursors(R)
  BY DEF Walks
<1>2. /\ i \in 1..Len(R) /\ a \in Nat /\ o \in Nat /\ Network(R[i]) \in Nat /\ o = a - Network(R[i])
      /\ a <= LastOf(R[i]) /\ LastOf(R[i]) \in Nat
  BY <1>1, CursorFacts DEF Offset
<1>3. Len(R) \in 1..Len(R) /\ Shift(R, i, Len(R)) = i
  BY <1>1, <1>2 DEF Shift
<1>4. Reached(R, w, N, i) \/ Returns(w, N)
  BY <1>3, Laps DEF FullLap
<1> HIDE DEF i, a, o
<1>5. CASE Reached(R, w, N, i)
  <2>1. PICK k \in 1..(N - o) : w[k] = First(R, i)
    BY <1>5 DEF Reached, o
  <2>2. w[k].index = i /\ w[k].ip = Network(R[i])
    BY <2>1 DEF First
  <2>3. k \in 0..N /\ k \in Nat
    BY <1>1, <1>2
  <2>4. k + o <= N /\ k + o \in Nat /\ k + o > 0
    <3>1. o \in Nat /\ N \in Nat /\ k \in Nat /\ k > 0 /\ k <= N - o
      BY <1>1, <1>2
    <3> QED BY <3>1
  <2>5. w[k].ip + o = a
    BY <1>2, <2>2
  <2>6. w[k + o] = [index |-> w[k].index, ip |-> w[k].ip + o]
    <3>1. w[k].ip + o <= LastOf(R[w[k].index])
      BY <1>2, <2>2, <2>5, Zenon
    <3> QED BY <1>2, <2>3, <2>4, <3>1, Sweep, SMTT(30)
  <2>7. k + o \in 1..N
    BY <1>1, <2>4
  <2> QED BY <2>5, <2>6, <2>7 DEF Returns, a
<1> QED BY <1>4, <1>5

\* Unless it is caught in a range of all addresses, it comes to every address of every range.
LEMMA WalkVisits ==
  ASSUME NEW R, NEW w, NEW N, Walks(R, w, N), N = FullLap(R), Straight(R), NEW c \in Cursors(R)
  PROVE  \E k \in 0..N : w[k] = c
<1> DEFINE i == w[0].index
           a == w[0].ip
           o == Offset(R, w[0])
           m == c.index
           b == c.ip
           e == b - Network(R[m])
<1>1. /\ N \in Nat /\ R \in Seq(IpNet) /\ Len(R) \in Nat /\ w[0] \in Cursors(R)
      /\ Space \in Nat /\ Space > 0
  BY SpaceAssumption DEF Walks, SpaceAssumption
<1>2. /\ i \in 1..Len(R) /\ a \in Nat /\ o \in Nat /\ Network(R[i]) \in Nat /\ o = a - Network(R[i])
      /\ a <= LastOf(R[i]) /\ LastOf(R[i]) \in Nat /\ LastOf(R[i]) < Space
      /\ w[0] = [index |-> i, ip |-> a]
  BY <1>1, CursorFacts, SMTT(30) DEF Offset
<1>3. /\ m \in 1..Len(R) /\ b \in Nat /\ Network(R[m]) \in Nat
      /\ e \in Nat /\ b <= LastOf(R[m]) /\ LastOf(R[m]) \in Nat /\ LastOf(R[m]) < Space
      /\ c = [index |-> m, ip |-> b]
  BY <1>1, CursorFacts
<1>30. e < Space /\ Network(R[m]) + e = b
  BY <1>1, <1>3
<1> HIDE DEF i, a, o, m, b, e
<1>4. ASSUME NEW k \in 1..N, w[k] = First(R, m), k + e <= N
      PROVE  \E j \in 0..N : w[j] = c
  <2>1. w[k].index = m /\ w[k].ip = Network(R[m])
    BY <1>4 DEF First
  <2>2. k \in 0..N /\ k + e \in 0..N
    BY <1>1, <1>3, <1>4
  <2>3. w[k].ip + e = b
    BY <1>30, <2>1
  <2>4. w[k + e] = [index |-> w[k].index, ip |-> w[k].ip + e]
    BY <1>3, <1>4, <2>1, <2>2, <2>3, Sweep
  <2> QED BY <1>3, <2>1, <2>2, <2>3, <2>4
<1>5. CASE m = i /\ a <= b
  <2> DEFINE d == b - a
  <2>1. d \in Nat /\ d < Space /\ a + d = b
    <3>1. a \in Nat /\ b \in Nat /\ a <= b /\ b < Space /\ Space \in Nat
      BY <1>1, <1>2, <1>3, <1>5
    <3> QED BY <3>1
  <2>2. Space <= N
    BY <1>1, <1>2, LapBounds
  <2> HIDE DEF d
  <2>3. 0 \in 0..N /\ 0 + d <= N /\ 0 + d = d /\ d \in 0..N
    BY <1>1, <2>1, <2>2
  <2>4. w[0].ip + d <= LastOf(R[w[0].index])
    BY <1>3, <1>5, <2>1 DEF a, i
  <2>5. w[0 + d] = [index |-> w[0].index, ip |-> w[0].ip + d]
    BY <2>1, <2>3, <2>4, Sweep
  <2>6. w[d] = [index |-> i, ip |-> a + d]
    BY <2>3, <2>5 DEF i, a
  <2> QED BY <1>3, <1>5, <2>1, <2>3, <2>6
<1>6. CASE m = i /\ b < a
  <2>1. Len(R) \in 1..Len(R) /\ Shift(R, i, Len(R)) = m
    BY <1>1, <1>2, <1>6 DEF Shift
  <2>2. Reached(R, w, N, m)
    BY <2>1, Laps DEF i, FullLap
  <2>3. PICK k \in 1..(N - o) : w[k] = First(R, m)
    BY <2>2 DEF Reached, o
  <2>4. e < o
    BY <1>2, <1>3, <1>30, <1>6
  <2>40. N \in Nat /\ o \in Nat /\ e \in Nat
    BY <1>1, <1>2, <1>3
  <2>41. k \in Nat /\ 1 <= k /\ k <= N - o
    BY <2>40
  <2>5. k \in 1..N
    BY <2>40, <2>41
  <2>6. k + e <= N
    BY <2>4, <2>40, <2>41
  <2> QED BY <1>4, <2>3, <2>5, <2>6
<1>7. CASE m # i
  <2> DEFINE j == IF m > i THEN m - i ELSE (m + Len(R)) - i
  <2>1. j \in 1..Len(R) /\ j < Len(R) /\ j \in Nat /\ Shift(R, i, j) = m
    <3>1. i \in Nat /\ m \in Nat /\ i >= 1 /\ m >= 1 /\ i <= Len(R) /\ m <= Len(R) /\ Len(R) \in Nat
      BY <1>1, <1>2, <1>3
    <3>2. CASE m > i
      BY <1>7, <3>1, <3>2 DEF Shift
    <3>3. CASE m < i
      <4>1. j = (m + Len(R)) - i
        BY <3>1, <3>3
      <4> HIDE DEF j
      <4>2. j \in Nat /\ j >= 1 /\ j < Len(R) /\ i + j = m + Len(R)
        BY <3>1, <3>3, <4>1
      <4> QED BY <3>1, <4>2 DEF Shift
    <3> QED BY <1>7, <3>1, <3>2, <3>3
  <2> HIDE DEF j
  <2>2. Reached(R, w, j * Space, m)
    BY <2>1, Laps DEF i
  <2> DEFINE J == j * Space
  <2>3. J \in Nat /\ J + Space <= N
    BY <1>1, <2>1, LapBounds
  <2>4. Reached(R, w, J, m)
    BY <2>2
  <2> HIDE DEF J
  <2>5. PICK k \in 1..(J - o) : w[k] = First(R, m)
    BY <2>4 DEF Reached, o
  <2>6. k \in 1..N
    BY <1>1, <1>2, <2>3
  <2>7. k + e <= N
    <3>0. o \in Nat /\ J \in Nat
      BY <1>2, <2>3
    <3>2. k \in Nat /\ k <= J
      BY <3>0
    <3>1. k \in Nat /\ k <= J /\ e \in Nat /\ e < Space /\ J \in Nat /\ Space \in Nat
      BY <1>1, <1>3, <1>30, <3>0, <3>2
    <3> QED BY <1>1, <2>3, <3>1
  <2> QED BY <1>4, <2>5, <2>6, <2>7
<1> QED BY <1>2, <1>3, <1>5, <1>6, <1>7, SMTT(30)

\* Walk is such a run.
LEMMA WalkWalks ==
  ASSUME NEW R \in Seq(IpNet), NEW c \in Cursors(R)
  PROVE  /\ Walks(R, Walk(R, c), FullLap(R))
         /\ DOMAIN Walk(R, c) = 0..FullLap(R) /\ Walk(R, c)[0] = c /\ FullLap(R) \in Nat
<1>1. FullLap(R) \in Nat
  <2>1. Len(R) \in Nat /\ Space \in Nat
    BY SpaceAssumption DEF SpaceAssumption
  <2> QED BY <2>1 DEF FullLap
<1> QED BY <1>1, WalkDef DEF Walks, FullLap

\* next_free_ip ends, whatever is allocated.
LEMMA AlwaysTerminates ==
  ASSUME NEW R \in Seq(IpNet), NEW c \in Cursors(R), NEW allocated
  PROVE  Terminates(R, c, allocated)
<1> DEFINE w == Walk(R, c)
           N == FullLap(R)
<1>1. Walks(R, w, N) /\ DOMAIN w = 0..N /\ N \in Nat
  BY WalkWalks
<1> HIDE DEF w, N
<1>2. Returns(w, N)
  BY <1>1, WalkReturns DEF N
<1>3. PICK k \in 1..N : w[k].ip = w[0].ip
  BY <1>2 DEF Returns
<1>4. Leaves(w, allocated, k) /\ k \in DOMAIN w
  BY <1>1, <1>3 DEF Leaves
<1> QED BY <1>4 DEF Terminates, w

\* Where the loop is left.
IsLast(w, allocated, k) == Leaves(w, allocated, k) /\ \A j \in 0..(k - 1) : ~Leaves(w, allocated, j)

\* next_free_ip is the walk up to that point.
LEMMA NextFreeIpIs ==
  ASSUME NEW R \in Seq(IpNet), NEW c \in Cursors(R), NEW allocated
  PROVE  \E k \in 0..FullLap(R) :
            /\ IsLast(Walk(R, c), allocated, k)
            /\ NextFreeIp(R, c, allocated) =
                 [cursor |-> Walk(R, c)[k],
                  ip |-> IF Walk(R, c)[k].ip \in allocated THEN NoIp ELSE Walk(R, c)[k].ip]
<1> DEFINE w == Walk(R, c)
           N == FullLap(R)
           T == {k \in DOMAIN w : Leaves(w, allocated, k)}
           last == CHOOSE k \in DOMAIN w : /\ Leaves(w, allocated, k)
                                           /\ \A j \in 0..(k - 1) : ~Leaves(w, allocated, j)
<1>1. DOMAIN w = 0..N /\ N \in Nat
  BY WalkWalks
<1>2. T # {} /\ T \in SUBSET Nat
  BY <1>1, AlwaysTerminates DEF Terminates
<1>3. PICK n \in T : \A m \in T : n <= m
  <2> HIDE DEF T
  <2> QED BY <1>2, Least
<1> HIDE DEF w, N
<1>4. \A j \in 0..(n - 1) : ~Leaves(w, allocated, j)
  BY <1>1, <1>3
<1>5. n \in DOMAIN w /\ Leaves(w, allocated, n)
  OBVIOUS
<1> HIDE DEF T
<1>6. last \in DOMAIN w /\ IsLast(w, allocated, last)
  BY <1>4, <1>5 DEF IsLast
<1>7. R # <<>>
  BY CursorFacts
<1>8. NextFreeIp(R, c, allocated) =
        [cursor |-> w[last], ip |-> IF w[last].ip \in allocated THEN NoIp ELSE w[last].ip]
  BY <1>7, Zenon DEF NextFreeIp, w
<1> HIDE DEF last
<1> QED BY <1>1, <1>6, <1>8 DEF w, N

\* The cursor stays on the ranges, and what is found is in them.
LEMMA NextFreeIpInRanges ==
  ASSUME NEW R \in Seq(IpNet), NEW c \in Cursors(R), NEW allocated
  PROVE  /\ NextFreeIp(R, c, allocated).cursor \in Cursors(R)
         /\ NextFreeIp(R, c, allocated).ip # NoIp =>
               /\ NextFreeIp(R, c, allocated).ip \in Pool(R) \ allocated
<1> DEFINE w == Walk(R, c)
           N == FullLap(R)
           r == NextFreeIp(R, c, allocated)
<1>1. Walks(R, w, N)
  BY WalkWalks
<1>2. PICK k \in 0..N :
        r = [cursor |-> w[k], ip |-> IF w[k].ip \in allocated THEN NoIp ELSE w[k].ip]
  BY NextFreeIpIs
<1> HIDE DEF w, N, r
<1>3. w[k] \in Cursors(R)
  BY <1>1, WalkStays
<1>4. w[k].ip \in Pool(R)
  BY <1>3 DEF Cursors, Pool, InRanges
<1>5. r.cursor \in Cursors(R) /\ (r.ip # NoIp => r.ip \in Pool(R) \ allocated)
  BY <1>2, <1>3, <1>4
<1> QED BY <1>5 DEF r

\* An address of ranges that do not overlap is in one of them only.
LEMMA OneRange ==
  ASSUME NEW R \in Seq(IpNet), Disjoint(R), NEW c \in Cursors(R), NEW e \in Cursors(R), c.ip = e.ip
  PROVE  c = e
<1>1. /\ c.index \in DOMAIN R /\ e.index \in DOMAIN R
      /\ R[c.index] \in IpNet /\ R[e.index] \in IpNet
      /\ c = [index |-> c.index, ip |-> c.ip] /\ e = [index |-> e.index, ip |-> e.ip]
  BY CursorFacts
<1> DEFINE p == R[c.index]
           q == R[e.index]
<1>2. /\ Network(p) \in Nat /\ Network(p) <= c.ip /\ c.ip < Network(p) + p.size /\ c.ip \in Nat
      /\ p.size \in Nat
  BY CursorFacts, SpaceAssumption DEF SpaceAssumption
<1>3. Network(q) \in Nat /\ Network(q) <= c.ip /\ c.ip < Network(q) + q.size /\ q.size \in Nat
  BY CursorFacts, SpaceAssumption DEF SpaceAssumption
<1>4. Network(p) \in Address /\ Network(q) \in Address
  BY <1>1, RangeInterval
<1>5. CASE Network(p) <= Network(q)
  <2>1. Contains(p, Network(q))
    <3>1. Network(q) < Network(p) + p.size
      BY <1>2, <1>3
    <3> QED BY <1>1, <1>4, <1>5, <3>1, RangeInterval
  <2> QED BY <1>1, <2>1 DEF Disjoint
<1>6. CASE Network(q) <= Network(p)
  <2>1. Contains(q, Network(p))
    <3>1. Network(p) < Network(q) + q.size
      BY <1>2, <1>3
    <3> QED BY <1>1, <1>4, <1>6, <3>1, RangeInterval
  <2> QED BY <1>1, <2>1 DEF Disjoint
<1> QED BY <1>2, <1>3, <1>5, <1>6

\* A range of all addresses overlaps every other.
LEMMA DisjointIsStraight ==
  ASSUME NEW R \in Seq(IpNet), Disjoint(R)
  PROVE  Straight(R)
<1> SUFFICES ASSUME NEW m \in DOMAIN R, Whole(R, m), Len(R) # 1 PROVE FALSE
  BY DEF Straight
<1>1. PICK j \in DOMAIN R : j # m
  <2>1. Len(R) \in Nat /\ m \in 1..Len(R) /\ DOMAIN R = 1..Len(R)
    OBVIOUS
  <2>2. m = 1 => 2 \in 1..Len(R)
    BY <2>1
  <2>3. m # 1 => 1 \in 1..Len(R)
    BY <2>1
  <2> QED BY <2>1, <2>2, <2>3
<1>2. R[m] \in IpNet /\ R[j] \in IpNet /\ Network(R[j]) \in Address
  BY RangeInterval
<1>3. Network(R[m]) + Space <= Space /\ Network(R[m]) \in Address
  BY <1>2, RangeInterval DEF Whole
<1>4. Network(R[m]) = 0
  BY <1>3, SpaceAssumption DEF Address, SpaceAssumption
<1>5. Contains(R[m], Network(R[j]))
  <2>1. Network(R[m]) <= Network(R[j]) /\ Network(R[j]) < Network(R[m]) + R[m].size
    BY <1>2, <1>4, SpaceAssumption DEF Address, SpaceAssumption, Whole
  <2> QED BY <1>2, <2>1, RangeInterval
<1> QED BY <1>1, <1>5 DEF Disjoint

\* None is returned only when every address of the ranges is allocated.
LEMMA NothingFree ==
  ASSUME NEW R \in Seq(IpNet), Disjoint(R), NEW c \in Cursors(R), NEW allocated,
         NextFreeIp(R, c, allocated).ip = NoIp
  PROVE  Pool(R) \subseteq allocated
<1> DEFINE w == Walk(R, c)
           N == FullLap(R)
<1>1. Walks(R, w, N) /\ N \in Nat
  BY WalkWalks
<1>2. PICK n \in 0..N : /\ IsLast(w, allocated, n)
                        /\ NextFreeIp(R, c, allocated) =
                             [cursor |-> w[n], ip |-> IF w[n].ip \in allocated THEN NoIp ELSE w[n].ip]
  BY NextFreeIpIs
<1> HIDE DEF w, N
<1>3. \A k \in 0..N : w[k] \in Cursors(R)
  BY <1>1, WalkStays
<1>4. w[n].ip \in allocated
  <2>1. w[n].ip # NoIp
    BY <1>3, SpaceAssumption DEF Cursors, Address, SpaceAssumption
  <2> QED BY <1>2, <2>1
<1>5. n > 0 /\ w[n].ip = w[0].ip /\ \A j \in 0..(n - 1) : w[j].ip \in allocated
  BY <1>2, <1>4 DEF IsLast, Leaves
<1>6. w[n] = w[0]
  BY <1>1, <1>3, <1>5, OneRange
<1> DEFINE Seen == {w[j] : j \in 0..(n - 1)}
           T == {k \in 0..N : w[k] \notin Seen}
<1>7. n \in Nat /\ n <= N
  BY <1>1
<1>8. T = {}
  <2> SUFFICES ASSUME T # {} PROVE FALSE
    OBVIOUS
  <2>1. PICK k \in T : \A m \in T : k <= m
    <3>1. T \in SUBSET Nat
      BY <1>1
    <3> HIDE DEF T
    <3> QED BY <3>1, Least
  <2>2. 0 \in 0..(n - 1) /\ k # 0
    BY <1>5, <1>7
  <2>3. k \in 1..N /\ k - 1 \in 0..N /\ k - 1 \notin T
    BY <1>1, <2>1, <2>2
  <2>4. PICK j \in 0..(n - 1) : w[k - 1] = w[j]
    BY <2>3
  <2>5. w[k] = Inc(R, w[k - 1])
    BY <1>1, <2>3 DEF Walks
  <2>6. j + 1 \in 1..N /\ (j + 1) - 1 = j /\ (j + 1 # n => j + 1 \in 0..(n - 1))
    BY <1>1, <1>7
  <2>7. w[j + 1] = Inc(R, w[j])
    BY <1>1, <2>6 DEF Walks
  <2>8. w[k] = w[j + 1]
    BY <2>4, <2>5, <2>7
  <2>9. w[k] \in Seen
    BY <1>6, <2>2, <2>6, <2>8
  <2> QED BY <2>9
<1>9. ASSUME NEW a \in Pool(R) PROVE a \in allocated
  <2>1. PICK i \in DOMAIN R : Contains(R[i], a)
    BY DEF Pool, InRanges
  <2> DEFINE e == [index |-> i, ip |-> a]
  <2>2. e \in Cursors(R)
    BY <2>1 DEF Cursors, Pool
  <2>3. Straight(R)
    BY DisjointIsStraight
  <2>4. PICK k \in 0..N : w[k] = e
    <3> HIDE DEF e
    <3> QED BY <1>1, <2>2, <2>3, WalkVisits DEF N
  <2>5. PICK j \in 0..(n - 1) : w[j] = e
    BY <1>8, <2>4
  <2> QED BY <1>5, <2>5
<1> QED BY <1>9

---------------------------------------------------------------------------
(* Cursors and plans *)

KnownSpecs(svcs) == \A s \in Svc : svcs[s] # NoSvc => svcs[s].spec \in ServiceSpec

\* Services have the specs users gave them, and a pass looks at Services it has seen.
Known ==
    /\ KnownSpecs(api)
    /\ \A n \in Node : KnownSpecs(cache[n]) /\ KnownSpecs(services[n])
    /\ \A n \in Node : \A s \in todo[n] : services[n][s] # NoSvc

\* A write that will be accepted is of a Service that exists.
Aimed ==
    \A n \in Node : Updating(n) =>
        target[n] \in Svc /\ (pc[n] = "put" /\ current[n] => Exists(target[n]))

\* The cursors are on the ranges.
OnRanges ==
    /\ cursor = [n \in Node |-> cursor[n]]
    /\ \A n \in Node, f \in Family : Enabled(f) => cursor[n][f] \in Cursors(Ranges[f])

\* What the snapshot says is allocated is tracked.
Tracked == \A n \in Node : Busy(n) => AllocatedIps(services[n]) \subseteq taken[n]

CInv == Shape /\ Known /\ Aimed /\ OnRanges /\ Tracked /\ PlansClear

\* The first cursor of ranges is on them.
LEMMA NewCursorOnRanges ==
    ASSUME NEW f \in Family, Enabled(f)
    PROVE  NewCursor(Ranges[f]) \in Cursors(Ranges[f])
<1>1. Ranges[f] \in Seq(IpNet) /\ Ranges[f] # <<>>
  BY LbAssumption DEF LbAssumption, Enabled
<1>2. 1 \in 1..Len(Ranges[f])
  BY <1>1
<1>3. NewCursor(Ranges[f]) = First(Ranges[f], 1)
  BY <1>1 DEF NewCursor, First
<1> QED
  BY <1>1, <1>2, <1>3, FirstIsCursor

\* A plan leaves the cursors on the ranges and finds its addresses there.
LEMMA PlanOnRanges ==
    ASSUME NEW svc, svc.spec \in ServiceSpec, NEW cur, NEW used,
           \A f \in Family : Enabled(f) => cur[f] \in Cursors(Ranges[f])
    PROVE  /\ \A f \in Family : Enabled(f) =>
                PlanAllocation(svc, cur, used).cursor[f] \in Cursors(Ranges[f])
           /\ \A i \in PlanAllocation(svc, cur, used).ips : InPool(i)
<1> DEFINE r == Lookup(svc, cur, used)
           plan == PlanAllocation(svc, cur, used)
           got == {f \in DOMAIN r : r[f].ip # NoIp}
           of(f) == {k.a : k \in {j \in used : j.fam = f}}
<1>1. DOMAIN r = Missing(svc)
      /\ \A f \in Missing(svc) : r[f] = NextFreeIp(Ranges[f], cur[f], of(f))
  BY DEF Lookup
<1>2. \A f \in Missing(svc) : f \in Family /\ Enabled(f) /\ Ranges[f] \in Seq(IpNet)
  BY LbAssumption DEF Missing, ServiceSpec, LbAssumption
<1>3. \A f \in Missing(svc) : /\ r[f].cursor \in Cursors(Ranges[f])
                              /\ r[f].ip # NoIp => InRanges(Ranges[f], r[f].ip)
  <2> SUFFICES ASSUME NEW f \in Missing(svc)
               PROVE  /\ r[f].cursor \in Cursors(Ranges[f])
                      /\ r[f].ip # NoIp => InRanges(Ranges[f], r[f].ip)
    OBVIOUS
  <2>1. Ranges[f] \in Seq(IpNet) /\ cur[f] \in Cursors(Ranges[f])
    BY <1>2
  <2>2. r[f] = NextFreeIp(Ranges[f], cur[f], of(f))
    BY <1>1
  <2> HIDE DEF r, of
  <2>3. r[f].cursor \in Cursors(Ranges[f]) /\ (r[f].ip # NoIp => r[f].ip \in Pool(Ranges[f]))
    BY <2>1, <2>2, NextFreeIpInRanges
  <2> QED
    BY <2>3 DEF Pool
<1>4. \/ plan = [ips |-> {}, cursor |-> cur]
      \/ /\ plan.ips \subseteq {[fam |-> f, a |-> r[f].ip] : f \in got}
         /\ plan.cursor = [f \in Family |-> IF f \in DOMAIN r THEN r[f].cursor ELSE cur[f]]
  BY DEF PlanAllocation
<1> HIDE DEF r, plan
<1>5. ASSUME NEW f \in Family, Enabled(f) PROVE plan.cursor[f] \in Cursors(Ranges[f])
  <2>1. plan.cursor[f] = cur[f] \/ (f \in Missing(svc) /\ plan.cursor[f] = r[f].cursor)
    BY <1>1, <1>4
  <2> QED
    BY <1>3, <1>5, <2>1, Zenon
<1>6. ASSUME NEW i \in plan.ips PROVE InPool(i)
  <2>1. PICK f \in got : i = [fam |-> f, a |-> r[f].ip]
    BY <1>4
  <2>2. f \in Missing(svc) /\ r[f].ip # NoIp /\ i.fam = f /\ i.a = r[f].ip
    BY <1>1, <2>1
  <2> QED
    BY <1>3, <2>2, Zenon DEF InPool
<1> QED
  BY <1>5, <1>6 DEF plan

LEMMA KnownStep == Shape /\ Known /\ Aimed /\ [Next]_vars => Known' /\ Aimed'
<1> SUFFICES ASSUME Shape, Known, Aimed, [Next]_vars PROVE Known' /\ Aimed'
  OBVIOUS
<1> USE DEF Shape, Known, KnownSpecs, Aimed, Updating, Exists
<1>1. ASSUME NEW s \in Svc, Delete(s) PROVE Known' /\ Aimed'
  BY <1>1 DEF Delete, Outdate
<1>2. ASSUME NEW s \in Svc, NEW spec \in Specs, Apply(s, spec) PROVE Known' /\ Aimed'
  <2>1. spec \in ServiceSpec
    BY LbAssumption DEF LbAssumption
  <2>2. /\ \A t \in Svc \ {s} : api'[t] = api[t]
        /\ api'[s].spec = spec
        /\ \A n \in Node : current'[n] = (current[n] /\ target[n] # s)
        /\ UNCHANGED <<cache, pc, services, todo, target>>
    BY <1>2 DEF Apply, Outdate
  <2>3. Known'
    BY <2>1, <2>2
  <2>4. Aimed'
    BY <2>2
  <2> QED
    BY <2>3, <2>4
<1>3. ASSUME NEW n \in Node, CacheSync(n) PROVE Known' /\ Aimed'
  BY <1>3 DEF CacheSync, passVars
<1>4. ASSUME NEW n \in Node, Elect(n) \/ StepDown(n) PROVE Known' /\ Aimed'
  BY <1>4 DEF Elect, StepDown, passVars
<1>5. ASSUME NEW n \in Node, Restart(n) PROVE Known' /\ Aimed'
  BY <1>5 DEF Restart, Drop
<1>6. ASSUME NEW n \in Node, PassStart(n) PROVE Known' /\ Aimed'
  BY <1>6 DEF PassStart
<1>7. ASSUME NEW n \in Node, NEW s \in Svc, Plan(n, s) PROVE Known' /\ Aimed'
  BY <1>7 DEF Plan
<1>8. ASSUME NEW n \in Node, GetStatus(n) PROVE Known' /\ Aimed'
  BY <1>8 DEF GetStatus
<1>9. ASSUME NEW n \in Node, AppendIps(n), pc[n] = "put", current[n]
      PROVE  /\ KnownSpecs(api')
             /\ \A s \in Svc \ {target[n]} : api'[s] = api[s]
             /\ \A m \in Node : current'[m] = (current[m] /\ target[m] # target[n])
  <2>1. target[n] \in Svc /\ api[target[n]] # NoSvc
    BY <1>9
  <2>2. /\ \A s \in Svc \ {target[n]} : api'[s] = api[s]
        /\ api'[target[n]].spec = api[target[n]].spec
    BY <1>9, <2>1 DEF AppendIps
  <2>3. KnownSpecs(api')
    BY <2>1, <2>2
  <2> QED
    BY <1>9, <2>2, <2>3 DEF AppendIps, Outdate
<1>10. ASSUME NEW n \in Node, ReplaceStatus(n) PROVE Known' /\ Aimed'
  BY <1>9, <1>10, ZenonT(40) DEF ReplaceStatus
<1>11. ASSUME NEW n \in Node, Refused(n) \/ Failed(n) \/ PassEnd(n) PROVE Known' /\ Aimed'
  <2>1. Return(n) /\ UNCHANGED api /\ \A m \in Node \ {n} : current'[m] = current[m]
    BY <1>11 DEF Refused, Failed, PassEnd
  <2>2. /\ pc'[n] = "idle" /\ todo'[n] = {} /\ services'[n] = [s \in Svc |-> NoSvc]
        /\ UNCHANGED <<api, cache>>
        /\ \A m \in Node \ {n} : /\ pc'[m] = pc[m] /\ target'[m] = target[m] /\ todo'[m] = todo[m]
                                 /\ services'[m] = services[m] /\ current'[m] = current[m]
    BY <2>1 DEF Return, Drop
  <2>3. Known'
    BY <2>2, SMTT(30)
  <2>4. ASSUME NEW m \in Node, Updating(m)'
        PROVE  target'[m] \in Svc /\ (pc'[m] = "put" /\ current'[m] => api'[target'[m]] # NoSvc)
    <3>1. m # n
      BY <2>2, <2>4
    <3>2. pc'[m] = pc[m] /\ target'[m] = target[m] /\ current'[m] = current[m] /\ api' = api
      BY <2>2, <3>1
    <3>3. target[m] \in Svc /\ (pc[m] = "put" /\ current[m] => api[target[m]] # NoSvc)
      BY <2>4, <3>2
    <3> QED
      BY <3>2, <3>3
  <2> QED
    BY <2>3, <2>4
<1>12. ASSUME NEW n \in Node, Unanswered(n) PROVE Known' /\ Aimed'
  BY <1>9, <1>12, ZenonT(40) DEF Unanswered, Return, Drop
<1>13. CASE UNCHANGED vars
  BY <1>13 DEF vars, passVars
<1> QED
  BY <1>1, <1>2, <1>3, <1>4, <1>5, <1>6, <1>7, <1>8, <1>10, <1>11, <1>12, <1>13
     DEF Next, User, Pass

LEMMA CursorStep == Shape /\ Known /\ OnRanges /\ [Next]_vars => OnRanges'
<1> SUFFICES ASSUME Shape, Known, OnRanges, [Next]_vars PROVE OnRanges'
  OBVIOUS
<1>1. ASSUME NEW n \in Node, Restart(n) PROVE OnRanges'
  <2>1. cursor' = [cursor EXCEPT ![n] = [f \in Family |-> NewCursor(Ranges[f])]]
    BY <1>1 DEF Restart
  <2> QED
    BY <2>1, NewCursorOnRanges DEF OnRanges
<1>2. ASSUME NEW n \in Node, NEW s \in Svc, Plan(n, s) PROVE OnRanges'
  <2> DEFINE plan == PlanAllocation(services[n][s], cursor[n], taken[n])
  <2>1. cursor' = [cursor EXCEPT ![n] = plan.cursor]
    BY <1>2 DEF Plan
  <2>2. services[n][s].spec \in ServiceSpec
    BY <1>2 DEF Plan, Known, KnownSpecs
  <2>3. \A f \in Family : Enabled(f) => plan.cursor[f] \in Cursors(Ranges[f])
    BY <2>2, PlanOnRanges DEF OnRanges
  <2> QED
    BY <2>1, <2>3 DEF OnRanges
<1>3. CASE UNCHANGED cursor
  BY <1>3 DEF OnRanges
<1>4. ASSUME NEW n \in Node,
             \/ CacheSync(n) \/ Elect(n) \/ StepDown(n) \/ PassStart(n) \/ GetStatus(n)
             \/ ReplaceStatus(n) \/ Refused(n) \/ Failed(n) \/ Unanswered(n) \/ PassEnd(n)
      PROVE  UNCHANGED cursor
  BY <1>4 DEF CacheSync, Elect, StepDown, PassStart, GetStatus, ReplaceStatus, Refused, Failed,
              Unanswered, PassEnd, Return
<1>5. ASSUME NEW s \in Svc, Delete(s) \/ \E spec \in Specs : Apply(s, spec)
      PROVE  UNCHANGED cursor
  BY <1>5 DEF Delete, Apply
<1>6. CASE UNCHANGED vars
  BY <1>3, <1>6 DEF vars
<1> QED
  BY <1>1, <1>2, <1>3, <1>4, <1>5, <1>6 DEF Next, User, Pass

\* The addresses of a plan are in the ranges, and nobody's whom the pass has seen.
LEMMA ClearStep == CInv /\ [Next]_vars => Tracked' /\ PlansClear'
<1> SUFFICES ASSUME CInv, [Next]_vars PROVE Tracked' /\ PlansClear'
  OBVIOUS
<1> USE DEF CInv, Shape
<1>1. CASE UNCHANGED <<pc, services, taken, ips>>
  BY <1>1 DEF Tracked, PlansClear, Busy
<1>2. ASSUME NEW n \in Node, pc' = [pc EXCEPT ![n] = "idle"], Drop(n)
      PROVE  Tracked' /\ PlansClear'
  BY <1>2 DEF Drop, Tracked, PlansClear, Busy
<1>3. ASSUME NEW n \in Node, PassStart(n) PROVE Tracked' /\ PlansClear'
  <2>1. /\ services'[n] = cache[n] /\ taken'[n] = AllocatedIps(cache[n]) /\ pc'[n] = "pass"
        /\ ips' = ips
        /\ \A m \in Node \ {n} : services'[m] = services[m] /\ taken'[m] = taken[m] /\ pc'[m] = pc[m]
    BY <1>3 DEF PassStart
  <2>2. Tracked'
    BY <2>1 DEF Tracked, Busy
  <2>3. PlansClear'
    BY <2>1 DEF PlansClear
  <2> QED
    BY <2>2, <2>3
<1>4. ASSUME NEW n \in Node, NEW s \in Svc, Plan(n, s) PROVE Tracked' /\ PlansClear'
  <2> DEFINE plan == PlanAllocation(services[n][s], cursor[n], taken[n])
  <2>1. /\ ips'[n] = plan.ips /\ taken'[n] = taken[n] \cup plan.ips /\ services' = services
        /\ pc[n] = "pass" /\ s \in todo[n]
        /\ \A m \in Node \ {n} : ips'[m] = ips[m] /\ taken'[m] = taken[m] /\ pc'[m] = pc[m]
    BY <1>4 DEF Plan
  <2>2. services[n][s].spec \in ServiceSpec
    BY <2>1 DEF Known, KnownSpecs
  <2>3. \A i \in plan.ips : InPool(i)
    BY <2>2, PlanOnRanges DEF OnRanges
  <2>4. \A i \in plan.ips : i \notin taken[n]
    BY PlanIsNew
  <2> HIDE DEF plan
  <2>5. AllocatedIps(services[n]) \subseteq taken[n]
    BY <2>1 DEF Tracked, Busy
  <2>6. ASSUME NEW i \in plan.ips, NEW t \in Svc, services[n][t] # NoSvc
        PROVE  i \notin services[n][t].spec.ext
    <3>1. i \in services[n][t].spec.ext => i \in AllocatedIps(services[n])
      BY <2>3, <2>6 DEF AllocatedIps, InPool
    <3> QED
      BY <2>4, <2>5, <3>1
  <2>7. Tracked'
    BY <2>1, <2>5 DEF Tracked, Busy
  <2>8. PlansClear'
    BY <2>1, <2>3, <2>6 DEF PlansClear
  <2> QED
    BY <2>7, <2>8
<1>5. ASSUME NEW n \in Node, GetStatus(n) \/ ReplaceStatus(n) PROVE Tracked' /\ PlansClear'
  <2>1. /\ pc[n] \in {"get", "put"} /\ UNCHANGED <<services, taken, ips>>
        /\ \A m \in Node \ {n} : pc'[m] = pc[m]
    BY <1>5 DEF GetStatus, ReplaceStatus
  <2> QED
    BY <2>1 DEF Tracked, PlansClear, Busy
<1>6. ASSUME NEW n \in Node,
             Restart(n) \/ Refused(n) \/ Failed(n) \/ Unanswered(n) \/ PassEnd(n)
      PROVE  Tracked' /\ PlansClear'
  BY <1>2, <1>6 DEF Restart, Refused, Failed, Unanswered, PassEnd, Return
<1>7. ASSUME NEW n \in Node, CacheSync(n) \/ Elect(n) \/ StepDown(n)
      PROVE  Tracked' /\ PlansClear'
  BY <1>1, <1>7 DEF CacheSync, Elect, StepDown, passVars
<1>8. ASSUME NEW s \in Svc, Delete(s) \/ \E spec \in Specs : Apply(s, spec)
      PROVE  Tracked' /\ PlansClear'
  BY <1>1, <1>8 DEF Delete, Apply
<1>9. CASE UNCHANGED vars
  BY <1>1, <1>9 DEF vars, passVars
<1> QED
  BY <1>3, <1>4, <1>5, <1>6, <1>7, <1>8, <1>9 DEF Next, User, Pass

LEMMA CInvAlways == Spec => []CInv
<1>1. Init => CInv
  <2> SUFFICES ASSUME Init PROVE CInv
    OBVIOUS
  <2>1. Shape /\ Known /\ Aimed /\ Tracked /\ PlansClear
    BY DEF Init, Turns!Init, Shape, Known, KnownSpecs, Aimed, Tracked, PlansClear, Busy, Updating
  <2>2. OnRanges
    BY NewCursorOnRanges DEF Init, OnRanges
  <2> QED
    BY <2>1, <2>2 DEF CInv
<1>2. CInv /\ [Next]_vars => CInv'
  BY ShapeStep, KnownStep, CursorStep, ClearStep DEF CInv
<1> QED
  BY <1>1, <1>2, PTL DEF Spec

---------------------------------------------------------------------------
\* Whatever the ranges, however stale the store and whatever fails, a pass plans only
\* addresses of the ranges that are not the external address of a Service it has seen.
THEOREM PlansAreClear == Spec => []PlansClear
<1>1. CInv => PlansClear
  BY DEF CInv
<1> QED
  BY <1>1, CInvAlways, PTL

\* The ranges of a family do not overlap.
NoOverlap == \A f \in Family : Disjoint(Ranges[f])

\* next_free_ip ends wherever its cursor has been left, and if the ranges do not
\* overlap it finds a free address whenever there is one.  Ranges that overlap can bring
\* the loop back to the address it started from before it has seen all of them.
THEOREM FreeIsFound ==
    ASSUME NoOverlap
    PROVE  Spec => []FindsFree
<1>1. CInv => FindsFree
  <2> SUFFICES ASSUME CInv, NEW n \in Node, NEW f \in Family, Enabled(f),
                      NEW used \in SUBSET Pool(Ranges[f])
               PROVE  LET ip == NextFreeIp(Ranges[f], cursor[n][f], used).ip
                      IN  /\ Terminates(Ranges[f], cursor[n][f], used)
                          /\ ip \in Pool(Ranges[f]) \ used \/ (ip = NoIp /\ used = Pool(Ranges[f]))
    BY DEF FindsFree
  <2> DEFINE R == Ranges[f]
             c == cursor[n][f]
             ip == NextFreeIp(R, c, used).ip
  <2>1. R \in Seq(IpNet) /\ c \in Cursors(R) /\ Disjoint(R)
    BY LbAssumption DEF LbAssumption, CInv, OnRanges, NoOverlap
  <2> HIDE DEF R, c
  <2>2. Terminates(R, c, used)
    BY <2>1, AlwaysTerminates
  <2>3. ip # NoIp => ip \in Pool(R) \ used
    BY <2>1, NextFreeIpInRanges
  <2>4. ip = NoIp => Pool(R) \subseteq used
    BY <2>1, NothingFree
  <2>5. ip \in Pool(R) \ used \/ (ip = NoIp /\ used = Pool(R))
    <3> HIDE DEF ip
    <3> QED
      BY <2>3, <2>4 DEF R
  <2> QED
    BY <2>2, <2>5 DEF R, c
<1> QED
  BY <1>1, CInvAlways, PTL
============================================================================
