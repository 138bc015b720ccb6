--------------------------- MODULE NetPol_proofs ---------------------------
(***************************************************************************)
(* Theorems about NetPol: the process, whatever the worlds and the flows.   *)
(*                                                                         *)
(* What a packet meets depends only on the chains it can reach and on the   *)
(* sets that they look up (PassesAlike).  A plan names no chain and no set  *)
(* that it does not provide (BuildFacts), so what earlier passes left       *)
(* cannot change its verdicts.  KernelInv says that the kernel includes     *)
(* what the commands of the running pass have made of the last complete     *)
(* one; AppliedIsEnforced and NothingOpens take from there to formulas      *)
(* about the worlds alone.                                                  *)
(*                                                                         *)
(* The other two theorems follow a packet rule by rule (PolicyRun, PodRun,  *)
(* TopRun, HopsRun): CleanedIsOpen over the empty chains that a cleanup     *)
(* leaves, UnprogrammedWait over the rules of default_deny, which refuse    *)
(* before anything in the tail accepts (Guards).                            *)
(***************************************************************************)
EXTENDS NetPol, FiniteSetTheorems, Lists_proofs

----------------------------------------------------------------------------
(* What a packet meets depends on the chains and the sets it can reach only *)

\* Every chain is a list of rules that jump to chains and look up sets that exist.
Closed(chains, sets) ==
    \A c \in DOMAIN chains :
        /\ IsList(chains[c])
        /\ \A r \in Range(chains[c]) :
              /\ r.target.k = "jump" => r.target.chain \in DOMAIN chains
              /\ \A j \in DOMAIN r.conds : r.conds[j].k = "set" => r.conds[j].set \in DOMAIN sets

\* g holds everything that f does.
Includes(g, f) == \A x \in DOMAIN f : x \in DOMAIN g /\ g[x] = f[x]

LEMMA CondsAlike ==
  ASSUME NEW chains, NEW sets, NEW sets2, Closed(chains, sets), Includes(sets2, sets),
         NEW c \in DOMAIN chains, NEW i \in 1..Len(chains[c]), NEW p, NEW s
  PROVE  (\A j \in DOMAIN chains[c][i].conds : CondHolds(chains[c][i].conds[j], p, s, sets2))
           <=> (\A j \in DOMAIN chains[c][i].conds : CondHolds(chains[c][i].conds[j], p, s, sets))
<1> DEFINE r == chains[c][i]
<1>1. r \in Range(chains[c])
  BY ListFacts DEF Closed
<1>2. \A j \in DOMAIN r.conds : r.conds[j].k = "set" => r.conds[j].set \in DOMAIN sets
  BY <1>1 DEF Closed
<1> HIDE DEF r
<1>3. ASSUME NEW j \in DOMAIN r.conds
      PROVE  CondHolds(r.conds[j], p, s, sets2) = CondHolds(r.conds[j], p, s, sets)
  <2> DEFINE cond == r.conds[j]
  <2>1. cond.k = "set" => sets2[cond.set] = sets[cond.set]
    BY <1>2 DEF Includes
  <2> HIDE DEF cond
  <2>2. CASE cond.k = "set"
    <3>1. sets2[cond.set] = sets[cond.set]
      BY <2>1, <2>2
    <3>2. CondHolds(cond, p, s, sets2) = (InSet(sets2[cond.set], p[cond.side]) = cond.in)
      BY <2>2 DEF CondHolds
    <3>3. CondHolds(cond, p, s, sets) = (InSet(sets[cond.set], p[cond.side]) = cond.in)
      BY <2>2 DEF CondHolds
    <3> QED BY <3>1, <3>2, <3>3 DEF cond
  <2>3. CASE cond.k # "set"
    <3>1. CondHolds(cond, p, s, sets2) = CondHolds(cond, p, s, sets)
      BY <2>3 DEF CondHolds
    <3> QED BY <3>1 DEF cond
  <2> QED BY <2>2, <2>3
<1>4. (\A j \in DOMAIN r.conds : CondHolds(r.conds[j], p, s, sets2))
        <=> (\A j \in DOMAIN r.conds : CondHolds(r.conds[j], p, s, sets))
  BY <1>3, Zenon
<1> QED BY <1>4 DEF r

\* Level by level: a policy chain, a pod chain, a top-level chain.  The runs are the
\* same function, because their steps agree for every function.
LEMMA PolicyWalkAlike ==
  ASSUME NEW chains, NEW sets, NEW chains2, NEW sets2, Closed(chains, sets),
         Includes(chains2, chains), Includes(sets2, sets), NEW c \in DOMAIN chains, NEW p, NEW s0
  PROVE  Walk(chains2[c], p, sets2, Target, s0) = Walk(chains[c], p, sets, Target, s0)
<1> DEFINE rules == chains[c]
           n == Len(rules)
           B(f, i, S) == IF i = 0 THEN s0
                         ELSE LET s == f[i - 1]
                              IN  IF /\ s.verdict = "go"
                                     /\ \A j \in DOMAIN rules[i].conds : CondHolds(rules[i].conds[j], p, s, S)
                                  THEN Target(rules[i].target, s) ELSE s
           run(S) == CHOOSE f : f = [i \in 0..n |-> B(f, i, S)]
           Done(end) == IF end.verdict = "RETURN" THEN [end EXCEPT !.verdict = "go"] ELSE end
<1>1. chains2[c] = rules
  BY DEF Includes
<1>2. Walk(rules, p, sets2, Target, s0) = Done(run(sets2)[n])
  BY DEF Walk
<1>3. Walk(rules, p, sets, Target, s0) = Done(run(sets)[n])
  BY DEF Walk
<1>4. ASSUME NEW f, NEW i \in 0..n PROVE B(f, i, sets2) = B(f, i, sets)
  <2>1. CASE i = 0
    BY <2>1
  <2>2. CASE i # 0
    <3>0. Len(chains[c]) \in Nat
      BY ListFacts DEF Closed
    <3>1. i \in 1..Len(chains[c])
      BY <2>2, <3>0
    <3>2. \A s : (\A j \in DOMAIN rules[i].conds : CondHolds(rules[i].conds[j], p, s, sets2))
                   <=> (\A j \in DOMAIN rules[i].conds : CondHolds(rules[i].conds[j], p, s, sets))
      BY <3>1, CondsAlike
    <3> HIDE DEF rules
    <3> QED BY <2>2, <3>2, Zenon
  <2> QED BY <2>1, <2>2
<1> HIDE DEF B, rules, n
<1>5. run(sets2) = run(sets)
  BY <1>4, Zenon
<1> HIDE DEF run, Done
<1> QED BY <1>1, <1>2, <1>3, <1>5 DEF rules


LEMMA PodStepAlike ==
  ASSUME NEW chains, NEW sets, NEW chains2, NEW sets2, Closed(chains, sets),
         Includes(chains2, chains), Includes(sets2, sets), NEW to, to.k = "jump", to.chain \in DOMAIN chains, NEW p, NEW s0
  PROVE  PodStep(chains2, sets2, p, to, s0) = PodStep(chains, sets, p, to, s0)
<1> DEFINE c == to.chain
           rules == chains[c]
           n == Len(rules)
           B(f, i, C, S) ==
               IF i = 0 THEN s0
               ELSE LET s == f[i - 1]
                    IN  IF /\ s.verdict = "go"
                           /\ \A j \in DOMAIN rules[i].conds : CondHolds(rules[i].conds[j], p, s, S)
                        THEN PolicyStep(C, S, p, rules[i].target, s) ELSE s
           run(C, S) == CHOOSE f : f = [i \in 0..n |-> B(f, i, C, S)]
           Done(end) == IF end.verdict = "RETURN" THEN [end EXCEPT !.verdict = "go"] ELSE end
<1>1. chains2[c] = rules
  BY DEF Includes
<1>2. PodStep(chains2, sets2, p, to, s0) = Done(run(chains2, sets2)[n])
  <2> HIDE DEF rules
  <2> QED BY <1>1 DEF PodStep, Walk
<1>3. PodStep(chains, sets, p, to, s0) = Done(run(chains, sets)[n])
  BY DEF PodStep, Walk
<1>4. ASSUME NEW f, NEW i \in 0..n PROVE B(f, i, chains2, sets2) = B(f, i, chains, sets)
  <2>1. CASE i = 0
    BY <2>1
  <2>2. CASE i # 0
    <3>0. Len(chains[c]) \in Nat
      BY ListFacts DEF Closed
    <3>1. i \in 1..Len(chains[c])
      BY <2>2, <3>0
    <3>2. \A s : (\A j \in DOMAIN rules[i].conds : CondHolds(rules[i].conds[j], p, s, sets2))
                   <=> (\A j \in DOMAIN rules[i].conds : CondHolds(rules[i].conds[j], p, s, sets))
      BY <3>1, CondsAlike
    <3>3. \A s : PolicyStep(chains2, sets2, p, rules[i].target, s) = PolicyStep(chains, sets, p, rules[i].target, s)
      <4> SUFFICES ASSUME NEW s
                   PROVE  PolicyStep(chains2, sets2, p, rules[i].target, s) = PolicyStep(chains, sets, p, rules[i].target, s)
        OBVIOUS
      <4> DEFINE t == rules[i].target
      <4>1. rules[i] \in Range(rules)
        BY <3>1, ListFacts DEF Closed
      <4>2. t.k = "jump" => t.chain \in DOMAIN chains
        BY <4>1 DEF Closed
      <4> HIDE DEF t, rules
      <4>3. CASE t.k = "jump"
        BY <4>2, <4>3, PolicyWalkAlike DEF PolicyStep, t
      <4>4. CASE t.k # "jump"
        BY <4>4 DEF PolicyStep, t
      <4> QED BY <4>3, <4>4
    <3> HIDE DEF rules
    <3> QED BY <2>2, <3>2, <3>3, Zenon
  <2> QED BY <2>1, <2>2
<1> HIDE DEF B, rules, n
<1>5. run(chains2, sets2) = run(chains, sets)
  BY <1>4, Zenon
<1> HIDE DEF run, Done
<1> QED BY <1>2, <1>3, <1>5


LEMMA TraverseAlike ==
  ASSUME NEW chains, NEW sets, NEW chains2, NEW sets2, Closed(chains, sets),
         Includes(chains2, chains), Includes(sets2, sets), NEW c \in DOMAIN chains, NEW p, NEW s0
  PROVE  Traverse(chains2, sets2, c, p, s0)
            = Traverse(chains, sets, c, p, s0)
<1> DEFINE rules == chains[c]
           n == Len(rules)
           B(f, i, C, S) ==
               IF i = 0 THEN s0
               ELSE LET s == f[i - 1]
                    IN  IF /\ s.verdict = "go"
                           /\ \A j \in DOMAIN rules[i].conds : CondHolds(rules[i].conds[j], p, s, S)
                        THEN PodStep(C, S, p, rules[i].target, s) ELSE s
           run(C, S) == CHOOSE f : f = [i \in 0..n |-> B(f, i, C, S)]
           Done(end) == IF end.verdict = "RETURN" THEN [end EXCEPT !.verdict = "go"] ELSE end
<1>1. chains2[c] = rules
  BY DEF Includes
<1>2. Traverse(chains2, sets2, c, p, s0) = Done(run(chains2, sets2)[n])
  <2> HIDE DEF rules
  <2> QED BY <1>1 DEF Traverse, Walk
<1>3. Traverse(chains, sets, c, p, s0) = Done(run(chains, sets)[n])
  BY DEF Traverse, Walk
<1>4. ASSUME NEW f, NEW i \in 0..n PROVE B(f, i, chains2, sets2) = B(f, i, chains, sets)
  <2>1. CASE i = 0
    BY <2>1
  <2>2. CASE i # 0
    <3>0. Len(chains[c]) \in Nat
      BY ListFacts DEF Closed
    <3>1. i \in 1..Len(chains[c])
      BY <2>2, <3>0
    <3>2. \A s : (\A j \in DOMAIN rules[i].conds : CondHolds(rules[i].conds[j], p, s, sets2))
                   <=> (\A j \in DOMAIN rules[i].conds : CondHolds(rules[i].conds[j], p, s, sets))
      BY <3>1, CondsAlike
    <3>3. \A s : PodStep(chains2, sets2, p, rules[i].target, s) = PodStep(chains, sets, p, rules[i].target, s)
      <4> SUFFICES ASSUME NEW s
                   PROVE  PodStep(chains2, sets2, p, rules[i].target, s) = PodStep(chains, sets, p, rules[i].target, s)
        OBVIOUS
      <4> DEFINE t == rules[i].target
      <4>1. rules[i] \in Range(rules)
        BY <3>1, ListFacts DEF Closed
      <4>2. t.k = "jump" => t.chain \in DOMAIN chains
        BY <4>1 DEF Closed
      <4> HIDE DEF t, rules
      <4>3. CASE t.k = "jump"
        BY <4>2, <4>3, PodStepAlike DEF t
      <4>4. CASE t.k # "jump"
        BY <4>4 DEF PodStep, t
      <4> QED BY <4>3, <4>4
    <3> HIDE DEF rules
    <3> QED BY <2>2, <3>2, <3>3, Zenon
  <2> QED BY <2>1, <2>2
<1> HIDE DEF B, rules, n
<1>5. run(chains2, sets2) = run(chains, sets)
  BY <1>4, Zenon
<1> HIDE DEF run, Done
<1> QED BY <1>2, <1>3, <1>5

LEMMA PassesAlike ==
  ASSUME NEW chains, NEW sets, NEW chains2, NEW sets2, Closed(chains, sets),
         Includes(chains2, chains), Includes(sets2, sets), NEW jumps \in SUBSET DOMAIN chains, NEW flow
  PROVE  Passes(chains2, sets2, jumps, flow) <=> Passes(chains, sets, jumps, flow)
<1> DEFINE n == Len(flow.hops)
           B(f, i, C, S) ==
               IF i = 0 THEN [verdict |-> "go", matched |-> FALSE, accepted |-> FALSE]
               ELSE LET s == f[i - 1]
                        hook == flow.hops[i].hook
                    IN  IF s.verdict \in {"REJECT", "DROP"} \/ hook \notin jumps THEN s
                        ELSE Traverse(C, S, hook,
                                      [flow.packet EXCEPT !.dst = flow.hops[i].dst, !.dport = flow.hops[i].dport],
                                      [s EXCEPT !.verdict = "go"])
           at(C, S) == CHOOSE f : f = [i \in 0..n |-> B(f, i, C, S)]
<1>1. Passes(chains2, sets2, jumps, flow) = (at(chains2, sets2)[n].verdict \notin {"REJECT", "DROP"})
  BY DEF Passes
<1>2. Passes(chains, sets, jumps, flow) = (at(chains, sets)[n].verdict \notin {"REJECT", "DROP"})
  BY DEF Passes
<1>3. ASSUME NEW f, NEW i \in 0..n PROVE B(f, i, chains2, sets2) = B(f, i, chains, sets)
  <2>1. \A p, s0 : flow.hops[i].hook \in jumps =>
            Traverse(chains2, sets2, flow.hops[i].hook, p, s0) = Traverse(chains, sets, flow.hops[i].hook, p, s0)
    BY TraverseAlike
  <2> QED BY <2>1, Zenon
<1> HIDE DEF B, n
<1>4. at(chains2, sets2) = at(chains, sets)
  BY <1>3, Zenon
<1> HIDE DEF at
<1> QED BY <1>1, <1>2, <1>4

----------------------------------------------------------------------------
(* The plans *)

IsPlan(p) == IsList(p.sets) /\ IsList(p.rules)
Names(p) == {s.name : s \in Range(p.sets)}
\* The sets that some conditions look up.
Lookups(conds) == {c.set : c \in {x \in Range(conds) : x.k = "set"}}

LEMMA Mapped ==
  ASSUME NEW s, IsList(s), NEW t, DOMAIN t = DOMAIN s, t = [i \in DOMAIN s |-> t[i]]
  PROVE  IsList(t) /\ Len(t) = Len(s) /\ DOMAIN t = 1..Len(s)
<1>1. DOMAIN s = 1..Len(s) /\ Len(s) \in Nat
  BY ListFacts
<1>2. t = [i \in 1..Len(s) |-> t[i]]
  BY <1>1
<1> QED BY <1>1, <1>2, FunctionIsList

LEMMA JoinedFacts ==
  ASSUME NEW plans, IsList(plans), \A i \in DOMAIN plans : IsPlan(plans[i])
  PROVE  /\ IsPlan(Joined(plans))
         /\ Range(Joined(plans).sets) = UNION {Range(plans[i].sets) : i \in DOMAIN plans}
         /\ Range(Joined(plans).rules) = UNION {Range(plans[i].rules) : i \in DOMAIN plans}
         /\ Joined(plans).chains = UNION {plans[i].chains : i \in DOMAIN plans}
         /\ Names(Joined(plans)) = UNION {Names(plans[i]) : i \in DOMAIN plans}
         /\ Joined(plans).rules = FlattenSeq([i \in DOMAIN plans |-> plans[i].rules])
<1> DEFINE sets == [i \in DOMAIN plans |-> plans[i].sets]
           rules == [i \in DOMAIN plans |-> plans[i].rules]
<1>1. /\ Joined(plans).sets = FlattenSeq(sets)
      /\ Joined(plans).rules = FlattenSeq(rules)
      /\ Joined(plans).chains = UNION {p.chains : p \in Range(plans)}
  BY DEF Joined, Plan, MapSeq
<1>2. /\ DOMAIN sets = DOMAIN plans /\ sets = [i \in DOMAIN plans |-> sets[i]]
      /\ \A i \in DOMAIN plans : sets[i] = plans[i].sets
  OBVIOUS
<1>3. /\ DOMAIN rules = DOMAIN plans /\ rules = [i \in DOMAIN plans |-> rules[i]]
      /\ \A i \in DOMAIN plans : rules[i] = plans[i].rules
  OBVIOUS
<1> HIDE DEF sets, rules
<1>4. IsList(sets) /\ IsList(rules)
  BY <1>2, <1>3, Mapped
<1>5. IsList(FlattenSeq(sets)) /\ Range(FlattenSeq(sets)) = UNION {Range(sets[i]) : i \in DOMAIN sets}
  BY <1>2, <1>4, FlatRange DEF IsPlan
<1>6. IsList(FlattenSeq(rules)) /\ Range(FlattenSeq(rules)) = UNION {Range(rules[i]) : i \in DOMAIN rules}
  BY <1>3, <1>4, FlatRange DEF IsPlan
<1>7. UNION {Range(sets[i]) : i \in DOMAIN sets} = UNION {Range(plans[i].sets) : i \in DOMAIN plans}
  BY <1>2
<1>8. UNION {Range(rules[i]) : i \in DOMAIN rules} = UNION {Range(plans[i].rules) : i \in DOMAIN plans}
  BY <1>3
<1>9. UNION {p.chains : p \in Range(plans)} = UNION {plans[i].chains : i \in DOMAIN plans}
  BY DEF Range
<1>10. Range(Joined(plans).sets) = UNION {Range(plans[i].sets) : i \in DOMAIN plans}
  BY <1>1, <1>5, <1>7
<1>11. Names(Joined(plans)) = UNION {Names(plans[i]) : i \in DOMAIN plans}
  <2>1. \A x : x \in Names(Joined(plans)) <=> \E i \in DOMAIN plans : \E s \in Range(plans[i].sets) : x = s.name
    BY <1>10 DEF Names
  <2>2. \A x : x \in UNION {Names(plans[i]) : i \in DOMAIN plans}
                  <=> \E i \in DOMAIN plans : \E s \in Range(plans[i].sets) : x = s.name
    BY DEF Names
  <2> QED BY <2>1, <2>2
<1> QED BY <1>1, <1>5, <1>6, <1>8, <1>9, <1>10, <1>11 DEF IsPlan, rules

LEMMA LookupsConcat ==
  ASSUME NEW a, NEW b, IsList(a), IsList(b)
  PROVE  IsList(a \o b) /\ Lookups(a \o b) = Lookups(a) \cup Lookups(b)
<1>1. IsList(a \o b) /\ Range(a \o b) = Range(a) \cup Range(b)
  BY Concat
<1> QED BY <1>1 DEF Lookups

LEMMA LookupsOne ==
  ASSUME NEW c
  PROVE  /\ IsList(<<c>>)
         /\ c.k = "set" => Lookups(<<c>>) = {c.set}
         /\ c.k # "set" => Lookups(<<c>>) = {}
<1>1. IsList(<<c>>) /\ Range(<<c>>) = {c}
  BY Single
<1> QED BY <1>1 DEF Lookups

LEMMA LookupsOf ==
  /\ IsList(<<>>) /\ Lookups(<<>>) = {}
  /\ \A n, side : IsList(MatchSet(n, side)) /\ Lookups(MatchSet(n, side)) = {n}
  /\ \A n, side : IsList(NotInSet(n, side)) /\ Lookups(NotInSet(n, side)) = {n}
  /\ \A side, ips : IsList(Is(side, ips)) /\ Lookups(Is(side, ips)) = {}
  /\ \A p : IsList(Proto(p)) /\ Lookups(Proto(p)) = {}
  /\ \A ps : IsList(Dports(ps)) /\ Lookups(Dports(ps)) = {}
  /\ \A v : IsList(Marked(v)) /\ Lookups(Marked(v)) = {}
<1>1. IsList(<<>>) /\ Lookups(<<>>) = {}
  BY Empty DEF Lookups
<1>2. ASSUME NEW n, NEW side PROVE IsList(MatchSet(n, side)) /\ Lookups(MatchSet(n, side)) = {n}
  BY LookupsOne DEF MatchSet
<1>3. ASSUME NEW n, NEW side PROVE IsList(NotInSet(n, side)) /\ Lookups(NotInSet(n, side)) = {n}
  BY LookupsOne DEF NotInSet
<1>4. ASSUME NEW side, NEW ips PROVE IsList(Is(side, ips)) /\ Lookups(Is(side, ips)) = {}
  BY LookupsOne DEF Is
<1>5. ASSUME NEW p PROVE IsList(Proto(p)) /\ Lookups(Proto(p)) = {}
  BY LookupsOne DEF Proto
<1>6. ASSUME NEW ps PROVE IsList(Dports(ps)) /\ Lookups(Dports(ps)) = {}
  BY LookupsOne DEF Dports
<1>7. ASSUME NEW v PROVE IsList(Marked(v)) /\ Lookups(Marked(v)) = {}
  BY LookupsOne DEF Marked
<1> QED BY <1>1, <1>2, <1>3, <1>4, <1>5, <1>6, <1>7

\* What the plan of a policy is made of: rules of its chain that mark a packet or return,
\* and sets with the names of policies.
PolicyPart(p, N) ==
    /\ IsPlan(p)
    /\ \A c \in p.chains : c[1] = "NWPLCY"
    /\ \A s \in Range(p.sets) : s.name[1] \in {"SRC", "DST"}
    /\ \A r \in Range(p.rules) :
          /\ r.chain[1] = "NWPLCY" /\ r.target.k \in {"MATCHED", "RETURN"}
          /\ IsList(r.conds) /\ Lookups(r.conds) \subseteq N

LEMMA JoinedParts ==
  ASSUME NEW plans, IsList(plans), NEW M,
         \A i \in DOMAIN plans : PolicyPart(plans[i], M \cup Names(plans[i]))
  PROVE  PolicyPart(Joined(plans), M \cup Names(Joined(plans)))
<1>1. \A i \in DOMAIN plans : IsPlan(plans[i])
  BY DEF PolicyPart
<1> DEFINE J == Joined(plans)
<1>2. /\ IsPlan(J)
      /\ Range(J.sets) = UNION {Range(plans[i].sets) : i \in DOMAIN plans}
      /\ Range(J.rules) = UNION {Range(plans[i].rules) : i \in DOMAIN plans}
      /\ J.chains = UNION {plans[i].chains : i \in DOMAIN plans}
      /\ Names(J) = UNION {Names(plans[i]) : i \in DOMAIN plans}
  BY <1>1, JoinedFacts
<1> HIDE DEF J
<1>3. \A c \in J.chains : c[1] = "NWPLCY"
  BY <1>2 DEF PolicyPart
<1>4. \A s \in Range(J.sets) : s.name[1] \in {"SRC", "DST"}
  BY <1>2 DEF PolicyPart
<1>5. ASSUME NEW r \in Range(J.rules)
      PROVE  /\ r.chain[1] = "NWPLCY" /\ r.target.k \in {"MATCHED", "RETURN"}
             /\ IsList(r.conds) /\ Lookups(r.conds) \subseteq M \cup Names(J)
  <2>1. PICK i \in DOMAIN plans : r \in Range(plans[i].rules)
    BY <1>2, <1>5
  <2>2. Names(plans[i]) \subseteq Names(J)
    BY <1>2
  <2> QED BY <2>1, <2>2 DEF PolicyPart
<1> QED BY <1>2, <1>3, <1>4, <1>5 DEF PolicyPart, J

LEMMA SetsPart ==
  ASSUME NEW sets, IsList(sets), \A s \in Range(sets) : s.name[1] \in {"SRC", "DST"},
         NEW chains, \A c \in chains : c[1] = "NWPLCY", NEW N
  PROVE  /\ PolicyPart(Plan(sets, chains, <<>>), N)
         /\ Names(Plan(sets, chains, <<>>)) = {s.name : s \in Range(sets)}
BY Empty DEF PolicyPart, IsPlan, Plan, Names

LEMMA PushFacts ==
  ASSUME NEW pol, NEW conds, IsList(conds)
  PROVE  LET rules == PushPolicyVerdict(NetworkPolicyChain(pol), conds)
         IN  /\ IsList(rules)
             /\ \A r \in Range(rules) :
                   /\ r.chain[1] = "NWPLCY" /\ r.target.k \in {"MATCHED", "RETURN"}
                   /\ IsList(r.conds) /\ Lookups(r.conds) = Lookups(conds)
<1> DEFINE c == NetworkPolicyChain(pol)
           r1 == R(c, conds, Do("MATCHED"))
           r2 == R(c, conds \o Marked(TRUE), Do("RETURN"))
           rules == PushPolicyVerdict(c, conds)
<1>1. rules = <<r1, r2>>
  BY DEF PushPolicyVerdict
<1>2. c[1] = "NWPLCY"
  BY DEF NetworkPolicyChain
<1>3. IsList(conds \o Marked(TRUE)) /\ Lookups(conds \o Marked(TRUE)) = Lookups(conds)
  <2>1. IsList(Marked(TRUE)) /\ Lookups(Marked(TRUE)) = {}
    BY LookupsOf
  <2>2. IsList(conds \o Marked(TRUE)) /\ Lookups(conds \o Marked(TRUE)) = Lookups(conds) \cup Lookups(Marked(TRUE))
    BY <2>1, LookupsConcat
  <2> QED BY <2>1, <2>2
<1> DEFINE cm == conds \o Marked(TRUE)
<1> HIDE DEF c, cm
<1>4. r1.chain = c /\ r1.target.k = "MATCHED" /\ r1.conds = conds
  BY DEF R, Do
<1>5. r2.chain = c /\ r2.target.k = "RETURN" /\ r2.conds = cm
  BY DEF R, Do, cm
<1> HIDE DEF r1, r2
<1>6. IsList(<<r1, r2>>) /\ Range(<<r1, r2>>) = {r1, r2}
  <2>1. DOMAIN <<r1, r2>> = {1, 2} /\ <<r1, r2>>[1] = r1 /\ <<r1, r2>>[2] = r2
    OBVIOUS
  <2>2. Range(<<r1, r2>>) = {r1, r2}
    BY <2>1 DEF Range
  <2> QED BY <2>2 DEF IsList
<1>7. \A r \in Range(rules) : /\ r.chain[1] = "NWPLCY" /\ r.target.k \in {"MATCHED", "RETURN"}
                              /\ IsList(r.conds) /\ Lookups(r.conds) = Lookups(conds)
  BY <1>1, <1>2, <1>3, <1>4, <1>5, <1>6 DEF cm
<1> QED BY <1>1, <1>6, <1>7 DEF c

LEMMA VerdictPart ==
  ASSUME NEW pol, NEW conds, IsList(conds), NEW N, Lookups(conds) \subseteq N
  PROVE  PolicyPart(Verdict(pol, conds), N)
<1> DEFINE rules == PushPolicyVerdict(NetworkPolicyChain(pol), conds)
<1>1. /\ IsList(rules)
      /\ \A r \in Range(rules) : /\ r.chain[1] = "NWPLCY" /\ r.target.k \in {"MATCHED", "RETURN"}
                                 /\ IsList(r.conds) /\ Lookups(r.conds) = Lookups(conds)
  BY PushFacts
<1>2. Verdict(pol, conds).sets = <<>> /\ Verdict(pol, conds).chains = {} /\ Verdict(pol, conds).rules = rules
  BY DEF Verdict, Plan
<1> HIDE DEF rules
<1> QED BY <1>1, <1>2, Empty DEF PolicyPart, IsPlan

LEMMA FiniteRange == ASSUME NEW s, IsList(s) PROVE IsFiniteSet(Range(s))
<1>1. Len(s) \in Nat /\ DOMAIN s = 1..Len(s) /\ s = [i \in 1..Len(s) |-> s[i]]
  BY ListFacts
<1>2. IsFiniteSet(1..Len(s))
  BY <1>1, FS_Interval
<1>3. s \in Surjection(1..Len(s), Range(s))
  BY <1>1 DEF Surjection, Range
<1> QED BY <1>2, <1>3, FS_Surjection

\* Receivers are pods of the world.
PortsAreLists(pods) == IsList(pods) /\ \A p \in Range(pods) : IsList(p.ports)

LEMMA GroupsAreList ==
  ASSUME NEW receivers, PortsAreLists(receivers), NEW port, NEW f
  PROVE  IsList(PortGroups(port, receivers, f))
<1> DEFINE exposes(p, n) == \E i \in DOMAIN p.ports : /\ p.ports[i].name = port.ref.v
                                                      /\ p.ports[i].proto = port.proto
                                                      /\ p.ports[i].port = n
           all == UNION {{q.port : q \in Range(p.ports)} : p \in Range(receivers)}
           numbers == {n \in all : \E p \in Range(receivers) : exposes(p, n)}
           groups == PortGroups(port, receivers, f)
           flat == [i \in DOMAIN receivers |-> [j \in DOMAIN receivers[i].ports |-> receivers[i].ports[j].port]]
<1>1. \A i \in DOMAIN receivers : receivers[i] \in Range(receivers) /\ IsList(receivers[i].ports)
  BY ListFacts DEF PortsAreLists
<1>2. DOMAIN flat = DOMAIN receivers /\ flat = [i \in DOMAIN receivers |-> flat[i]]
  OBVIOUS
<1>3. \A i \in DOMAIN receivers : /\ IsList(flat[i])
                                  /\ Range(flat[i]) = {q.port : q \in Range(receivers[i].ports)}
  <2> SUFFICES ASSUME NEW i \in DOMAIN receivers
               PROVE  IsList(flat[i]) /\ Range(flat[i]) = {q.port : q \in Range(receivers[i].ports)}
    OBVIOUS
  <2> DEFINE ports == receivers[i].ports
             t == [j \in DOMAIN ports |-> ports[j].port]
  <2>1. flat[i] = t
    OBVIOUS
  <2>2. IsList(ports)
    BY <1>1
  <2>3. Range(t) = {q.port : q \in Range(ports)}
    BY DEF Range
  <2>4. DOMAIN t = DOMAIN ports /\ t = [j \in DOMAIN ports |-> t[j]]
    OBVIOUS
  <2> HIDE DEF t, ports
  <2>5. IsList(t)
    BY <2>2, <2>4, Mapped
  <2> HIDE DEF flat
  <2> QED BY <2>1, <2>3, <2>5 DEF ports
<1> HIDE DEF flat
<1>4. IsList(flat)
  BY <1>2, Mapped DEF PortsAreLists
<1>5. IsList(FlattenSeq(flat)) /\ Range(FlattenSeq(flat)) = UNION {Range(flat[i]) : i \in DOMAIN flat}
  BY <1>2, <1>3, <1>4, FlatRange
<1>6. all \subseteq Range(FlattenSeq(flat))
  <2> SUFFICES ASSUME NEW p \in Range(receivers), NEW n \in {q.port : q \in Range(p.ports)}
               PROVE  n \in Range(FlattenSeq(flat))
    OBVIOUS
  <2>1. PICK i \in DOMAIN receivers : p = receivers[i]
    BY DEF Range
  <2>2. n \in Range(flat[i])
    BY <2>1, <1>3
  <2> QED BY <2>2, <1>2, <1>5
<1>7. IsFiniteSet(Range(FlattenSeq(flat)))
  BY <1>5, FiniteRange
<1>8. numbers \in SUBSET Range(FlattenSeq(flat))
  BY <1>6
<1> HIDE DEF numbers
<1>9. Cardinality(numbers) \in Nat
  <2>1. IsFiniteSet(numbers)
    BY <1>7, <1>8, FS_Subset
  <2> QED BY <2>1, FS_CardinalityType
<1>10. groups = [k \in 1..Cardinality(numbers) |-> groups[k]]
  BY DEF PortGroups, numbers
<1> HIDE DEF groups
<1>11. IsList(groups)
  BY <1>9, <1>10, FunctionIsList
<1> QED BY <1>11 DEF groups

LEMMA NamedPortPart ==
  ASSUME NEW pol, NEW dir, NEW i, NEW port, NEW receivers, PortsAreLists(receivers), NEW pm, NEW target, NEW f,
         IsList(pm), IsList(target)
  PROVE  LET P == NamedPortPlan(pol, dir, i, port, receivers, pm, target, f)
         IN  PolicyPart(P, Lookups(pm) \cup Lookups(target) \cup Names(P))
<1> DEFINE P == NamedPortPlan(pol, dir, i, port, receivers, pm, target, f)
           groups == PortGroups(port, receivers, f)
           setOf(ep) == IndexedNamedPortSet(pol, dir, i, ep, f)
           other == IF dir = "Ingress" THEN pm ELSE target
           M == Lookups(pm) \cup Lookups(target)
           conds(ep) == other \o MatchSet(setOf(ep), "dst") \o Proto(port.proto) \o Dports({groups[ep].port})
           sets == [ep \in DOMAIN groups |-> IpSet(setOf(ep), "ip", groups[ep].ips)]
           rules == [ep \in DOMAIN groups |-> PushPolicyVerdict(NetworkPolicyChain(pol), conds(ep))]
<1>1. P.sets = FlattenSeq(sets) /\ P.chains = {} /\ P.rules = FlattenSeq(rules)
  BY DEF NamedPortPlan, Plan
<1>2. IsList(groups)
  BY GroupsAreList
<1>3. /\ DOMAIN sets = DOMAIN groups /\ sets = [ep \in DOMAIN groups |-> sets[ep]]
      /\ DOMAIN rules = DOMAIN groups /\ rules = [ep \in DOMAIN groups |-> rules[ep]]
      /\ \A ep \in DOMAIN groups : rules[ep] = PushPolicyVerdict(NetworkPolicyChain(pol), conds(ep))
  OBVIOUS
<1>4. ASSUME NEW ep \in DOMAIN groups
      PROVE  /\ IsList(sets[ep]) /\ Range(sets[ep]) = {[name |-> setOf(ep), type |-> "ip", entries |-> groups[ep].ips]}
             /\ setOf(ep)[1] = "DST"
  BY Single DEF IpSet, IndexedNamedPortSet
<1>5. ASSUME NEW ep \in DOMAIN groups
      PROVE  IsList(conds(ep)) /\ Lookups(conds(ep)) \subseteq M \cup {setOf(ep)}
  <2> DEFINE a == MatchSet(setOf(ep), "dst")
             b == Proto(port.proto)
             c == Dports({groups[ep].port})
  <2>1. IsList(a) /\ Lookups(a) = {setOf(ep)} /\ IsList(b) /\ Lookups(b) = {} /\ IsList(c) /\ Lookups(c) = {}
    BY LookupsOf
  <2>2. IsList(other) /\ Lookups(other) \subseteq M
    OBVIOUS
  <2> HIDE DEF a, b, c, other, M
  <2>3. IsList(other \o a) /\ Lookups(other \o a) = Lookups(other) \cup Lookups(a)
    BY <2>1, <2>2, LookupsConcat
  <2> DEFINE d == other \o a
  <2> HIDE DEF d
  <2>4. IsList(d \o b) /\ Lookups(d \o b) = Lookups(d) \cup Lookups(b)
    BY <2>1, <2>3, LookupsConcat DEF d
  <2> DEFINE e == d \o b
  <2> HIDE DEF e
  <2>5. IsList(e \o c) /\ Lookups(e \o c) = Lookups(e) \cup Lookups(c)
    BY <2>1, <2>4, LookupsConcat DEF e
  <2>6. conds(ep) = e \o c
    BY DEF e, d, a, b, c
  <2>7. Lookups(e \o c) \subseteq M \cup {setOf(ep)}
    BY <2>1, <2>2, <2>3, <2>4, <2>5 DEF d, e
  <2> HIDE DEF conds, setOf
  <2> QED BY <2>5, <2>6, <2>7
<1> HIDE DEF conds, groups, M
<1>6. ASSUME NEW ep \in DOMAIN groups
      PROVE  /\ IsList(rules[ep])
             /\ \A r \in Range(rules[ep]) :
                   /\ r.chain[1] = "NWPLCY" /\ r.target.k \in {"MATCHED", "RETURN"}
                   /\ IsList(r.conds) /\ Lookups(r.conds) \subseteq M \cup {setOf(ep)}
  <2> HIDE DEF rules, setOf
  <2> QED BY <1>3, <1>5, PushFacts
<1> HIDE DEF sets, rules, P, setOf
<1>7. IsList(sets) /\ IsList(rules)
  BY <1>2, <1>3, Mapped
<1>8. IsList(P.sets) /\ Range(P.sets) = UNION {Range(sets[ep]) : ep \in DOMAIN groups}
  BY <1>1, <1>3, <1>4, <1>7, FlatRange
<1>9. IsList(P.rules) /\ Range(P.rules) = UNION {Range(rules[ep]) : ep \in DOMAIN groups}
  BY <1>1, <1>3, <1>6, <1>7, FlatRange
<1>10. \A ep \in DOMAIN groups : setOf(ep) \in Names(P)
  <2> SUFFICES ASSUME NEW ep \in DOMAIN groups PROVE setOf(ep) \in Names(P)
    OBVIOUS
  <2> DEFINE x == [name |-> setOf(ep), type |-> "ip", entries |-> groups[ep].ips]
  <2>1. x \in Range(P.sets)
    BY <1>4, <1>8
  <2>2. x.name = setOf(ep)
    OBVIOUS
  <2> HIDE DEF x
  <2> QED BY <2>1, <2>2 DEF Names
<1>11. \A x \in Range(P.sets) : x.name[1] \in {"SRC", "DST"}
  BY <1>4, <1>8
<1>12. \A r \in Range(P.rules) : /\ r.chain[1] = "NWPLCY" /\ r.target.k \in {"MATCHED", "RETURN"}
                                 /\ IsList(r.conds) /\ Lookups(r.conds) \subseteq M \cup Names(P)
  BY <1>6, <1>9, <1>10
<1>13. PolicyPart(P, M \cup Names(P))
  BY <1>1, <1>8, <1>9, <1>11, <1>12 DEF PolicyPart, IsPlan
<1> QED BY <1>13 DEF P, M


LEMMA LookupsJoin ==
  ASSUME NEW a, NEW b, IsList(a), IsList(b), NEW N, Lookups(a) \subseteq N, Lookups(b) \subseteq N
  PROVE  IsList(a \o b) /\ Lookups(a \o b) \subseteq N
BY LookupsConcat

LEMMA OnPortPart ==
  ASSUME NEW pol, NEW dir, NEW i, NEW port, NEW receivers, PortsAreLists(receivers), NEW pm, NEW target, NEW f,
         IsList(pm), IsList(target), NEW M, Lookups(pm) \subseteq M, Lookups(target) \subseteq M
  PROVE  LET P == OnPort(pol, dir, i, port, receivers, pm, target, f)
         IN  PolicyPart(P, M \cup Names(P))
<1> DEFINE P == OnPort(pol, dir, i, port, receivers, pm, target, f)
           a == pm \o target
           b == a \o Proto(port.proto)
           c == b \o Dports({port.ref.v})
<1>1. IsList(a) /\ Lookups(a) \subseteq M
  BY LookupsJoin
<1>2. IsList(Proto(port.proto)) /\ Lookups(Proto(port.proto)) \subseteq M
  BY LookupsOf
<1>3. IsList(Dports({port.ref.v})) /\ Lookups(Dports({port.ref.v})) \subseteq M
  BY LookupsOf
<1> HIDE DEF a
<1>4. IsList(b) /\ Lookups(b) \subseteq M
  BY <1>1, <1>2, LookupsJoin
<1> HIDE DEF b
<1>5. IsList(c) /\ Lookups(c) \subseteq M
  BY <1>3, <1>4, LookupsJoin
<1> HIDE DEF c
<1>6. CASE port.ref.kind = "all"
  <2>1. P = Verdict(pol, b)
    BY <1>6 DEF OnPort, a, b
  <2> HIDE DEF P
  <2>2. PolicyPart(P, M \cup Names(P))
    BY <2>1, <1>4, VerdictPart
  <2> QED BY <2>2 DEF P
<1>7. CASE port.ref.kind = "number"
  <2>1. P = Verdict(pol, c)
    BY <1>7 DEF OnPort, a, b, c
  <2> HIDE DEF P
  <2>2. PolicyPart(P, M \cup Names(P))
    BY <2>1, <1>5, VerdictPart
  <2> QED BY <2>2 DEF P
<1>8. CASE port.ref.kind # "all" /\ port.ref.kind # "number"
  <2>1. P = NamedPortPlan(pol, dir, i, port, receivers, pm, target, f)
    BY <1>8 DEF OnPort
  <2> HIDE DEF P
  <2>2. PolicyPart(P, Lookups(pm) \cup Lookups(target) \cup Names(P))
    BY <2>1, NamedPortPart
  <2>3. PolicyPart(P, M \cup Names(P))
    BY <2>2 DEF PolicyPart
  <2> QED BY <2>3 DEF P
<1> QED BY <1>6, <1>7, <1>8

LEMMA OnPeerPart ==
  ASSUME NEW pol, NEW dir, NEW i, NEW ports, IsList(ports), NEW receivers, PortsAreLists(receivers),
         NEW pm, NEW target, NEW f,
         IsList(pm), IsList(target), NEW M, Lookups(pm) \subseteq M, Lookups(target) \subseteq M
  PROVE  LET P == OnPeer(pol, dir, i, ports, receivers, pm, target, f)
         IN  PolicyPart(P, M \cup Names(P))
<1> DEFINE P == OnPeer(pol, dir, i, ports, receivers, pm, target, f)
           plans == [k \in DOMAIN ports |-> OnPort(pol, dir, i, ports[k], receivers, pm, target, f)]
<1>1. CASE ports = <<>>
  <2>1. P = Verdict(pol, pm \o target)
    BY <1>1 DEF OnPeer
  <2>2. IsList(pm \o target) /\ Lookups(pm \o target) \subseteq M
    BY LookupsJoin
  <2> DEFINE a == pm \o target
  <2> HIDE DEF P, a
  <2>3. PolicyPart(P, M \cup Names(P))
    BY <2>1, <2>2, VerdictPart DEF a
  <2> QED BY <2>3 DEF P
<1>2. CASE ports # <<>>
  <2>1. P = Joined(plans)
    BY <1>2 DEF OnPeer, MapSeq
  <2>2. DOMAIN plans = DOMAIN ports /\ plans = [k \in DOMAIN ports |-> plans[k]]
    OBVIOUS
  <2>3. \A k \in DOMAIN plans : PolicyPart(plans[k], M \cup Names(plans[k]))
    <3> SUFFICES ASSUME NEW k \in DOMAIN plans PROVE PolicyPart(plans[k], M \cup Names(plans[k]))
      OBVIOUS
    <3>1. plans[k] = OnPort(pol, dir, i, ports[k], receivers, pm, target, f)
      OBVIOUS
    <3> HIDE DEF plans
    <3> QED BY <3>1, OnPortPart
  <2> HIDE DEF plans, P
  <2>4. IsList(plans)
    BY <2>2, Mapped
  <2>5. PolicyPart(P, M \cup Names(P))
    BY <2>1, <2>3, <2>4, JoinedParts
  <2> QED BY <2>5 DEF P
<1> QED BY <1>1, <1>2


\* Policies as projected: lists all the way down.
IsPolicy(pol) ==
    \A dir \in {"Ingress", "Egress"} :
        IsList(pol.rules[dir]) /\ \A i \in DOMAIN pol.rules[dir] : IsList(pol.rules[dir][i].ports)
IsView(w) ==
    /\ IsList(w.policies) /\ \A pol \in Range(w.policies) : IsPolicy(pol)
    /\ PortsAreLists(w.pods) /\ \A p \in Range(w.pods) : IsList(p.ips)

LEMMA ReceiversArePods ==
  ASSUME NEW w, PortsAreLists(w.pods), NEW pol, NEW dir, NEW resolved, NEW f
  PROVE  PortsAreLists(Receivers(pol, dir, resolved, w, f))
<1> DEFINE s == w.pods
           parts == [i \in DOMAIN s |->
                       IF CASE dir = "Ingress" -> PolicySelects(pol, s[i])
                            [] dir = "Egress" /\ resolved.matchAll -> s[i].ns = pol.ns
                            [] OTHER -> \E ip \in Range(PodFamilyIps(s[i], f)) : ip \in resolved.ips
                       THEN <<s[i]>> ELSE <<>>]
           kept == FlattenSeq(parts)
<1>1. Receivers(pol, dir, resolved, w, f) = kept
  BY DEF Receivers, Filter
<1>2. IsList(s) /\ \A i \in DOMAIN s : s[i] \in Range(s)
  BY ListFacts DEF PortsAreLists
<1>3. parts \in [DOMAIN s -> {<<>>} \cup {<<x>> : x \in Range(s)}]
  BY <1>2, Zenon
<1> HIDE DEF parts
<1>4. kept \in Seq(Range(s))
  BY <1>2, <1>3, Filtered DEF IsList
<1> HIDE DEF kept
<1>5. IsList(kept) /\ Range(kept) \subseteq Range(s)
  BY <1>4, ListOf DEF IsList
<1> QED BY <1>1, <1>5 DEF PortsAreLists

LEMMA PeerFacts ==
  ASSUME NEW pol, NEW dir, NEW i, NEW resolved, NEW f
  PROVE  LET matches == PeerMatches(pol, dir, i, resolved, f)
             sets == PeerSets(pol, dir, i, resolved, f)
         IN  /\ IsList(matches) /\ IsList(sets)
             /\ \A s \in Range(sets) : s.name[1] \in {"SRC", "DST"}
             /\ \A k \in DOMAIN matches :
                    IsList(matches[k]) /\ Lookups(matches[k]) \subseteq {s.name : s \in Range(sets)}
<1> DEFINE matches == PeerMatches(pol, dir, i, resolved, f)
           sets == PeerSets(pol, dir, i, resolved, f)
           n1 == IndexedPodSet(pol, dir, i, f)
           n2 == IndexedBlockSet(pol, dir, i, f)
           m1 == MatchSet(n1, PeerSide(dir))
           m2 == MatchSet(n2, PeerSide(dir))
           s1 == [name |-> n1, type |-> "ip", entries |-> resolved.ips]
           s2 == [name |-> n2, type |-> "net", entries |-> resolved.nets]
           ma == IF resolved.ips = {} THEN <<>> ELSE <<m1>>
           mb == IF resolved.nets = <<>> THEN <<>> ELSE <<m2>>
           sa == IF resolved.ips = {} THEN <<>> ELSE <<s1>>
           sb == IF resolved.nets = <<>> THEN <<>> ELSE <<s2>>
<1>1. matches = IF resolved.matchAll THEN <<<<>>>> ELSE ma \o mb
  BY DEF PeerMatches
<1>2. sets = IF resolved.matchAll THEN <<>> ELSE sa \o sb
  BY DEF PeerSets, IpSet
<1>3. n1[1] \in {"SRC", "DST"} /\ n2[1] \in {"SRC", "DST"}
  BY DEF IndexedPodSet, IndexedBlockSet, SetPrefix
<1>4. s1.name = n1 /\ s2.name = n2
  OBVIOUS
<1>5. IsList(m1) /\ Lookups(m1) = {n1} /\ IsList(m2) /\ Lookups(m2) = {n2}
  BY LookupsOf
<1> HIDE DEF s1, s2, n1, n2, m1, m2
<1>6. /\ IsList(ma) /\ Range(ma) \subseteq {m1} /\ IsList(mb) /\ Range(mb) \subseteq {m2}
      /\ IsList(sa) /\ Range(sa) \subseteq {s1} /\ IsList(sb) /\ Range(sb) \subseteq {s2}
      /\ (m1 \in Range(ma) => s1 \in Range(sa) \/ ma = <<>>) /\ (m2 \in Range(mb) => s2 \in Range(sb) \/ mb = <<>>)
  BY Single, Empty
<1>7. (ma # <<>> => s1 \in Range(sa)) /\ (mb # <<>> => s2 \in Range(sb))
  BY Single
<1>8. (ma = <<>> => Range(ma) = {}) /\ (mb = <<>> => Range(mb) = {})
  BY Empty
<1> HIDE DEF ma, mb, sa, sb, matches, sets
<1>9. IsList(ma \o mb) /\ Range(ma \o mb) = Range(ma) \cup Range(mb) /\ IsList(sa \o sb) /\ Range(sa \o sb) = Range(sa) \cup Range(sb)
  BY <1>6, Concat
<1>10. IsList(<<<<>>>>) /\ Range(<<<<>>>>) = {<<>>} /\ IsList(<<>>) /\ Range(<<>>) = {}
  BY Single, Empty
<1>11. IsList(matches) /\ IsList(sets)
  BY <1>1, <1>2, <1>9, <1>10
<1>12. \A s \in Range(sets) : s.name[1] \in {"SRC", "DST"}
  BY <1>2, <1>3, <1>4, <1>6, <1>9, <1>10
<1>13. \A m \in Range(matches) : IsList(m) /\ Lookups(m) \subseteq {s.name : s \in Range(sets)}
  <2>1. CASE resolved.matchAll
    BY <2>1, <1>1, <1>10, LookupsOf
  <2>2. CASE ~resolved.matchAll
    <3> SUFFICES ASSUME NEW m \in Range(matches)
                 PROVE  IsList(m) /\ Lookups(m) \subseteq {s.name : s \in Range(sets)}
      OBVIOUS
    <3>1. m \in Range(ma) \/ m \in Range(mb)
      BY <2>2, <1>1, <1>9
    <3>2. Range(sets) = Range(sa) \cup Range(sb)
      BY <2>2, <1>2, <1>9
    <3>3. CASE m \in Range(ma)
      BY <3>2, <3>3, <1>4, <1>5, <1>6, <1>7, <1>8
    <3>4. CASE m \in Range(mb)
      BY <3>2, <3>4, <1>4, <1>5, <1>6, <1>7, <1>8
    <3> QED BY <3>1, <3>3, <3>4
  <2> QED BY <2>1, <2>2
<1>14. \A k \in DOMAIN matches : matches[k] \in Range(matches)
  BY <1>11, ListFacts
<1> QED BY <1>11, <1>12, <1>13, <1>14 DEF matches, sets

LEMMA Pair ==
  ASSUME NEW x, NEW y
  PROVE  /\ IsList(<<x, y>>) /\ Range(<<x, y>>) = {x, y}
         /\ DOMAIN <<x, y>> = {1, 2} /\ <<x, y>>[1] = x /\ <<x, y>>[2] = y
<1>1. DOMAIN <<x, y>> = {1, 2} /\ <<x, y>>[1] = x /\ <<x, y>>[2] = y
  OBVIOUS
<1>2. Range(<<x, y>>) = {x, y}
  BY <1>1 DEF Range
<1> QED BY <1>1, <1>2 DEF IsList

LEMMA Triple ==
  ASSUME NEW x, NEW y, NEW z
  PROVE  /\ IsList(<<x, y, z>>) /\ Range(<<x, y, z>>) = {x, y, z} /\ Len(<<x, y, z>>) = 3
         /\ DOMAIN <<x, y, z>> = {1, 2, 3} /\ <<x, y, z>>[1] = x /\ <<x, y, z>>[2] = y /\ <<x, y, z>>[3] = z
<1>1. /\ DOMAIN <<x, y, z>> = {1, 2, 3} /\ <<x, y, z>>[1] = x /\ <<x, y, z>>[2] = y /\ <<x, y, z>>[3] = z
      /\ Len(<<x, y, z>>) = 3
  OBVIOUS
<1>2. Range(<<x, y, z>>) = {x, y, z}
  BY <1>1 DEF Range
<1> QED BY <1>1, <1>2 DEF IsList

LEMMA EmitPart ==
  ASSUME NEW w, PortsAreLists(w.pods), NEW pol, IsPolicy(pol), NEW dir \in {"Ingress", "Egress"},
         NEW i \in DOMAIN pol.rules[dir], NEW target, IsList(target), NEW f
  PROVE  LET P == EmitRule(pol, dir, i, target, w, f)
         IN  PolicyPart(P, Lookups(target) \cup Names(P))
<1> DEFINE P == EmitRule(pol, dir, i, target, w, f)
           rule == pol.rules[dir][i]
           resolved == ResolvePeers(rule.peers, w, pol.ns, f)
           receivers == Receivers(pol, dir, resolved, w, f)
           matches == PeerMatches(pol, dir, i, resolved, f)
           sets == PeerSets(pol, dir, i, resolved, f)
           plans == [k \in DOMAIN matches |-> OnPeer(pol, dir, i, rule.ports, receivers, matches[k], target, f)]
           A == Plan(sets, {}, <<>>)
           B == Joined(plans)
           M == Lookups(target) \cup {s.name : s \in Range(sets)}
<1>1. P = Joined(<<A, B>>)
  BY DEF EmitRule, MapSeq
<1>2. IsList(rule.ports)
  BY DEF IsPolicy
<1>3. PortsAreLists(receivers)
  BY ReceiversArePods
<1>4. /\ IsList(matches) /\ IsList(sets)
      /\ \A s \in Range(sets) : s.name[1] \in {"SRC", "DST"}
      /\ \A k \in DOMAIN matches :
             IsList(matches[k]) /\ Lookups(matches[k]) \subseteq {s.name : s \in Range(sets)}
  BY PeerFacts
<1>5. /\ DOMAIN plans = DOMAIN matches /\ plans = [k \in DOMAIN matches |-> plans[k]]
      /\ \A k \in DOMAIN matches : plans[k] = OnPeer(pol, dir, i, rule.ports, receivers, matches[k], target, f)
  OBVIOUS
<1> HIDE DEF P, rule, resolved, receivers, matches, sets, plans
<1>6. \A k \in DOMAIN plans : PolicyPart(plans[k], M \cup Names(plans[k]))
  <2> SUFFICES ASSUME NEW k \in DOMAIN plans PROVE PolicyPart(plans[k], M \cup Names(plans[k]))
    OBVIOUS
  <2>1. IsList(matches[k]) /\ Lookups(matches[k]) \subseteq M /\ Lookups(target) \subseteq M
    BY <1>4, <1>5
  <2>2. plans[k] = OnPeer(pol, dir, i, rule.ports, receivers, matches[k], target, f)
    BY <1>5
  <2> DEFINE pm == matches[k]
             ports == rule.ports
  <2> HIDE DEF M, pm, ports
  <2>3. LET Q == OnPeer(pol, dir, i, ports, receivers, pm, target, f) IN PolicyPart(Q, M \cup Names(Q))
    BY <2>1, <1>2, <1>3, OnPeerPart DEF pm, ports
  <2> QED BY <2>2, <2>3 DEF pm, ports
<1>7. IsList(plans)
  BY <1>4, <1>5, Mapped
<1>8. PolicyPart(B, M \cup Names(B))
  BY <1>6, <1>7, JoinedParts
<1>9. PolicyPart(A, M) /\ Names(A) = {s.name : s \in Range(sets)}
  BY <1>4, SetsPart
<1> DEFINE ps == <<A, B>>
           T == Lookups(target)
<1> HIDE DEF A, B
<1>10. IsList(ps) /\ DOMAIN ps = {1, 2} /\ ps[1] = A /\ ps[2] = B
  BY Pair
<1> HIDE DEF ps
<1>11. \A k \in DOMAIN ps : IsPlan(ps[k])
  BY <1>8, <1>9, <1>10 DEF PolicyPart
<1>12. Names(Joined(ps)) = Names(A) \cup Names(B)
  <2>1. Names(Joined(ps)) = UNION {Names(ps[k]) : k \in DOMAIN ps}
    BY <1>10, <1>11, JoinedFacts
  <2> QED BY <2>1, <1>10
<1> DEFINE J == Joined(ps)
<1> HIDE DEF J
<1>13. M \subseteq T \cup Names(J)
  BY <1>9, <1>12 DEF J
<1>14. \A k \in DOMAIN ps : PolicyPart(ps[k], (T \cup Names(J)) \cup Names(ps[k]))
  <2>1. PolicyPart(A, (T \cup Names(J)) \cup Names(A))
    BY <1>9, <1>13 DEF PolicyPart
  <2>2. PolicyPart(B, (T \cup Names(J)) \cup Names(B))
    BY <1>8, <1>13 DEF PolicyPart
  <2> QED BY <2>1, <2>2, <1>10
<1>15. PolicyPart(J, (T \cup Names(J)) \cup Names(J))
  BY <1>10, <1>14, JoinedParts DEF J
<1>16. PolicyPart(J, T \cup Names(J))
  BY <1>15 DEF PolicyPart
<1>17. P = J
  BY <1>1 DEF ps, J
<1> QED BY <1>16, <1>17 DEF P


\* The set that a direction provides first is the one that all of its rules match.
LEMMA DirectionPart ==
  ASSUME NEW w, PortsAreLists(w.pods), NEW pol, IsPolicy(pol), NEW dir \in {"Ingress", "Egress"}, NEW f
  PROVE  LET P == DirectionPlan(pol, dir, w, f) IN PolicyPart(P, Names(P))
<1> DEFINE P == DirectionPlan(pol, dir, w, f)
           own == OwnSet(pol, dir, w, f)
           A == Plan(own, {}, <<>>)
           n == IF dir = "Ingress" THEN DstSet(pol, f) ELSE SrcSet(pol, f)
           target == IF dir = "Ingress" THEN MatchSet(DstSet(pol, f), "dst") ELSE MatchSet(SrcSet(pol, f), "src")
           plans == RulePlans(pol, dir, w, f)
           all == <<A>> \o plans
<1>1. P = Joined(all)
  BY DEF DirectionPlan
<1> DEFINE mine == {q \in Range(w.pods) : PolicySelects(pol, q)}
           x == [name |-> n, type |-> "ip", entries |-> UNION {Range(PodFamilyIps(p, f)) : p \in mine}]
<1>2. own = <<x>> /\ x.name = n
  BY DEF OwnSet, IpSet
<1>3. n[1] \in {"SRC", "DST"}
  BY DEF DstSet, SrcSet
<1>4. IsList(target) /\ Lookups(target) = {n}
  BY LookupsOf
<1>5. /\ DOMAIN plans = DOMAIN pol.rules[dir]
      /\ plans = [i \in DOMAIN pol.rules[dir] |-> plans[i]]
      /\ \A i \in DOMAIN plans : plans[i] = EmitRule(pol, dir, i, target, w, f)
  BY DEF RulePlans
<1> HIDE DEF P, own, n, x, target, plans
<1>6. IsList(own) /\ Range(own) = {x}
  BY <1>2, Single
<1>7. PolicyPart(A, {n} \cup Names(A)) /\ Names(A) = {n}
  <2>1. PolicyPart(A, {n} \cup Names(A)) /\ Names(A) = {s.name : s \in Range(own)}
    BY <1>2, <1>3, <1>6, SetsPart
  <2> QED BY <2>1, <1>2, <1>6
<1>8. IsList(plans)
  BY <1>5, Mapped DEF IsPolicy
<1>9. \A i \in DOMAIN plans : PolicyPart(plans[i], {n} \cup Names(plans[i]))
  <2> SUFFICES ASSUME NEW i \in DOMAIN plans PROVE PolicyPart(plans[i], {n} \cup Names(plans[i]))
    OBVIOUS
  <2>1. LET Q == EmitRule(pol, dir, i, target, w, f) IN PolicyPart(Q, Lookups(target) \cup Names(Q))
    BY <1>4, <1>5, EmitPart
  <2> QED BY <2>1, <1>4, <1>5
<1> HIDE DEF A, all
<1>10. IsList(all) /\ Range(all) = {A} \cup Range(plans)
  <2>1. IsList(<<A>>) /\ Range(<<A>>) = {A}
    BY Single
  <2> QED BY <2>1, <1>8, Concat DEF all
<1>11. \A q \in Range(all) : PolicyPart(q, {n} \cup Names(q))
  BY <1>7, <1>9, <1>10 DEF Range
<1>12. \A k \in DOMAIN all : PolicyPart(all[k], {n} \cup Names(all[k]))
  BY <1>10, <1>11, ListFacts
<1>13. PolicyPart(P, {n} \cup Names(P))
  BY <1>1, <1>10, <1>12, JoinedParts
<1>14. n \in Names(P)
  <2>1. \A k \in DOMAIN all : IsPlan(all[k])
    BY <1>12 DEF PolicyPart
  <2>2. Names(P) = UNION {Names(all[k]) : k \in DOMAIN all}
    BY <1>1, <1>10, <2>1, JoinedFacts
  <2>3. PICK k \in DOMAIN all : all[k] = A
    BY <1>10 DEF Range
  <2> QED BY <2>2, <2>3, <1>7
<1>15. PolicyPart(P, Names(P))
  BY <1>13, <1>14 DEF PolicyPart
<1> QED BY <1>15 DEF P

LEMMA PolicyPlanPart ==
  ASSUME NEW w, PortsAreLists(w.pods), NEW pol, IsPolicy(pol), NEW f
  PROVE  LET P == PolicyPlan(pol, w, f)
         IN  PolicyPart(P, Names(P)) /\ NetworkPolicyChain(pol) \in P.chains
<1> DEFINE P == PolicyPlan(pol, w, f)
           c == NetworkPolicyChain(pol)
           A == Plan(<<>>, {c}, <<>>)
           I == DirectionPlan(pol, "Ingress", w, f)
           E == DirectionPlan(pol, "Egress", w, f)
           si == IF pol.ingress THEN <<I>> ELSE <<>>
           se == IF pol.egress THEN <<E>> ELSE <<>>
           ai == <<A>> \o si
           all == ai \o se
<1>1. P = Joined(all)
  BY DEF PolicyPlan
<1>2. c[1] = "NWPLCY"
  BY DEF NetworkPolicyChain
<1>3. PolicyPart(A, {}) /\ A.chains = {c}
  <2>1. PolicyPart(A, {})
    BY <1>2, SetsPart, Empty
  <2> QED BY <2>1 DEF Plan
<1>4. PolicyPart(I, Names(I)) /\ PolicyPart(E, Names(E))
  BY DirectionPart
<1>5. /\ IsList(si) /\ Range(si) \subseteq {I} /\ IsList(se) /\ Range(se) \subseteq {E}
      /\ IsList(<<A>>) /\ Range(<<A>>) = {A}
  BY Single, Empty
<1> HIDE DEF P, c, A, I, E, si, se
<1>6. IsList(ai) /\ Range(ai) = {A} \cup Range(si)
  BY <1>5, Concat
<1> HIDE DEF ai
<1>7. IsList(all) /\ Range(all) = {A} \cup Range(si) \cup Range(se)
  BY <1>5, <1>6, Concat
<1> HIDE DEF all
<1>8. \A q \in Range(all) : PolicyPart(q, {} \cup Names(q))
  <2>1. PolicyPart(A, {} \cup Names(A)) /\ PolicyPart(I, {} \cup Names(I)) /\ PolicyPart(E, {} \cup Names(E))
    BY <1>3, <1>4 DEF PolicyPart
  <2> QED BY <2>1, <1>5, <1>7
<1>9. \A k \in DOMAIN all : PolicyPart(all[k], {} \cup Names(all[k]))
  BY <1>7, <1>8, ListFacts
<1>10. PolicyPart(P, {} \cup Names(P))
  BY <1>1, <1>7, <1>9, JoinedParts
<1>11. c \in P.chains
  <2>1. \A k \in DOMAIN all : IsPlan(all[k])
    BY <1>9 DEF PolicyPart
  <2>2. P.chains = UNION {all[k].chains : k \in DOMAIN all}
    BY <1>1, <1>7, <2>1, JoinedFacts
  <2>3. PICK k \in DOMAIN all : all[k] = A
    BY <1>7 DEF Range
  <2> QED BY <2>2, <2>3, <1>3
<1>12. PolicyPart(P, Names(P))
  BY <1>10 DEF PolicyPart
<1> QED BY <1>11, <1>12 DEF P, c


\* The rules that a plan may hold, by the chain they are in.
Answers(conds) == \E c \in Range(conds) : (c.k = "ct" /\ c.v = {"est"}) \/ (c.k = "proto" /\ c.v = "icmp")
FromNode(conds) == \E c \in Range(conds) : c.k = "srcLocal"
ToService(conds) ==
    \/ \E c \in Range(conds) : c.k = "addr" /\ c.side = "dst" /\ c.ips \subseteq ServiceRange
    \/ /\ \E c \in Range(conds) : c.k = "dstLocal"
       /\ \E c \in Range(conds) : c.k = "dports" /\ c.v = NodePortArg[1]..NodePortArg[2]
Shape(r) ==
    \/ r.chain[1] = "NWPLCY" /\ r.target.k \in {"MATCHED", "RETURN"}
    \/ r.chain = Common /\ (r.target.k = "DROP" \/ (r.target.k = "ACCEPT" /\ Answers(r.conds)))
    \/ r.chain = Default /\ r.target.k = "MATCHED"
    \/ /\ r.chain[1] = "POD-FW"
       /\ \/ r.target.k = "jump" /\ (r.target.chain \in {Common, Default} \/ r.target.chain[1] = "NWPLCY")
          \/ r.target.k = "ACCEPT" /\ FromNode(r.conds)
          \/ r.target.k \in {"REJECT", "UNMATCHED", "ACCEPTED"}
    \/ r.chain = Input /\ r.target.k = "RETURN" /\ ToService(r.conds)
    \/ r.chain \in {Input, Forward, Output} /\ r.target.k = "jump"
       /\ (r.target.chain = TailChain \/ r.target.chain[1] = "POD-FW")
    \/ r.chain = TailChain /\ r.target.k \in {"REJECT", "ACCEPT"}

\* Rules of a part of a plan: N are the sets, C the chains that they may name.
RuleFacts(r, N, C) ==
    /\ IsList(r.conds) /\ Lookups(r.conds) \subseteq N
    /\ r.target.k = "jump" => r.target.chain \in C
    /\ Shape(r)

LEMMA PlainRule ==
  ASSUME NEW c, NEW conds, NEW t, NEW N, NEW C
  PROVE  /\ R(c, conds, t).chain = c /\ R(c, conds, t).conds = conds /\ R(c, conds, t).target = t
         /\ \A v : Do(v).k = v
         /\ \A d : Jump(d).k = "jump" /\ Jump(d).chain = d
BY DEF R, Do, Jump

LEMMA CommonFacts ==
  IsList(CommonRules) /\ \A C : \A r \in Range(CommonRules) : RuleFacts(r, {}, C)
<1> DEFINE a == [k |-> "ct", v |-> {"invalid"}]
           b == [k |-> "ct", v |-> {"est"}]
           d == [k |-> "proto", v |-> "icmp"]
           r1 == R(Common, <<a>>, Do("DROP"))
           r2 == R(Common, <<b>>, Do("ACCEPT"))
           r3 == R(Common, <<d>>, Do("ACCEPT"))
           r4 == R(Default, <<>>, Do("MATCHED"))
<1>1. CommonRules = <<r1, r2, r3, r4>>
  BY DEF CommonRules, Proto
<1>2. /\ IsList(<<a>>) /\ IsList(<<b>>) /\ IsList(<<d>>) /\ IsList(<<>>)
      /\ Lookups(<<a>>) = {} /\ Lookups(<<b>>) = {} /\ Lookups(<<d>>) = {} /\ Lookups(<<>>) = {}
  BY LookupsOne, LookupsOf
<1>3. Answers(<<b>>) /\ Answers(<<d>>)
  <2>1. Range(<<b>>) = {b} /\ Range(<<d>>) = {d}
    BY Single
  <2> QED BY <2>1 DEF Answers
<1> DEFINE la == <<a>>
           lb == <<b>>
           ld == <<d>>
<1> HIDE DEF la, lb, ld
<1>4. \A C : RuleFacts(r1, {}, C)
  <2>1. r1.chain = Common /\ r1.conds = la /\ r1.target.k = "DROP"
    BY DEF R, Do, la
  <2> HIDE DEF r1
  <2> QED BY <2>1, <1>2 DEF RuleFacts, Shape, la
<1>5. \A C : RuleFacts(r2, {}, C)
  <2>1. r2.chain = Common /\ r2.conds = lb /\ r2.target.k = "ACCEPT"
    BY DEF R, Do, lb
  <2> HIDE DEF r2
  <2> QED BY <2>1, <1>2, <1>3 DEF RuleFacts, Shape, lb
<1>6. \A C : RuleFacts(r3, {}, C)
  <2>1. r3.chain = Common /\ r3.conds = ld /\ r3.target.k = "ACCEPT"
    BY DEF R, Do, ld
  <2> HIDE DEF r3
  <2> QED BY <2>1, <1>2, <1>3 DEF RuleFacts, Shape, ld
<1>7. \A C : RuleFacts(r4, {}, C)
  <2>1. r4.chain = Default /\ r4.conds = <<>> /\ r4.target.k = "MATCHED"
    BY DEF R, Do
  <2> HIDE DEF r4
  <2> QED BY <2>1, <1>2 DEF RuleFacts, Shape
<1> HIDE DEF r1, r2, r3, r4
<1>8. IsList(<<r1, r2, r3, r4>>) /\ Range(<<r1, r2, r3, r4>>) = {r1, r2, r3, r4}
  <2> DEFINE q == <<r1, r2, r3, r4>>
  <2>1. DOMAIN q = {1, 2, 3, 4} /\ q[1] = r1 /\ q[2] = r2 /\ q[3] = r3 /\ q[4] = r4
    OBVIOUS
  <2>2. Range(q) = {r1, r2, r3, r4}
    BY <2>1 DEF Range
  <2> QED BY <2>2 DEF IsList
<1> QED BY <1>1, <1>4, <1>5, <1>6, <1>7, <1>8

LEMMA ServiceFacts ==
  ASSUME NEW f
  PROVE  IsList(ServiceReturns(f)) /\ \A C : \A r \in Range(ServiceReturns(f)) : RuleFacts(r, {}, C)
<1> DEFINE range == {ip \in ServiceRange : ip[1] = f}
           ports == ValidateNodePortRange(NodePortArg)
           conds(proto) == Proto(proto) \o <<[k |-> "dstLocal"]>> \o Dports(ports[1])
           nodePort(proto) == R(Input, conds(proto), Do("RETURN"))
           protos == <<"tcp", "udp", "sctp">>
           r1 == R(Input, Is("dst", range), Do("RETURN"))
           a == IF range = {} THEN <<>> ELSE <<r1>>
           m == [i \in DOMAIN protos |-> nodePort(protos[i])]
           b == IF ports = <<>> THEN <<>> ELSE m
<1>1. ServiceReturns(f) = a \o b
  BY DEF ServiceReturns, MapSeq
<1>2. \A C : RuleFacts(r1, {}, C)
  <2> DEFINE e == Is("dst", range)
  <2>1. IsList(e) /\ Lookups(e) = {}
    BY LookupsOf
  <2>2. ToService(e)
    <3> DEFINE x == [k |-> "addr", side |-> "dst", ips |-> range]
    <3>1. Range(<<x>>) = {x}
      BY Single
    <3>2. x.k = "addr" /\ x.side = "dst" /\ x.ips \subseteq ServiceRange
      OBVIOUS
    <3>3. e = <<x>>
      BY DEF Is
    <3> HIDE DEF x, e
    <3> QED BY <3>1, <3>2, <3>3 DEF ToService
  <2> HIDE DEF e
  <2>3. r1.chain = Input /\ r1.conds = e /\ r1.target.k = "RETURN"
    BY DEF R, Do, e
  <2> HIDE DEF r1
  <2> QED BY <2>1, <2>2, <2>3 DEF RuleFacts, Shape
<1>3. ports # <<>> => ports[1] = NodePortArg[1]..NodePortArg[2]
  BY DEF ValidateNodePortRange
<1>4. ASSUME NEW p, ports # <<>> PROVE \A C : RuleFacts(nodePort(p), {}, C)
  <2> DEFINE x == [k |-> "dstLocal"]
             y == [k |-> "dports", v |-> ports[1]]
             c1 == Proto(p)
             c2 == <<x>>
             c3 == Dports(ports[1])
             d == c1 \o c2
             e == d \o c3
  <2>1. IsList(c1) /\ Lookups(c1) = {} /\ IsList(c3) /\ Lookups(c3) = {} /\ IsList(c2) /\ Lookups(c2) = {}
    BY LookupsOf, LookupsOne
  <2>2. Range(c2) = {x} /\ Range(c3) = {y}
    BY Single DEF Dports
  <2> HIDE DEF c1, c2, c3
  <2>3. IsList(d) /\ Lookups(d) = {} /\ Range(d) = Range(c1) \cup Range(c2)
    BY <2>1, Concat, LookupsConcat
  <2> HIDE DEF d
  <2>4. IsList(e) /\ Lookups(e) = {} /\ Range(e) = Range(d) \cup Range(c3)
    BY <2>1, <2>3, Concat, LookupsConcat
  <2>5. x.k = "dstLocal" /\ y.k = "dports" /\ y.v = NodePortArg[1]..NodePortArg[2]
    BY <1>3, <1>4
  <2>6. conds(p) = e
    BY DEF c1, c2, c3, d
  <2> HIDE DEF e, x, y
  <2>7. ToService(e)
    BY <2>2, <2>3, <2>4, <2>5 DEF ToService
  <2> HIDE DEF conds
  <2> DEFINE r == nodePort(p)
  <2>8. r.chain = Input /\ r.conds = e /\ r.target.k = "RETURN"
    BY <2>6 DEF R, Do
  <2> HIDE DEF r
  <2>9. \A C : RuleFacts(r, {}, C)
    BY <2>4, <2>7, <2>8 DEF RuleFacts, Shape
  <2> QED BY <2>9 DEF r
<1>5. IsList(a) /\ \A C : \A r \in Range(a) : RuleFacts(r, {}, C)
  BY <1>2, Single, Empty
<1>6. IsList(b) /\ \A C : \A r \in Range(b) : RuleFacts(r, {}, C)
  <2>1. CASE ports = <<>>
    BY <2>1, Empty
  <2>2. CASE ports # <<>>
    <3>1. DOMAIN m = DOMAIN protos /\ m = [i \in DOMAIN protos |-> m[i]] /\ IsList(protos)
      BY Triple
    <3>2. \A i \in DOMAIN m : \A C : RuleFacts(m[i], {}, C)
      BY <1>4, <2>2
    <3> HIDE DEF m, protos
    <3>3. IsList(m)
      BY <3>1, Mapped
    <3> QED BY <2>2, <3>2, <3>3 DEF Range
  <2> QED BY <2>1, <2>2
<1> HIDE DEF a, b
<1>7. IsList(a \o b) /\ Range(a \o b) = Range(a) \cup Range(b)
  BY <1>5, <1>6, Concat
<1> QED BY <1>1, <1>5, <1>6, <1>7


Good(rules, N, C) == IsList(rules) /\ \A r \in Range(rules) : RuleFacts(r, N, C)

LEMMA GoodLists ==
  ASSUME NEW N, NEW C
  PROVE  /\ Good(<<>>, N, C)
         /\ \A r : RuleFacts(r, N, C) => Good(<<r>>, N, C)
         /\ \A a, b : Good(a, N, C) /\ Good(b, N, C) => Good(a \o b, N, C)
<1>1. Good(<<>>, N, C)
  BY Empty DEF Good
<1>2. ASSUME NEW r, RuleFacts(r, N, C) PROVE Good(<<r>>, N, C)
  BY <1>2, Single DEF Good
<1>3. ASSUME NEW a, NEW b, Good(a, N, C), Good(b, N, C) PROVE Good(a \o b, N, C)
  <2>1. IsList(a \o b) /\ Range(a \o b) = Range(a) \cup Range(b)
    BY <1>3, Concat DEF Good
  <2> QED BY <1>3, <2>1 DEF Good
<1> QED BY <1>1, <1>2, <1>3

LEMMA GoodMap ==
  ASSUME NEW s, IsList(s), NEW t, DOMAIN t = DOMAIN s, t = [i \in DOMAIN s |-> t[i]], NEW N, NEW C,
         \A i \in DOMAIN s : RuleFacts(t[i], N, C)
  PROVE  Good(t, N, C)
<1>1. IsList(t)
  BY Mapped
<1> QED BY <1>1 DEF Good, Range

LEMMA GoodFlat ==
  ASSUME NEW s, IsList(s), NEW t, DOMAIN t = DOMAIN s, t = [i \in DOMAIN s |-> t[i]], NEW N, NEW C,
         \A i \in DOMAIN s : Good(t[i], N, C)
  PROVE  Good(FlattenSeq(t), N, C)
<1>1. IsList(t)
  BY Mapped
<1>2. IsList(FlattenSeq(t)) /\ Range(FlattenSeq(t)) = UNION {Range(t[i]) : i \in DOMAIN t}
  BY <1>1, FlatRange DEF Good
<1> QED BY <1>2 DEF Good

LEMMA FamilyIps ==
  ASSUME NEW pod, IsList(pod.ips), NEW f
  PROVE  /\ IsList(PodFamilyIps(pod, f))
         /\ Range(PodFamilyIps(pod, f)) = {ip \in Range(pod.ips) : ip[1] = f}
<1> DEFINE s == pod.ips
           Q == {ip \in Range(s) : ip[1] = f}
           kept == FlattenSeq([i \in DOMAIN s |-> IF s[i] \in Q THEN <<s[i]>> ELSE <<>>])
<1>1. \A i \in DOMAIN s : s[i] \in Range(s)
  BY ListFacts
<1>2. [i \in DOMAIN s |-> IF s[i] \in Q THEN <<s[i]>> ELSE <<>>] = [i \in DOMAIN s |-> IF s[i][1] = f THEN <<s[i]>> ELSE <<>>]
  BY <1>1, Zenon
<1>3. PodFamilyIps(pod, f) = kept
  BY <1>2 DEF PodFamilyIps, Filter
<1>4. IsList(kept) /\ Range(kept) = Range(s) \cap Q
  BY Kept
<1> QED BY <1>3, <1>4

\* The policies that a plan has chains for, and those that select a pod.
Applying(w) == {p \in Range(w.policies) : Applies(p)}

LEMMA ApplyingFacts ==
  ASSUME NEW w, IsList(w.policies)
  PROVE  /\ IsList(Filter(w.policies, Applies)) /\ Range(Filter(w.policies, Applies)) = Applying(w)
         /\ \A pod : /\ IsList(Selecting(pod, w))
                     /\ Range(Selecting(pod, w)) = {p \in Applying(w) : PolicySelects(p, pod)}
<1> DEFINE s == w.policies
<1>1. \A i \in DOMAIN s : s[i] \in Range(s)
  BY ListFacts
<1>2. IsList(Filter(s, Applies)) /\ Range(Filter(s, Applies)) = Applying(w)
  <2> DEFINE Q == Applying(w)
             kept == FlattenSeq([i \in DOMAIN s |-> IF s[i] \in Q THEN <<s[i]>> ELSE <<>>])
  <2>1. [i \in DOMAIN s |-> IF s[i] \in Q THEN <<s[i]>> ELSE <<>>] = [i \in DOMAIN s |-> IF Applies(s[i]) THEN <<s[i]>> ELSE <<>>]
    BY <1>1, Zenon DEF Applying
  <2>2. Filter(s, Applies) = kept
    BY <2>1 DEF Filter
  <2>3. IsList(kept) /\ Range(kept) = Range(s) \cap Q
    BY Kept
  <2> QED BY <2>2, <2>3 DEF Applying
<1>3. ASSUME NEW pod
      PROVE  IsList(Selecting(pod, w)) /\ Range(Selecting(pod, w)) = {p \in Applying(w) : PolicySelects(p, pod)}
  <2> DEFINE Q == {p \in Applying(w) : PolicySelects(p, pod)}
             kept == FlattenSeq([i \in DOMAIN s |-> IF s[i] \in Q THEN <<s[i]>> ELSE <<>>])
  <2>1. [i \in DOMAIN s |-> IF s[i] \in Q THEN <<s[i]>> ELSE <<>>]
          = [i \in DOMAIN s |-> IF Applies(s[i]) /\ PolicySelects(s[i], pod) THEN <<s[i]>> ELSE <<>>]
    BY <1>1, Zenon DEF Applying
  <2>2. Selecting(pod, w) = kept
    BY <2>1 DEF Selecting, Filter
  <2>3. IsList(kept) /\ Range(kept) = Range(s) \cap Q
    BY Kept
  <2> QED BY <2>2, <2>3 DEF Applying
<1> QED BY <1>2, <1>3

\* The chains that the rules of a pod may jump to.
Reachable(pod, w, C) ==
    /\ Common \in C /\ Default \in C /\ PodFirewallChain(pod) \in C
    /\ \A p \in Applying(w) : NetworkPolicyChain(p) \in C

LEMMA RuleOfPod ==
  ASSUME NEW pod, NEW conds, IsList(conds), Lookups(conds) = {}, NEW t, NEW C,
         \/ t.k = "jump" /\ t.chain \in C /\ (t.chain \in {Common, Default} \/ t.chain[1] = "NWPLCY")
         \/ t.k = "ACCEPT" /\ FromNode(conds)
         \/ t.k \in {"REJECT", "UNMATCHED", "ACCEPTED"}
  PROVE  RuleFacts(R(PodFirewallChain(pod), conds, t), {}, C)
<1> DEFINE c == PodFirewallChain(pod)
           r == R(c, conds, t)
<1>1. c[1] = "POD-FW"
  BY DEF PodFirewallChain
<1> HIDE DEF c
<1>2. r.chain = c /\ r.conds = conds /\ r.target = t
  BY DEF R
<1> HIDE DEF r
<1>3. RuleFacts(r, {}, C)
  BY <1>1, <1>2 DEF RuleFacts, Shape
<1> QED BY <1>3 DEF r, c

LEMMA TopRule ==
  ASSUME NEW pod, NEW b \in {Input, Forward, Output}, NEW conds, IsList(conds), Lookups(conds) = {}, NEW C,
         PodFirewallChain(pod) \in C
  PROVE  RuleFacts(R(b, conds, Jump(PodFirewallChain(pod))), {}, C)
<1> DEFINE c == PodFirewallChain(pod)
           r == R(b, conds, Jump(c))
<1>1. c[1] = "POD-FW"
  BY DEF PodFirewallChain
<1> HIDE DEF c
<1>2. r.chain = b /\ r.conds = conds /\ r.target.k = "jump" /\ r.target.chain = c
  BY DEF R, Jump
<1> HIDE DEF r
<1>3. RuleFacts(r, {}, C)
  BY <1>1, <1>2 DEF RuleFacts, Shape, c
<1> QED BY <1>3 DEF r, c


LEMMA PolicyJumpsGood ==
  ASSUME NEW w, IsList(w.policies), NEW pod, NEW C, Reachable(pod, w, C), NEW ip
  PROVE  Good(PolicyJumps(pod, ip, w), {}, C)
<1> DEFINE chain == PodFirewallChain(pod)
           sel == Selecting(pod, w)
           conds(pol) == CASE pol.ingress /\ pol.egress -> <<>>
                           [] pol.ingress /\ ~pol.egress -> Is("dst", {ip})
                           [] OTHER -> Is("src", {ip})
           m == [i \in DOMAIN sel |-> R(chain, conds(sel[i]), Jump(NetworkPolicyChain(sel[i])))]
           u(side) == <<R(chain, Is(side, {ip}), Jump(Default))>>
           b == IF \E p \in Range(sel) : p.ingress THEN <<>> ELSE u("dst")
           c == IF \E p \in Range(sel) : p.egress THEN <<>> ELSE u("src")
<1>1. PolicyJumps(pod, ip, w) = m \o b \o c
  BY DEF PolicyJumps, MapSeq
<1>2. IsList(sel) /\ Range(sel) \subseteq Applying(w)
  BY ApplyingFacts
<1>3. \A pol : IsList(conds(pol)) /\ Lookups(conds(pol)) = {}
  <2> SUFFICES ASSUME NEW pol PROVE IsList(conds(pol)) /\ Lookups(conds(pol)) = {}
    OBVIOUS
  <2>1. conds(pol) \in {<<>>, Is("dst", {ip}), Is("src", {ip})}
    BY Zenon
  <2> HIDE DEF conds
  <2> QED BY <2>1, LookupsOf
<1> HIDE DEF conds
<1>4. \A i \in DOMAIN sel : RuleFacts(m[i], {}, C)
  <2> SUFFICES ASSUME NEW i \in DOMAIN sel PROVE RuleFacts(m[i], {}, C)
    OBVIOUS
  <2> DEFINE d == NetworkPolicyChain(sel[i])
             t == Jump(d)
             cc == conds(sel[i])
  <2>1. m[i] = R(chain, cc, t)
    OBVIOUS
  <2>2. sel[i] \in Applying(w)
    BY <1>2, ListFacts
  <2>3. d \in C /\ d[1] = "NWPLCY"
    BY <2>2 DEF Reachable, NetworkPolicyChain
  <2> HIDE DEF d
  <2>4. t.k = "jump" /\ t.chain = d
    BY DEF Jump
  <2>5. IsList(cc) /\ Lookups(cc) = {}
    BY <1>3
  <2> HIDE DEF t, m, cc
  <2>6. RuleFacts(R(PodFirewallChain(pod), cc, t), {}, C)
    BY <2>3, <2>4, <2>5, RuleOfPod
  <2> QED BY <2>1, <2>6
<1>5. DOMAIN m = DOMAIN sel /\ m = [i \in DOMAIN sel |-> m[i]]
  OBVIOUS
<1> HIDE DEF m
<1>6. Good(m, {}, C)
  BY <1>2, <1>4, <1>5, GoodMap
<1>7. \A side : Good(u(side), {}, C)
  <2> SUFFICES ASSUME NEW side PROVE Good(u(side), {}, C)
    OBVIOUS
  <2> DEFINE t == Jump(Default)
             cc == Is(side, {ip})
  <2>1. t.k = "jump" /\ t.chain = Default /\ Default \in C
    BY DEF Jump, Reachable
  <2>2. IsList(cc) /\ Lookups(cc) = {}
    BY LookupsOf
  <2> HIDE DEF t, cc
  <2>3. RuleFacts(R(PodFirewallChain(pod), cc, t), {}, C)
    BY <2>1, <2>2, RuleOfPod
  <2>4. Good(<<R(PodFirewallChain(pod), cc, t)>>, {}, C)
    BY <2>3, GoodLists
  <2> QED BY <2>4 DEF t, cc
<1>8. Good(b, {}, C) /\ Good(c, {}, C)
  BY <1>7, GoodLists
<1> HIDE DEF b, c
<1>9. Good(m \o b, {}, C)
  BY <1>6, <1>8, GoodLists
<1> DEFINE mb == m \o b
<1> HIDE DEF mb
<1>10. Good(mb \o c, {}, C)
  BY <1>8, <1>9, GoodLists DEF mb
<1> QED BY <1>1, <1>10 DEF mb

LEMMA TopLevelGood ==
  ASSUME NEW pod, NEW C, PodFirewallChain(pod) \in C, NEW ip
  PROVE  Good(TopLevelJumps(PodFirewallChain(pod), ip), {}, C)
<1> DEFINE chain == PodFirewallChain(pod)
           dst == Is("dst", {ip})
           src == Is("src", {ip})
           br(side) == <<[k |-> "bridged"]>> \o Is(side, {ip})
           r1 == R(Forward, dst, Jump(chain))
           r2 == R(Output, dst, Jump(chain))
           r3 == R(Forward, br("dst"), Jump(chain))
           r4 == R(Forward, br("src"), Jump(chain))
           tops == <<Input, Forward, Output>>
           m == [i \in DOMAIN tops |-> R(tops[i], src, Jump(chain))]
<1>1. TopLevelJumps(chain, ip) = <<r1, r2, r3>> \o m \o <<r4>>
  BY DEF TopLevelJumps, MapSeq
<1>2. IsList(dst) /\ Lookups(dst) = {} /\ IsList(src) /\ Lookups(src) = {}
  BY LookupsOf
<1>3. \A side : IsList(br(side)) /\ Lookups(br(side)) = {}
  <2> SUFFICES ASSUME NEW side PROVE IsList(br(side)) /\ Lookups(br(side)) = {}
    OBVIOUS
  <2> DEFINE x == <<[k |-> "bridged"]>>
             y == Is(side, {ip})
  <2>1. IsList(x) /\ Lookups(x) = {} /\ IsList(y) /\ Lookups(y) = {}
    BY LookupsOne, LookupsOf
  <2> HIDE DEF x, y
  <2>2. IsList(x \o y) /\ Lookups(x \o y) = {}
    BY <2>1, LookupsConcat
  <2> QED BY <2>2 DEF x, y
<1> HIDE DEF dst, src, br
<1>4. RuleFacts(r1, {}, C) /\ RuleFacts(r2, {}, C)
  BY <1>2, TopRule
<1>5. RuleFacts(r3, {}, C) /\ RuleFacts(r4, {}, C)
  BY <1>3, TopRule
<1>6. IsList(tops) /\ DOMAIN tops = {1, 2, 3} /\ \A i \in DOMAIN tops : tops[i] \in {Input, Forward, Output}
  BY Triple
<1>7. DOMAIN m = DOMAIN tops /\ m = [i \in DOMAIN tops |-> m[i]] /\ \A i \in DOMAIN tops : m[i] = R(tops[i], src, Jump(chain))
  OBVIOUS
<1> HIDE DEF m, tops
<1>8. \A i \in DOMAIN tops : RuleFacts(m[i], {}, C)
  BY <1>2, <1>6, <1>7, TopRule
<1>9. Good(m, {}, C)
  BY <1>6, <1>7, <1>8, GoodMap
<1> HIDE DEF r1, r2, r3, r4
<1> DEFINE a == <<r1, r2, r3>>
           b == <<r4>>
<1>10. Good(a, {}, C) /\ Good(b, {}, C)
  BY <1>4, <1>5, Triple, Single DEF Good
<1> HIDE DEF a, b
<1> DEFINE am == a \o m
<1>11. Good(am, {}, C)
  BY <1>9, <1>10, GoodLists
<1> HIDE DEF am
<1>12. Good(am \o b, {}, C)
  BY <1>10, <1>11, GoodLists
<1> QED BY <1>1, <1>12 DEF am, a, b

LEMMA PodPlanGood ==
  ASSUME NEW w, IsList(w.policies), NEW pod, IsList(pod.ips), NEW C, Reachable(pod, w, C), NEW f
  PROVE  LET P == PodPlan(pod, w, f)
         IN  P.sets = <<>> /\ P.chains = {PodFirewallChain(pod)} /\ Good(P.rules, {}, C)
<1> DEFINE P == PodPlan(pod, w, f)
           chain == PodFirewallChain(pod)
           ips == PodFamilyIps(pod, f)
           loc(ip) == <<[k |-> "srcLocal"]>> \o Is("dst", {ip})
           a == <<R(chain, <<>>, Jump(Common))>>
           b == [i \in DOMAIN ips |-> R(chain, loc(ips[i]), Do("ACCEPT"))]
           jumps == [i \in DOMAIN ips |-> PolicyJumps(pod, ips[i], w)]
           r1 == R(chain, Marked(FALSE), Do("REJECT"))
           r2 == R(chain, <<>>, Do("UNMATCHED"))
           r3 == R(chain, <<>>, Do("ACCEPTED"))
           d == <<r1, r2, r3>>
           tops == [i \in DOMAIN ips |-> TopLevelJumps(chain, ips[i])]
           c == FlattenSeq(jumps)
           e == FlattenSeq(tops)
<1>1. P.sets = <<>> /\ P.chains = {chain} /\ P.rules = a \o b \o c \o d \o e
  BY DEF PodPlan, Plan, MapSeq
<1>2. IsList(ips)
  BY FamilyIps
<1>3. Good(a, {}, C)
  <2> DEFINE t == Jump(Common)
  <2>1. t.k = "jump" /\ t.chain = Common /\ Common \in C
    BY DEF Jump, Reachable
  <2>2. IsList(<<>>) /\ Lookups(<<>>) = {}
    BY LookupsOf
  <2> HIDE DEF t
  <2>3. RuleFacts(R(PodFirewallChain(pod), <<>>, t), {}, C)
    BY <2>1, <2>2, RuleOfPod
  <2>4. Good(<<R(PodFirewallChain(pod), <<>>, t)>>, {}, C)
    BY <2>3, GoodLists
  <2> QED BY <2>4 DEF t
<1>4. \A ip : RuleFacts(R(chain, loc(ip), Do("ACCEPT")), {}, C)
  <2> SUFFICES ASSUME NEW ip PROVE RuleFacts(R(chain, loc(ip), Do("ACCEPT")), {}, C)
    OBVIOUS
  <2> DEFINE x == [k |-> "srcLocal"]
             y == Is("dst", {ip})
             z == <<x>>
             t == Do("ACCEPT")
  <2>1. IsList(z) /\ Lookups(z) = {} /\ Range(z) = {x} /\ x.k = "srcLocal" /\ IsList(y) /\ Lookups(y) = {}
    BY LookupsOne, LookupsOf, Single
  <2> HIDE DEF x, y
  <2> HIDE DEF z
  <2>2. IsList(z \o y) /\ Lookups(z \o y) = {} /\ Range(z \o y) = Range(z) \cup Range(y)
    BY <2>1, LookupsConcat, Concat
  <2> DEFINE cc == z \o y
  <2>3. t.k = "ACCEPT"
    BY DEF Do
  <2>4. cc = loc(ip)
    BY DEF z, x, y
  <2> HIDE DEF cc, t, loc
  <2>5. FromNode(cc)
    BY <2>1, <2>2 DEF FromNode, cc
  <2>6. RuleFacts(R(PodFirewallChain(pod), cc, t), {}, C)
    BY <2>2, <2>3, <2>5, RuleOfPod DEF cc
  <2> QED BY <2>4, <2>6 DEF t
<1>5. Good(b, {}, C)
  <2>1. DOMAIN b = DOMAIN ips /\ b = [i \in DOMAIN ips |-> b[i]]
        /\ \A i \in DOMAIN ips : b[i] = R(chain, loc(ips[i]), Do("ACCEPT"))
    OBVIOUS
  <2> HIDE DEF b, loc, ips, chain
  <2> QED BY <2>1, <1>2, <1>4, GoodMap
<1>6. Good(c, {}, C)
  <2>1. DOMAIN jumps = DOMAIN ips /\ jumps = [i \in DOMAIN ips |-> jumps[i]]
        /\ \A i \in DOMAIN ips : jumps[i] = PolicyJumps(pod, ips[i], w)
    OBVIOUS
  <2>2. \A i \in DOMAIN ips : Good(jumps[i], {}, C)
    BY <2>1, PolicyJumpsGood
  <2> HIDE DEF jumps, ips
  <2> QED BY <2>1, <2>2, <1>2, GoodFlat
<1>7. Good(e, {}, C)
  <2>1. DOMAIN tops = DOMAIN ips /\ tops = [i \in DOMAIN ips |-> tops[i]]
        /\ \A i \in DOMAIN ips : tops[i] = TopLevelJumps(PodFirewallChain(pod), ips[i])
    OBVIOUS
  <2>2. \A i \in DOMAIN ips : Good(tops[i], {}, C)
    BY <2>1, TopLevelGood DEF Reachable
  <2> HIDE DEF tops, ips
  <2> QED BY <2>1, <2>2, <1>2, GoodFlat
<1>8. Good(d, {}, C)
  <2> DEFINE t1 == Do("REJECT")
             t2 == Do("UNMATCHED")
             t3 == Do("ACCEPTED")
             cc == Marked(FALSE)
  <2>1. t1.k = "REJECT" /\ t2.k = "UNMATCHED" /\ t3.k = "ACCEPTED"
    BY DEF Do
  <2>2. IsList(<<>>) /\ Lookups(<<>>) = {} /\ IsList(cc) /\ Lookups(cc) = {}
    BY LookupsOf
  <2> HIDE DEF t1, t2, t3, cc
  <2>3. /\ RuleFacts(R(PodFirewallChain(pod), cc, t1), {}, C)
        /\ RuleFacts(R(PodFirewallChain(pod), <<>>, t2), {}, C)
        /\ RuleFacts(R(PodFirewallChain(pod), <<>>, t3), {}, C)
    BY <2>1, <2>2, RuleOfPod
  <2>4. RuleFacts(r1, {}, C) /\ RuleFacts(r2, {}, C) /\ RuleFacts(r3, {}, C)
    BY <2>3 DEF t1, t2, t3, cc
  <2> HIDE DEF r1, r2, r3
  <2> QED BY <2>4, Triple DEF Good
<1> HIDE DEF a, b, c, d, e, P
<1> DEFINE ab == a \o b
<1>9. Good(ab, {}, C)
  BY <1>3, <1>5, GoodLists
<1> HIDE DEF ab
<1> DEFINE abc == ab \o c
<1>10. Good(abc, {}, C)
  BY <1>9, <1>6, GoodLists
<1> HIDE DEF abc
<1> DEFINE abcd == abc \o d
<1>11. Good(abcd, {}, C)
  BY <1>10, <1>8, GoodLists
<1> HIDE DEF abcd
<1>12. Good(abcd \o e, {}, C)
  BY <1>11, <1>7, GoodLists
<1>13. Good(P.rules, {}, C)
  BY <1>1, <1>12 DEF abcd, abc, ab
<1> QED BY <1>1, <1>13 DEF P


LEMMA FirewalledFacts ==
  ASSUME NEW w, IsList(w.pods), NEW f
  PROVE  /\ IsList(FirewalledPods(w, f))
         /\ Range(FirewalledPods(w, f))
              = {p \in Range(w.pods) : /\ p.node = ThisNode /\ ~p.hostNet
                                       /\ PodFamilyIps(p, f) # <<>> /\ Selecting(p, w) # <<>>}
<1> DEFINE s == w.pods
           Q == {p \in Range(s) : /\ p.node = ThisNode /\ ~p.hostNet
                                  /\ PodFamilyIps(p, f) # <<>> /\ Selecting(p, w) # <<>>}
           kept == FlattenSeq([i \in DOMAIN s |-> IF s[i] \in Q THEN <<s[i]>> ELSE <<>>])
           test(p) == /\ p.node = ThisNode
                      /\ ~p.hostNet
                      /\ PodFamilyIps(p, f) # <<>>
                      /\ Selecting(p, w) # <<>>
<1>1. \A i \in DOMAIN s : s[i] \in Range(s)
  BY ListFacts
<1>2. [i \in DOMAIN s |-> IF s[i] \in Q THEN <<s[i]>> ELSE <<>>] = [i \in DOMAIN s |-> IF test(s[i]) THEN <<s[i]>> ELSE <<>>]
  BY <1>1, Zenon
<1>3. FirewalledPods(w, f) = kept
  BY <1>2 DEF FirewalledPods, Filter
<1>4. IsList(kept) /\ Range(kept) = Range(s) \cap Q
  BY Kept
<1> QED BY <1>3, <1>4

\* The set of the pods with a chain, and the rules at the end of a plan.
Programmed(w, f) == UNION {Range(PodFamilyIps(p, f)) : p \in Range(FirewalledPods(w, f))}
LocalPods(w, f) == [name |-> LocalPodsSet(f), type |-> "ip", entries |-> Programmed(w, f)]

LEMMA TailRule ==
  ASSUME NEW conds, IsList(conds), NEW N, Lookups(conds) \subseteq N, NEW C, NEW k \in {"REJECT", "ACCEPT"}
  PROVE  RuleFacts(R(TailChain, conds, Do(k)), N, C)
<1> DEFINE r == R(TailChain, conds, Do(k))
<1>1. r.chain = TailChain /\ r.conds = conds /\ r.target.k = k
  BY DEF R, Do
<1> HIDE DEF r
<1>2. RuleFacts(r, N, C)
  BY <1>1 DEF RuleFacts, Shape
<1> QED BY <1>2 DEF r

LEMMA TailPlanGood ==
  ASSUME NEW w, NEW f, NEW deny \in BOOLEAN, NEW C, TailChain \in C
  PROVE  LET P == TailPlan(w, f, deny)
         IN  /\ P.sets = (IF deny THEN <<LocalPods(w, f)>> ELSE <<>>) /\ P.chains = {}
             /\ Good(P.rules, Names(P), C)
<1> DEFINE P == TailPlan(w, f, deny)
           N == IF deny THEN {LocalPodsSet(f)} ELSE {}
           cidr == {ip \in PodCidr : ip[1] = f}
           scoped == deny /\ cidr # {}
           uc(side) == Is(side, cidr) \o NotInSet(LocalPodsSet(f), side)
           sides == <<"src", "dst">>
           un == [i \in DOMAIN sides |-> R(TailChain, uc(sides[i]), Do("REJECT"))]
           re == [i \in DOMAIN sides |-> R(TailChain, Is(sides[i], cidr), Do("REJECT"))]
           tops == <<Input, Forward, Output>>
           ju == [i \in DOMAIN tops |-> R(tops[i], <<>>, Jump(TailChain))]
           acc == <<[k |-> "accepted"]>>
           a == IF scoped THEN un ELSE <<>>
           b == <<R(TailChain, acc, Do("ACCEPT"))>>
           c == IF scoped THEN re ELSE <<>>
<1>1. /\ P.sets = (IF deny THEN <<LocalPods(w, f)>> ELSE <<>>) /\ P.chains = {}
      /\ P.rules = a \o b \o c \o ju
  BY DEF TailPlan, Plan, MapSeq, IpSet, LocalPods, Programmed
<1>2. Names(P) = N
  <2>1. LocalPods(w, f).name = LocalPodsSet(f)
    BY DEF LocalPods
  <2> DEFINE x == LocalPods(w, f)
  <2> HIDE DEF P, x
  <2>2. CASE deny
    <3>1. Range(P.sets) = {x}
      BY <2>2, <1>1, Single DEF x
    <3> QED BY <2>1, <2>2, <3>1 DEF Names, x
  <2>3. CASE ~deny
    <3>1. Range(P.sets) = {}
      BY <2>3, <1>1, Empty
    <3> QED BY <2>3, <3>1 DEF Names
  <2> QED BY <2>2, <2>3
<1>3. IsList(sides) /\ IsList(tops) /\ DOMAIN tops = {1, 2, 3} /\ \A i \in DOMAIN tops : tops[i] \in {Input, Forward, Output}
  BY Pair, Triple
<1>4. ASSUME NEW side, deny PROVE IsList(uc(side)) /\ Lookups(uc(side)) \subseteq N
  <2> DEFINE x == Is(side, cidr)
             y == NotInSet(LocalPodsSet(f), side)
  <2>1. IsList(x) /\ Lookups(x) = {} /\ IsList(y) /\ Lookups(y) = {LocalPodsSet(f)}
    BY LookupsOf
  <2> HIDE DEF x, y
  <2>2. IsList(x \o y) /\ Lookups(x \o y) \subseteq N
    BY <2>1, <1>4, LookupsConcat
  <2> QED BY <2>2 DEF x, y
<1>5. Good(a, N, C)
  <2>1. CASE scoped
    <3>1. /\ DOMAIN un = DOMAIN sides /\ un = [i \in DOMAIN sides |-> un[i]]
          /\ \A i \in DOMAIN sides : un[i] = R(TailChain, uc(sides[i]), Do("REJECT"))
      OBVIOUS
    <3> HIDE DEF un, uc, sides, N
    <3>2. \A i \in DOMAIN sides : RuleFacts(un[i], N, C)
      BY <2>1, <3>1, <1>4, TailRule
    <3>3. Good(un, N, C)
      BY <3>1, <3>2, <1>3, GoodMap
    <3> QED BY <3>3, <2>1
  <2>2. CASE ~scoped
    BY <2>2, GoodLists
  <2> QED BY <2>1, <2>2
<1>6. Good(c, N, C)
  <2>1. /\ DOMAIN re = DOMAIN sides /\ re = [i \in DOMAIN sides |-> re[i]]
        /\ \A i \in DOMAIN sides : re[i] = R(TailChain, Is(sides[i], cidr), Do("REJECT"))
    OBVIOUS
  <2> HIDE DEF re, sides, N, cidr
  <2>2. \A i \in DOMAIN sides : RuleFacts(re[i], N, C)
    <3> SUFFICES ASSUME NEW i \in DOMAIN sides PROVE RuleFacts(re[i], N, C)
      OBVIOUS
    <3> DEFINE x == Is(sides[i], cidr)
    <3>1. IsList(x) /\ Lookups(x) \subseteq N
      BY LookupsOf
    <3> HIDE DEF x
    <3>2. RuleFacts(R(TailChain, x, Do("REJECT")), N, C)
      BY <3>1, TailRule
    <3> QED BY <3>2, <2>1 DEF x
  <2>3. Good(re, N, C)
    BY <2>1, <2>2, <1>3, GoodMap
  <2> QED BY <2>3, GoodLists
<1>7. Good(b, N, C)
  <2>1. IsList(acc) /\ Lookups(acc) \subseteq N
    BY LookupsOne
  <2> HIDE DEF acc, N
  <2>2. RuleFacts(R(TailChain, acc, Do("ACCEPT")), N, C)
    BY <2>1, TailRule
  <2> QED BY <2>2, GoodLists
<1>8. Good(ju, N, C)
  <2>1. /\ DOMAIN ju = DOMAIN tops /\ ju = [i \in DOMAIN tops |-> ju[i]]
        /\ \A i \in DOMAIN tops : ju[i] = R(tops[i], <<>>, Jump(TailChain))
    OBVIOUS
  <2> HIDE DEF ju, tops, N
  <2>2. \A i \in DOMAIN tops : RuleFacts(ju[i], N, C)
    <3> SUFFICES ASSUME NEW i \in DOMAIN tops PROVE RuleFacts(ju[i], N, C)
      OBVIOUS
    <3>1. ju[i].chain \in {Input, Forward, Output} /\ ju[i].conds = <<>> /\ ju[i].target.k = "jump" /\ ju[i].target.chain = TailChain
      BY <2>1, <1>3 DEF R, Jump
    <3>2. IsList(<<>>) /\ Lookups(<<>>) = {}
      BY LookupsOf
    <3> QED BY <3>1, <3>2 DEF RuleFacts, Shape
  <2> QED BY <2>1, <2>2, <1>3, GoodMap
<1> HIDE DEF a, b, c, ju, P, N
<1> DEFINE ab == a \o b
<1>9. Good(ab, N, C)
  BY <1>5, <1>7, GoodLists
<1> HIDE DEF ab
<1> DEFINE abc == ab \o c
<1>10. Good(abc, N, C)
  BY <1>9, <1>6, GoodLists
<1> HIDE DEF abc
<1>11. Good(abc \o ju, N, C)
  BY <1>10, <1>8, GoodLists
<1>12. Good(P.rules, Names(P), C)
  BY <1>1, <1>2, <1>11 DEF abc, ab
<1> QED BY <1>1, <1>12 DEF P


Tops == {Input, Forward, Output, Common, Default, TailChain}

\* What the process relies on in a plan: it names no chain and no set that it does not
\* provide, and its rules are of the known shapes.
PlanFacts(P, w, f, deny) ==
    /\ IsPlan(P) /\ Tops \subseteq P.chains
    /\ Good(P.rules, Names(P), P.chains)
    /\ \A s \in Range(P.sets) : s.name[1] \in {"SRC", "DST"} \/ (deny /\ s = LocalPods(w, f))
    /\ deny => LocalPods(w, f) \in Range(P.sets)

LEMMA PolicyPartGood ==
  ASSUME NEW q, NEW N, PolicyPart(q, N), NEW C
  PROVE  Good(q.rules, N, C)
BY DEF PolicyPart, IsPlan, Good, RuleFacts, Shape

LEMMA BuildFacts ==
  ASSUME NEW w, IsView(w), NEW f, NEW deny \in BOOLEAN
  PROVE  PlanFacts(BuildPlan(w, f, deny), w, f, deny)
<1> DEFINE P == BuildPlan(w, f, deny)
           base == Plan(<<>>, Tops, CommonRules \o ServiceReturns(f))
           pols == Filter(w.policies, Applies)
           pods == FirewalledPods(w, f)
           pp == [i \in DOMAIN pols |-> PolicyPlan(pols[i], w, f)]
           qq == [i \in DOMAIN pods |-> PodPlan(pods[i], w, f)]
           tail == TailPlan(w, f, deny)
           all == <<base>> \o pp \o qq \o <<tail>>
           C == P.chains
<1>1. P = Joined(all)
  BY DEF BuildPlan, MapSeq, Tops
<1>2. base.sets = <<>> /\ base.chains = Tops /\ base.rules = CommonRules \o ServiceReturns(f)
  BY DEF Plan
<1>3. IsList(pols) /\ Range(pols) = Applying(w)
  BY ApplyingFacts DEF IsView
<1>4. IsList(pods) /\ Range(pods) \subseteq Range(w.pods)
  BY FirewalledFacts DEF IsView, PortsAreLists
<1>5. DOMAIN pp = DOMAIN pols /\ pp = [i \in DOMAIN pols |-> pp[i]] /\ \A i \in DOMAIN pols : pp[i] = PolicyPlan(pols[i], w, f)
  OBVIOUS
<1>6. DOMAIN qq = DOMAIN pods /\ qq = [i \in DOMAIN pods |-> qq[i]] /\ \A i \in DOMAIN pods : qq[i] = PodPlan(pods[i], w, f)
  OBVIOUS
<1> HIDE DEF P, base, pols, pods, pp, qq, tail
<1>7. IsList(pp) /\ IsList(qq)
  BY <1>3, <1>4, <1>5, <1>6, Mapped
<1>8. IsList(all) /\ Range(all) = {base} \cup Range(pp) \cup Range(qq) \cup {tail}
  <2> DEFINE b1 == <<base>>
             t1 == <<tail>>
             ab == b1 \o pp
             abc == ab \o qq
  <2>1. IsList(b1) /\ Range(b1) = {base} /\ IsList(t1) /\ Range(t1) = {tail}
    BY Single
  <2> HIDE DEF b1, t1
  <2>2. IsList(ab) /\ Range(ab) = {base} \cup Range(pp)
    BY <2>1, <1>7, Concat
  <2> HIDE DEF ab
  <2>3. IsList(abc) /\ Range(abc) = {base} \cup Range(pp) \cup Range(qq)
    BY <2>2, <1>7, Concat
  <2> HIDE DEF abc
  <2>4. IsList(abc \o t1) /\ Range(abc \o t1) = {base} \cup Range(pp) \cup Range(qq) \cup {tail}
    BY <2>1, <2>3, Concat
  <2> QED BY <2>4 DEF abc, ab, t1, b1
<1> HIDE DEF all
<1>9. C = UNION {q.chains : q \in Range(all)}
  BY <1>1 DEF Joined, Plan
<1>10. \A i \in DOMAIN pols : PolicyPart(pp[i], Names(pp[i])) /\ NetworkPolicyChain(pols[i]) \in pp[i].chains
  <2> SUFFICES ASSUME NEW i \in DOMAIN pols
               PROVE  PolicyPart(pp[i], Names(pp[i])) /\ NetworkPolicyChain(pols[i]) \in pp[i].chains
    OBVIOUS
  <2>1. pols[i] \in Applying(w)
    BY <1>3, ListFacts
  <2>2. IsPolicy(pols[i]) /\ PortsAreLists(w.pods)
    BY <2>1 DEF Applying, IsView
  <2> QED BY <2>2, <1>5, PolicyPlanPart
<1>11. Tops \subseteq C
  BY <1>2, <1>8, <1>9
<1>12. \A p \in Applying(w) : NetworkPolicyChain(p) \in C
  <2> SUFFICES ASSUME NEW p \in Applying(w) PROVE NetworkPolicyChain(p) \in C
    OBVIOUS
  <2>1. PICK i \in DOMAIN pols : pols[i] = p
    BY <1>3 DEF Range
  <2>2. pp[i] \in Range(all)
    BY <1>5, <1>8 DEF Range
  <2> QED BY <2>1, <2>2, <1>9, <1>10
<1>13. \A i \in DOMAIN pods : PodFirewallChain(pods[i]) \in C /\ IsList(pods[i].ips)
  <2> SUFFICES ASSUME NEW i \in DOMAIN pods PROVE PodFirewallChain(pods[i]) \in C /\ IsList(pods[i].ips)
    OBVIOUS
  <2>1. qq[i] \in Range(all)
    BY <1>6, <1>8 DEF Range
  <2>2. qq[i].chains = {PodFirewallChain(pods[i])}
    <3>1. \A p : PodPlan(p, w, f).chains = {PodFirewallChain(p)}
      BY DEF PodPlan, Plan
    <3> QED BY <3>1, <1>6
  <2>3. pods[i] \in Range(w.pods)
    BY <1>4, ListFacts
  <2> QED BY <2>1, <2>2, <2>3, <1>9 DEF IsView
<1> HIDE DEF C
<1>14. \A i \in DOMAIN pods : qq[i].sets = <<>> /\ Good(qq[i].rules, {}, C)
  <2> SUFFICES ASSUME NEW i \in DOMAIN pods PROVE qq[i].sets = <<>> /\ Good(qq[i].rules, {}, C)
    OBVIOUS
  <2>1. Reachable(pods[i], w, C)
    BY <1>11, <1>12, <1>13 DEF Reachable, Tops
  <2> QED BY <2>1, <1>6, <1>13, PodPlanGood DEF IsView
<1>15. tail.sets = (IF deny THEN <<LocalPods(w, f)>> ELSE <<>>) /\ Good(tail.rules, Names(tail), C)
  <2>1. TailChain \in C
    BY <1>11 DEF Tops
  <2> QED BY <2>1, TailPlanGood DEF tail
<1>16. Good(base.rules, {}, C)
  <2>1. Good(CommonRules, {}, C) /\ Good(ServiceReturns(f), {}, C)
    BY CommonFacts, ServiceFacts DEF Good
  <2> QED BY <2>1, <1>2, GoodLists
<1>17. \A q \in Range(all) : IsPlan(q) /\ Good(q.rules, Names(q), C)
  <2>1. IsPlan(base) /\ Good(base.rules, Names(base), C)
    BY <1>2, <1>16, Empty DEF IsPlan, Good, RuleFacts
  <2>2. IsPlan(tail) /\ Good(tail.rules, Names(tail), C)
    BY <1>15, Empty, Single DEF IsPlan, Good
  <2>3. \A q \in Range(pp) : IsPlan(q) /\ Good(q.rules, Names(q), C)
    <3> SUFFICES ASSUME NEW q \in Range(pp) PROVE IsPlan(q) /\ Good(q.rules, Names(q), C)
      OBVIOUS
    <3>1. PolicyPart(q, Names(q))
      BY <1>5, <1>10 DEF Range
    <3> QED BY <3>1, PolicyPartGood DEF PolicyPart
  <2>4. \A q \in Range(qq) : IsPlan(q) /\ Good(q.rules, Names(q), C)
    <3> SUFFICES ASSUME NEW q \in Range(qq) PROVE IsPlan(q) /\ Good(q.rules, Names(q), C)
      OBVIOUS
    <3>1. q.sets = <<>> /\ Good(q.rules, {}, C)
      BY <1>6, <1>14 DEF Range
    <3> QED BY <3>1, Empty DEF IsPlan, Good, RuleFacts
  <2> QED BY <2>1, <2>2, <2>3, <2>4, <1>8
<1>18. \A i \in DOMAIN all : all[i] \in Range(all)
  BY <1>8, ListFacts
<1>19. /\ IsPlan(P)
       /\ Range(P.sets) = UNION {Range(all[i].sets) : i \in DOMAIN all}
       /\ Range(P.rules) = UNION {Range(all[i].rules) : i \in DOMAIN all}
       /\ Names(P) = UNION {Names(all[i]) : i \in DOMAIN all}
  BY <1>1, <1>8, <1>17, <1>18, JoinedFacts
<1>20. Good(P.rules, Names(P), C)
  <2>1. IsList(P.rules)
    BY <1>19 DEF IsPlan
  <2>2. ASSUME NEW r \in Range(P.rules) PROVE RuleFacts(r, Names(P), C)
    <3>1. PICK i \in DOMAIN all : r \in Range(all[i].rules)
      BY <1>19
    <3>2. RuleFacts(r, Names(all[i]), C)
      BY <3>1, <1>17, <1>18 DEF Good
    <3>3. Names(all[i]) \subseteq Names(P)
      BY <1>19
    <3> QED BY <3>2, <3>3 DEF RuleFacts
  <2> QED BY <2>1, <2>2 DEF Good
<1>21. ASSUME NEW s \in Range(P.sets) PROVE s.name[1] \in {"SRC", "DST"} \/ (deny /\ s = LocalPods(w, f))
  <2>1. PICK q \in Range(all) : s \in Range(q.sets)
    BY <1>18, <1>19
  <2>2. CASE q = base
    BY <2>1, <2>2, <1>2, Empty
  <2>3. CASE q = tail
    BY <2>1, <2>3, <1>15, Empty, Single
  <2>4. CASE q \in Range(pp)
    <3>1. PolicyPart(q, Names(q))
      BY <2>4, <1>5, <1>10 DEF Range
    <3> QED BY <2>1, <3>1 DEF PolicyPart
  <2>5. CASE q \in Range(qq)
    <3>1. q.sets = <<>>
      BY <2>5, <1>6, <1>14 DEF Range
    <3> QED BY <2>1, <3>1, Empty
  <2> QED BY <1>8, <2>2, <2>3, <2>4, <2>5
<1>22. deny => LocalPods(w, f) \in Range(P.sets)
  <2> SUFFICES ASSUME deny PROVE LocalPods(w, f) \in Range(P.sets)
    OBVIOUS
  <2>1. Range(tail.sets) = {LocalPods(w, f)}
    BY <1>15, Single
  <2>2. PICK i \in DOMAIN all : all[i] = tail
    BY <1>8 DEF Range
  <2> QED BY <2>1, <2>2, <1>19
<1>23. PlanFacts(P, w, f, deny)
  BY <1>11, <1>19, <1>20, <1>21, <1>22 DEF PlanFacts, C
<1> QED BY <1>23 DEF P


\* What the reconcile sees of a world is made of lists, because the world is.
LEMMA SeenIsView ==
  ASSUME NEW w \in DOMAIN World
  PROVE  IsView(Seen[w])
<1> DEFINE W == World[w]
           S == Seen[w]
           rule(r) == [peers |-> MapPeers(r.peers), ports |-> MapPorts(r.ports)]
<1>1. /\ S.policies = [i \in DOMAIN W.policies |-> MapPolicy(W.policies[i])]
      /\ S.pods = [i \in DOMAIN W.pods |-> MapPod(W.pods[i])]
  BY DEF Seen, Snapshot, MapSeq
<1>2. /\ IsList(W.policies) /\ IsList(W.pods)
      /\ \A p \in Range(W.pods) : IsList(p.ips) /\ IsList(p.ports)
      /\ \A np \in Range(W.policies) :
            /\ IsList(np.ingress) /\ IsList(np.egress)
            /\ \A r \in Range(np.ingress) \cup Range(np.egress) : IsList(r.ports)
  BY NpLists
<1> HIDE DEF W, S
<1>3. IsList(S.policies) /\ IsList(S.pods)
  BY <1>1, <1>2, Mapped
<1>4. ASSUME NEW rs, IsList(rs), \A r \in Range(rs) : IsList(r.ports)
      PROVE  LET m == MapSeq(rs, rule) IN IsList(m) /\ \A i \in DOMAIN m : IsList(m[i].ports)
  <2> DEFINE m == [i \in DOMAIN rs |-> rule(rs[i])]
  <2>1. DOMAIN m = DOMAIN rs /\ m = [i \in DOMAIN rs |-> m[i]] /\ \A i \in DOMAIN rs : m[i].ports = MapPorts(rs[i].ports)
    OBVIOUS
  <2>2. \A i \in DOMAIN rs : IsList(rs[i].ports)
    BY <1>4, ListFacts
  <2>3. \A q : IsList(q) => IsList(MapPorts(q))
    <3> SUFFICES ASSUME NEW q, IsList(q) PROVE IsList(MapPorts(q))
      OBVIOUS
    <3> DEFINE t == MapPorts(q)
    <3>1. DOMAIN t = DOMAIN q /\ t = [i \in DOMAIN q |-> t[i]]
      BY DEF MapPorts, MapSeq
    <3> HIDE DEF t
    <3>2. IsList(t)
      BY <3>1, Mapped
    <3> QED BY <3>2 DEF t
  <2> HIDE DEF m
  <2>4. IsList(m) /\ \A i \in DOMAIN m : IsList(m[i].ports)
    BY <1>4, <2>1, <2>2, <2>3, Mapped
  <2> QED BY <2>4 DEF m, MapSeq
<1>5. ASSUME NEW pol \in Range(S.policies) PROVE IsPolicy(pol)
  <2>1. PICK i \in DOMAIN W.policies : pol = MapPolicy(W.policies[i])
    BY <1>1 DEF Range
  <2> DEFINE np == W.policies[i]
  <2>2. np \in Range(W.policies)
    BY <1>2, ListFacts
  <2> HIDE DEF np
  <2>3. pol.rules["Ingress"] = MapSeq(np.ingress, rule) /\ pol.rules["Egress"] = MapSeq(np.egress, rule)
    BY <2>1 DEF MapPolicy, np
  <2> HIDE DEF rule
  <2>4. /\ LET m == MapSeq(np.ingress, rule) IN IsList(m) /\ \A j \in DOMAIN m : IsList(m[j].ports)
        /\ LET m == MapSeq(np.egress, rule) IN IsList(m) /\ \A j \in DOMAIN m : IsList(m[j].ports)
    BY <2>2, <1>2, <1>4
  <2> QED BY <2>3, <2>4 DEF IsPolicy
<1>6. ASSUME NEW p \in Range(S.pods) PROVE IsList(p.ips) /\ IsList(p.ports)
  <2>1. PICK i \in DOMAIN W.pods : p = MapPod(W.pods[i])
    BY <1>1 DEF Range
  <2> DEFINE q == W.pods[i]
             t == p.ports
  <2>2. q \in Range(W.pods)
    BY <1>2, ListFacts
  <2> HIDE DEF q
  <2>3. p.ips = q.ips
    BY <2>1 DEF MapPod, q
  <2>4. DOMAIN t = DOMAIN q.ports /\ t = [j \in DOMAIN q.ports |-> t[j]]
    BY <2>1 DEF MapPod, q, MapSeq
  <2> HIDE DEF t
  <2>5. IsList(t)
    BY <2>2, <2>4, <1>2, Mapped
  <2> QED BY <2>2, <2>3, <2>5, <1>2 DEF t
<1> QED BY <1>3, <1>5, <1>6 DEF IsView, PortsAreLists, S


LEMMA PlansFacts ==
  ASSUME NEW w \in DOMAIN World, NEW f \in Family, NEW d \in BOOLEAN
  PROVE  PlanFacts(Plans[w][f][d], Seen[w], f, d)
<1>1. Plans[w][f][d] = BuildPlan(Seen[w], f, d)
  BY DEF Plans
<1> QED BY <1>1, SeenIsView, BuildFacts

----------------------------------------------------------------------------
(* The chains that a document leaves *)

LEMMA DocFacts ==
  ASSUME NEW chains, NEW plan, IsList(plan.rules)
  PROVE  LET D == FilterRestoreDoc(chains, plan)
         IN  /\ DOMAIN D = DOMAIN chains \cup plan.chains
             /\ \A c \in plan.chains : IsList(D[c]) /\ Range(D[c]) = {r \in Range(plan.rules) : r.chain = c}
             /\ \A c \in DOMAIN chains \ plan.chains : D[c] = chains[c]
<1> DEFINE D == FilterRestoreDoc(chains, plan)
           s == plan.rules
           kept(c) == FlattenSeq([i \in DOMAIN s |-> IF s[i].chain = c THEN <<s[i]>> ELSE <<>>])
<1>1. D = [c \in DOMAIN chains \cup plan.chains |-> IF c \in plan.chains THEN kept(c) ELSE chains[c]]
  BY DEF FilterRestoreDoc, Filter
<1>2. ASSUME NEW c PROVE IsList(kept(c)) /\ Range(kept(c)) = {r \in Range(s) : r.chain = c}
  <2> DEFINE Q == {r \in Range(s) : r.chain = c}
             k2 == FlattenSeq([i \in DOMAIN s |-> IF s[i] \in Q THEN <<s[i]>> ELSE <<>>])
  <2>1. \A i \in DOMAIN s : s[i] \in Range(s)
    BY ListFacts
  <2>2. [i \in DOMAIN s |-> IF s[i] \in Q THEN <<s[i]>> ELSE <<>>] = [i \in DOMAIN s |-> IF s[i].chain = c THEN <<s[i]>> ELSE <<>>]
    BY <2>1, Zenon
  <2>3. kept(c) = k2
    BY <2>2
  <2>4. IsList(k2) /\ Range(k2) = Range(s) \cap Q
    BY Kept
  <2> HIDE DEF kept, k2
  <2> QED BY <2>3, <2>4
<1> HIDE DEF kept, D
<1>3. /\ DOMAIN D = DOMAIN chains \cup plan.chains
      /\ \A c \in plan.chains : D[c] = kept(c)
      /\ \A c \in DOMAIN chains \ plan.chains : D[c] = chains[c]
  BY <1>1
<1> QED BY <1>2, <1>3 DEF D

LEMMA DocIncludes ==
  ASSUME NEW g, NEW h, Includes(g, h), NEW plan
  PROVE  Includes(FilterRestoreDoc(g, plan), FilterRestoreDoc(h, plan))
BY DEF Includes, FilterRestoreDoc

LEMMA DocHolds ==
  ASSUME NEW g, NEW plan
  PROVE  Includes(FilterRestoreDoc(g, plan), FilterRestoreDoc(<<>>, plan))
<1>1. Includes(g, <<>>)
  <2>1. DOMAIN <<>> = {}
    OBVIOUS
  <2> QED BY <2>1 DEF Includes
<1> QED BY <1>1, DocIncludes

LEMMA DocClosed ==
  ASSUME NEW chains, NEW sets, Closed(chains, sets), NEW plan, IsPlan(plan),
         Good(plan.rules, Names(plan), plan.chains), Names(plan) \subseteq DOMAIN sets
  PROVE  Closed(FilterRestoreDoc(chains, plan), sets)
<1> DEFINE D == FilterRestoreDoc(chains, plan)
<1>1. /\ DOMAIN D = DOMAIN chains \cup plan.chains
      /\ \A c \in plan.chains : IsList(D[c]) /\ Range(D[c]) = {r \in Range(plan.rules) : r.chain = c}
      /\ \A c \in DOMAIN chains \ plan.chains : D[c] = chains[c]
  BY DocFacts DEF IsPlan
<1> HIDE DEF D
<1>2. ASSUME NEW c \in plan.chains, NEW r \in Range(D[c])
      PROVE  /\ r.target.k = "jump" => r.target.chain \in DOMAIN D
             /\ \A j \in DOMAIN r.conds : r.conds[j].k = "set" => r.conds[j].set \in DOMAIN sets
  <2>1. RuleFacts(r, Names(plan), plan.chains)
    BY <1>1, <1>2 DEF Good
  <2>2. ASSUME NEW j \in DOMAIN r.conds, r.conds[j].k = "set" PROVE r.conds[j].set \in DOMAIN sets
    <3>1. r.conds[j] \in Range(r.conds)
      BY <2>1, ListFacts DEF RuleFacts
    <3>2. r.conds[j].set \in Lookups(r.conds)
      BY <2>2, <3>1 DEF Lookups
    <3> QED BY <2>1, <3>2 DEF RuleFacts
  <2> QED BY <2>1, <2>2, <1>1 DEF RuleFacts
<1>3. ASSUME NEW c \in DOMAIN chains \ plan.chains
      PROVE  /\ IsList(D[c])
             /\ \A r \in Range(D[c]) :
                   /\ r.target.k = "jump" => r.target.chain \in DOMAIN D
                   /\ \A j \in DOMAIN r.conds : r.conds[j].k = "set" => r.conds[j].set \in DOMAIN sets
  BY <1>1 DEF Closed
<1>4. Closed(D, sets)
  BY <1>1, <1>2, <1>3 DEF Closed
<1> QED BY <1>4 DEF D

----------------------------------------------------------------------------
(* The sets that some writes leave *)

LEMMA LastWrite ==
  ASSUME NEW n \in Nat, NEW writes, NEW k, \E j \in 1..n : writes[j].name = k
  PROVE  \E j \in 1..n : writes[j].name = k /\ \A m \in 1..n : writes[m].name = k => m <= j
<1> DEFINE T == {n - j : j \in {i \in 1..n : writes[i].name = k}}
<1>1. T \in SUBSET Nat /\ T # {}
  OBVIOUS
<1>2. PICK t \in T : \A m \in T : t <= m
  BY <1>1, Least
<1>3. PICK j \in {i \in 1..n : writes[i].name = k} : t = n - j
  OBVIOUS
<1>4. ASSUME NEW m \in 1..n, writes[m].name = k PROVE m <= j
  <2>1. n - m \in T
    BY <1>4
  <2>2. n - j <= n - m
    BY <2>1, <1>2, <1>3
  <2> QED BY <2>2
<1> QED BY <1>3, <1>4

\* The value of a set that is written is that of the last write of its name.
LEMMA WrittenAt ==
  ASSUME NEW sets, NEW writes, NEW n \in Nat, NEW j \in 1..n, \A m \in 1..n : writes[m].name = writes[j].name => m <= j
  PROVE  Written(sets, writes, n)[writes[j].name] = Filled(writes[j])
<1> DEFINE k == writes[j].name
           S == Written(sets, writes, n)
           names == {writes[i].name : i \in 1..n}
           IsLast(i) == writes[i].name = k /\ \A m \in 1..n : writes[m].name = k => m <= i
           last == CHOOSE i \in 1..n : IsLast(i)
<1>1. k \in names
  OBVIOUS
<1>2. S[k] = Filled(writes[last])
  BY <1>1 DEF Written
<1>3. last \in 1..n /\ IsLast(last)
  <2>1. j \in 1..n /\ IsLast(j)
    OBVIOUS
  <2> HIDE DEF IsLast
  <2> QED BY <2>1
<1> HIDE DEF last
<1>4. last = j
  BY <1>3
<1> QED BY <1>2, <1>4

\* The names of the sets that the first n writes give.
WrittenNames(writes, n) == {writes[j].name : j \in 1..n}

LEMMA WrittenDomain ==
  ASSUME NEW sets, NEW writes, NEW n \in Nat
  PROVE  /\ DOMAIN Written(sets, writes, n) = DOMAIN sets \cup WrittenNames(writes, n)
         /\ \A k \in DOMAIN sets : k \notin WrittenNames(writes, n) => Written(sets, writes, n)[k] = sets[k]
<1> DEFINE names == {writes[i].name : i \in 1..n}
<1>0. WrittenNames(writes, n) = names
  BY DEF WrittenNames
<1>1. DOMAIN Written(sets, writes, n) = DOMAIN sets \cup names
  BY DEF Written
<1>2. ASSUME NEW k \in DOMAIN sets, k \notin names PROVE Written(sets, writes, n)[k] = sets[k]
  BY <1>2 DEF Written
<1> HIDE DEF names
<1> QED BY <1>0, <1>1, <1>2

LEMMA WrittenKeeps ==
  ASSUME NEW sets, NEW writes, NEW n \in Nat
  PROVE  DOMAIN sets \subseteq DOMAIN Written(sets, writes, n)
<1>1. DOMAIN Written(sets, writes, n) = DOMAIN sets \cup WrittenNames(writes, n)
  BY WrittenDomain
<1> QED BY <1>1

LEMMA PutWritten ==
  ASSUME NEW kernel, NEW sets, NEW writes, NEW n \in Nat, Includes(kernel, Written(sets, writes, n))
  PROVE  Includes(Put(kernel, writes[n + 1].name, Filled(writes[n + 1])), Written(sets, writes, n + 1))
<1> DEFINE x == writes[n + 1].name
           new == Put(kernel, x, Filled(writes[n + 1]))
           S == Written(sets, writes, n)
           T == Written(sets, writes, n + 1)
<1>1. DOMAIN new = DOMAIN kernel \cup {x} /\ new[x] = Filled(writes[n + 1]) /\ \A y \in DOMAIN kernel \ {x} : new[y] = kernel[y]
  BY DEF Put
<1>2. DOMAIN S = DOMAIN sets \cup {writes[j].name : j \in 1..n}
  BY WrittenDomain DEF WrittenNames
<1>3. n + 1 \in Nat /\ 1..(n + 1) = (1..n) \cup {n + 1}
  OBVIOUS
<1>4. /\ DOMAIN T = DOMAIN sets \cup {writes[j].name : j \in 1..(n + 1)}
      /\ \A k \in DOMAIN sets : (\A j \in 1..(n + 1) : writes[j].name # k) => T[k] = sets[k]
  <2> DEFINE q == n + 1
  <2>1. q \in Nat
    BY <1>3
  <2> HIDE DEF q
  <2>2. /\ DOMAIN Written(sets, writes, q) = DOMAIN sets \cup WrittenNames(writes, q)
        /\ \A k \in DOMAIN sets : k \notin WrittenNames(writes, q) => Written(sets, writes, q)[k] = sets[k]
    BY <2>1, WrittenDomain
  <2> QED BY <2>2 DEF q, WrittenNames
<1> HIDE DEF new
<1>5. T[x] = Filled(writes[n + 1])
  <2>1. n + 1 \in 1..(n + 1) /\ \A m \in 1..(n + 1) : m <= n + 1
    OBVIOUS
  <2> QED BY <2>1, <1>3, WrittenAt
<1>6. ASSUME NEW y \in DOMAIN T, y # x PROVE y \in DOMAIN S /\ T[y] = S[y]
  <2>1. y \in DOMAIN S
    BY <1>2, <1>3, <1>4, <1>6
  <2>2. CASE \E j \in 1..n : writes[j].name = y
    <3>1. PICK j \in 1..n : writes[j].name = y /\ \A m \in 1..n : writes[m].name = y => m <= j
      BY <2>2, LastWrite
    <3>2. S[y] = Filled(writes[j])
      BY <3>1, WrittenAt
    <3>3. j \in 1..(n + 1) /\ \A m \in 1..(n + 1) : writes[m].name = writes[j].name => m <= j
      BY <3>1, <1>3, <1>6
    <3>4. T[writes[j].name] = Filled(writes[j])
      BY <3>3, <1>3, WrittenAt
    <3> QED BY <2>1, <3>1, <3>2, <3>4
  <2>3. CASE \A j \in 1..n : writes[j].name # y
    <3>1. \A j \in 1..(n + 1) : writes[j].name # y
      BY <2>3, <1>3, <1>6
    <3>2. y \in DOMAIN sets
      BY <3>1, <1>4
    <3>3. S[y] = sets[y]
      BY <2>3, <3>2, WrittenDomain DEF WrittenNames
    <3> QED BY <2>1, <3>1, <3>2, <3>3, <1>4
  <2> QED BY <2>2, <2>3
<1> HIDE DEF S, T
<1>7. Includes(new, T)
  <2> SUFFICES ASSUME NEW y \in DOMAIN T PROVE y \in DOMAIN new /\ new[y] = T[y]
    BY DEF Includes
  <2>1. CASE y = x
    BY <2>1, <1>1, <1>5
  <2>2. CASE y # x
    BY <2>2, <1>1, <1>6 DEF Includes, S
  <2> QED BY <2>1, <2>2
<1> QED BY <1>7 DEF new, T, x

LEMMA WrittenNone ==
  ASSUME NEW kernel, NEW sets, Includes(kernel, sets), NEW writes
  PROVE  Includes(kernel, Written(sets, writes, 0))
<1>1. /\ DOMAIN Written(sets, writes, 0) = DOMAIN sets \cup {writes[j].name : j \in 1..0}
      /\ \A k \in DOMAIN sets : (\A j \in 1..0 : writes[j].name # k) => Written(sets, writes, 0)[k] = sets[k]
  <2> DEFINE q == 0
  <2>1. q \in Nat
    OBVIOUS
  <2> HIDE DEF q
  <2>2. /\ DOMAIN Written(sets, writes, q) = DOMAIN sets \cup WrittenNames(writes, q)
        /\ \A k \in DOMAIN sets : k \notin WrittenNames(writes, q) => Written(sets, writes, q)[k] = sets[k]
    BY <2>1, WrittenDomain
  <2> QED BY <2>2 DEF q, WrittenNames
<1>2. 1..0 = {}
  OBVIOUS
<1> QED BY <1>1, <1>2 DEF Includes


\* The writes of a family are a list.
LEMMA WritesFacts ==
  ASSUME NEW w \in DOMAIN World, NEW d \in BOOLEAN, NEW f \in Family
  PROVE  IsList(SetWrites(w, d, f)) /\ Len(SetWrites(w, d, f)) \in Nat
<1>1. IsList(SetWrites(w, d, f))
  BY PlansFacts DEF PlanFacts, IsPlan, SetWrites
<1> QED BY <1>1, ListFacts

\* The names of a family's sets are written once its last set is.
LEMMA NamesWritten ==
  ASSUME NEW w \in DOMAIN World, NEW d \in BOOLEAN, NEW f \in Family, NEW sets
  PROVE  Names(Plans[w][f][d]) \subseteq DOMAIN Written(sets, SetWrites(w, d, f), Len(SetWrites(w, d, f)))
<1> DEFINE all == SetWrites(w, d, f)
           n == Len(all)
<1>1. IsList(all) /\ n \in Nat
  BY WritesFacts
<1>2. all = Plans[w][f][d].sets
  BY DEF SetWrites
<1> HIDE DEF all
<1>3. DOMAIN Written(sets, all, n) = DOMAIN sets \cup {all[j].name : j \in 1..n}
  BY <1>1, WrittenDomain DEF WrittenNames
<1> DEFINE W == Written(sets, all, n)
<1> HIDE DEF W
<1>4. ASSUME NEW x \in Range(all) PROVE x.name \in DOMAIN W
  <2>1. PICK j \in 1..n : x = all[j]
    BY <1>1, ListFacts DEF Range
  <2> QED BY <2>1, <1>3 DEF W
<1>5. Names(Plans[w][f][d]) \subseteq DOMAIN W
  BY <1>2, <1>4 DEF Names
<1> QED BY <1>5 DEF W, all

LEMMA ImageClosed ==
  ASSUME NEW w \in DOMAIN World, NEW d \in BOOLEAN, NEW f \in Family, NEW sets, Names(Plans[w][f][d]) \subseteq DOMAIN sets
  PROVE  Closed(ChainsLeft(w, d, f), sets) /\ Range(Builtins) \subseteq DOMAIN ChainsLeft(w, d, f)
<1> DEFINE P == Plans[w][f][d]
<1>1. PlanFacts(P, Seen[w], f, d)
  BY PlansFacts
<1>2. Closed(<<>>, sets)
  <2>1. DOMAIN <<>> = {}
    OBVIOUS
  <2> QED BY <2>1 DEF Closed
<1> HIDE DEF P
<1>3. Closed(FilterRestoreDoc(<<>>, P), sets)
  BY <1>1, <1>2, DocClosed DEF PlanFacts, P
<1>4. DOMAIN FilterRestoreDoc(<<>>, P) = DOMAIN <<>> \cup P.chains
  BY <1>1, DocFacts DEF PlanFacts, IsPlan
<1>5. Range(Builtins) \subseteq Tops
  BY Triple DEF Builtins, Tops
<1> QED BY <1>1, <1>3, <1>4, <1>5 DEF ChainsLeft, P, PlanFacts

LEMMA SetsLeftFacts ==
  ASSUME NEW w \in DOMAIN World, NEW d \in BOOLEAN, NEW f \in Family
  PROVE  Names(Plans[w][f][d]) \subseteq DOMAIN SetsLeft(w, d, f)
<1>1. SetsLeft(w, d, f) = Written(<<>>, SetWrites(w, d, f), Len(SetWrites(w, d, f)))
  BY DEF SetsLeft
<1> QED BY <1>1, NamesWritten

LEMMA SetsWrittenFacts ==
  ASSUME NEW w \in DOMAIN World, NEW d \in BOOLEAN, NEW f \in Family,
         NEW step \in 1..(Len(SetWrites(w, d, f)) + 4)
  PROVE  LET n == SetsWritten(w, d, f, step)
         IN  /\ n \in Nat /\ n <= Len(SetWrites(w, d, f))
             /\ Restored(w, d, f, step) => n = Len(SetWrites(w, d, f))
<1> DEFINE m == Len(SetWrites(w, d, f))
           n == SetsWritten(w, d, f, step)
<1>1. m \in Nat /\ step \in 1..(m + 4)
  BY WritesFacts
<1>2. n = IF step <= m THEN step - 1 ELSE m
  BY DEF SetsWritten
<1>3. Restored(w, d, f, step) <=> step > m + 1
  BY DEF Restored
<1> HIDE DEF m, n
<1>4. n \in Nat /\ n <= m /\ (Restored(w, d, f, step) => n = m)
  BY <1>1, <1>2, <1>3
<1> QED BY <1>4 DEF m, n

LEMMA MixtureClosed ==
  ASSUME NEW v \in DOMAIN World, NEW w \in DOMAIN World, NEW d \in BOOLEAN, NEW f \in Family,
         NEW step \in 1..(Len(SetWrites(w, d, f)) + 4)
  PROVE  /\ Closed(ChainsAt(v, w, d, f, step), SetsAt(v, w, d, f, step))
         /\ Range(Builtins) \subseteq DOMAIN ChainsAt(v, w, d, f, step)
<1> DEFINE P == Plans[w][f][d]
           n == SetsWritten(w, d, f, step)
           S == SetsAt(v, w, d, f, step)
           C == ChainsLeft(v, d, f)
<1>1. /\ n \in Nat /\ n <= Len(SetWrites(w, d, f))
      /\ Restored(w, d, f, step) => n = Len(SetWrites(w, d, f))
  BY SetsWrittenFacts
<1> HIDE DEF n
<1>2. DOMAIN SetsLeft(v, d, f) \subseteq DOMAIN S
  <2>1. DOMAIN SetsLeft(v, d, f) \subseteq DOMAIN Written(SetsLeft(v, d, f), SetWrites(w, d, f), n)
    BY <1>1, WrittenKeeps
  <2> QED BY <2>1 DEF SetsAt, n
<1>3. Names(Plans[v][f][d]) \subseteq DOMAIN S
  BY <1>2, SetsLeftFacts
<1>4. ASSUME Restored(w, d, f, step) PROVE Names(P) \subseteq DOMAIN S
  <2>1. S = Written(SetsLeft(v, d, f), SetWrites(w, d, f), Len(SetWrites(w, d, f)))
    BY <1>1, <1>4 DEF SetsAt, n
  <2> HIDE DEF S
  <2> QED BY <2>1, NamesWritten
<1> HIDE DEF S
<1>5. Closed(C, S) /\ Range(Builtins) \subseteq DOMAIN C
  BY <1>3, ImageClosed
<1>6. PlanFacts(P, Seen[w], f, d)
  BY PlansFacts
<1> HIDE DEF P, C
<1>7. CASE Restored(w, d, f, step)
  <2>1. ChainsAt(v, w, d, f, step) = FilterRestoreDoc(C, P)
    BY <1>7 DEF ChainsAt, C, P
  <2>2. Closed(FilterRestoreDoc(C, P), S)
    BY <1>4, <1>5, <1>6, <1>7, DocClosed DEF PlanFacts
  <2>3. DOMAIN FilterRestoreDoc(C, P) = DOMAIN C \cup P.chains
    BY <1>6, DocFacts DEF PlanFacts, IsPlan
  <2> QED BY <2>1, <2>2, <2>3, <1>5 DEF S
<1>8. CASE ~Restored(w, d, f, step)
  BY <1>5, <1>8 DEF ChainsAt, C, S
<1> QED BY <1>7, <1>8

\* Before its first command a pass has written nothing.
LEMMA NothingWritten ==
  ASSUME NEW w \in DOMAIN World, NEW d \in BOOLEAN, NEW f \in Family
  PROVE  SetsWritten(w, d, f, 1) = 0 /\ ~Restored(w, d, f, 1)
<1> DEFINE m == Len(SetWrites(w, d, f))
<1>1. m \in Nat
  BY WritesFacts
<1>2. /\ SetsWritten(w, d, f, 1) = IF 1 <= m THEN 1 - 1 ELSE m
      /\ Restored(w, d, f, 1) <=> 1 > m + 1
  BY DEF SetsWritten, Restored
<1> HIDE DEF m
<1> QED BY <1>1, <1>2

LEMMA MixtureBegins ==
  ASSUME NEW v \in DOMAIN World, NEW w \in DOMAIN World, NEW d \in BOOLEAN, NEW f \in Family, NEW sets, NEW chains,
         Includes(sets, SetsLeft(v, d, f)), Includes(chains, ChainsLeft(v, d, f))
  PROVE  Includes(sets, SetsAt(v, w, d, f, 1)) /\ Includes(chains, ChainsAt(v, w, d, f, 1))
<1>1. SetsWritten(w, d, f, 1) = 0 /\ ~Restored(w, d, f, 1)
  BY NothingWritten
<1>2. Includes(sets, SetsAt(v, w, d, f, 1))
  BY <1>1, WrittenNone DEF SetsAt
<1>3. Includes(chains, ChainsAt(v, w, d, f, 1))
  BY <1>1 DEF ChainsAt
<1> QED BY <1>2, <1>3


----------------------------------------------------------------------------
(* The invariant of the process *)

PassFields == {"on", "world", "fam", "plan", "step", "drift"}

NpTypes ==
    /\ npStore \in DOMAIN World /\ npDeny \in BOOLEAN /\ npFams \in FamilyLists
    /\ npBase \in [Family -> DOMAIN World \cup {NoWorld}]
    /\ DOMAIN npPass = PassFields /\ npPass.on \in BOOLEAN
    /\ npPass.on => /\ npPass.world \in DOMAIN World /\ npPass.fam \in DOMAIN npFams /\ npPass.drift \in BOOLEAN
                    /\ npPass.plan = Plans[npPass.world][F][npDeny]
                    /\ npPass.step \in 1..(NSets + 4)
    /\ DOMAIN npSets = Family /\ DOMAIN npChains = Family /\ npJumps \in [Family -> SUBSET Range(Builtins)]

\* Whatever was in the kernel before, what the running pass has written of its family is there.
PassWritten ==
    LET w == npPass.world
        step == npPass.step
    IN  npPass.on =>
            /\ Includes(npSets[F], Written(<<>>, SetWrites(w, npDeny, F), SetsWritten(w, npDeny, F, step)))
            /\ Restored(w, npDeny, F, step) => Includes(npChains[F], ChainsLeft(w, npDeny, F))
            /\ ~npPass.drift => \A j \in 1..3 : step > NSets + 1 + j => Builtins[j] \in npJumps[F]

\* Of a family that is not being rewritten the kernel has all that the last pass over it
\* wrote, of the one that is, the mixture that the commands of the pass have made of it.
BaseKeptIn(f) ==
    LET v == npBase[f]
        w == npPass.world
        step == npPass.step
    IN  v # NoWorld =>
            /\ npJumps[f] = Range(Builtins)
            /\ ~Rewriting(f) => /\ Includes(npSets[f], SetsLeft(v, npDeny, f))
                                /\ Includes(npChains[f], ChainsLeft(v, npDeny, f))
            /\ Rewriting(f) => /\ ~npPass.drift
                               /\ Includes(npSets[f], SetsAt(v, w, npDeny, f, step))
                               /\ Includes(npChains[f], ChainsAt(v, w, npDeny, f, step))
BaseKept == \A f \in Family : BaseKeptIn(f)

KernelInv == NpTypes /\ PassWritten /\ BaseKept

LEMMA FamiliesFacts ==
  ASSUME npFams \in FamilyLists
  PROVE  /\ Len(npFams) \in Nat /\ DOMAIN npFams = 1..Len(npFams) /\ 1 \in DOMAIN npFams
         /\ \A i \in DOMAIN npFams : npFams[i] \in Family
         /\ \A i, j \in DOMAIN npFams : npFams[i] = npFams[j] => i = j
<1>1. CASE npFams = <<4>>
  BY <1>1 DEF Family
<1>2. CASE npFams = <<6>>
  BY <1>2 DEF Family
<1>3. CASE npFams = <<4, 6>>
  <2>1. Len(npFams) = 2 /\ DOMAIN npFams = {1, 2} /\ npFams[1] = 4 /\ npFams[2] = 6
    BY <1>3
  <2>2. 1..2 = {1, 2}
    OBVIOUS
  <2> QED BY <2>1, <2>2 DEF Family
<1> QED BY <1>1, <1>2, <1>3 DEF FamilyLists

LEMMA BuiltinsFacts ==
  /\ Len(Builtins) = 3 /\ Range(Builtins) = {Builtins[1], Builtins[2], Builtins[3]}
  /\ \A j \in 1..3 : Builtins[j] \in Range(Builtins)
<1> DEFINE b == Builtins
<1>1. Len(b) = 3 /\ DOMAIN b = {1, 2, 3} /\ Range(b) = {Input, Forward, Output} /\ b[1] = Input /\ b[2] = Forward /\ b[3] = Output
  BY Triple DEF Builtins
<1>2. 1..3 = {1, 2, 3}
  OBVIOUS
<1> QED BY <1>1, <1>2

\* The pass that is running, and the number of its sets.
LEMMA PassFacts ==
  ASSUME NpTypes, npPass.on
  PROVE  /\ npPass.world \in DOMAIN World /\ npPass.fam \in DOMAIN npFams /\ F = npFams[npPass.fam] /\ F \in Family
         /\ Current = Plans[npPass.world][F][npDeny] /\ Current.sets = SetWrites(npPass.world, npDeny, F)
         /\ NSets = Len(SetWrites(npPass.world, npDeny, F))
         /\ NSets \in Nat /\ npPass.step \in 1..(NSets + 4)
         /\ PlanFacts(Current, Seen[npPass.world], F, npDeny)
<1>1. npPass.world \in DOMAIN World /\ npPass.fam \in DOMAIN npFams /\ npDeny \in BOOLEAN /\ npPass.step \in 1..(NSets + 4)
      /\ npPass.plan = Plans[npPass.world][F][npDeny] /\ npFams \in FamilyLists
  BY DEF NpTypes
<1>2. F = npFams[npPass.fam] /\ F \in Family
  BY <1>1, FamiliesFacts DEF F
<1>3. PlanFacts(Current, Seen[npPass.world], F, npDeny)
  BY <1>1, <1>2, PlansFacts DEF Current
<1>4. NSets \in Nat
  BY <1>3, ListFacts DEF NSets, PlanFacts, IsPlan
<1> QED BY <1>1, <1>2, <1>3, <1>4 DEF Current, NSets, SetWrites

\* A pass comes to family i: it has written nothing of it, and what is there is untouched.
LEMMA FamilyBegins ==
  ASSUME NEW w \in DOMAIN World, NEW i \in DOMAIN npFams, NpTypes,
         npPass'.on = TRUE, npPass'.world = w, npPass'.fam = i, npPass'.step = 1, npPass'.drift = FALSE,
         npPass'.plan = Plans[w][npFams[i]][npDeny], DOMAIN npPass' = PassFields,
         npStore' = npStore, npDeny' = npDeny, npFams' = npFams, npSets' = npSets, npChains' = npChains,
         npBase' \in [Family -> DOMAIN World \cup {NoWorld}], npJumps' \in [Family -> SUBSET Range(Builtins)]
  PROVE  /\ NpTypes' /\ PassWritten' /\ F' = npFams[i] /\ npFams[i] \in Family
         /\ \A f \in Family : Rewriting(f)' <=> f = npFams[i]
<1> DEFINE g == npFams[i]
           d == npDeny
           n == Len(SetWrites(w, d, g))
<1>1. d \in BOOLEAN /\ npFams \in FamilyLists /\ npStore \in DOMAIN World
  BY DEF NpTypes
<1>2. g \in Family
  BY <1>1, FamiliesFacts
<1>3. F' = g
  BY DEF F
<1>4. NSets' = n
  BY DEF NSets, Current, SetWrites
<1>5. n \in Nat
  BY <1>1, <1>2, WritesFacts
<1>6. 1 \in 1..(n + 4) /\ \A j \in 1..3 : ~(1 > n + 1 + j)
  <2> HIDE DEF n
  <2> QED BY <1>5
<1> HIDE DEF n
<1>7. NpTypes'
  <2>1. npPass'.step \in 1..(NSets' + 4)
    BY <1>4, <1>6
  <2>2. npPass'.plan = Plans[npPass'.world][F'][npDeny']
    BY <1>3
  <2> QED BY <2>1, <2>2, <1>1 DEF NpTypes
<1>8. SetsWritten(w, d, g, 1) = 0 /\ ~Restored(w, d, g, 1)
  BY <1>1, <1>2, NothingWritten
<1>9. Includes(npSets[g], Written(<<>>, SetWrites(w, d, g), 0))
  <2>1. DOMAIN <<>> = {}
    OBVIOUS
  <2>2. Includes(npSets[g], <<>>)
    BY <2>1 DEF Includes
  <2> QED BY <2>2, WrittenNone
<1>10. PassWritten'
  <2> HIDE DEF g
  <2> QED BY <1>3, <1>4, <1>6, <1>8, <1>9 DEF PassWritten
<1>11. \A f \in Family : Rewriting(f)' <=> f = g
  BY <1>3 DEF Rewriting
<1> QED BY <1>2, <1>3, <1>7, <1>10, <1>11

\* A family that the step leaves alone and that is not being rewritten before or after it.
LEMMA BaseAlone ==
  ASSUME NEW f \in Family, BaseKeptIn(f), ~Rewriting(f), ~Rewriting(f)', npDeny' = npDeny,
         npBase'[f] = npBase[f], npJumps'[f] = npJumps[f], npSets'[f] = npSets[f], npChains'[f] = npChains[f]
  PROVE  BaseKeptIn(f)'
BY DEF BaseKeptIn

\* One that the pass comes to.
LEMMA BaseBegins ==
  ASSUME NEW f \in Family, BaseKeptIn(f), ~Rewriting(f), Rewriting(f)', npDeny \in BOOLEAN, npDeny' = npDeny,
         npBase[f] \in DOMAIN World \cup {NoWorld},
         npPass'.world \in DOMAIN World, npPass'.step = 1, npPass'.drift = FALSE,
         npBase'[f] = npBase[f], npJumps'[f] = npJumps[f], npSets'[f] = npSets[f], npChains'[f] = npChains[f]
  PROVE  BaseKeptIn(f)'
<1> DEFINE v == npBase[f]
           w == npPass'.world
<1> SUFFICES ASSUME v # NoWorld PROVE BaseKeptIn(f)'
  BY DEF BaseKeptIn
<1>1. v \in DOMAIN World
  OBVIOUS
<1>2. npJumps[f] = Range(Builtins) /\ Includes(npSets[f], SetsLeft(v, npDeny, f)) /\ Includes(npChains[f], ChainsLeft(v, npDeny, f))
  BY DEF BaseKeptIn
<1>3. Includes(npSets[f], SetsAt(v, w, npDeny, f, 1)) /\ Includes(npChains[f], ChainsAt(v, w, npDeny, f, 1))
  BY <1>1, <1>2, MixtureBegins
<1> QED BY <1>2, <1>3 DEF BaseKeptIn

LEMMA IdleFacts == DOMAIN IdlePass = PassFields /\ IdlePass.on = FALSE /\ IdlePass.drift = FALSE /\ IdlePass.fam = 1
BY DEF IdlePass, PassFields

LEMMA TypesInit == NpInit => NpTypes
BY IdleFacts DEF NpInit, NpTypes

\* What the step of a command does to the pass.
LEMMA NextCommandFacts ==
  ASSUME NpTypes, npPass.on, NextCommand, npFams' = npFams, npDeny' = npDeny
  PROVE  /\ npPass'.on /\ npPass'.world = npPass.world /\ npPass'.fam = npPass.fam /\ npPass'.plan = npPass.plan
         /\ npPass'.drift = npPass.drift /\ npPass'.step = npPass.step + 1
         /\ DOMAIN npPass' = PassFields
         /\ F' = F /\ NSets' = NSets /\ \A f : Rewriting(f)' <=> Rewriting(f)
<1>1. /\ npPass'.on /\ npPass'.world = npPass.world /\ npPass'.fam = npPass.fam /\ npPass'.plan = npPass.plan
      /\ npPass'.drift = npPass.drift /\ npPass'.step = npPass.step + 1
      /\ DOMAIN npPass' = PassFields
  BY DEF NextCommand, NpTypes, PassFields
<1>2. F' = F /\ NSets' = NSets
  BY <1>1 DEF F, NSets, Current
<1> QED BY <1>1, <1>2 DEF Rewriting

LEMMA KernelStoreChange == ASSUME KernelInv, NpStoreChange PROVE KernelInv'
<1> USE DEF KernelInv, NpStoreChange, npKernel, npFlags
<1>1. NpTypes'
  BY DEF NpTypes, F, NSets, Current
<1>2. PassWritten'
  BY DEF PassWritten, F, NSets, Current
<1>3. BaseKept'
  BY DEF BaseKept, BaseKeptIn, Rewriting, F
<1> QED BY <1>1, <1>2, <1>3

\* A step that ends the pass and leaves a mixture of some families.
LEMMA EndsInMixture ==
  ASSUME KernelInv, npPass' = IdlePass, npStore' = npStore, npDeny' = npDeny, npFams' = npFams,
         DOMAIN npSets' = Family, DOMAIN npChains' = Family, npJumps' \in [Family -> SUBSET Range(Builtins)],
         npBase' \in [Family -> DOMAIN World \cup {NoWorld}],
         \A f \in Family : \/ npBase'[f] = NoWorld
                           \/ /\ ~Rewriting(f) /\ npBase'[f] = npBase[f] /\ npJumps'[f] = npJumps[f]
                              /\ npSets'[f] = npSets[f] /\ npChains'[f] = npChains[f]
  PROVE  KernelInv'
<1>1. NpTypes /\ BaseKept
  BY DEF KernelInv
<1>2. npPass'.on = FALSE /\ DOMAIN npPass' = PassFields
  BY IdleFacts
<1>3. NpTypes'
  BY <1>1, <1>2 DEF NpTypes
<1>4. PassWritten'
  BY <1>2 DEF PassWritten
<1>5. ASSUME NEW f \in Family PROVE BaseKeptIn(f)'
  <2>1. ~Rewriting(f)'
    BY <1>2 DEF Rewriting
  <2>2. CASE npBase'[f] = NoWorld
    BY <2>2 DEF BaseKeptIn
  <2>3. CASE npBase'[f] # NoWorld
    BY <1>1, <2>1, <2>3, BaseAlone DEF BaseKept
  <2> QED BY <2>2, <2>3
<1> QED BY <1>3, <1>4, <1>5 DEF KernelInv, BaseKept

LEMMA KernelStops == ASSUME KernelInv, NpFail \/ NpRestart PROVE KernelInv'
<1>0. NpTypes
  BY DEF KernelInv
<1>1. /\ npPass.on /\ npPass' = IdlePass /\ npBase' = [npBase EXCEPT ![F] = NoWorld]
      /\ npStore' = npStore /\ npDeny' = npDeny /\ npFams' = npFams
      /\ npChains' = npChains /\ npJumps' = npJumps
  BY DEF NpFail, NpRestart, npFlags, npKernel
<1>3. F \in Family
  BY <1>0, <1>1, PassFacts
<1>4. DOMAIN npSets' = Family /\ \A f \in Family \ {F} : npSets'[f] = npSets[f]
  <2>1. CASE NpFail
    <3>1. PICK new : npSets' = [npSets EXCEPT ![F] = new]
      BY <2>1 DEF NpFail
    <3> QED BY <3>1, <1>0, <1>3 DEF NpTypes
  <2>2. CASE NpRestart
    <3>1. npSets' = npSets
      BY <2>2 DEF NpRestart, npKernel
    <3> QED BY <3>1, <1>0 DEF NpTypes
  <2> QED BY <2>1, <2>2
<1>5. npBase' \in [Family -> DOMAIN World \cup {NoWorld}] /\ npBase'[F] = NoWorld
      /\ \A f \in Family \ {F} : npBase'[f] = npBase[f]
  BY <1>0, <1>1, <1>3 DEF NpTypes
<1>6. \A f \in Family \ {F} : ~Rewriting(f)
  BY DEF Rewriting
<1>7. DOMAIN npChains' = Family /\ npJumps' \in [Family -> SUBSET Range(Builtins)]
  BY <1>0, <1>1 DEF NpTypes
<1> QED BY <1>1, <1>4, <1>5, <1>6, <1>7, EndsInMixture

LEMMA KernelCleanup == ASSUME KernelInv, NpCleanup PROVE KernelInv'
<1>0. NpTypes
  BY DEF KernelInv
<1>1. /\ npPass' = IdlePass /\ npBase' = [f \in Family |-> NoWorld] /\ npStore' = npStore /\ npDeny' = npDeny
      /\ npFams' = npFams
  BY DEF NpCleanup, npFlags
<1>2. DOMAIN npChains' = Family
  BY DEF NpCleanup
<1>3. npJumps' \in [Family -> SUBSET Range(Builtins)]
  BY <1>0 DEF NpCleanup, NpTypes
<1>4. DOMAIN npSets' = Family
  BY <1>0 DEF NpCleanup, NpTypes
<1>5. npBase' \in [Family -> DOMAIN World \cup {NoWorld}] /\ \A f \in Family : npBase'[f] = NoWorld
  BY <1>1
<1> QED BY <1>1, <1>2, <1>3, <1>4, <1>5, EndsInMixture

LEMMA KernelTick == ASSUME KernelInv, NpTick PROVE KernelInv'
<1>0. NpTypes /\ BaseKept
  BY DEF KernelInv
<1>1. /\ npPass' = BeginPass /\ npStore' = npStore /\ npDeny' = npDeny /\ npFams' = npFams
      /\ npSets' = npSets /\ npChains' = npChains /\ npJumps' = npJumps /\ npBase' = npBase /\ ~npPass.on
  BY DEF NpTick, npKernel, npFlags
<1>2. /\ npStore \in DOMAIN World /\ npDeny \in BOOLEAN /\ 1 \in DOMAIN npFams
      /\ npBase \in [Family -> DOMAIN World \cup {NoWorld}] /\ npJumps \in [Family -> SUBSET Range(Builtins)]
  BY <1>0, FamiliesFacts DEF NpTypes
<1> DEFINE p == [IdlePass EXCEPT !.on = TRUE, !.world = npStore]
<1>3. p.on = TRUE /\ p.world = npStore /\ DOMAIN p = PassFields
  BY DEF IdlePass, PassFields
<1>4. npPass' = Planned(p, 1)
  BY <1>1 DEF BeginPass
<1> HIDE DEF p
<1>5. /\ npPass'.on = TRUE /\ npPass'.world = npStore /\ npPass'.fam = 1 /\ npPass'.step = 1
      /\ npPass'.plan = Plans[npStore][npFams[1]][npDeny] /\ npPass'.drift = FALSE
      /\ DOMAIN npPass' = PassFields
  <2>1. npPass' = [p EXCEPT !.fam = 1, !.plan = Plans[npStore][npFams[1]][npDeny], !.step = 1, !.drift = FALSE]
    BY <1>3, <1>4 DEF Planned
  <2> QED BY <1>3, <2>1 DEF PassFields
<1>6. /\ NpTypes' /\ PassWritten' /\ \A f \in Family : Rewriting(f)' <=> f = npFams[1]
  BY <1>0, <1>1, <1>2, <1>5, FamilyBegins
<1>7. ASSUME NEW f \in Family PROVE BaseKeptIn(f)'
  <2>1. ~Rewriting(f) /\ BaseKeptIn(f)
    BY <1>0, <1>1 DEF Rewriting, BaseKept
  <2>2. CASE f = npFams[1]
    BY <2>1, <2>2, <1>1, <1>2, <1>5, <1>6, BaseBegins
  <2>3. CASE f # npFams[1]
    BY <2>1, <2>3, <1>1, <1>6, BaseAlone
  <2> QED BY <2>2, <2>3
<1> QED BY <1>6, <1>7 DEF KernelInv, BaseKept

LEMMA KernelJumpsLost == ASSUME KernelInv, NpJumpsLost PROVE KernelInv'
<1>0. NpTypes /\ PassWritten /\ BaseKept
  BY DEF KernelInv
<1>1. PICK g \in Family :
        /\ npJumps' = [npJumps EXCEPT ![g] = {}] /\ npBase' = [npBase EXCEPT ![g] = NoWorld]
        /\ npPass' = [npPass EXCEPT !.drift = npPass.drift \/ (npPass.on /\ F = g)]
        /\ npStore' = npStore /\ npDeny' = npDeny /\ npFams' = npFams /\ npSets' = npSets /\ npChains' = npChains
  BY DEF NpJumpsLost, npFlags
<1>2. /\ npPass'.on = npPass.on /\ npPass'.world = npPass.world /\ npPass'.fam = npPass.fam /\ npPass'.step = npPass.step
      /\ npPass'.plan = npPass.plan /\ npPass'.drift = (npPass.drift \/ (npPass.on /\ F = g))
      /\ DOMAIN npPass' = PassFields
  BY <1>0, <1>1 DEF NpTypes, PassFields
<1>3. F' = F /\ NSets' = NSets /\ \A f : Rewriting(f)' <=> Rewriting(f)
  <2>1. F' = F /\ NSets' = NSets
    BY <1>1, <1>2 DEF F, NSets, Current
  <2> QED BY <2>1, <1>2 DEF Rewriting
<1>4. /\ npJumps' \in [Family -> SUBSET Range(Builtins)] /\ \A f \in Family \ {g} : npJumps'[f] = npJumps[f]
      /\ npBase' \in [Family -> DOMAIN World \cup {NoWorld}] /\ npBase'[g] = NoWorld
      /\ \A f \in Family \ {g} : npBase'[f] = npBase[f]
  BY <1>0, <1>1 DEF NpTypes
<1>5. npPass.on => npPass'.drift \in BOOLEAN
  BY <1>0, <1>2 DEF NpTypes
<1>6. NpTypes'
  BY <1>0, <1>1, <1>2, <1>3, <1>4, <1>5 DEF NpTypes
<1>7. PassWritten'
  <2> SUFFICES ASSUME npPass.on PROVE PassWritten'
    BY <1>2 DEF PassWritten
  <2>1. F \in Family
    BY <1>0, PassFacts
  <2>2. CASE F = g
    BY <2>2, <1>0, <1>1, <1>2, <1>3 DEF PassWritten
  <2>3. CASE F # g
    <3>1. npJumps'[F] = npJumps[F] /\ npPass'.drift = (npPass.drift \/ FALSE)
      BY <2>1, <2>3, <1>2, <1>4
    <3>2. npPass'.drift <=> npPass.drift
      BY <3>1
    <3> QED BY <3>1, <3>2, <1>0, <1>1, <1>2, <1>3 DEF PassWritten
  <2> QED BY <2>2, <2>3
<1>8. ASSUME NEW f \in Family PROVE BaseKeptIn(f)'
  <2>1. CASE f = g
    BY <2>1, <1>4 DEF BaseKeptIn
  <2>2. CASE f # g
    <3>1. npBase'[f] = npBase[f] /\ npJumps'[f] = npJumps[f] /\ BaseKeptIn(f)
      BY <2>2, <1>0, <1>4 DEF BaseKept
    <3>2. Rewriting(f) => (npPass'.drift <=> npPass.drift)
      BY <2>2, <1>2 DEF Rewriting
    <3> QED BY <3>1, <3>2, <1>1, <1>2, <1>3 DEF BaseKeptIn
  <2> QED BY <2>1, <2>2
<1> QED BY <1>6, <1>7, <1>8 DEF KernelInv, BaseKept


LEMMA KernelRestoreSet == ASSUME KernelInv, NpRestoreSet PROVE KernelInv'
<1>0. NpTypes /\ PassWritten /\ BaseKept
  BY DEF KernelInv
<1> DEFINE w == npPass.world
           d == npDeny
           step == npPass.step
           set == Current.sets[step]
           all == SetWrites(w, d, F)
           n == SetsWritten(w, d, F, step)
<1>1. /\ npPass.on /\ step <= NSets /\ npSets' = [npSets EXCEPT ![F] = Put(npSets[F], set.name, Filled(set))]
      /\ NextCommand
      /\ npStore' = npStore /\ npDeny' = d /\ npFams' = npFams /\ npChains' = npChains /\ npJumps' = npJumps
      /\ npBase' = npBase
  BY DEF NpRestoreSet, npFlags
<1>2. /\ w \in DOMAIN World /\ F \in Family /\ d \in BOOLEAN /\ Current.sets = all /\ NSets = Len(all)
  BY <1>0, <1>1, PassFacts DEF NpTypes
<1>a. NSets \in Nat /\ step \in 1..(NSets + 4)
  BY <1>0, <1>1, PassFacts
<1>b. step <= NSets
  BY <1>1
<1>3. /\ npPass'.on /\ npPass'.world = w /\ npPass'.fam = npPass.fam /\ npPass'.plan = npPass.plan
      /\ npPass'.drift = npPass.drift /\ npPass'.step = step + 1
      /\ DOMAIN npPass' = PassFields
      /\ F' = F /\ NSets' = NSets /\ \A f : Rewriting(f)' <=> Rewriting(f)
  BY <1>0, <1>1, NextCommandFacts
<1>4. /\ DOMAIN npSets' = Family /\ npSets'[F] = Put(npSets[F], set.name, Filled(set))
      /\ \A f \in Family \ {F} : npSets'[f] = npSets[f]
  BY <1>0, <1>1, <1>2 DEF NpTypes
<1>5. n = step - 1 /\ SetsWritten(w, d, F, step + 1) = step
  <2> DEFINE m == Len(all)
             k == SetsWritten(w, d, F, step + 1)
  <2>1. n = IF step <= m THEN step - 1 ELSE m
    BY DEF SetsWritten
  <2>1a. k = IF step + 1 <= m THEN (step + 1) - 1 ELSE m
    BY Zenon DEF SetsWritten
  <2>2. m = NSets
    BY <1>2
  <2> HIDE DEF m, n, k
  <2>3. n = step - 1 /\ k = step
    BY <2>1, <2>1a, <2>2, <1>a, <1>b
  <2> QED BY <2>3 DEF k
<1>6. n \in Nat /\ SetsWritten(w, d, F, step + 1) = n + 1 /\ all[n + 1] = set
  <2> HIDE DEF n, set
  <2>1. n \in Nat /\ n + 1 = step
    BY <1>5, <1>a
  <2> QED BY <2>1, <1>2, <1>5 DEF set
<1>7. ~Restored(w, d, F, step + 1) /\ ~Restored(w, d, F, step)
  <2>1. ~(step + 1 > NSets + 1) /\ ~(step > NSets + 1)
    BY <1>a, <1>b
  <2> QED BY <2>1, <1>2 DEF Restored
<1> HIDE DEF n, set, all
<1>8. ASSUME NEW sets, Includes(npSets[F], Written(sets, all, n)) PROVE Includes(npSets'[F], Written(sets, all, n + 1))
  BY <1>4, <1>6, <1>8, PutWritten
<1>9. NpTypes'
  <2>1. step + 1 \in 1..(NSets + 4)
    BY <1>a, <1>b
  <2> QED BY <2>1, <1>0, <1>1, <1>2, <1>3, <1>4 DEF NpTypes
<1>10. PassWritten'
  <2>1. Includes(npSets[F], Written(<<>>, all, n))
    BY <1>0, <1>1 DEF PassWritten, n, all
  <2>2. Includes(npSets'[F], Written(<<>>, all, n + 1))
    BY <2>1, <1>8
  <2>3. \A j \in 1..3 : ~(step + 1 > NSets + 1 + j)
    BY <1>a, <1>b
  <2> QED BY <2>2, <2>3, <1>1, <1>3, <1>6, <1>7 DEF PassWritten, all
<1>11. ASSUME NEW f \in Family PROVE BaseKeptIn(f)'
  <2>0. BaseKeptIn(f) /\ npBase'[f] = npBase[f] /\ npJumps'[f] = npJumps[f] /\ npChains'[f] = npChains[f]
    BY <1>0, <1>1 DEF BaseKept
  <2>1. CASE f # F
    <3>1. ~Rewriting(f) /\ ~Rewriting(f)'
      BY <2>1, <1>3 DEF Rewriting
    <3> QED BY <2>0, <2>1, <3>1, <1>1, <1>4, BaseAlone
  <2>2. CASE f = F
    <3> SUFFICES ASSUME npBase[f] # NoWorld PROVE BaseKeptIn(f)'
      BY <2>0 DEF BaseKeptIn
    <3>1. Rewriting(f) /\ Rewriting(f)'
      BY <2>2, <1>1, <1>3 DEF Rewriting
    <3> DEFINE v == npBase[F]
    <3>2. /\ ~npPass.drift /\ npJumps[F] = Range(Builtins)
          /\ Includes(npSets[F], SetsAt(v, w, d, F, step)) /\ Includes(npChains[F], ChainsAt(v, w, d, F, step))
      BY <2>0, <2>2, <3>1 DEF BaseKeptIn
    <3>3. Includes(npSets'[F], SetsAt(v, w, d, F, step + 1))
      <4>1. Includes(npSets[F], Written(SetsLeft(v, d, F), all, n))
        BY <3>2 DEF SetsAt, n, all
      <4>2. Includes(npSets'[F], Written(SetsLeft(v, d, F), all, n + 1))
        BY <4>1, <1>8
      <4> QED BY <4>2, <1>6 DEF SetsAt, all
    <3>4. ChainsAt(v, w, d, F, step + 1) = ChainsAt(v, w, d, F, step)
      BY <1>7 DEF ChainsAt
    <3> QED BY <2>2, <3>1, <3>2, <3>3, <3>4, <1>1, <1>3 DEF BaseKeptIn
  <2> QED BY <2>1, <2>2
<1> QED BY <1>9, <1>10, <1>11 DEF KernelInv, BaseKept

LEMMA KernelRestoreFilter == ASSUME KernelInv, NpRestoreFilter PROVE KernelInv'
<1>0. NpTypes /\ PassWritten /\ BaseKept
  BY DEF KernelInv
<1> DEFINE w == npPass.world
           d == npDeny
           step == npPass.step
           P == Current
<1>1. /\ npPass.on /\ step = NSets + 1 /\ npChains' = [npChains EXCEPT ![F] = FilterRestoreDoc(npChains[F], P)] /\ NextCommand
      /\ npStore' = npStore /\ npDeny' = d /\ npFams' = npFams /\ npSets' = npSets /\ npJumps' = npJumps /\ npBase' = npBase
  BY DEF NpRestoreFilter, npFlags
<1>2. /\ w \in DOMAIN World /\ F \in Family /\ d \in BOOLEAN
      /\ P = Plans[w][F][d] /\ NSets = Len(SetWrites(w, d, F))
  BY <1>0, <1>1, PassFacts DEF NpTypes
<1>a. NSets \in Nat /\ step \in 1..(NSets + 4)
  BY <1>0, <1>1, PassFacts
<1>b. step = NSets + 1
  BY <1>1
<1>3. /\ npPass'.on /\ npPass'.world = w /\ npPass'.fam = npPass.fam /\ npPass'.plan = npPass.plan
      /\ npPass'.drift = npPass.drift /\ npPass'.step = step + 1
      /\ DOMAIN npPass' = PassFields
      /\ F' = F /\ NSets' = NSets /\ \A f : Rewriting(f)' <=> Rewriting(f)
  BY <1>0, <1>1, NextCommandFacts
<1>5. /\ DOMAIN npChains' = Family /\ npChains'[F] = FilterRestoreDoc(npChains[F], P)
      /\ \A f \in Family \ {F} : npChains'[f] = npChains[f]
  BY <1>0, <1>1, <1>2 DEF NpTypes
<1>6. SetsWritten(w, d, F, step + 1) = SetsWritten(w, d, F, step)
  <2>1. ~(step <= NSets) /\ ~(step + 1 <= NSets)
    BY <1>a, <1>b
  <2> QED BY <2>1, <1>2 DEF SetsWritten
<1>7. Restored(w, d, F, step + 1) /\ ~Restored(w, d, F, step)
  <2>1. step + 1 > NSets + 1 /\ ~(step > NSets + 1)
    BY <1>a, <1>b
  <2> QED BY <2>1, <1>2 DEF Restored
<1> HIDE DEF P
<1>8. NpTypes'
  <2>1. step + 1 \in 1..(NSets + 4)
    BY <1>a, <1>b
  <2> QED BY <2>1, <1>0, <1>1, <1>2, <1>3, <1>5 DEF NpTypes
<1>9. PassWritten'
  <2>1. Includes(npSets[F], Written(<<>>, SetWrites(w, d, F), SetsWritten(w, d, F, step)))
    BY <1>0, <1>1 DEF PassWritten
  <2>2. Includes(npChains'[F], ChainsLeft(w, d, F))
    <3>1. Includes(FilterRestoreDoc(npChains[F], P), FilterRestoreDoc(<<>>, P))
      BY DocHolds
    <3> QED BY <3>1, <1>2, <1>5 DEF ChainsLeft
  <2>3. \A j \in 1..3 : ~(step + 1 > NSets + 1 + j)
    BY <1>a, <1>b
  <2> QED BY <2>1, <2>2, <2>3, <1>1, <1>3, <1>6 DEF PassWritten
<1>10. ASSUME NEW f \in Family PROVE BaseKeptIn(f)'
  <2>0. BaseKeptIn(f) /\ npBase'[f] = npBase[f] /\ npJumps'[f] = npJumps[f] /\ npSets'[f] = npSets[f]
    BY <1>0, <1>1 DEF BaseKept
  <2>1. CASE f # F
    <3>1. ~Rewriting(f) /\ ~Rewriting(f)'
      BY <2>1, <1>3 DEF Rewriting
    <3> QED BY <2>0, <2>1, <3>1, <1>1, <1>5, BaseAlone
  <2>2. CASE f = F
    <3> SUFFICES ASSUME npBase[f] # NoWorld PROVE BaseKeptIn(f)'
      BY <2>0 DEF BaseKeptIn
    <3>1. Rewriting(f) /\ Rewriting(f)'
      BY <2>2, <1>1, <1>3 DEF Rewriting
    <3> DEFINE v == npBase[F]
    <3>2. /\ ~npPass.drift /\ npJumps[F] = Range(Builtins)
          /\ Includes(npSets[F], SetsAt(v, w, d, F, step)) /\ Includes(npChains[F], ChainsAt(v, w, d, F, step))
      BY <2>0, <2>2, <3>1 DEF BaseKeptIn
    <3>3. SetsAt(v, w, d, F, step + 1) = SetsAt(v, w, d, F, step)
      BY <1>6 DEF SetsAt
    <3>4. Includes(npChains[F], ChainsLeft(v, d, F))
      BY <3>2, <1>7 DEF ChainsAt
    <3>5. Includes(FilterRestoreDoc(npChains[F], P), FilterRestoreDoc(ChainsLeft(v, d, F), P))
      BY <3>4, DocIncludes
    <3>6. Includes(npChains'[F], ChainsAt(v, w, d, F, step + 1))
      BY <3>5, <1>2, <1>5, <1>7 DEF ChainsAt
    <3> QED BY <2>2, <3>1, <3>2, <3>3, <3>6, <1>1, <1>3 DEF BaseKeptIn
  <2> QED BY <2>1, <2>2
<1> QED BY <1>8, <1>9, <1>10 DEF KernelInv, BaseKept


LEMMA KernelEnsureJump == ASSUME KernelInv, NpEnsureJump PROVE KernelInv'
<1>0. NpTypes /\ PassWritten /\ BaseKept
  BY DEF KernelInv
<1> DEFINE w == npPass.world
           d == npDeny
           i == npPass.fam
           step == npPass.step
           b == Builtins[step - NSets - 1]
<1>1. /\ npPass.on /\ step > NSets + 1 /\ npJumps' = [npJumps EXCEPT ![F] = npJumps[F] \cup {b}]
      /\ npStore' = npStore /\ npDeny' = d /\ npFams' = npFams /\ npSets' = npSets /\ npChains' = npChains
      /\ npBase' = IF LastOfFamily /\ ~npPass.drift THEN [npBase EXCEPT ![F] = w] ELSE npBase
      /\ \/ ~LastOfFamily /\ NextCommand
         \/ LastOfFamily /\ ~Completes /\ npPass' = Planned(npPass, i + 1)
         \/ Completes /\ npPass' = IdlePass
  BY DEF NpEnsureJump, npFlags
<1>2. /\ w \in DOMAIN World /\ i \in DOMAIN npFams /\ F = npFams[i] /\ F \in Family
      /\ NSets = Len(SetWrites(w, d, F)) /\ d \in BOOLEAN /\ npFams \in FamilyLists
  BY <1>0, <1>1, PassFacts DEF NpTypes
<1>a. NSets \in Nat /\ step \in 1..(NSets + 4)
  BY <1>0, <1>1, PassFacts
<1>b. step > NSets + 1
  BY <1>1
<1>c. (LastOfFamily <=> step = NSets + 4) /\ (Completes <=> LastOfFamily /\ i = Len(npFams))
  <2>1. NSets + 1 + 3 = NSets + 4
    BY <1>a
  <2> QED BY <2>1, BuiltinsFacts DEF LastOfFamily, Completes
<1>3. b \in Range(Builtins) /\ \A j \in 1..3 : step = NSets + 1 + j => b = Builtins[j]
  <2>1. step - NSets - 1 \in 1..3
    BY <1>a, <1>b
  <2>2. ASSUME NEW j \in 1..3, step = NSets + 1 + j PROVE step - NSets - 1 = j
    BY <1>a, <2>2
  <2> QED BY <2>1, <2>2, BuiltinsFacts
<1> HIDE DEF b
<1>4. /\ npJumps' \in [Family -> SUBSET Range(Builtins)]
      /\ npJumps'[F] = npJumps[F] \cup {b} /\ \A f \in Family \ {F} : npJumps'[f] = npJumps[f]
  BY <1>0, <1>1, <1>2, <1>3 DEF NpTypes
<1>5. npJumps[F] = Range(Builtins) => npJumps'[F] = Range(Builtins)
  BY <1>3, <1>4
<1>6. Restored(w, d, F, step)
  BY <1>2, <1>b DEF Restored
<1>7. SetsWritten(w, d, F, step) = NSets
  <2>1. ~(step <= NSets)
    BY <1>a, <1>b
  <2> QED BY <2>1, <1>2 DEF SetsWritten
<1>8. CASE ~LastOfFamily /\ NextCommand
  <2>1. /\ npPass'.on /\ npPass'.world = w /\ npPass'.fam = i /\ npPass'.plan = npPass.plan
        /\ npPass'.drift = npPass.drift /\ npPass'.step = step + 1
        /\ DOMAIN npPass' = PassFields
        /\ F' = F /\ NSets' = NSets /\ \A f : Rewriting(f)' <=> Rewriting(f)
    BY <1>0, <1>1, <1>8, NextCommandFacts
  <2>3. step # NSets + 4
    BY <1>8, <1>c
  <2>4. step + 1 \in 1..(NSets + 4) /\ ~(step + 1 <= NSets) /\ step + 1 > NSets + 1
    BY <1>a, <1>b, <2>3
  <2>5. npBase' = npBase
    BY <1>1, <1>8
  <2>6. SetsWritten(w, d, F, step + 1) = SetsWritten(w, d, F, step)
    BY <2>4, <1>2, <1>7 DEF SetsWritten
  <2>7. Restored(w, d, F, step + 1)
    BY <2>4, <1>2 DEF Restored
  <2>8. NpTypes'
    BY <2>1, <2>4, <2>5, <1>0, <1>1, <1>2, <1>4 DEF NpTypes
  <2>9. PassWritten'
    <3>1. /\ Includes(npSets[F], Written(<<>>, SetWrites(w, d, F), SetsWritten(w, d, F, step)))
          /\ Includes(npChains[F], ChainsLeft(w, d, F))
      BY <1>0, <1>1, <1>6 DEF PassWritten
    <3>2. ASSUME ~npPass.drift, NEW j \in 1..3, step + 1 > NSets + 1 + j PROVE Builtins[j] \in npJumps'[F]
      <4>1. step > NSets + 1 + j \/ step = NSets + 1 + j
        BY <3>2, <1>a
      <4>2. CASE step > NSets + 1 + j
        <5>1. Builtins[j] \in npJumps[F]
          BY <4>2, <3>2, <1>0, <1>1 DEF PassWritten
        <5> QED BY <5>1, <1>4
      <4>3. CASE step = NSets + 1 + j
        BY <4>3, <1>3, <1>4
      <4> QED BY <4>1, <4>2, <4>3
    <3> QED BY <3>1, <3>2, <2>1, <2>6, <1>1 DEF PassWritten
  <2>10. ASSUME NEW f \in Family PROVE BaseKeptIn(f)'
    <3>0. BaseKeptIn(f) /\ npBase'[f] = npBase[f] /\ npSets'[f] = npSets[f] /\ npChains'[f] = npChains[f]
      BY <1>0, <1>1, <2>5 DEF BaseKept
    <3>1. CASE f # F
      <4>1. ~Rewriting(f) /\ ~Rewriting(f)'
        BY <3>1, <2>1 DEF Rewriting
      <4> QED BY <3>0, <3>1, <4>1, <1>1, <1>4, BaseAlone
    <3>2. CASE f = F
      <4> SUFFICES ASSUME npBase[f] # NoWorld PROVE BaseKeptIn(f)'
        BY <3>0 DEF BaseKeptIn
      <4> DEFINE v == npBase[F]
      <4>1. Rewriting(f) /\ Rewriting(f)'
        BY <1>1, <2>1, <3>2 DEF Rewriting
      <4>2. /\ ~npPass.drift /\ npJumps[F] = Range(Builtins)
            /\ Includes(npSets[F], SetsAt(v, w, d, F, step)) /\ Includes(npChains[F], ChainsAt(v, w, d, F, step))
        BY <3>0, <3>2, <4>1 DEF BaseKeptIn
      <4>3. SetsAt(v, w, d, F, step + 1) = SetsAt(v, w, d, F, step)
        BY <2>6 DEF SetsAt
      <4>4. ChainsAt(v, w, d, F, step + 1) = ChainsAt(v, w, d, F, step)
        BY <1>6, <2>7 DEF ChainsAt
      <4> QED BY <3>2, <4>1, <4>2, <4>3, <4>4, <2>1, <2>5, <1>1, <1>5 DEF BaseKeptIn
    <3> QED BY <3>1, <3>2
  <2> QED BY <2>8, <2>9, <2>10 DEF KernelInv, BaseKept
<1>d. /\ npBase' \in [Family -> DOMAIN World \cup {NoWorld}]
      /\ \A f \in Family \ {F} : npBase'[f] = npBase[f]
  BY <1>0, <1>1, <1>2 DEF NpTypes
<1>e. ASSUME LastOfFamily, npBase'[F] # NoWorld
      PROVE  /\ npBase'[F] = w /\ npJumps'[F] = Range(Builtins)
             /\ Includes(npSets[F], SetsLeft(w, d, F)) /\ Includes(npChains[F], ChainsLeft(w, d, F))
  <2>1. ~npPass.drift
    <3> SUFFICES ASSUME npPass.drift PROVE FALSE
      OBVIOUS
    <3>1. npBase' = npBase
      BY <1>1
    <3>2. Rewriting(F) /\ BaseKeptIn(F)
      BY <1>0, <1>1, <1>2 DEF Rewriting, BaseKept
    <3> QED BY <1>e, <3>1, <3>2 DEF BaseKeptIn
  <2>2. npBase'[F] = w
    BY <2>1, <1>e, <1>0, <1>1, <1>2 DEF NpTypes
  <2>3. step > NSets + 1 + 1 /\ step > NSets + 1 + 2 /\ step = NSets + 1 + 3
    BY <1>e, <1>c, <1>a
  <2>4. 1 \in 1..3 /\ 2 \in 1..3 /\ 3 \in 1..3
    OBVIOUS
  <2>5. \A j \in 1..3 : step > NSets + 1 + j => Builtins[j] \in npJumps[F]
    BY <2>1, <1>0, <1>1 DEF PassWritten
  <2>6. Builtins[1] \in npJumps[F] /\ Builtins[2] \in npJumps[F]
    BY <2>3, <2>4, <2>5
  <2>7. b = Builtins[3]
    BY <2>3, <2>4, <1>3
  <2>8. npJumps'[F] = Range(Builtins)
    BY <2>6, <2>7, <1>2, <1>4, BuiltinsFacts
  <2>9. Includes(npSets[F], SetsLeft(w, d, F))
    <3>1. Includes(npSets[F], Written(<<>>, SetWrites(w, d, F), SetsWritten(w, d, F, step)))
      BY <1>0, <1>1 DEF PassWritten
    <3> QED BY <3>1, <1>2, <1>7 DEF SetsLeft
  <2>10. Includes(npChains[F], ChainsLeft(w, d, F))
    BY <1>0, <1>1, <1>6 DEF PassWritten
  <2> QED BY <2>2, <2>8, <2>9, <2>10
\* The family that is done, once the pass has left it.
<1>f. ASSUME LastOfFamily, NEW f \in Family, f = F, ~Rewriting(f)' PROVE BaseKeptIn(f)'
  <2> SUFFICES ASSUME npBase'[f] # NoWorld PROVE BaseKeptIn(f)'
    BY DEF BaseKeptIn
  <2>1. /\ npBase'[f] = w /\ npJumps'[f] = Range(Builtins)
        /\ Includes(npSets[f], SetsLeft(w, d, f)) /\ Includes(npChains[f], ChainsLeft(w, d, f))
    BY <1>e, <1>f
  <2> QED BY <2>1, <1>f, <1>1 DEF BaseKeptIn
<1>9. CASE LastOfFamily /\ ~Completes /\ npPass' = Planned(npPass, i + 1)
  <2> DEFINE k == i + 1
  <2>1. k \in DOMAIN npFams /\ npFams[k] # F
    <3>1. i # Len(npFams)
      BY <1>9, <1>c
    <3> DEFINE m == Len(npFams)
    <3>2. m \in Nat /\ DOMAIN npFams = 1..m /\ i \in 1..m /\ i # m
      BY <1>2, <3>1, FamiliesFacts
    <3> HIDE DEF m
    <3>3. k \in 1..m /\ k # i
      BY <3>2
    <3> HIDE DEF k
    <3>4. k \in DOMAIN npFams
      BY <3>2, <3>3
    <3> QED BY <3>3, <3>4, <1>2, FamiliesFacts
  <2> HIDE DEF k
  <2>2. /\ npPass'.on = npPass.on /\ npPass'.world = w /\ npPass'.fam = k /\ npPass'.step = 1
        /\ npPass'.plan = Plans[w][npFams[k]][d] /\ npPass'.drift = FALSE
        /\ DOMAIN npPass' = PassFields
    <3>1. npPass' = [npPass EXCEPT !.fam = k, !.plan = Plans[w][npFams[k]][d], !.step = 1, !.drift = FALSE]
      BY <1>9 DEF Planned, k
    <3> QED BY <1>0, <3>1 DEF NpTypes, PassFields
  <2>2a. npPass'.on = TRUE
    BY <2>2, <1>0, <1>1 DEF NpTypes
  <2>3. /\ NpTypes' /\ PassWritten' /\ npFams[k] \in Family
        /\ \A f \in Family : Rewriting(f)' <=> f = npFams[k]
    BY <2>1, <2>2, <2>2a, <1>0, <1>1, <1>2, <1>4, <1>d, FamilyBegins
  <2>4. ASSUME NEW f \in Family PROVE BaseKeptIn(f)'
    <3>1. CASE f = F
      <4>1. ~Rewriting(f)'
        BY <2>1, <2>3, <3>1
      <4> QED BY <4>1, <3>1, <1>9, <1>f
    <3>2. CASE f # F
      <4>1. /\ BaseKeptIn(f) /\ ~Rewriting(f) /\ npBase'[f] = npBase[f] /\ npJumps'[f] = npJumps[f]
            /\ npBase[f] \in DOMAIN World \cup {NoWorld}
        BY <3>2, <1>0, <1>4, <1>d DEF BaseKept, Rewriting, NpTypes
      <4>2. CASE f = npFams[k]
        BY <4>1, <4>2, <2>2, <2>3, <1>1, <1>2, BaseBegins
      <4>3. CASE f # npFams[k]
        BY <4>1, <4>3, <2>3, <1>1, BaseAlone
      <4> QED BY <4>2, <4>3
    <3> QED BY <3>1, <3>2
  <2> QED BY <2>3, <2>4 DEF KernelInv, BaseKept
<1>10. CASE Completes /\ npPass' = IdlePass
  <2>1. npPass'.on = FALSE /\ DOMAIN npPass' = PassFields
    BY <1>10, IdleFacts
  <2>2. \A f : ~Rewriting(f)'
    BY <2>1 DEF Rewriting
  <2>3. NpTypes'
    BY <2>1, <1>0, <1>1, <1>4, <1>d DEF NpTypes
  <2>4. PassWritten'
    BY <2>1 DEF PassWritten
  <2>5. ASSUME NEW f \in Family PROVE BaseKeptIn(f)'
    <3>1. CASE f = F
      BY <2>2, <3>1, <1>10, <1>c, <1>f
    <3>2. CASE f # F
      <4>1. BaseKeptIn(f) /\ ~Rewriting(f) /\ npBase'[f] = npBase[f] /\ npJumps'[f] = npJumps[f]
        BY <3>2, <1>0, <1>4, <1>d DEF BaseKept, Rewriting
      <4> QED BY <4>1, <2>2, <1>1, BaseAlone
    <3> QED BY <3>1, <3>2
  <2> QED BY <2>3, <2>4, <2>5 DEF KernelInv, BaseKept
<1> QED BY <1>1, <1>8, <1>9, <1>10


\* The invariant of the process: what was written is there, whatever else is.
THEOREM KernelKept == NpSpec => []KernelInv
<1>1. NpInit => KernelInv
  <2> SUFFICES ASSUME NpInit PROVE KernelInv
    OBVIOUS
  <2>1. npPass.on = FALSE /\ \A f \in Family : npBase[f] = NoWorld
    BY IdleFacts DEF NpInit
  <2> QED BY <2>1, TypesInit DEF KernelInv, PassWritten, BaseKept, BaseKeptIn
<1>2. KernelInv /\ [NpNext]_npVars => KernelInv'
  <2> SUFFICES ASSUME KernelInv, [NpNext]_npVars PROVE KernelInv'
    OBVIOUS
  <2>1. CASE UNCHANGED npVars
    <3> USE <2>1 DEF KernelInv, npVars, npKernel, npFlags
    <3>1. NpTypes'
      BY DEF NpTypes, F, NSets, Current
    <3>2. PassWritten'
      BY DEF PassWritten, F, NSets, Current
    <3>3. BaseKept'
      BY DEF BaseKept, BaseKeptIn, Rewriting, F
    <3> QED BY <3>1, <3>2, <3>3
  <2>2. CASE NpNext
    BY <2>2, KernelStoreChange, KernelTick, KernelRestoreSet, KernelRestoreFilter, KernelEnsureJump, KernelStops,
       KernelCleanup, KernelJumpsLost DEF NpNext
  <2> QED BY <2>1, <2>2
<1> QED BY <1>1, <1>2, PTL DEF NpSpec

LEMMA FlowFamily == ASSUME NEW flow \in Flow PROVE FamilyOf(flow) \in Family
BY NpFlows DEF FamilyOf

\* EnforcesPolicy, for every set of worlds and flows on which the translation is right:
\* the process puts into the kernel what build_plan made of the world, past whatever
\* earlier passes, failures, restarts and cleanups left there (reconcile).
THEOREM AppliedIsEnforced ==
  ASSUME TranslationExact
  PROVE  NpSpec => []EnforcesPolicy
<1>1. KernelInv => EnforcesPolicy
  <2> SUFFICES ASSUME KernelInv, NEW flow \in Flow, ~Rewriting(FamilyOf(flow)), npBase[FamilyOf(flow)] # NoWorld,
                      NamesApart(npBase[FamilyOf(flow)])
               PROVE  \/ SharedPolicy(npBase[FamilyOf(flow)], flow) \/ (npDeny /\ Fresh(npBase[FamilyOf(flow)], flow))
                      \/ KernelPasses(flow) <=> flow \in AllowedIn[npBase[FamilyOf(flow)]]
    BY DEF EnforcesPolicy
  <2> DEFINE f == FamilyOf(flow)
             v == npBase[f]
             d == npDeny
             C == ChainsLeft(v, d, f)
             S == SetsLeft(v, d, f)
  <2>1. v \in DOMAIN World /\ d \in BOOLEAN /\ f \in Family
    BY FlowFamily DEF KernelInv, NpTypes
  <2>2. npJumps[f] = Range(Builtins) /\ Includes(npSets[f], S) /\ Includes(npChains[f], C)
    BY <2>1 DEF KernelInv, BaseKept, BaseKeptIn
  <2>3. Closed(C, S) /\ Range(Builtins) \subseteq DOMAIN C
    BY <2>1, SetsLeftFacts, ImageClosed
  <2>4. Passes(npChains[f], npSets[f], Range(Builtins), flow) <=> Passes(C, S, Range(Builtins), flow)
    BY <2>2, <2>3, PassesAlike
  <2>5. KernelPasses(flow) <=> Passes(C, S, Range(Builtins), flow)
    BY <2>2, <2>4 DEF KernelPasses
  <2>6. Exact(v, d)
    BY <2>1 DEF TranslationExact
  <2> QED BY <2>5, <2>6 DEF Exact
<1> QED BY <1>1, KernelKept, PTL

\* NoHole, for every set of worlds and flows on which the order of the commands is right:
\* what a pass over the last applied world meets in the kernel is the mixture that
\* OrderTight speaks of, after each of its commands (reconcile, Ipset::restore,
\* iptables-restore).
THEOREM NothingOpens ==
  ASSUME OrderTight
  PROVE  NpSpec => []NoHole
<1>1. KernelInv => NoHole
  <2> SUFFICES ASSUME KernelInv, NEW flow \in Flow, Rewriting(FamilyOf(flow)), npBase[FamilyOf(flow)] # NoWorld,
                      SamePolicies(npBase[FamilyOf(flow)], npPass.world), NoNamedPort(npBase[FamilyOf(flow)]),
                      Refused(npBase[FamilyOf(flow)], npPass.world, flow)
               PROVE  ~KernelPasses(flow)
    BY DEF NoHole
  <2> DEFINE f == FamilyOf(flow)
             v == npBase[f]
             w == npPass.world
             d == npDeny
             step == npPass.step
             C == ChainsAt(v, w, d, f, step)
             S == SetsAt(v, w, d, f, step)
  <2>1. v \in DOMAIN World /\ d \in BOOLEAN /\ f \in Family /\ NpTypes /\ npPass.on /\ F = f
    BY FlowFamily DEF KernelInv, NpTypes, Rewriting
  <2>2. w \in DOMAIN World /\ step \in 1..(Len(SetWrites(w, d, f)) + 4)
    <3>1. step \in 1..(NSets + 4) /\ NSets = Len(SetWrites(w, d, F)) /\ w \in DOMAIN World
      BY <2>1, PassFacts
    <3> QED BY <2>1, <3>1
  <2>3. npJumps[f] = Range(Builtins) /\ Includes(npSets[f], S) /\ Includes(npChains[f], C)
    BY <2>1 DEF KernelInv, BaseKept, BaseKeptIn
  <2>4. Closed(C, S) /\ Range(Builtins) \subseteq DOMAIN C
    BY <2>1, <2>2, MixtureClosed, Zenon
  <2>5. Passes(npChains[f], npSets[f], Range(Builtins), flow) <=> Passes(C, S, Range(Builtins), flow)
    BY <2>3, <2>4, PassesAlike
  <2>6. KernelPasses(flow) <=> Passes(C, S, Range(Builtins), flow)
    BY <2>3, <2>5 DEF KernelPasses
  <2>7. Tight(v, w, d)
    BY <2>1, <2>2 DEF OrderTight
  <2>8. ~Passes(C, S, Range(Builtins), flow)
    BY <2>1, <2>2, <2>7 DEF Tight
  <2> QED BY <2>6, <2>8
<1> QED BY <1>1, KernelKept, PTL


----------------------------------------------------------------------------
(* What a packet goes through, rule by rule *)

States == [verdict : {"go", "RETURN", "ACCEPT", "REJECT", "DROP"}, matched : BOOLEAN, accepted : BOOLEAN]
CondsHold(r, p, s, sets) == \A j \in DOMAIN r.conds : CondHolds(r.conds[j], p, s, sets)
Ends(s) == IF s.verdict = "RETURN" THEN [s EXCEPT !.verdict = "go"] ELSE s

LEMMA StateFacts ==
  ASSUME NEW s \in States
  PROVE  /\ Ends(s) \in States /\ Ends(s).verdict # "RETURN"
         /\ s.verdict # "RETURN" => Ends(s) = s
         /\ s.verdict = "RETURN" => Ends(s).verdict = "go" /\ Ends(s).matched = s.matched
BY DEF States, Ends

LEMMA TargetFacts ==
  ASSUME NEW s \in States, NEW t
  PROVE  /\ t.k \in {"MATCHED", "UNMATCHED", "ACCEPTED"} => Target(t, s) \in States /\ Target(t, s).verdict = s.verdict
         /\ t.k \in {"RETURN", "ACCEPT", "REJECT", "DROP"} => Target(t, s) \in States /\ Target(t, s).verdict = t.k
<1>2. ASSUME t.k \in {"MATCHED", "UNMATCHED", "ACCEPTED"} PROVE Target(t, s) \in States /\ Target(t, s).verdict = s.verdict
  BY <1>2 DEF States, Target
<1>3. ASSUME t.k \in {"RETURN", "ACCEPT", "REJECT", "DROP"} PROVE Target(t, s) \in States /\ Target(t, s).verdict = t.k
  <2>1. Target(t, s) = [s EXCEPT !.verdict = t.k]
    BY <1>3 DEF Target
  <2> QED BY <1>3, <2>1 DEF States
<1> QED BY <1>2, <1>3

PolicyStays(chains, sets, p, to, S) ==
    \A i \in 1..Len(chains[to.chain]), s \in S :
        s.verdict = "go" /\ CondsHold(chains[to.chain][i], p, s, sets) => Target(chains[to.chain][i].target, s) \in S
IsPolicyRun(run, chains, sets, p, to, S, s0) ==
    LET rules == chains[to.chain]
        n == Len(rules)
    IN  /\ run[0] = s0 /\ \A i \in 0..n : run[i] \in S
        /\ \A i \in 1..n : run[i] = IF run[i - 1].verdict = "go" /\ CondsHold(rules[i], p, run[i - 1], sets)
                                    THEN Target(rules[i].target, run[i - 1]) ELSE run[i - 1]
        /\ PolicyStep(chains, sets, p, to, s0) = Ends(run[n])

LEMMA PolicyRun ==
  ASSUME NEW chains, NEW sets, NEW p, NEW to, to.k = "jump", IsList(chains[to.chain]), NEW S, NEW s0 \in S, PolicyStays(chains, sets, p, to, S)
  PROVE  \E run : IsPolicyRun(run, chains, sets, p, to, S, s0)
<1> DEFINE rules == chains[to.chain]
           n == Len(rules)
           one(i, s) == IF s.verdict = "go" /\ CondsHold(rules[i], p, s, sets) THEN Target(rules[i].target, s) ELSE s
           B(f, i) == IF i = 0 THEN s0 ELSE one(i, f[i - 1])
           run == CHOOSE f : f = [i \in 0..n |-> B(f, i)]
           G == [x \in (1..n) \X S |-> one(x[1], x[2])]
<1>1. PolicyStep(chains, sets, p, to, s0) = Ends(run[n])
  BY DEF PolicyStep, Walk, Ends, CondsHold
<1>2. n \in Nat
  BY ListFacts
<1>3. \A i \in 1..n, s \in S : one(i, s) \in S
  <2> HIDE DEF CondsHold
  <2> QED BY DEF PolicyStays
<1> HIDE DEF rules, n, one
<1>4a. G \in [(1..n) \X S -> S]
  BY <1>3
<1>4. \A i \in 1..n, s \in S : G[<<i, s>>] = one(i, s)
  OBVIOUS
<1> HIDE DEF G
<1>5a. PICK r : IsRun(r, n, S, s0, G)
  BY <1>2, <1>4a, Recursion
<1>5. r \in [0..n -> S] /\ r[0] = s0 /\ \A i \in 1..n : r[i] = G[<<i, r[i - 1]>>]
  BY <1>5a DEF IsRun
<1>6. \A i \in 1..n : r[i - 1] \in S /\ r[i] = one(i, r[i - 1])
  <2> SUFFICES ASSUME NEW i \in 1..n PROVE r[i - 1] \in S /\ r[i] = one(i, r[i - 1])
    OBVIOUS
  <2>1. i - 1 \in 0..n
    BY <1>2
  <2> QED BY <2>1, <1>4, <1>5
<1>7. r = [i \in 0..n |-> B(r, i)]
  <2>1. r = [i \in 0..n |-> r[i]]
    BY <1>5
  <2>2. \A i \in 0..n : r[i] = B(r, i)
    BY <1>2, <1>5, <1>6
  <2> QED BY <2>1, <2>2
<1>8. run = [i \in 0..n |-> B(run, i)]
  <2> HIDE DEF B
  <2> QED BY <1>7
<1> HIDE DEF run
<1>9. run[0] = s0 /\ \A i \in 1..n : run[i] = one(i, run[i - 1])
  <2>1. 0 \in 0..n /\ \A i \in 1..n : i \in 0..n /\ i # 0
    BY <1>2
  <2> QED BY <2>1, <1>8
<1>10. \A i \in 0..n : run[i] \in S
  <2> DEFINE T == {i \in 0..n : run[i] \notin S}
  <2> SUFFICES ASSUME T # {} PROVE FALSE
    OBVIOUS
  <2>1. T \in SUBSET Nat
    BY <1>2
  <2>2. PICK m \in T : \A k \in T : m <= k
    BY <2>1, Least
  <2>3. m # 0
    BY <1>9
  <2>4. m \in 1..n /\ m - 1 \in 0..n /\ m - 1 \notin T
    BY <1>2, <2>2, <2>3
  <2> QED BY <2>4, <1>3, <1>9
<1> QED BY <1>1, <1>9, <1>10 DEF IsPolicyRun, rules, n, one

PodStays(chains, sets, p, to, S) ==
    \A i \in 1..Len(chains[to.chain]), s \in S :
        s.verdict = "go" /\ CondsHold(chains[to.chain][i], p, s, sets) => PolicyStep(chains, sets, p, chains[to.chain][i].target, s) \in S
IsPodRun(run, chains, sets, p, to, S, s0) ==
    LET rules == chains[to.chain]
        n == Len(rules)
    IN  /\ run[0] = s0 /\ \A i \in 0..n : run[i] \in S
        /\ \A i \in 1..n : run[i] = IF run[i - 1].verdict = "go" /\ CondsHold(rules[i], p, run[i - 1], sets)
                                    THEN PolicyStep(chains, sets, p, rules[i].target, run[i - 1]) ELSE run[i - 1]
        /\ PodStep(chains, sets, p, to, s0) = Ends(run[n])

LEMMA PodRun ==
  ASSUME NEW chains, NEW sets, NEW p, NEW to, to.k = "jump", IsList(chains[to.chain]), NEW S, NEW s0 \in S, PodStays(chains, sets, p, to, S)
  PROVE  \E run : IsPodRun(run, chains, sets, p, to, S, s0)
<1> DEFINE rules == chains[to.chain]
           n == Len(rules)
           one(i, s) == IF s.verdict = "go" /\ CondsHold(rules[i], p, s, sets) THEN PolicyStep(chains, sets, p, rules[i].target, s) ELSE s
           B(f, i) == IF i = 0 THEN s0 ELSE one(i, f[i - 1])
           run == CHOOSE f : f = [i \in 0..n |-> B(f, i)]
           G == [x \in (1..n) \X S |-> one(x[1], x[2])]
<1>1. PodStep(chains, sets, p, to, s0) = Ends(run[n])
  BY DEF PodStep, Walk, Ends, CondsHold
<1>2. n \in Nat
  BY ListFacts
<1>3. \A i \in 1..n, s \in S : one(i, s) \in S
  <2> HIDE DEF CondsHold
  <2> QED BY DEF PodStays
<1> HIDE DEF rules, n, one
<1>4a. G \in [(1..n) \X S -> S]
  BY <1>3
<1>4. \A i \in 1..n, s \in S : G[<<i, s>>] = one(i, s)
  OBVIOUS
<1> HIDE DEF G
<1>5a. PICK r : IsRun(r, n, S, s0, G)
  BY <1>2, <1>4a, Recursion
<1>5. r \in [0..n -> S] /\ r[0] = s0 /\ \A i \in 1..n : r[i] = G[<<i, r[i - 1]>>]
  BY <1>5a DEF IsRun
<1>6. \A i \in 1..n : r[i - 1] \in S /\ r[i] = one(i, r[i - 1])
  <2> SUFFICES ASSUME NEW i \in 1..n PROVE r[i - 1] \in S /\ r[i] = one(i, r[i - 1])
    OBVIOUS
  <2>1. i - 1 \in 0..n
    BY <1>2
  <2> QED BY <2>1, <1>4, <1>5
<1>7. r = [i \in 0..n |-> B(r, i)]
  <2>1. r = [i \in 0..n |-> r[i]]
    BY <1>5
  <2>2. \A i \in 0..n : r[i] = B(r, i)
    BY <1>2, <1>5, <1>6
  <2> QED BY <2>1, <2>2
<1>8. run = [i \in 0..n |-> B(run, i)]
  <2> HIDE DEF B
  <2> QED BY <1>7
<1> HIDE DEF run
<1>9. run[0] = s0 /\ \A i \in 1..n : run[i] = one(i, run[i - 1])
  <2>1. 0 \in 0..n /\ \A i \in 1..n : i \in 0..n /\ i # 0
    BY <1>2
  <2> QED BY <2>1, <1>8
<1>10. \A i \in 0..n : run[i] \in S
  <2> DEFINE T == {i \in 0..n : run[i] \notin S}
  <2> SUFFICES ASSUME T # {} PROVE FALSE
    OBVIOUS
  <2>1. T \in SUBSET Nat
    BY <1>2
  <2>2. PICK m \in T : \A k \in T : m <= k
    BY <2>1, Least
  <2>3. m # 0
    BY <1>9
  <2>4. m \in 1..n /\ m - 1 \in 0..n /\ m - 1 \notin T
    BY <1>2, <2>2, <2>3
  <2> QED BY <2>4, <1>3, <1>9
<1> QED BY <1>1, <1>9, <1>10 DEF IsPodRun, rules, n, one

TopStays(chains, sets, p, c, S) ==
    \A i \in 1..Len(chains[c]), s \in S :
        s.verdict = "go" /\ CondsHold(chains[c][i], p, s, sets) => PodStep(chains, sets, p, chains[c][i].target, s) \in S
IsTopRun(run, chains, sets, p, c, S, s0) ==
    LET rules == chains[c]
        n == Len(rules)
    IN  /\ run[0] = s0 /\ \A i \in 0..n : run[i] \in S
        /\ \A i \in 1..n : run[i] = IF run[i - 1].verdict = "go" /\ CondsHold(rules[i], p, run[i - 1], sets)
                                    THEN PodStep(chains, sets, p, rules[i].target, run[i - 1]) ELSE run[i - 1]
        /\ Traverse(chains, sets, c, p, s0) = Ends(run[n])

LEMMA TopRun ==
  ASSUME NEW chains, NEW sets, NEW p, NEW c, IsList(chains[c]), NEW S, NEW s0 \in S, TopStays(chains, sets, p, c, S)
  PROVE  \E run : IsTopRun(run, chains, sets, p, c, S, s0)
<1> DEFINE rules == chains[c]
           n == Len(rules)
           one(i, s) == IF s.verdict = "go" /\ CondsHold(rules[i], p, s, sets) THEN PodStep(chains, sets, p, rules[i].target, s) ELSE s
           B(f, i) == IF i = 0 THEN s0 ELSE one(i, f[i - 1])
           run == CHOOSE f : f = [i \in 0..n |-> B(f, i)]
           G == [x \in (1..n) \X S |-> one(x[1], x[2])]
<1>1. Traverse(chains, sets, c, p, s0) = Ends(run[n])
  BY DEF Traverse, Walk, Ends, CondsHold
<1>2. n \in Nat
  BY ListFacts
<1>3. \A i \in 1..n, s \in S : one(i, s) \in S
  <2> HIDE DEF CondsHold
  <2> QED BY DEF TopStays
<1> HIDE DEF rules, n, one
<1>4a. G \in [(1..n) \X S -> S]
  BY <1>3
<1>4. \A i \in 1..n, s \in S : G[<<i, s>>] = one(i, s)
  OBVIOUS
<1> HIDE DEF G
<1>5a. PICK r : IsRun(r, n, S, s0, G)
  BY <1>2, <1>4a, Recursion
<1>5. r \in [0..n -> S] /\ r[0] = s0 /\ \A i \in 1..n : r[i] = G[<<i, r[i - 1]>>]
  BY <1>5a DEF IsRun
<1>6. \A i \in 1..n : r[i - 1] \in S /\ r[i] = one(i, r[i - 1])
  <2> SUFFICES ASSUME NEW i \in 1..n PROVE r[i - 1] \in S /\ r[i] = one(i, r[i - 1])
    OBVIOUS
  <2>1. i - 1 \in 0..n
    BY <1>2
  <2> QED BY <2>1, <1>4, <1>5
<1>7. r = [i \in 0..n |-> B(r, i)]
  <2>1. r = [i \in 0..n |-> r[i]]
    BY <1>5
  <2>2. \A i \in 0..n : r[i] = B(r, i)
    BY <1>2, <1>5, <1>6
  <2> QED BY <2>1, <2>2
<1>8. run = [i \in 0..n |-> B(run, i)]
  <2> HIDE DEF B
  <2> QED BY <1>7
<1> HIDE DEF run
<1>9. run[0] = s0 /\ \A i \in 1..n : run[i] = one(i, run[i - 1])
  <2>1. 0 \in 0..n /\ \A i \in 1..n : i \in 0..n /\ i # 0
    BY <1>2
  <2> QED BY <2>1, <1>8
<1>10. \A i \in 0..n : run[i] \in S
  <2> DEFINE T == {i \in 0..n : run[i] \notin S}
  <2> SUFFICES ASSUME T # {} PROVE FALSE
    OBVIOUS
  <2>1. T \in SUBSET Nat
    BY <1>2
  <2>2. PICK m \in T : \A k \in T : m <= k
    BY <2>1, Least
  <2>3. m # 0
    BY <1>9
  <2>4. m \in 1..n /\ m - 1 \in 0..n /\ m - 1 \notin T
    BY <1>2, <2>2, <2>3
  <2> QED BY <2>4, <1>3, <1>9
<1> QED BY <1>1, <1>9, <1>10 DEF IsTopRun, rules, n, one

Start == [verdict |-> "go", matched |-> FALSE, accepted |-> FALSE]
HopPacket(flow, i) == [flow.packet EXCEPT !.dst = flow.hops[i].dst, !.dport = flow.hops[i].dport]
Stopped(s) == s.verdict \in {"REJECT", "DROP"}
Anew(s) == [s EXCEPT !.verdict = "go"]

HopsStay(chains, sets, jumps, flow, S) ==
    \A i \in 1..Len(flow.hops), s \in S :
        ~Stopped(s) /\ flow.hops[i].hook \in jumps
            => Traverse(chains, sets, flow.hops[i].hook, HopPacket(flow, i), Anew(s)) \in S
IsHopsRun(run, chains, sets, jumps, flow, S) ==
    LET n == Len(flow.hops)
    IN  /\ run[0] = Start /\ \A i \in 0..n : run[i] \in S
        /\ \A i \in 1..n : run[i] = IF Stopped(run[i - 1]) \/ flow.hops[i].hook \notin jumps THEN run[i - 1]
                                    ELSE Traverse(chains, sets, flow.hops[i].hook, HopPacket(flow, i), Anew(run[i - 1]))
        /\ Passes(chains, sets, jumps, flow) <=> ~Stopped(run[n])

LEMMA HopsRun ==
  ASSUME NEW chains, NEW sets, NEW jumps, NEW flow, IsList(flow.hops), NEW S, Start \in S, HopsStay(chains, sets, jumps, flow, S)
  PROVE  \E run : IsHopsRun(run, chains, sets, jumps, flow, S)
<1> DEFINE n == Len(flow.hops)
           s0 == Start
           one(i, s) == IF Stopped(s) \/ flow.hops[i].hook \notin jumps THEN s
                        ELSE Traverse(chains, sets, flow.hops[i].hook, HopPacket(flow, i), Anew(s))
           B(f, i) == IF i = 0 THEN s0 ELSE one(i, f[i - 1])
           run == CHOOSE f : f = [i \in 0..n |-> B(f, i)]
           G == [x \in (1..n) \X S |-> one(x[1], x[2])]
<1>1. Passes(chains, sets, jumps, flow) <=> ~Stopped(run[n])
  BY DEF Passes, Start, HopPacket, Stopped, Anew
<1>2. n \in Nat
  BY ListFacts
<1>3. \A i \in 1..n, s \in S : one(i, s) \in S
  <2> HIDE DEF Stopped, Anew, HopPacket
  <2> QED BY DEF HopsStay
<1>3a. s0 \in S
  OBVIOUS
<1> HIDE DEF s0, n, one
<1>4a. G \in [(1..n) \X S -> S]
  BY <1>3
<1>4. \A i \in 1..n, s \in S : G[<<i, s>>] = one(i, s)
  OBVIOUS
<1> HIDE DEF G
<1>5a. PICK r : IsRun(r, n, S, s0, G)
  BY <1>2, <1>3a, <1>4a, Recursion
<1>5. r \in [0..n -> S] /\ r[0] = s0 /\ \A i \in 1..n : r[i] = G[<<i, r[i - 1]>>]
  BY <1>5a DEF IsRun
<1>6. \A i \in 1..n : r[i - 1] \in S /\ r[i] = one(i, r[i - 1])
  <2> SUFFICES ASSUME NEW i \in 1..n PROVE r[i - 1] \in S /\ r[i] = one(i, r[i - 1])
    OBVIOUS
  <2>1. i - 1 \in 0..n
    BY <1>2
  <2> QED BY <2>1, <1>4, <1>5
<1>7. r = [i \in 0..n |-> B(r, i)]
  <2>1. r = [i \in 0..n |-> r[i]]
    BY <1>5
  <2>2. \A i \in 0..n : r[i] = B(r, i)
    BY <1>2, <1>5, <1>6
  <2> QED BY <2>1, <2>2
<1>8. run = [i \in 0..n |-> B(run, i)]
  <2> HIDE DEF B
  <2> QED BY <1>7
<1> HIDE DEF run
<1>9. run[0] = s0 /\ \A i \in 1..n : run[i] = one(i, run[i - 1])
  <2>1. 0 \in 0..n /\ \A i \in 1..n : i \in 0..n /\ i # 0
    BY <1>2
  <2> QED BY <2>1, <1>8
<1>10. \A i \in 0..n : run[i] \in S
  <2> DEFINE T == {i \in 0..n : run[i] \notin S}
  <2> SUFFICES ASSUME T # {} PROVE FALSE
    OBVIOUS
  <2>1. T \in SUBSET Nat
    BY <1>2
  <2>2. PICK m \in T : \A k \in T : m <= k
    BY <2>1, Least
  <2>3. m # 0
    BY <1>3a, <1>9
  <2>4. m \in 1..n /\ m - 1 \in 0..n /\ m - 1 \notin T
    BY <1>2, <2>2, <2>3
  <2> QED BY <2>4, <1>3, <1>9
<1> QED BY <1>1, <1>9, <1>10 DEF IsHopsRun, s0, n, one


----------------------------------------------------------------------------
(* --cleanup-config leaves nothing that refuses *)

LEMMA PassesOpen ==
  ASSUME NEW chains, NEW sets, NEW jumps, NEW flow, IsList(flow.hops),
         \A c \in jumps : IsList(chains[c]) /\ \A r \in Range(chains[c]) :
            r.target.k = "RETURN" \/ (r.target.k = "jump" /\ chains[r.target.chain] = <<>>)
  PROVE  Passes(chains, sets, jumps, flow)
<1> DEFINE S == {s \in States : s.verdict = "go"}
           T == {s \in States : s.verdict \in {"go", "RETURN"}}
           n == Len(flow.hops)
<1>1. Start \in S
  BY DEF Start, States
<1>2. ASSUME NEW p, NEW to, to.k = "jump", chains[to.chain] = <<>>, NEW s \in T PROVE PodStep(chains, sets, p, to, s) = Ends(s)
  <2>1. IsList(chains[to.chain]) /\ Len(chains[to.chain]) = 0 /\ 1..Len(chains[to.chain]) = {}
    BY <1>2 DEF IsList
  <2>2. PodStays(chains, sets, p, to, T)
    BY <2>1 DEF PodStays
  <2> HIDE DEF T
  <2>3. PICK run : IsPodRun(run, chains, sets, p, to, T, s)
    BY <1>2, <2>1, <2>2, PodRun
  <2>4. run[0] = s /\ PodStep(chains, sets, p, to, s) = Ends(run[Len(chains[to.chain])])
    BY <2>3 DEF IsPodRun
  <2> QED BY <2>1, <2>4
<1>3. ASSUME NEW p, NEW c \in jumps, NEW s \in S PROVE Traverse(chains, sets, c, p, s) \in S
  <2>1. ASSUME NEW i \in 1..Len(chains[c]), NEW q \in T, q.verdict = "go" PROVE PodStep(chains, sets, p, chains[c][i].target, q) \in T
    <3> DEFINE t == chains[c][i].target
    <3>1. t.k = "RETURN" \/ (t.k = "jump" /\ chains[t.chain] = <<>>)
      BY ListFacts
    <3> HIDE DEF t
    <3>2. CASE t.k = "RETURN"
      <4>1. PodStep(chains, sets, p, t, q) = Target(t, q)
        BY <3>2 DEF PodStep
      <4>a. q \in States /\ t.k \in {"RETURN", "ACCEPT", "REJECT", "DROP"}
        BY <3>2
      <4>b. Target(t, q) \in States /\ Target(t, q).verdict = t.k
        BY <4>a, TargetFacts
      <4>2. Target(t, q) \in T
        BY <3>2, <4>b
      <4> QED BY <4>1, <4>2 DEF t
    <3>3. CASE t.k = "jump" /\ chains[t.chain] = <<>>
      <4>1. PodStep(chains, sets, p, t, q) = Ends(q)
        BY <3>3, <1>2
      <4>2. Ends(q) = q
        BY <2>1, StateFacts
      <4> QED BY <4>1, <4>2 DEF t
    <3> QED BY <3>1, <3>2, <3>3
  <2>2. IsList(chains[c]) /\ s \in T /\ TopStays(chains, sets, p, c, T)
    BY <2>1 DEF TopStays
  <2> HIDE DEF T
  <2>3a. PICK run : IsTopRun(run, chains, sets, p, c, T, s)
    BY <2>2, TopRun
  <2>3. (\A i \in 0..Len(chains[c]) : run[i] \in T) /\ Traverse(chains, sets, c, p, s) = Ends(run[Len(chains[c])])
    BY <2>3a DEF IsTopRun
  <2>4. Len(chains[c]) \in 0..Len(chains[c])
    BY <2>2, ListFacts
  <2> DEFINE e == run[Len(chains[c])]
  <2>5. e \in T
    BY <2>3, <2>4
  <2> HIDE DEF e
  <2>6. Ends(e) \in S
    BY <2>5 DEF T, Ends, States
  <2> QED BY <2>3, <2>6 DEF e
<1>4. \A s \in S : Anew(s) \in S
  BY DEF Anew, States
<1>5. \A i \in 1..n, s \in S : flow.hops[i].hook \in jumps
        => Traverse(chains, sets, flow.hops[i].hook, HopPacket(flow, i), Anew(s)) \in S
  BY <1>3, <1>4
<1> HIDE DEF S, n
<1>6a. HopsStay(chains, sets, jumps, flow, S)
  BY <1>5 DEF HopsStay, n
<1>6b. PICK run : IsHopsRun(run, chains, sets, jumps, flow, S)
  BY <1>1, <1>6a, HopsRun
<1>6. (\A i \in 0..Len(flow.hops) : run[i] \in S) /\ (Passes(chains, sets, jumps, flow) <=> ~Stopped(run[Len(flow.hops)]))
  BY <1>6b DEF IsHopsRun
<1>7. Len(flow.hops) \in 0..Len(flow.hops)
  BY ListFacts
<1>8. run[Len(flow.hops)] \in S
  BY <1>6, <1>7
<1> QED BY <1>6, <1>8 DEF S, Stopped


\* The chains of a family that its built-in chains jump to, if they do: each rule there
\* returns, or jumps to a chain that exists and that --cleanup-config sweeps.
Leads(chains, jumps) ==
    /\ jumps # {} => Range(Builtins) \subseteq DOMAIN chains
    /\ \A c \in Range(Builtins) \cap DOMAIN chains :
          /\ IsList(chains[c])
          /\ \A r \in Range(chains[c]) :
                \/ r.target.k = "RETURN"
                \/ r.target.k = "jump" /\ Swept(r.target.chain) /\ r.target.chain \in DOMAIN chains
TopsLead == \A f \in Family : Leads(npChains[f], npJumps[f])

LEMMA BuiltinsNamed ==
  /\ Range(Builtins) = {Input, Forward, Output}
  /\ \A c \in Range(Builtins) : ~Swept(c) /\ c[1] # "NWPLCY" /\ c[1] # "POD-FW" /\ c \notin {Common, Default, TailChain}
  /\ Swept(TailChain) /\ \A c : c[1] = "POD-FW" => Swept(c)
<1>1. Range(Builtins) = {Input, Forward, Output}
  BY Triple DEF Builtins
<1>2. \A c \in {Input, Forward, Output} : c[1] \in {"INPUT", "FORWARD", "OUTPUT"}
  BY DEF Input, Forward, Output
<1>3. Common[1] = "COMMON" /\ Default[1] = "DEFAULT" /\ TailChain[1] = "TAIL"
  BY DEF Common, Default, TailChain
<1>4. \A c \in {Input, Forward, Output} : ~Swept(c) /\ c[1] # "NWPLCY" /\ c[1] # "POD-FW" /\ c \notin {Common, Default, TailChain}
  BY <1>2, <1>3 DEF Swept
<1> QED BY <1>1, <1>3, <1>4 DEF Swept

LEMMA DocLeads ==
  ASSUME NEW plan, NEW w, NEW f, NEW d, PlanFacts(plan, w, f, d), NEW chains, NEW jumps
  PROVE  Leads(FilterRestoreDoc(chains, plan), jumps)
<1> DEFINE D == FilterRestoreDoc(chains, plan)
<1>1. IsList(plan.rules) /\ Tops \subseteq plan.chains /\ \A r \in Range(plan.rules) : RuleFacts(r, Names(plan), plan.chains)
  BY DEF PlanFacts, IsPlan, Good
<1>2. Range(Builtins) \subseteq plan.chains
  BY <1>1, BuiltinsNamed DEF Tops
<1>a. IsList(plan.rules)
  BY <1>1
<1>3. /\ DOMAIN D = DOMAIN chains \cup plan.chains
      /\ \A c \in plan.chains : IsList(D[c]) /\ Range(D[c]) = {r \in Range(plan.rules) : r.chain = c}
      /\ \A c \in DOMAIN chains \ plan.chains : D[c] = chains[c]
  BY <1>a, DocFacts
<1> HIDE DEF D
<1>4. ASSUME NEW c \in Range(Builtins), NEW r \in Range(D[c])
      PROVE  \/ r.target.k = "RETURN"
             \/ r.target.k = "jump" /\ Swept(r.target.chain) /\ r.target.chain \in DOMAIN D
  <2>1. r.chain = c /\ RuleFacts(r, Names(plan), plan.chains)
    BY <1>1, <1>2, <1>3
  <2>2. Shape(r) /\ (r.target.k = "jump" => r.target.chain \in DOMAIN D)
    BY <2>1, <1>3 DEF RuleFacts
  <2>3. /\ r.chain[1] # "NWPLCY" /\ r.chain[1] # "POD-FW" /\ r.chain \notin {Common, Default, TailChain}
    BY <2>1, BuiltinsNamed
  <2>4. r.target.k = "RETURN" \/ (r.target.k = "jump" /\ (r.target.chain = TailChain \/ r.target.chain[1] = "POD-FW"))
    BY <2>2, <2>3 DEF Shape
  <2> QED BY <2>2, <2>4, BuiltinsNamed
<1> QED BY <1>2, <1>3, <1>4 DEF Leads, D

LEMMA LeadsInit == NpInit => TopsLead
<1> SUFFICES ASSUME NpInit, NEW f \in Family PROVE Leads(npChains[f], npJumps[f])
  BY DEF TopsLead
<1>1. npChains[f] = <<>> /\ npJumps[f] = {} /\ DOMAIN <<>> = {}
  BY DEF NpInit
<1> QED BY <1>1 DEF Leads

LEMMA LeadsFewer ==
  ASSUME NEW chains, NEW jumps, Leads(chains, jumps), NEW fewer, fewer = {} \/ fewer = jumps
  PROVE  Leads(chains, fewer)
BY DEF Leads

LEMMA LeadsCleanup == ASSUME NpTypes, TopsLead, NpCleanup PROVE TopsLead'
<1> SUFFICES ASSUME NEW f \in Family PROVE Leads(npChains'[f], npJumps'[f])
  BY DEF TopsLead
<1> DEFINE old == npChains[f]
           new == npChains'[f]
           left == LeftByFirewallCmds(f)
           kept == {x \in left : Swept(x) => Referenced(old, left, x)}
<1>1. new = [c \in kept |-> IF Swept(c) THEN <<>> ELSE old[c]]
  BY DEF NpCleanup
<1>2. f = 4 => npJumps'[f] = {}
  BY DEF NpCleanup, NpTypes
<1>3. f # 4 => npJumps'[f] = npJumps[f]
  BY DEF NpCleanup, NpTypes
<1>4. Leads(old, npJumps[f])
  BY DEF TopsLead
<1>5. CASE f = 4
  <2>1. Range(Builtins) \cap DOMAIN new = {}
    BY <1>1, <1>5 DEF LeftByFirewallCmds
  <2> QED BY <1>2, <1>5, <2>1 DEF Leads
<1>6. CASE f # 4
  <2>1. left = DOMAIN old
    BY <1>6 DEF LeftByFirewallCmds
  <2> HIDE DEF left, old, new
  <2>2. \A c \in Range(Builtins) \cap DOMAIN old : c \in DOMAIN new /\ new[c] = old[c]
    BY <1>1, <2>1, BuiltinsNamed
  <2>3. DOMAIN new \subseteq DOMAIN old
    BY <1>1, <2>1
  <2>4. ASSUME NEW c \in Range(Builtins) \cap DOMAIN old, NEW r \in Range(old[c]), r.target.k = "jump", r.target.chain \in DOMAIN old
        PROVE  r.target.chain \in DOMAIN new
    <3>1. PICK i \in DOMAIN old[c] : r = old[c][i]
      BY DEF Range
    <3>2. Referenced(old, left, r.target.chain)
      BY <2>1, <2>4, <3>1 DEF Referenced
    <3> QED BY <1>1, <2>1, <2>4, <3>2
  <2> QED BY <1>3, <1>4, <1>6, <2>2, <2>3, <2>4 DEF Leads, old, new
<1> QED BY <1>5, <1>6

LEMMA LeadsNext == ASSUME KernelInv, TopsLead, [NpNext]_npVars PROVE TopsLead'
<1>0. NpTypes /\ DOMAIN npChains = Family /\ npJumps \in [Family -> SUBSET Range(Builtins)]
  BY DEF KernelInv, NpTypes
<1>1. CASE npChains' = npChains /\ npJumps' = npJumps
  BY <1>1 DEF TopsLead
<1>2. CASE NpJumpsLost
  <2>1. npChains' = npChains /\ \A f \in Family : npJumps'[f] = {} \/ npJumps'[f] = npJumps[f]
    BY <1>0, <1>2 DEF NpJumpsLost
  <2> QED BY <2>1, LeadsFewer DEF TopsLead
<1>3. CASE NpRestoreFilter
  <2>1. npPass.on /\ npChains' = [npChains EXCEPT ![F] = FilterRestoreDoc(@, Current)] /\ npJumps' = npJumps
    BY <1>3 DEF NpRestoreFilter
  <2>2. PlanFacts(Current, Seen[npPass.world], F, npDeny) /\ F \in Family
    BY <1>0, <2>1, PassFacts
  <2>3. Leads(FilterRestoreDoc(npChains[F], Current), npJumps[F])
    BY <2>2, DocLeads
  <2>4. npChains'[F] = FilterRestoreDoc(npChains[F], Current) /\ \A f \in Family \ {F} : npChains'[f] = npChains[f]
    BY <1>0, <2>1, <2>2
  <2> QED BY <2>1, <2>3, <2>4 DEF TopsLead
<1>4. CASE NpEnsureJump
  <2>1. npPass.on /\ npPass.step > NSets + 1 /\ npChains' = npChains
    BY <1>4 DEF NpEnsureJump
  <2>2. PICK b : npJumps' = [npJumps EXCEPT ![F] = @ \cup {b}]
    BY <1>4 DEF NpEnsureJump
  <2> DEFINE w == npPass.world
  <2>3. w \in DOMAIN World /\ F \in Family /\ NSets = Len(SetWrites(w, npDeny, F)) /\ npDeny \in BOOLEAN
    BY <1>0, <2>1, PassFacts DEF NpTypes
  <2>4. Restored(w, npDeny, F, npPass.step)
    BY <2>1, <2>3 DEF Restored
  <2>5. Includes(npChains[F], ChainsLeft(w, npDeny, F))
    BY <2>1, <2>3, <2>4 DEF KernelInv, PassWritten
  <2>6. Range(Builtins) \subseteq DOMAIN ChainsLeft(w, npDeny, F)
    BY <2>3, SetsLeftFacts, ImageClosed
  <2>7. Range(Builtins) \subseteq DOMAIN npChains[F]
    BY <2>5, <2>6 DEF Includes
  <2>8. \A f \in Family \ {F} : npJumps'[f] = npJumps[f]
    BY <1>0, <2>2, <2>3
  <2> QED BY <2>1, <2>7, <2>8 DEF TopsLead, Leads
<1>5. CASE NpCleanup
  BY <1>0, <1>5, LeadsCleanup
<1>6. CASE NpStoreChange \/ NpTick \/ NpRestoreSet \/ NpFail \/ NpRestart
  BY <1>1, <1>6 DEF NpStoreChange, NpTick, NpRestoreSet, NpFail, NpRestart, npKernel
<1>7. CASE UNCHANGED npVars
  BY <1>1, <1>7 DEF npVars, npKernel
<1> QED BY <1>2, <1>3, <1>4, <1>5, <1>6, <1>7 DEF NpNext

\* CleanupOpens, in whatever state the agent was stopped: what --cleanup-config leaves
\* behind refuses nothing (cleanup.rs).
THEOREM CleanedIsOpen == NpSpec => CleanupOpens
<1>1. ASSUME KernelInv, TopsLead, [NpNext]_npVars PROVE [NpCleanup => (\A flow \in Flow : KernelPasses(flow))']_npVars
  <2> SUFFICES ASSUME NpCleanup, NEW flow \in Flow PROVE KernelPasses(flow)'
    OBVIOUS
  <2> DEFINE f == FamilyOf(flow)
             chains == npChains'[f]
             jumps == npJumps'[f]
  <2>1. NpTypes /\ NpTypes' /\ TopsLead' /\ f \in Family
    BY <1>1, KernelCleanup, LeadsNext, FlowFamily DEF KernelInv
  <2>2. Leads(chains, jumps) /\ jumps \subseteq Range(Builtins)
    BY <2>1 DEF TopsLead, NpTypes
  <2>3. \A c \in DOMAIN chains : Swept(c) => chains[c] = <<>>
    BY <2>1 DEF NpCleanup
  <2> HIDE DEF chains, jumps
  <2>4. \A c \in jumps : IsList(chains[c]) /\ \A r \in Range(chains[c]) :
            r.target.k = "RETURN" \/ (r.target.k = "jump" /\ chains[r.target.chain] = <<>>)
    BY <2>2, <2>3 DEF Leads
  <2>5. Passes(chains, npSets'[f], jumps, flow)
    <3>1. IsList(flow.hops)
      BY NpFlows
    <3> QED BY <3>1, <2>4, PassesOpen
  <2> QED BY <2>5 DEF KernelPasses, chains, jumps
<1>2. NpInit => TopsLead
  BY LeadsInit
<1>3. KernelInv /\ TopsLead /\ [NpNext]_npVars => TopsLead'
  BY LeadsNext
<1> QED BY <1>1, <1>2, <1>3, KernelKept, PTL DEF NpSpec, CleanupOpens


----------------------------------------------------------------------------
(* With default_deny: what the plan has for pods without a chain *)

\* The rule lets the node itself through, to one of these addresses.
NodeTo(conds, I) ==
    /\ \E c \in Range(conds) : c.k = "srcLocal"
    /\ \E c \in Range(conds) : c.k = "addr" /\ c.side = "dst" /\ c.ips \subseteq I
\* A rule outside the tail accepts nothing in the chain of a pod but that.
Elsewhere(r, I) ==
    r.chain # TailChain /\ (r.chain[1] = "POD-FW" /\ r.target.k = "ACCEPT" => NodeTo(r.conds, I))
Aside(rules, I) == IsList(rules) /\ \A r \in Range(rules) : Elsewhere(r, I)

LEMMA AsideLists ==
  ASSUME NEW I
  PROVE  /\ Aside(<<>>, I)
         /\ \A r : Elsewhere(r, I) => Aside(<<r>>, I)
         /\ \A a, b : Aside(a, I) /\ Aside(b, I) => Aside(a \o b, I)
<1>1. Aside(<<>>, I)
  BY Empty DEF Aside
<1>2. ASSUME NEW r, Elsewhere(r, I) PROVE Aside(<<r>>, I)
  BY <1>2, Single DEF Aside
<1>3. ASSUME NEW a, NEW b, Aside(a, I), Aside(b, I) PROVE Aside(a \o b, I)
  <2>1. IsList(a \o b) /\ Range(a \o b) = Range(a) \cup Range(b)
    BY <1>3, Concat DEF Aside
  <2> QED BY <1>3, <2>1 DEF Aside
<1> QED BY <1>1, <1>2, <1>3

LEMMA AsideMap ==
  ASSUME NEW s, IsList(s), NEW t, DOMAIN t = DOMAIN s, t = [i \in DOMAIN s |-> t[i]], NEW I,
         \A i \in DOMAIN s : Elsewhere(t[i], I)
  PROVE  Aside(t, I)
<1>1. IsList(t)
  BY Mapped
<1> QED BY <1>1 DEF Aside, Range

LEMMA AsideFlat ==
  ASSUME NEW s, IsList(s), NEW t, DOMAIN t = DOMAIN s, t = [i \in DOMAIN s |-> t[i]], NEW I,
         \A i \in DOMAIN s : Aside(t[i], I)
  PROVE  Aside(FlattenSeq(t), I)
<1>1. IsList(t)
  BY Mapped
<1>2. IsList(FlattenSeq(t)) /\ Range(FlattenSeq(t)) = UNION {Range(t[i]) : i \in DOMAIN t}
  BY <1>1, FlatRange DEF Aside
<1> QED BY <1>2 DEF Aside

LEMMA RuleAside ==
  ASSUME NEW c, c # TailChain, NEW conds, NEW t, c[1] # "POD-FW" \/ t.k # "ACCEPT", NEW I
  PROVE  Elsewhere(R(c, conds, t), I)
BY PlainRule DEF Elsewhere

LEMMA NamesAside ==
  /\ Input # TailChain /\ Forward # TailChain /\ Output # TailChain /\ Common # TailChain /\ Default # TailChain
  /\ \A c \in {Input, Forward, Output, Common, Default, TailChain} : c[1] # "POD-FW"
  /\ \A pod : PodFirewallChain(pod) # TailChain /\ PodFirewallChain(pod)[1] = "POD-FW"
<1>1. /\ Input[1] = "INPUT" /\ Forward[1] = "FORWARD" /\ Output[1] = "OUTPUT"
      /\ Common[1] = "COMMON" /\ Default[1] = "DEFAULT" /\ TailChain[1] = "TAIL"
  BY DEF Input, Forward, Output, Common, Default, TailChain
<1>2. \A pod : PodFirewallChain(pod)[1] = "POD-FW"
  BY DEF PodFirewallChain
<1> QED BY <1>1, <1>2

LEMMA BaseAside == ASSUME NEW f, NEW I PROVE Aside(CommonRules \o ServiceReturns(f), I)
<1> DEFINE range == {ip \in ServiceRange : ip[1] = f}
           ports == ValidateNodePortRange(NodePortArg)
           conds(proto) == Proto(proto) \o <<[k |-> "dstLocal"]>> \o Dports(ports[1])
           protos == <<"tcp", "udp", "sctp">>
           m == [i \in DOMAIN protos |-> R(Input, conds(protos[i]), Do("RETURN"))]
           a == IF range = {} THEN <<>> ELSE <<R(Input, Is("dst", range), Do("RETURN"))>>
           b == IF ports = <<>> THEN <<>> ELSE m
<1>1. ServiceReturns(f) = a \o b
  BY DEF ServiceReturns, MapSeq
<1>2. \A cs : Elsewhere(R(Input, cs, Do("RETURN")), I)
  BY NamesAside, RuleAside
<1>3. Aside(a, I)
  BY <1>2, AsideLists
<1>4. DOMAIN m = DOMAIN protos /\ m = [i \in DOMAIN protos |-> m[i]] /\ \A i \in DOMAIN protos : m[i] = R(Input, conds(protos[i]), Do("RETURN"))
  OBVIOUS
<1>5. IsList(protos)
  BY Triple
<1> HIDE DEF m, protos, conds
<1>6. Aside(m, I)
  BY <1>2, <1>4, <1>5, AsideMap
<1>7. Aside(b, I)
  BY <1>6, AsideLists
<1> HIDE DEF a, b
<1>8. Aside(a \o b, I)
  BY <1>3, <1>7, AsideLists
<1>9. Aside(CommonRules, I)
  <2>1. \A r \in Range(CommonRules) : r.chain \in {Common, Default}
    <3> DEFINE r1 == R(Common, <<[k |-> "ct", v |-> {"invalid"}]>>, Do("DROP"))
               r2 == R(Common, <<[k |-> "ct", v |-> {"est"}]>>, Do("ACCEPT"))
               r3 == R(Common, Proto("icmp"), Do("ACCEPT"))
               r4 == R(Default, <<>>, Do("MATCHED"))
    <3>1. CommonRules = <<r1, r2, r3, r4>>
      BY DEF CommonRules
    <3>2. r1.chain = Common /\ r2.chain = Common /\ r3.chain = Common /\ r4.chain = Default
      BY DEF R
    <3> HIDE DEF r1, r2, r3, r4
    <3>3. DOMAIN CommonRules = 1..4 /\ CommonRules[1] = r1 /\ CommonRules[2] = r2 /\ CommonRules[3] = r3 /\ CommonRules[4] = r4
      BY <3>1
    <3> QED BY <3>2, <3>3 DEF Range
  <2>2. IsList(CommonRules)
    BY CommonFacts
  <2> QED BY <2>1, <2>2, NamesAside DEF Aside, Elsewhere
<1> QED BY <1>1, <1>8, <1>9, AsideLists

LEMMA PolicyAside == ASSUME NEW p, NEW N, PolicyPart(p, N), NEW I PROVE Aside(p.rules, I)
<1>1. TailChain[1] = "TAIL"
  BY DEF TailChain
<1> QED BY <1>1 DEF PolicyPart, IsPlan, Aside, Elsewhere

LEMMA PolicyJumpsAside ==
  ASSUME NEW w, IsList(w.policies), NEW pod, NEW ip, NEW I
  PROVE  Aside(PolicyJumps(pod, ip, w), I)
<1> DEFINE chain == PodFirewallChain(pod)
           sel == Selecting(pod, w)
           conds(pol) == CASE pol.ingress /\ pol.egress -> <<>>
                           [] pol.ingress /\ ~pol.egress -> Is("dst", {ip})
                           [] OTHER -> Is("src", {ip})
           m == [i \in DOMAIN sel |-> R(chain, conds(sel[i]), Jump(NetworkPolicyChain(sel[i])))]
           u(side) == <<R(chain, Is(side, {ip}), Jump(Default))>>
           b == IF \E p \in Range(sel) : p.ingress THEN <<>> ELSE u("dst")
           c == IF \E p \in Range(sel) : p.egress THEN <<>> ELSE u("src")
<1>1. PolicyJumps(pod, ip, w) = m \o b \o c
  BY DEF PolicyJumps, MapSeq
<1>2. IsList(sel)
  BY ApplyingFacts
<1>3. \A cs, d : Elsewhere(R(chain, cs, Jump(d)), I)
  <2> SUFFICES ASSUME NEW cs, NEW d PROVE Elsewhere(R(chain, cs, Jump(d)), I)
    OBVIOUS
  <2> DEFINE t == Jump(d)
  <2>1. t.k = "jump" /\ chain # TailChain
    BY NamesAside DEF Jump
  <2> HIDE DEF t, chain
  <2>2. Elsewhere(R(chain, cs, t), I)
    BY <2>1, RuleAside
  <2> QED BY <2>2 DEF t
<1>4. DOMAIN m = DOMAIN sel /\ m = [i \in DOMAIN sel |-> m[i]]
      /\ \A i \in DOMAIN sel : m[i] = R(chain, conds(sel[i]), Jump(NetworkPolicyChain(sel[i])))
  OBVIOUS
<1> HIDE DEF m, conds, sel, chain
<1>5. Aside(m, I)
  BY <1>2, <1>3, <1>4, AsideMap
<1>6. Aside(b, I) /\ Aside(c, I)
  BY <1>3, AsideLists
<1> HIDE DEF b, c
<1> DEFINE mb == m \o b
<1>7. Aside(mb, I)
  BY <1>5, <1>6, AsideLists
<1> HIDE DEF mb
<1>8. Aside(mb \o c, I)
  BY <1>6, <1>7, AsideLists
<1> QED BY <1>1, <1>8 DEF mb

LEMMA TopLevelAside == ASSUME NEW chain, NEW ip, NEW I PROVE Aside(TopLevelJumps(chain, ip), I)
<1> DEFINE dst == Is("dst", {ip})
           src == Is("src", {ip})
           br(side) == <<[k |-> "bridged"]>> \o Is(side, {ip})
           r1 == R(Forward, dst, Jump(chain))
           r2 == R(Output, dst, Jump(chain))
           r3 == R(Forward, br("dst"), Jump(chain))
           r4 == R(Forward, br("src"), Jump(chain))
           tops == <<Input, Forward, Output>>
           m == [i \in DOMAIN tops |-> R(tops[i], src, Jump(chain))]
<1>1. TopLevelJumps(chain, ip) = <<r1, r2, r3>> \o m \o <<r4>>
  BY DEF TopLevelJumps, MapSeq
<1>2. \A cs : \A b \in {Input, Forward, Output} : Elsewhere(R(b, cs, Jump(chain)), I)
  BY NamesAside, RuleAside
<1>3. Elsewhere(r1, I) /\ Elsewhere(r2, I) /\ Elsewhere(r3, I) /\ Elsewhere(r4, I)
  BY <1>2
<1>4. IsList(tops) /\ DOMAIN tops = {1, 2, 3} /\ \A i \in DOMAIN tops : tops[i] \in {Input, Forward, Output}
  BY Triple
<1>5. DOMAIN m = DOMAIN tops /\ m = [i \in DOMAIN tops |-> m[i]] /\ \A i \in DOMAIN tops : m[i] = R(tops[i], src, Jump(chain))
  OBVIOUS
<1> HIDE DEF m, tops, src
<1>6. Aside(m, I)
  BY <1>2, <1>4, <1>5, AsideMap
<1> HIDE DEF r1, r2, r3, r4
<1> DEFINE a == <<r1, r2, r3>>
           b == <<r4>>
<1>7. Aside(a, I) /\ Aside(b, I)
  BY <1>3, Triple, Single DEF Aside
<1> HIDE DEF a, b
<1> DEFINE am == a \o m
<1>8. Aside(am, I)
  BY <1>6, <1>7, AsideLists
<1> HIDE DEF am
<1>9. Aside(am \o b, I)
  BY <1>7, <1>8, AsideLists
<1> QED BY <1>1, <1>9 DEF am, a, b


LEMMA PodPlanAside ==
  ASSUME NEW w, IsList(w.policies), NEW pod, IsList(pod.ips), NEW f, NEW I, Range(PodFamilyIps(pod, f)) \subseteq I
  PROVE  Aside(PodPlan(pod, w, f).rules, I)
<1> DEFINE P == PodPlan(pod, w, f)
           chain == PodFirewallChain(pod)
           ips == PodFamilyIps(pod, f)
           loc(ip) == <<[k |-> "srcLocal"]>> \o Is("dst", {ip})
           a == <<R(chain, <<>>, Jump(Common))>>
           b == [i \in DOMAIN ips |-> R(chain, loc(ips[i]), Do("ACCEPT"))]
           jumps == [i \in DOMAIN ips |-> PolicyJumps(pod, ips[i], w)]
           r1 == R(chain, Marked(FALSE), Do("REJECT"))
           r2 == R(chain, <<>>, Do("UNMATCHED"))
           r3 == R(chain, <<>>, Do("ACCEPTED"))
           d == <<r1, r2, r3>>
           tops == [i \in DOMAIN ips |-> TopLevelJumps(chain, ips[i])]
           c == FlattenSeq(jumps)
           e == FlattenSeq(tops)
<1>1. P.rules = a \o b \o c \o d \o e
  BY DEF PodPlan, Plan, MapSeq
<1>2. IsList(ips)
  BY FamilyIps
<1>3. \A cs, t : t.k # "ACCEPT" => Elsewhere(R(chain, cs, t), I)
  <2> SUFFICES ASSUME NEW cs, NEW t, t.k # "ACCEPT" PROVE Elsewhere(R(chain, cs, t), I)
    OBVIOUS
  <2>1. chain # TailChain
    BY NamesAside
  <2> HIDE DEF chain
  <2> QED BY <2>1, RuleAside
<1>4. Aside(a, I)
  <2> DEFINE t == Jump(Common)
  <2>1. t.k # "ACCEPT"
    BY DEF Jump
  <2> HIDE DEF t, chain
  <2>2. Aside(<<R(chain, <<>>, t)>>, I)
    BY <1>3, <2>1, AsideLists
  <2> QED BY <2>2 DEF t
<1>5. \A ip \in Range(ips) : Elsewhere(R(chain, loc(ip), Do("ACCEPT")), I)
  <2> SUFFICES ASSUME NEW ip \in Range(ips) PROVE Elsewhere(R(chain, loc(ip), Do("ACCEPT")), I)
    OBVIOUS
  <2> DEFINE x == [k |-> "srcLocal"]
             y == [k |-> "addr", side |-> "dst", ips |-> {ip}]
             z == <<x>>
             v == <<y>>
             cc == z \o v
  <2>1. IsList(z) /\ Range(z) = {x} /\ IsList(v) /\ Range(v) = {y}
    BY Single
  <2>2. x.k = "srcLocal" /\ y.k = "addr" /\ y.side = "dst" /\ y.ips \subseteq I
    OBVIOUS
  <2>3. cc = loc(ip)
    BY DEF Is
  <2> HIDE DEF x, y, loc
  <2> HIDE DEF z, v
  <2>4. Range(cc) = Range(z) \cup Range(v)
    BY <2>1, Concat
  <2> HIDE DEF cc
  <2>5. NodeTo(cc, I)
    BY <2>1, <2>2, <2>4 DEF NodeTo
  <2>6. chain # TailChain /\ R(chain, loc(ip), Do("ACCEPT")).chain = chain /\ R(chain, loc(ip), Do("ACCEPT")).conds = loc(ip)
    BY NamesAside DEF R
  <2> QED BY <2>3, <2>5, <2>6 DEF Elsewhere
<1>6. Aside(b, I)
  <2>1. DOMAIN b = DOMAIN ips /\ b = [i \in DOMAIN ips |-> b[i]]
        /\ \A i \in DOMAIN ips : b[i] = R(chain, loc(ips[i]), Do("ACCEPT"))
    OBVIOUS
  <2>2. \A i \in DOMAIN ips : ips[i] \in Range(ips)
    BY <1>2, ListFacts
  <2> HIDE DEF b, loc, ips, chain
  <2>3. \A i \in DOMAIN ips : Elsewhere(b[i], I)
    BY <1>5, <2>1, <2>2
  <2> QED BY <2>1, <2>3, <1>2, AsideMap
<1>7. Aside(c, I)
  <2>1. DOMAIN jumps = DOMAIN ips /\ jumps = [i \in DOMAIN ips |-> jumps[i]]
        /\ \A i \in DOMAIN ips : jumps[i] = PolicyJumps(pod, ips[i], w)
    OBVIOUS
  <2>2. \A i \in DOMAIN ips : Aside(jumps[i], I)
    BY <2>1, PolicyJumpsAside
  <2> HIDE DEF jumps, ips
  <2> QED BY <2>1, <2>2, <1>2, AsideFlat
<1>8. Aside(e, I)
  <2>1. DOMAIN tops = DOMAIN ips /\ tops = [i \in DOMAIN ips |-> tops[i]]
        /\ \A i \in DOMAIN ips : tops[i] = TopLevelJumps(chain, ips[i])
    OBVIOUS
  <2>2. \A i \in DOMAIN ips : Aside(tops[i], I)
    BY <2>1, TopLevelAside
  <2> HIDE DEF tops, ips
  <2> QED BY <2>1, <2>2, <1>2, AsideFlat
<1>9. Aside(d, I)
  <2>1. Do("REJECT").k # "ACCEPT" /\ Do("UNMATCHED").k # "ACCEPT" /\ Do("ACCEPTED").k # "ACCEPT"
    BY DEF Do
  <2>2. Elsewhere(r1, I) /\ Elsewhere(r2, I) /\ Elsewhere(r3, I)
    BY <1>3, <2>1
  <2> HIDE DEF r1, r2, r3
  <2> QED BY <2>2, Triple DEF Aside
<1> HIDE DEF a, b, c, d, e, P
<1> DEFINE ab == a \o b
<1>10. Aside(ab, I)
  BY <1>4, <1>6, AsideLists
<1> HIDE DEF ab
<1> DEFINE abc == ab \o c
<1>11. Aside(abc, I)
  BY <1>10, <1>7, AsideLists
<1> HIDE DEF abc
<1> DEFINE abcd == abc \o d
<1>12. Aside(abcd, I)
  BY <1>11, <1>9, AsideLists
<1> HIDE DEF abcd
<1>13. Aside(abcd \o e, I)
  BY <1>12, <1>8, AsideLists
<1> QED BY <1>1, <1>13 DEF abcd, abc, ab, P

\* The tail refuses an address of the pod CIDR that the set of the local pods lacks.
Unless(f, side) ==
    R(TailChain, Is(side, {ip \in PodCidr : ip[1] = f}) \o NotInSet(LocalPodsSet(f), side), Do("REJECT"))
TailAccepts(U) == {r \in U : r.chain = TailChain /\ r.target.k = "ACCEPT"}
ToTail(b) == R(b, <<>>, Jump(TailChain))
Sides == {"src", "dst"}
\* The rules refuse it first, on every path, and let nothing else past the tail but the node.
Waits(rules, f, I) ==
    /\ \A side \in Sides : Unless(f, side) \in Range(rules) /\ Before(rules, {Unless(f, side)}, TailAccepts(Range(rules)))
    /\ \A b \in Range(Builtins) : ToTail(b) \in Range(rules)
    /\ \A r \in Range(rules) : r.chain[1] = "POD-FW" /\ r.target.k = "ACCEPT" => NodeTo(r.conds, I)

LEMMA TailPlanWaits ==
  ASSUME NEW w, NEW f, \E ip \in PodCidr : ip[1] = f, NEW U
  PROVE  LET rules == TailPlan(w, f, TRUE).rules
         IN  /\ IsList(rules)
             /\ \A side \in Sides : Unless(f, side) \in Range(rules) /\ Before(rules, {Unless(f, side)}, TailAccepts(U))
             /\ \A b \in Range(Builtins) : ToTail(b) \in Range(rules)
             /\ \A r \in Range(rules) : r.chain \in {TailChain} \cup Range(Builtins)
<1> DEFINE rules == TailPlan(w, f, TRUE).rules
           cidr == {ip \in PodCidr : ip[1] = f}
           sides == <<"src", "dst">>
           un == [i \in DOMAIN sides |-> Unless(f, sides[i])]
           re == [i \in DOMAIN sides |-> R(TailChain, Is(sides[i], cidr), Do("REJECT"))]
           tops == <<Input, Forward, Output>>
           ju == [i \in DOMAIN tops |-> ToTail(tops[i])]
           ac == R(TailChain, <<[k |-> "accepted"]>>, Do("ACCEPT"))
           b == <<ac>>
<1>1. rules = un \o b \o re \o ju
  <2>1. cidr # {}
    OBVIOUS
  <2> QED BY <2>1 DEF TailPlan, Plan, MapSeq, Unless, ToTail
<1>2. IsList(sides) /\ DOMAIN sides = {1, 2} /\ sides[1] = "src" /\ sides[2] = "dst"
  BY Pair
<1>3. IsList(tops) /\ DOMAIN tops = {1, 2, 3} /\ Range(tops) = Range(Builtins) /\ \A i \in DOMAIN tops : tops[i] \in Range(Builtins)
  BY Triple DEF Builtins
<1>4. DOMAIN un = DOMAIN sides /\ un = [i \in DOMAIN sides |-> un[i]] /\ un[1] = Unless(f, "src") /\ un[2] = Unless(f, "dst")
  BY <1>2
<1>5. DOMAIN re = DOMAIN sides /\ re = [i \in DOMAIN sides |-> re[i]] /\ \A i \in DOMAIN sides : re[i].chain = TailChain
  BY DEF R
<1>6. DOMAIN ju = DOMAIN tops /\ ju = [i \in DOMAIN tops |-> ju[i]] /\ \A i \in DOMAIN tops : ju[i] = ToTail(tops[i])
  OBVIOUS
<1>7. ac.chain = TailChain /\ IsList(b) /\ Range(b) = {ac}
  BY Single DEF R
<1>8. \A side : Unless(f, side).chain = TailChain /\ Unless(f, side).target.k = "REJECT"
  BY DEF Unless, R, Do
<1>9. \A x : ToTail(x).chain = x
  BY DEF ToTail, R
<1> HIDE DEF rules, un, re, ju, b, ac, tops, sides
<1>10. IsList(un) /\ IsList(re) /\ IsList(ju) /\ Len(un) = Len(sides)
  BY <1>2, <1>3, <1>4, <1>5, <1>6, Mapped
<1>11. Len(sides) = 2
  BY <1>2, ListFacts
<1> DEFINE ub == un \o b
           ubr == ub \o re
<1>b. IsList(ub) /\ Range(ub) = Range(un) \cup Range(b) /\ Len(ub) = Len(un) + Len(b) /\ \A i \in 1..Len(un) : ub[i] = un[i]
  BY <1>7, <1>10, Concat
<1>12. IsList(ub) /\ Range(ub) = Range(un) \cup Range(b) /\ Len(ub) = 2 + Len(b) /\ \A i \in 1..2 : ub[i] = un[i]
  BY <1>b, <1>10, <1>11
<1>a. Len(b) \in Nat /\ Len(re) \in Nat
  BY <1>7, <1>10, ListFacts
<1> HIDE DEF ub
<1>13. IsList(ubr) /\ Range(ubr) = Range(ub) \cup Range(re) /\ Len(ubr) = Len(ub) + Len(re) /\ \A i \in 1..Len(ub) : ubr[i] = ub[i]
  BY <1>10, <1>12, Concat
<1> HIDE DEF ubr
<1>14. IsList(ubr \o ju) /\ Range(ubr \o ju) = Range(ubr) \cup Range(ju) /\ \A i \in 1..Len(ubr) : (ubr \o ju)[i] = ubr[i]
  BY <1>10, <1>13, Concat
<1>15. rules = ubr \o ju
  BY <1>1 DEF ubr, ub
<1>16. IsList(rules) /\ Range(rules) = Range(un) \cup {ac} \cup Range(re) \cup Range(ju)
  BY <1>7, <1>12, <1>13, <1>14, <1>15
<1>17. rules[1] = Unless(f, "src") /\ rules[2] = Unless(f, "dst")
  <2>0. Len(ub) = 2 + Len(b) /\ Len(ubr) = Len(ub) + Len(re)
    BY <1>12, <1>13
  <2>1. 1 \in 1..Len(ub) /\ 2 \in 1..Len(ub) /\ 1 \in 1..Len(ubr) /\ 2 \in 1..Len(ubr)
    BY <2>0, <1>a
  <2>2. un[1] = Unless(f, "src") /\ un[2] = Unless(f, "dst")
    BY <1>4
  <2> HIDE DEF un, rules
  <2>3. ub[1] = un[1] /\ ub[2] = un[2]
    BY <1>12
  <2>4. ubr[1] = ub[1] /\ ubr[2] = ub[2]
    BY <1>13, <2>1
  <2>5. rules[1] = ubr[1] /\ rules[2] = ubr[2]
    BY <1>14, <1>15, <2>1
  <2> QED BY <2>2, <2>3, <2>4, <2>5
<1>18. DOMAIN rules = 1..Len(rules) /\ Len(rules) \in Nat /\ 1 \in DOMAIN rules /\ 2 \in DOMAIN rules
  <2>1. Len(ubr \o ju) = Len(ubr) + Len(ju) /\ Len(ju) \in Nat
    BY <1>10, <1>13, Concat, ListFacts
  <2>2. DOMAIN rules = 1..Len(rules) /\ Len(rules) \in Nat
    BY <1>16, ListFacts
  <2> QED BY <1>a, <1>12, <1>13, <1>15, <2>1, <2>2
<1>19. \A side \in Sides : Unless(f, side) \in Range(rules)
  BY <1>17, <1>18 DEF Sides, Range
<1>20. \A side \in Sides : Before(rules, {Unless(f, side)}, TailAccepts(U))
  <2> SUFFICES ASSUME NEW side \in Sides, NEW i \in DOMAIN rules, rules[i] \in TailAccepts(U)
               PROVE  \E j \in DOMAIN rules : j < i /\ rules[j] = Unless(f, side)
    BY DEF Before
  <2>1. i # 1 /\ i # 2
    BY <1>8, <1>17 DEF TailAccepts
  <2>2. 1 < i /\ 2 < i
    BY <1>18, <2>1
  <2> QED BY <2>2, <1>17, <1>18 DEF Sides
<1>21. \A x \in Range(Builtins) : ToTail(x) \in Range(rules)
  <2>1. \A x \in Range(tops) : ToTail(x) \in Range(ju)
    BY <1>6 DEF Range
  <2> QED BY <2>1, <1>3, <1>16
<1>22. \A r \in Range(rules) : r.chain \in {TailChain} \cup Range(Builtins)
  <2>1. \A r \in Range(un) : r.chain = TailChain
    BY <1>2, <1>4, <1>8 DEF Range
  <2>2. \A r \in Range(re) : r.chain = TailChain
    BY <1>5 DEF Range
  <2>3. \A r \in Range(ju) : r.chain \in Range(Builtins)
    BY <1>3, <1>6, <1>9 DEF Range
  <2> QED BY <2>1, <2>2, <2>3, <1>7, <1>16
<1> QED BY <1>16, <1>19, <1>20, <1>21, <1>22 DEF rules


LEMMA BeforeAside ==
  ASSUME NEW rules, NEW I, Aside(rules, I), NEW A, NEW U
  PROVE  Before(rules, A, TailAccepts(U))
<1>1. \A i \in DOMAIN rules : rules[i] \in Range(rules)
  BY ListFacts DEF Aside
<1> QED BY <1>1 DEF Aside, Elsewhere, Before, TailAccepts

LEMMA BuildWaits ==
  ASSUME NEW w, IsView(w), NEW f, \E ip \in PodCidr : ip[1] = f
  PROVE  Waits(BuildPlan(w, f, TRUE).rules, f, Programmed(w, f))
<1> DEFINE P == BuildPlan(w, f, TRUE)
           I == Programmed(w, f)
           base == Plan(<<>>, Tops, CommonRules \o ServiceReturns(f))
           pols == Filter(w.policies, Applies)
           pods == FirewalledPods(w, f)
           pp == [i \in DOMAIN pols |-> PolicyPlan(pols[i], w, f)]
           qq == [i \in DOMAIN pods |-> PodPlan(pods[i], w, f)]
           tail == TailPlan(w, f, TRUE)
           all == <<base>> \o pp \o qq \o <<tail>>
           U == Range(P.rules)
<1>1. P = Joined(all)
  BY DEF BuildPlan, MapSeq, Tops
<1>2. base.sets = <<>> /\ base.rules = CommonRules \o ServiceReturns(f)
  BY DEF Plan
<1>3. IsList(pols) /\ Range(pols) = Applying(w)
  BY ApplyingFacts DEF IsView
<1>4. IsList(pods) /\ Range(pods) \subseteq Range(w.pods)
  BY FirewalledFacts DEF IsView, PortsAreLists
<1>5. DOMAIN pp = DOMAIN pols /\ pp = [i \in DOMAIN pols |-> pp[i]] /\ \A i \in DOMAIN pols : pp[i] = PolicyPlan(pols[i], w, f)
  OBVIOUS
<1>6. DOMAIN qq = DOMAIN pods /\ qq = [i \in DOMAIN pods |-> qq[i]] /\ \A i \in DOMAIN pods : qq[i] = PodPlan(pods[i], w, f)
  OBVIOUS
<1>7. \A p \in Range(pods) : Range(PodFamilyIps(p, f)) \subseteq I
  BY DEF Programmed
<1> HIDE DEF P, I, base, pols, pods, pp, qq, tail
<1>8. IsList(pp) /\ IsList(qq)
  BY <1>3, <1>4, <1>5, <1>6, Mapped
<1>9. IsList(all) /\ Range(all) = {base} \cup Range(pp) \cup Range(qq) \cup {tail}
  <2> DEFINE b1 == <<base>>
             t1 == <<tail>>
             ab == b1 \o pp
             abc == ab \o qq
  <2>1. IsList(b1) /\ Range(b1) = {base} /\ IsList(t1) /\ Range(t1) = {tail}
    BY Single
  <2> HIDE DEF b1, t1
  <2>2. IsList(ab) /\ Range(ab) = {base} \cup Range(pp)
    BY <2>1, <1>8, Concat
  <2> HIDE DEF ab
  <2>3. IsList(abc) /\ Range(abc) = {base} \cup Range(pp) \cup Range(qq)
    BY <2>2, <1>8, Concat
  <2> HIDE DEF abc
  <2>4. IsList(abc \o t1) /\ Range(abc \o t1) = {base} \cup Range(pp) \cup Range(qq) \cup {tail}
    BY <2>1, <2>3, Concat
  <2> QED BY <2>4 DEF abc, ab, t1, b1
<1> HIDE DEF all
<1>10. Aside(base.rules, I) /\ IsList(base.sets)
  BY <1>2, BaseAside, Empty
<1>11. \A q \in Range(pp) : Aside(q.rules, I) /\ IsList(q.sets)
  <2> SUFFICES ASSUME NEW i \in DOMAIN pols PROVE Aside(pp[i].rules, I) /\ IsList(pp[i].sets)
    BY <1>5 DEF Range
  <2>1. pols[i] \in Applying(w)
    BY <1>3, ListFacts
  <2>2. IsPolicy(pols[i]) /\ PortsAreLists(w.pods)
    BY <2>1 DEF Applying, IsView
  <2>3. PolicyPart(pp[i], Names(pp[i]))
    BY <2>2, <1>5, PolicyPlanPart
  <2> QED BY <2>3, PolicyAside DEF PolicyPart, IsPlan
<1>12. \A q \in Range(qq) : Aside(q.rules, I) /\ IsList(q.sets)
  <2> SUFFICES ASSUME NEW i \in DOMAIN pods PROVE Aside(qq[i].rules, I) /\ IsList(qq[i].sets)
    BY <1>6 DEF Range
  <2>1. pods[i] \in Range(pods) /\ pods[i] \in Range(w.pods)
    BY <1>4, ListFacts
  <2>2. IsList(w.policies) /\ IsList(pods[i].ips) /\ Range(PodFamilyIps(pods[i], f)) \subseteq I
    BY <1>7, <2>1 DEF IsView
  <2>3. Aside(PodPlan(pods[i], w, f).rules, I)
    BY <2>2, PodPlanAside
  <2>4. \A p : PodPlan(p, w, f).sets = <<>>
    BY DEF PodPlan, Plan
  <2> QED BY <2>3, <2>4, <1>6, Empty
<1>13. /\ IsList(tail.rules)
       /\ \A side \in Sides : Unless(f, side) \in Range(tail.rules) /\ Before(tail.rules, {Unless(f, side)}, TailAccepts(U))
       /\ \A b \in Range(Builtins) : ToTail(b) \in Range(tail.rules)
       /\ \A r \in Range(tail.rules) : r.chain \in {TailChain} \cup Range(Builtins)
  BY TailPlanWaits DEF tail
<1>14. IsList(tail.sets)
  <2>1. tail.sets = <<LocalPods(w, f)>>
    <3>1. TRUE \in BOOLEAN /\ TailChain \in {TailChain}
      OBVIOUS
    <3> QED BY <3>1, TailPlanGood DEF tail
  <2> QED BY <2>1, Single
<1>15. \A q \in Range(all) : /\ IsPlan(q)
                             /\ \A side \in Sides : Before(q.rules, {Unless(f, side)}, TailAccepts(U))
                             /\ \A r \in Range(q.rules) : r.chain[1] = "POD-FW" /\ r.target.k = "ACCEPT" => NodeTo(r.conds, I)
  <2>1. ASSUME NEW q, Aside(q.rules, I), IsList(q.sets)
        PROVE  /\ IsPlan(q)
               /\ \A side \in Sides : Before(q.rules, {Unless(f, side)}, TailAccepts(U))
               /\ \A r \in Range(q.rules) : r.chain[1] = "POD-FW" /\ r.target.k = "ACCEPT" => NodeTo(r.conds, I)
    <3> HIDE DEF U
    <3>1. \A side \in Sides : Before(q.rules, {Unless(f, side)}, TailAccepts(U))
      BY <2>1, BeforeAside
    <3> QED BY <2>1, <3>1 DEF Aside, Elsewhere, IsPlan
  <2>2. \A r \in Range(tail.rules) : r.chain[1] # "POD-FW"
    BY <1>13, BuiltinsNamed, NamesAside
  <2>3. IsPlan(tail)
    BY <1>13, <1>14 DEF IsPlan
  <2> HIDE DEF U
  <2> QED BY <1>9, <1>10, <1>11, <1>12, <1>13, <2>1, <2>2, <2>3
<1>16. \A i \in DOMAIN all : all[i] \in Range(all)
  BY <1>9, ListFacts
<1>17. /\ IsPlan(P)
       /\ Range(P.rules) = UNION {Range(all[i].rules) : i \in DOMAIN all}
       /\ P.rules = FlattenSeq([i \in DOMAIN all |-> all[i].rules])
  <2>1. \A i \in DOMAIN all : IsPlan(all[i])
    BY <1>15, <1>16
  <2> QED BY <1>1, <1>9, <2>1, JoinedFacts
<1>18. \A side \in Sides : Before(P.rules, {Unless(f, side)}, TailAccepts(U))
  <2> SUFFICES ASSUME NEW side \in Sides PROVE Before(P.rules, {Unless(f, side)}, TailAccepts(U))
    OBVIOUS
  <2> DEFINE parts == [i \in DOMAIN all |-> all[i].rules]
             A == {Unless(f, side)}
             B == TailAccepts(U)
  <2>1. DOMAIN parts = DOMAIN all /\ parts = [i \in DOMAIN all |-> parts[i]] /\ \A i \in DOMAIN all : parts[i] = all[i].rules
    OBVIOUS
  <2> HIDE DEF parts, A, B
  <2>2. IsList(parts)
    BY <2>1, <1>9, Mapped
  <2>3. \A i \in DOMAIN parts : IsList(parts[i]) /\ Before(parts[i], A, B)
    BY <2>1, <1>15, <1>16 DEF A, B, IsPlan
  <2>4. Before(FlattenSeq(parts), A, B)
    BY <2>2, <2>3, BeforeFlat
  <2> QED BY <2>4, <1>17 DEF parts, A, B
<1>19. Range(tail.rules) \subseteq Range(P.rules)
  <2>1. PICK i \in DOMAIN all : all[i] = tail
    BY <1>9 DEF Range
  <2> QED BY <2>1, <1>17
<1>20. \A r \in Range(P.rules) : r.chain[1] = "POD-FW" /\ r.target.k = "ACCEPT" => NodeTo(r.conds, I)
  BY <1>15, <1>16, <1>17
<1>21. Waits(P.rules, f, I)
  BY <1>13, <1>18, <1>19, <1>20 DEF Waits
<1> QED BY <1>21 DEF P, I

\* What the kernel does with the chains of one plan: the shape of their rules, the
\* jumps to the tail, and in the tail the refusals first.
LEMMA ImageWaits ==
  ASSUME NEW w \in DOMAIN World, NEW f \in Family, \E ip \in PodCidr : ip[1] = f
  PROVE  LET C == ChainsLeft(w, TRUE, f)
             P == Plans[w][f][TRUE]
         IN  /\ DOMAIN C = P.chains /\ Tops \subseteq P.chains
             /\ \A c \in P.chains : IsList(C[c]) /\ \A r \in Range(C[c]) : r \in Range(P.rules) /\ r.chain = c /\ RuleFacts(r, Names(P), P.chains)
             /\ \A r \in Range(P.rules) : r.chain[1] = "POD-FW" /\ r.target.k = "ACCEPT" => NodeTo(r.conds, Programmed(Seen[w], f))
             /\ \A b \in Range(Builtins) : ToTail(b) \in Range(C[b])
             /\ \A side \in Sides : /\ Unless(f, side) \in Range(C[TailChain])
                                    /\ Before(C[TailChain], {Unless(f, side)}, TailAccepts(Range(P.rules)))
<1> DEFINE C == ChainsLeft(w, TRUE, f)
           P == Plans[w][f][TRUE]
           I == Programmed(Seen[w], f)
           D == FilterRestoreDoc(<<>>, P)
           s == P.rules
<1>1. PlanFacts(P, Seen[w], f, TRUE)
  BY PlansFacts
<1>2. Waits(s, f, I)
  <2>1. P = BuildPlan(Seen[w], f, TRUE)
    BY DEF Plans
  <2> QED BY <2>1, SeenIsView, BuildWaits
<1>3. C = D
  BY DEF ChainsLeft
<1> HIDE DEF C, P, I
<1>4. IsList(s) /\ Tops \subseteq P.chains /\ \A r \in Range(s) : RuleFacts(r, Names(P), P.chains)
  BY <1>1 DEF PlanFacts, IsPlan, Good
<1>5. /\ DOMAIN D = DOMAIN <<>> \cup P.chains
      /\ \A c \in P.chains : IsList(D[c]) /\ Range(D[c]) = {r \in Range(P.rules) : r.chain = c}
      /\ \A c \in DOMAIN <<>> \ P.chains : D[c] = <<>>[c]
  BY <1>4, DocFacts
<1>6. DOMAIN <<>> = {}
  OBVIOUS
<1> DEFINE kept == FlattenSeq([i \in DOMAIN s |-> IF s[i].chain = TailChain THEN <<s[i]>> ELSE <<>>])
           Q == {r \in Range(s) : r.chain = TailChain}
           k2 == FlattenSeq([i \in DOMAIN s |-> IF s[i] \in Q THEN <<s[i]>> ELSE <<>>])
<1>7. TailChain \in P.chains
  BY <1>4 DEF Tops
<1>8. D[TailChain] = kept
  BY <1>7 DEF FilterRestoreDoc, Filter
<1> HIDE DEF D
<1>9. kept = k2
  <2>1. \A i \in DOMAIN s : s[i] \in Range(s)
    BY <1>4, ListFacts
  <2>2. [i \in DOMAIN s |-> IF s[i] \in Q THEN <<s[i]>> ELSE <<>>] = [i \in DOMAIN s |-> IF s[i].chain = TailChain THEN <<s[i]>> ELSE <<>>]
    BY <2>1, Zenon
  <2> QED BY <2>2
<1>10. \A side : Unless(f, side).chain = TailChain
  BY DEF Unless, R
<1>11. \A x : ToTail(x).chain = x
  BY DEF ToTail, R
<1>12. ASSUME NEW side \in Sides
       PROVE  Unless(f, side) \in Range(D[TailChain]) /\ Before(D[TailChain], {Unless(f, side)}, TailAccepts(Range(s)))
  <2> DEFINE A == {Unless(f, side)}
             B == TailAccepts(Range(s))
  <2>1. Unless(f, side) \in Range(s) /\ Before(s, A, B)
    BY <1>2, <1>12 DEF Waits
  <2>2. A \subseteq Q
    BY <2>1, <1>10
  <2> HIDE DEF A, B, Q, kept, s
  <2>3. Before(k2, A, B)
    BY <1>4, <2>1, <2>2, BeforeKept
  <2>4. Unless(f, side) \in Range(D[TailChain])
    BY <1>5, <1>7, <1>10, <2>1 DEF s
  <2>5. D[TailChain] = k2
    BY <1>8, <1>9
  <2> HIDE DEF k2
  <2> QED BY <2>3, <2>4, <2>5 DEF A, B
<1>13. \A b \in Range(Builtins) : ToTail(b) \in Range(D[b])
  <2>1. \A b \in Range(Builtins) : b \in P.chains
    BY <1>4, BuiltinsNamed DEF Tops
  <2> QED BY <2>1, <1>2, <1>5, <1>11 DEF Waits
<1>14. \A r \in Range(s) : r.chain[1] = "POD-FW" /\ r.target.k = "ACCEPT" => NodeTo(r.conds, I)
  BY <1>2 DEF Waits
<1>15. \A c \in P.chains : IsList(D[c]) /\ \A r \in Range(D[c]) : r \in Range(P.rules) /\ r.chain = c /\ RuleFacts(r, Names(P), P.chains)
  BY <1>4, <1>5
<1>16. DOMAIN D = P.chains
  BY <1>5, <1>6
<1> HIDE DEF s, kept, k2
<1>17. /\ DOMAIN C = P.chains /\ Tops \subseteq P.chains
       /\ \A c \in P.chains : IsList(C[c]) /\ \A r \in Range(C[c]) : r \in Range(P.rules) /\ r.chain = c /\ RuleFacts(r, Names(P), P.chains)
       /\ \A r \in Range(P.rules) : r.chain[1] = "POD-FW" /\ r.target.k = "ACCEPT" => NodeTo(r.conds, I)
       /\ \A b \in Range(Builtins) : ToTail(b) \in Range(C[b])
       /\ \A side \in Sides : Unless(f, side) \in Range(C[TailChain]) /\ Before(C[TailChain], {Unless(f, side)}, TailAccepts(Range(P.rules)))
  BY <1>3, <1>4, <1>12, <1>13, <1>14, <1>15, <1>16 DEF s
<1> QED BY <1>17 DEF C, P, I


Guards(C, f, I) ==
    /\ Tops \subseteq DOMAIN C
    /\ \A c \in DOMAIN C :
          /\ IsList(C[c])
          /\ \A r \in Range(C[c]) :
                /\ r.chain = c /\ Shape(r)
                /\ r.target.k = "jump" => r.target.chain \in DOMAIN C
                /\ r.chain[1] = "POD-FW" /\ r.target.k = "ACCEPT" => NodeTo(r.conds, I)
    /\ \A b \in Range(Builtins) : ToTail(b) \in Range(C[b])
    /\ \A side \in Sides :
          /\ Unless(f, side) \in Range(C[TailChain])
          /\ \A i \in DOMAIN C[TailChain] : C[TailChain][i].target.k = "ACCEPT"
                => \E j \in DOMAIN C[TailChain] : j < i /\ C[TailChain][j] = Unless(f, side)

LEMMA ImageGuards ==
  ASSUME NEW w \in DOMAIN World, NEW f \in Family, \E ip \in PodCidr : ip[1] = f
  PROVE  Guards(ChainsLeft(w, TRUE, f), f, Programmed(Seen[w], f))
<1> DEFINE C == ChainsLeft(w, TRUE, f)
           P == Plans[w][f][TRUE]
           I == Programmed(Seen[w], f)
           U == Range(P.rules)
<1>1. /\ DOMAIN C = P.chains /\ Tops \subseteq P.chains
      /\ \A c \in P.chains : IsList(C[c]) /\ \A r \in Range(C[c]) : r \in Range(P.rules) /\ r.chain = c /\ RuleFacts(r, Names(P), P.chains)
      /\ \A r \in Range(P.rules) : r.chain[1] = "POD-FW" /\ r.target.k = "ACCEPT" => NodeTo(r.conds, Programmed(Seen[w], f))
      /\ \A b \in Range(Builtins) : ToTail(b) \in Range(C[b])
      /\ \A side \in Sides : /\ Unless(f, side) \in Range(C[TailChain])
                             /\ Before(C[TailChain], {Unless(f, side)}, TailAccepts(Range(P.rules)))
  BY ImageWaits
<1> HIDE DEF C, P, I
<1>2. TailChain \in DOMAIN C
  BY <1>1 DEF Tops
<1>3. \A c \in DOMAIN C : IsList(C[c]) /\ \A r \in Range(C[c]) : r \in U /\ r.chain = c /\ RuleFacts(r, Names(P), DOMAIN C)
  BY <1>1
<1>4. \A i \in DOMAIN C[TailChain] : C[TailChain][i] \in Range(C[TailChain])
  BY <1>2, <1>3, ListFacts
<1>5. ASSUME NEW side \in Sides, NEW i \in DOMAIN C[TailChain], C[TailChain][i].target.k = "ACCEPT"
      PROVE  \E j \in DOMAIN C[TailChain] : j < i /\ C[TailChain][j] = Unless(f, side)
  <2>1. C[TailChain][i] \in TailAccepts(U)
    BY <1>2, <1>3, <1>4, <1>5 DEF TailAccepts
  <2>2. Before(C[TailChain], {Unless(f, side)}, TailAccepts(U))
    BY <1>1
  <2> QED BY <2>1, <2>2 DEF Before
<1>6. \A r \in U : r.chain[1] = "POD-FW" /\ r.target.k = "ACCEPT" => NodeTo(r.conds, I)
  BY <1>1 DEF I
<1> HIDE DEF U
<1>7. Guards(C, f, I)
  BY <1>1, <1>3, <1>5, <1>6 DEF Guards, RuleFacts
<1> QED BY <1>7 DEF C, I

LEMMA CondFacts ==
  ASSUME NEW c, NEW p, NEW s, NEW sets
  PROVE  /\ c.k = "addr" => (CondHolds(c, p, s, sets) <=> p[c.side] \in c.ips)
         /\ c.k = "set" => (CondHolds(c, p, s, sets) <=> (InSet(sets[c.set], p[c.side]) = c.in))
         /\ c.k = "proto" => (CondHolds(c, p, s, sets) <=> p.proto = c.v)
         /\ c.k = "dports" => (CondHolds(c, p, s, sets) <=> p.dport \in c.v)
         /\ c.k = "ct" => (CondHolds(c, p, s, sets) <=> p.ct \in c.v)
         /\ c.k = "srcLocal" => (CondHolds(c, p, s, sets) <=> p.src \in NodeIps)
         /\ c.k = "dstLocal" => (CondHolds(c, p, s, sets) <=> p.dst \in NodeIps)
BY DEF CondHolds

LEMMA CondOf ==
  ASSUME NEW r, NEW p, NEW s, NEW sets, CondsHold(r, p, s, sets), NEW c \in Range(r.conds)
  PROVE  CondHolds(c, p, s, sets)
BY DEF CondsHold, Range

\* A packet that no answer, and no permission of the node, is for.
Quiet(p) == p.ct = "new" /\ p.proto # "icmp"
Plain(p, I) == Quiet(p) /\ (p.src \in NodeIps => p.dst \notin I)
ForService(p) == p.dst \in ServiceRange \/ (p.dst \in NodeIps /\ p.dport \in NodePortArg[1]..NodePortArg[2])

LEMMA QuietFacts ==
  ASSUME NEW r, NEW p, NEW s, NEW sets, CondsHold(r, p, s, sets)
  PROVE  /\ Quiet(p) => ~Answers(r.conds)
         /\ \A I : Plain(p, I) => ~NodeTo(r.conds, I)
         /\ ToService(r.conds) => ForService(p)
<1>1. ASSUME Quiet(p), Answers(r.conds) PROVE FALSE
  <2>1. PICK c \in Range(r.conds) : (c.k = "ct" /\ c.v = {"est"}) \/ (c.k = "proto" /\ c.v = "icmp")
    BY <1>1 DEF Answers
  <2>2. CondHolds(c, p, s, sets)
    BY CondOf
  <2>3. CASE c.k = "ct" /\ c.v = {"est"}
    <3>1. p.ct \in c.v
      BY <2>2, <2>3, CondFacts
    <3> QED BY <1>1, <2>3, <3>1 DEF Quiet
  <2>4. CASE c.k = "proto" /\ c.v = "icmp"
    <3>1. p.proto = c.v
      BY <2>2, <2>4, CondFacts
    <3> QED BY <1>1, <2>4, <3>1 DEF Quiet
  <2> QED BY <2>1, <2>3, <2>4
<1>2. ASSUME NEW I, Plain(p, I), NodeTo(r.conds, I) PROVE FALSE
  <2>1. PICK c \in Range(r.conds) : c.k = "srcLocal"
    BY <1>2 DEF NodeTo
  <2>2. PICK d \in Range(r.conds) : d.k = "addr" /\ d.side = "dst" /\ d.ips \subseteq I
    BY <1>2 DEF NodeTo
  <2>3. p.src \in NodeIps
    BY <2>1, CondOf, CondFacts
  <2>4. p[d.side] \in d.ips
    BY <2>2, CondOf, CondFacts
  <2> QED BY <1>2, <2>2, <2>3, <2>4 DEF Plain
<1>3. ASSUME ToService(r.conds) PROVE ForService(p)
  <2>1. CASE \E c \in Range(r.conds) : c.k = "addr" /\ c.side = "dst" /\ c.ips \subseteq ServiceRange
    <3>1. PICK c \in Range(r.conds) : c.k = "addr" /\ c.side = "dst" /\ c.ips \subseteq ServiceRange
      BY <2>1
    <3>2. p[c.side] \in c.ips
      BY <3>1, CondOf, CondFacts
    <3> QED BY <3>1, <3>2 DEF ForService
  <2>2. CASE /\ \E c \in Range(r.conds) : c.k = "dstLocal"
             /\ \E c \in Range(r.conds) : c.k = "dports" /\ c.v = NodePortArg[1]..NodePortArg[2]
    <3>1. PICK c \in Range(r.conds) : c.k = "dstLocal"
      BY <2>2
    <3>2. PICK d \in Range(r.conds) : d.k = "dports" /\ d.v = NodePortArg[1]..NodePortArg[2]
      BY <2>2
    <3>3. p.dst \in NodeIps
      BY <3>1, CondOf, CondFacts
    <3>4. p.dport \in d.v
      BY <3>2, CondOf, CondFacts
    <3> QED BY <3>2, <3>3, <3>4 DEF ForService
  <2> QED BY <1>3, <2>1, <2>2 DEF ToService
<1> QED BY <1>1, <1>2, <1>3


\* The chains below that of a pod, and what each kind of chain may hold.
BelowPod(c) == c \in {Common, Default} \/ c[1] = "NWPLCY"

LEMMA ShapeOf ==
  ASSUME NEW r, Shape(r)
  PROVE  /\ BelowPod(r.chain) => r.target.k \in {"MATCHED", "RETURN", "DROP"} \/ (r.target.k = "ACCEPT" /\ Answers(r.conds))
         /\ r.chain[1] = "POD-FW" => \/ r.target.k = "jump" /\ BelowPod(r.target.chain)
                                     \/ r.target.k \in {"ACCEPT", "REJECT", "UNMATCHED", "ACCEPTED"}
         /\ r.chain = TailChain => r.target.k \in {"REJECT", "ACCEPT"}
         /\ r.chain \in Range(Builtins) => \/ r.chain = Input /\ r.target.k = "RETURN" /\ ToService(r.conds)
                                           \/ /\ r.target.k = "jump"
                                              /\ r.target.chain = TailChain \/ r.target.chain[1] = "POD-FW"
<1>1. /\ Input[1] = "INPUT" /\ Forward[1] = "FORWARD" /\ Output[1] = "OUTPUT"
      /\ Common[1] = "COMMON" /\ Default[1] = "DEFAULT" /\ TailChain[1] = "TAIL"
  BY DEF Input, Forward, Output, Common, Default, TailChain
<1>2. Range(Builtins) = {Input, Forward, Output}
  BY Triple DEF Builtins
<1> HIDE DEF Input, Forward, Output, Common, Default, TailChain
<1>3. BelowPod(r.chain) => r.target.k \in {"MATCHED", "RETURN", "DROP"} \/ (r.target.k = "ACCEPT" /\ Answers(r.conds))
  BY <1>1 DEF Shape, BelowPod
<1>4. r.chain[1] = "POD-FW" => \/ r.target.k = "jump" /\ BelowPod(r.target.chain)
                               \/ r.target.k \in {"ACCEPT", "REJECT", "UNMATCHED", "ACCEPTED"}
  BY <1>1 DEF Shape, BelowPod
<1>5. r.chain = TailChain => r.target.k \in {"REJECT", "ACCEPT"}
  BY <1>1 DEF Shape
<1>6. r.chain \in Range(Builtins) => \/ r.chain = Input /\ r.target.k = "RETURN" /\ ToService(r.conds)
                                     \/ /\ r.target.k = "jump"
                                        /\ r.target.chain = TailChain \/ r.target.chain[1] = "POD-FW"
  BY <1>1, <1>2 DEF Shape
<1> QED BY <1>3, <1>4, <1>5, <1>6

LEMMA GuardsAt ==
  ASSUME NEW C, NEW f, NEW I, Guards(C, f, I), NEW c \in DOMAIN C
  PROVE  /\ IsList(C[c]) /\ Len(C[c]) \in Nat
         /\ \A i \in 1..Len(C[c]) : /\ C[c][i] \in Range(C[c]) /\ C[c][i].chain = c /\ Shape(C[c][i])
                                    /\ C[c][i].target.k = "jump" => C[c][i].target.chain \in DOMAIN C
                                    /\ c[1] = "POD-FW" /\ C[c][i].target.k = "ACCEPT" => NodeTo(C[c][i].conds, I)
<1>1. IsList(C[c])
  BY DEF Guards
<1>2. Len(C[c]) \in Nat /\ \A i \in 1..Len(C[c]) : C[c][i] \in Range(C[c])
  BY <1>1, ListFacts
<1> QED BY <1>1, <1>2 DEF Guards

\* Below the chain of a pod, only answers are accepted.
LEMMA PolicyEnds ==
  ASSUME NEW C, NEW f, NEW I, Guards(C, f, I), NEW sets, NEW p, NEW to, to.k = "jump", to.chain \in DOMAIN C,
         BelowPod(to.chain), NEW s \in States, s.verdict = "go"
  PROVE  LET e == PolicyStep(C, sets, p, to, s)
         IN  e \in States /\ e.verdict \in {"go", "DROP", "ACCEPT"} /\ (Quiet(p) => e.verdict # "ACCEPT")
<1> DEFINE S == {x \in States : x.verdict \in {"go", "RETURN", "DROP", "ACCEPT"} /\ (Quiet(p) => x.verdict # "ACCEPT")}
           c == to.chain
           n == Len(C[c])
<1>1. IsList(C[c]) /\ n \in Nat
  BY GuardsAt
<1>2. ASSUME NEW i \in 1..n, NEW x \in S, x.verdict = "go", CondsHold(C[c][i], p, x, sets)
      PROVE  Target(C[c][i].target, x) \in S
  <2> DEFINE r == C[c][i]
  <2>1. r.chain = c /\ Shape(r)
    BY GuardsAt
  <2>2. CondsHold(r, p, x, sets)
    BY <1>2
  <2> HIDE DEF r
  <2>3. r.target.k \in {"MATCHED", "RETURN", "DROP"} \/ (r.target.k = "ACCEPT" /\ Answers(r.conds))
    BY <2>1, ShapeOf
  <2>4. Quiet(p) => ~Answers(r.conds)
    BY <2>2, QuietFacts
  <2>5. x \in States
    OBVIOUS
  <2> DEFINE t == r.target
             y == Target(t, x)
  <2>6. /\ t.k \in {"MATCHED", "UNMATCHED", "ACCEPTED"} => y \in States /\ y.verdict = x.verdict
        /\ t.k \in {"RETURN", "ACCEPT", "REJECT", "DROP"} => y \in States /\ y.verdict = t.k
    BY <2>5, TargetFacts
  <2>7. t.k \in {"MATCHED", "RETURN", "DROP"} \/ (t.k = "ACCEPT" /\ ~Quiet(p))
    BY <2>3, <2>4
  <2> HIDE DEF y, t
  <2>8. y \in S
    BY <1>2, <2>6, <2>7
  <2> QED BY <2>8 DEF y, t, r
<1>3. PolicyStays(C, sets, p, to, S)
  BY <1>2 DEF PolicyStays
<1>4. s \in S
  OBVIOUS
<1> HIDE DEF S
<1>5. PICK run : IsPolicyRun(run, C, sets, p, to, S, s)
  BY <1>1, <1>3, <1>4, PolicyRun
<1>6. (\A i \in 0..n : run[i] \in S) /\ PolicyStep(C, sets, p, to, s) = Ends(run[n])
  BY <1>5 DEF IsPolicyRun
<1> DEFINE e == run[n]
<1>7. e \in S
  BY <1>1, <1>6
<1> HIDE DEF e
<1>8. Ends(e) \in States /\ Ends(e).verdict \in {"go", "DROP", "ACCEPT"} /\ (Quiet(p) => Ends(e).verdict # "ACCEPT")
  BY <1>7, StateFacts DEF S
<1> QED BY <1>6, <1>8 DEF e


\* The chain of a pod accepts answers, and what the node sends to the pod.
LEMMA PodEnds ==
  ASSUME NEW C, NEW f, NEW I, Guards(C, f, I), NEW sets, NEW p, NEW to, to.k = "jump", to.chain \in DOMAIN C,
         to.chain[1] = "POD-FW", NEW s \in States, s.verdict = "go"
  PROVE  LET e == PodStep(C, sets, p, to, s)
         IN  e \in States /\ e.verdict # "RETURN" /\ (Plain(p, I) => e.verdict # "ACCEPT")
<1> DEFINE S == {x \in States : x.verdict # "RETURN" /\ (Plain(p, I) => x.verdict # "ACCEPT")}
           c == to.chain
           n == Len(C[c])
<1>1. IsList(C[c]) /\ n \in Nat
  BY GuardsAt
<1>2. ASSUME NEW i \in 1..n, NEW x \in S, x.verdict = "go", CondsHold(C[c][i], p, x, sets)
      PROVE  PolicyStep(C, sets, p, C[c][i].target, x) \in S
  <2> DEFINE r == C[c][i]
             t == r.target
             y == PolicyStep(C, sets, p, t, x)
  <2>1. /\ r.chain = c /\ Shape(r) /\ (t.k = "jump" => t.chain \in DOMAIN C)
        /\ t.k = "ACCEPT" => NodeTo(r.conds, I)
    BY GuardsAt
  <2>2. CondsHold(r, p, x, sets) /\ x \in States
    BY <1>2
  <2> HIDE DEF r
  <2>3. (t.k = "jump" /\ BelowPod(t.chain)) \/ t.k \in {"ACCEPT", "REJECT", "UNMATCHED", "ACCEPTED"}
    BY <2>1, ShapeOf
  <2>4. Plain(p, I) => ~NodeTo(r.conds, I)
    BY <2>2, QuietFacts
  <2>5. Plain(p, I) => Quiet(p)
    BY DEF Plain
  <2> HIDE DEF t
  <2>6. CASE t.k = "jump" /\ BelowPod(t.chain)
    <3>1. y \in States /\ y.verdict \in {"go", "DROP", "ACCEPT"} /\ (Quiet(p) => y.verdict # "ACCEPT")
      BY <1>2, <2>1, <2>2, <2>6, PolicyEnds
    <3> HIDE DEF y
    <3>2. y \in S
      BY <2>5, <3>1
    <3> QED BY <3>2 DEF y, t, r
  <2>7. CASE t.k \in {"ACCEPT", "REJECT", "UNMATCHED", "ACCEPTED"}
    <3>1. y = Target(t, x)
      BY <2>7 DEF PolicyStep
    <3> HIDE DEF y
    <3>2. /\ t.k \in {"MATCHED", "UNMATCHED", "ACCEPTED"} => y \in States /\ y.verdict = x.verdict
          /\ t.k \in {"RETURN", "ACCEPT", "REJECT", "DROP"} => y \in States /\ y.verdict = t.k
      BY <2>2, <3>1, TargetFacts
    <3>3. y \in S
      BY <1>2, <2>1, <2>4, <2>7, <3>2
    <3> QED BY <3>3 DEF y, t, r
  <2> QED BY <2>3, <2>6, <2>7
<1>3. PodStays(C, sets, p, to, S)
  BY <1>2 DEF PodStays
<1>4. s \in S
  OBVIOUS
<1> HIDE DEF S
<1>5. PICK run : IsPodRun(run, C, sets, p, to, S, s)
  BY <1>1, <1>3, <1>4, PodRun
<1>6. (\A i \in 0..n : run[i] \in S) /\ PodStep(C, sets, p, to, s) = Ends(run[n])
  BY <1>5 DEF IsPodRun
<1> DEFINE e == run[n]
<1>7. e \in S
  BY <1>1, <1>6
<1> HIDE DEF e
<1>8. Ends(e) = e
  BY <1>7, StateFacts DEF S
<1> QED BY <1>6, <1>7, <1>8 DEF e, S

\* One end of the packet is an address of the pod CIDR that the set of the local pods lacks.
Absent(p, f, sets) ==
    LET set == sets[LocalPodsSet(f)]
    IN  set.type = "ip" /\ \E side \in Sides : p[side] \in PodCidr /\ p[side][1] = f /\ p[side] \notin set.content

LEMMA UnlessHolds ==
  ASSUME NEW f, NEW sets, NEW p, NEW side, p[side] \in PodCidr, p[side][1] = f,
         sets[LocalPodsSet(f)].type = "ip", p[side] \notin sets[LocalPodsSet(f)].content, NEW s
  PROVE  CondsHold(Unless(f, side), p, s, sets) /\ Unless(f, side).target.k = "REJECT"
<1> DEFINE a == [k |-> "addr", side |-> side, ips |-> {ip \in PodCidr : ip[1] = f}]
           b == [k |-> "set", set |-> LocalPodsSet(f), side |-> side, in |-> FALSE]
           r == Unless(f, side)
<1>1. r.conds = <<a>> \o <<b>> /\ r.target.k = "REJECT"
  BY DEF Unless, R, Is, NotInSet, Do
<1>3. CondHolds(a, p, s, sets)
  <2>1. a.k = "addr" /\ a.side = side /\ p[side] \in a.ips
    OBVIOUS
  <2> HIDE DEF a
  <2> QED BY <2>1, CondFacts
<1>4. CondHolds(b, p, s, sets)
  <2>1. b.k = "set" /\ b.set = LocalPodsSet(f) /\ b.side = side /\ b.in = FALSE
    OBVIOUS
  <2>2. InSet(sets[LocalPodsSet(f)], p[side]) = FALSE
    BY DEF InSet
  <2> HIDE DEF b
  <2>3. CondHolds(b, p, s, sets) <=> (InSet(sets[b.set], p[b.side]) = b.in)
    BY <2>1, CondFacts
  <2> QED BY <2>1, <2>2, <2>3
<1> HIDE DEF a, b, r
<1>5. DOMAIN r.conds = {1, 2} /\ r.conds[1] = a /\ r.conds[2] = b
  <2>1. /\ IsList(<<a>>) /\ Len(<<a>>) = 1 /\ <<a>>[1] = a
        /\ IsList(<<b>>) /\ Len(<<b>>) = 1 /\ <<b>>[1] = b
    BY Single
  <2> DEFINE x == <<a>>
             y == <<b>>
  <2> HIDE DEF x, y
  <2>2. /\ IsList(x \o y) /\ Len(x \o y) = Len(x) + Len(y)
        /\ \A j \in 1..Len(x) : (x \o y)[j] = x[j]
        /\ \A j \in 1..Len(y) : (x \o y)[Len(x) + j] = y[j]
    BY <2>1, Concat DEF x, y
  <2>3. r.conds = x \o y
    BY <1>1 DEF x, y
  <2>4. Len(r.conds) = 2 /\ IsList(r.conds) /\ r.conds[1] = a /\ r.conds[2] = b
    BY <2>1, <2>2, <2>3 DEF x, y
  <2>5. DOMAIN r.conds = 1..2
    BY <2>4, ListFacts
  <2> QED BY <2>4, <2>5
<1> QED BY <1>1, <1>3, <1>4, <1>5 DEF CondsHold, r

LEMMA TailEnds ==
  ASSUME NEW C, NEW f, NEW I, Guards(C, f, I), NEW sets, NEW p, NEW to, to.k = "jump", to.chain = TailChain,
         NEW s \in States, s.verdict = "go"
  PROVE  LET e == PodStep(C, sets, p, to, s)
         IN  e \in States /\ e.verdict # "RETURN" /\ (Absent(p, f, sets) => e.verdict = "REJECT")
<1> DEFINE S == {x \in States : x.verdict \in {"go", "REJECT", "ACCEPT"}}
           c == to.chain
           n == Len(C[c])
<1>0. c \in DOMAIN C
  BY DEF Guards, Tops
<1>1. IsList(C[c]) /\ n \in Nat /\ DOMAIN C[c] = 1..n
  BY <1>0, GuardsAt, ListFacts
<1>2. ASSUME NEW i \in 1..n, NEW x \in States
      PROVE  LET y == PolicyStep(C, sets, p, C[c][i].target, x)
             IN  y \in S /\ y.verdict = C[c][i].target.k /\ C[c][i].target.k \in {"REJECT", "ACCEPT"}
  <2> DEFINE t == C[c][i].target
             y == PolicyStep(C, sets, p, t, x)
  <2>1. t.k \in {"REJECT", "ACCEPT"}
    BY <1>0, GuardsAt, ShapeOf
  <2> HIDE DEF t
  <2>2. y = Target(t, x)
    BY <2>1 DEF PolicyStep
  <2>3. y \in States /\ y.verdict = t.k
    BY <2>1, <2>2, TargetFacts
  <2> HIDE DEF y
  <2>4. y \in S
    BY <2>1, <2>3
  <2> QED BY <2>1, <2>3, <2>4 DEF y, t
<1>3. PodStays(C, sets, p, to, S)
  BY <1>2 DEF PodStays
<1>4. s \in S
  OBVIOUS
<1> HIDE DEF S
<1>5. PICK run : IsPodRun(run, C, sets, p, to, S, s)
  BY <1>1, <1>3, <1>4, PodRun
<1>6. /\ run[0] = s /\ \A i \in 0..n : run[i] \in S
      /\ \A i \in 1..n : run[i] = IF run[i - 1].verdict = "go" /\ CondsHold(C[c][i], p, run[i - 1], sets)
                                  THEN PolicyStep(C, sets, p, C[c][i].target, run[i - 1]) ELSE run[i - 1]
      /\ PodStep(C, sets, p, to, s) = Ends(run[n])
  BY <1>5 DEF IsPodRun
<1> DEFINE e == run[n]
<1>7. e \in States /\ e.verdict \in {"go", "REJECT", "ACCEPT"}
  BY <1>1, <1>6 DEF S
<1>8. ASSUME Absent(p, f, sets) PROVE run[n].verdict = "REJECT"
  <2>1. PICK side \in Sides : /\ p[side] \in PodCidr /\ p[side][1] = f /\ sets[LocalPodsSet(f)].type = "ip"
                              /\ p[side] \notin sets[LocalPodsSet(f)].content
    BY <1>8 DEF Absent
  <2> DEFINE u == Unless(f, side)
             T == {j \in 1..n : C[c][j] = u}
  <2>2. u \in Range(C[c]) /\ \A i \in 1..n : C[c][i].target.k = "ACCEPT" => \E j \in 1..n : j < i /\ C[c][j] = u
    BY <1>1, <2>1 DEF Guards
  <2>2a. (\A x : CondsHold(u, p, x, sets)) /\ u.target.k = "REJECT"
    BY <2>1, UnlessHolds
  <2> HIDE DEF u
  <2>3. T # {} /\ T \in SUBSET Nat
    <3>1. \E j \in DOMAIN C[c] : C[c][j] = u
      BY <2>2 DEF Range
    <3> QED BY <1>1, <3>1
  <2>4. PICK j0 \in T : \A k \in T : j0 <= k
    BY <2>3, Least
  <2> DEFINE P(i) == /\ i < j0 => run[i].verdict \in {"go", "REJECT"}
                     /\ i >= j0 => run[i].verdict = "REJECT"
             B == {i \in 0..n : ~P(i)}
  <2>5. j0 \in 1..n /\ C[c][j0] = u
    BY <2>4
  <2>6. \A i \in 1..n : i < j0 => C[c][i].target.k # "ACCEPT"
    BY <2>2, <2>4
  <2>7. B = {}
    <3> SUFFICES ASSUME B # {} PROVE FALSE
      OBVIOUS
    <3>1. B \in SUBSET Nat
      BY <1>1
    <3>2. PICK m \in B : \A k \in B : m <= k
      BY <3>1, Least
    <3>3. m # 0
      BY <1>6, <2>5
    <3>4. m \in 1..n /\ m - 1 \in 0..n /\ m - 1 \notin B
      BY <1>1, <3>2, <3>3
    <3> DEFINE q == run[m - 1]
               r == C[c][m]
               y == PolicyStep(C, sets, p, r.target, q)
    <3>5. q \in States /\ P(m - 1) /\ run[m] = IF q.verdict = "go" /\ CondsHold(r, p, q, sets) THEN y ELSE q
      BY <1>6, <3>4 DEF S
    <3>6. y.verdict = r.target.k /\ r.target.k \in {"REJECT", "ACCEPT"}
      BY <1>2, <3>4, <3>5
    <3> HIDE DEF y
    <3>7. m = j0 => r = u
      BY <2>5
    <3>8. m < j0 => r.target.k # "ACCEPT"
      BY <2>6, <3>4
    <3> HIDE DEF q, r
    <3>9. CASE q.verdict = "go"
      <4>1. m <= j0
        BY <1>1, <2>5, <3>4, <3>5, <3>9 DEF q
      <4>2. CASE m = j0
        <5>1. run[m].verdict = "REJECT"
          BY <2>2a, <3>5, <3>6, <3>7, <3>9, <4>2
        <5> QED BY <5>1, <3>2, <4>2, <2>5
      <4>3. CASE m < j0
        <5>1. run[m].verdict \in {"go", "REJECT"}
          BY <3>5, <3>6, <3>8, <3>9, <4>3
        <5> QED BY <5>1, <3>2, <3>4, <2>5, <4>3
      <4> QED BY <4>1, <4>2, <4>3, <2>5, <3>4
    <3>10. CASE q.verdict # "go"
      <4>1. run[m] = q
        BY <3>5, <3>10
      <4>2. q.verdict = "REJECT"
        BY <3>4, <3>5, <3>10, <2>5 DEF q
      <4> QED BY <4>1, <4>2, <3>2
    <3> QED BY <3>9, <3>10
  <2>8. n \in 0..n /\ n >= j0
    BY <1>1, <2>5
  <2> QED BY <2>7, <2>8
<1> HIDE DEF e
<1>9. Ends(e) = e
  BY <1>7, StateFacts
<1> QED BY <1>6, <1>7, <1>8, <1>9 DEF e


\* A built-in chain, with what it jumps to: one rule.
LEMMA TopStep ==
  ASSUME NEW C, NEW f, NEW I, Guards(C, f, I), NEW sets, NEW p, NEW b \in Range(Builtins), NEW i \in 1..Len(C[b]),
         NEW x \in States, x.verdict = "go", CondsHold(C[b][i], p, x, sets)
  PROVE  LET y == PodStep(C, sets, p, C[b][i].target, x)
         IN  /\ y \in States
             /\ Plain(p, I) /\ Absent(p, f, sets) /\ (b = Input => ~ForService(p)) => y.verdict \in {"go", "REJECT", "DROP"}
<1> DEFINE r == C[b][i]
           t == r.target
           y == PodStep(C, sets, p, t, x)
<1>0. b \in DOMAIN C
  <2>1. Range(Builtins) = {Input, Forward, Output}
    BY Triple DEF Builtins
  <2> QED BY <2>1 DEF Guards, Tops
<1>1. r.chain = b /\ Shape(r) /\ (t.k = "jump" => t.chain \in DOMAIN C)
  BY <1>0, GuardsAt
<1>2. CondsHold(r, p, x, sets)
  OBVIOUS
<1> HIDE DEF r
<1>3. \/ b = Input /\ t.k = "RETURN" /\ ToService(r.conds)
      \/ t.k = "jump" /\ (t.chain = TailChain \/ t.chain[1] = "POD-FW")
  BY <1>1, ShapeOf
<1>4. ToService(r.conds) => ForService(p)
  BY <1>2, QuietFacts
<1> HIDE DEF t
<1>5. CASE b = Input /\ t.k = "RETURN" /\ ToService(r.conds)
  <2>1. y = Target(t, x)
    BY <1>5 DEF PodStep
  <2>2. y \in States
    BY <1>5, <2>1, TargetFacts
  <2> QED BY <1>4, <1>5, <2>2 DEF t, r
<1>6. CASE t.k = "jump" /\ t.chain = TailChain
  <2>0. t.k = "jump" /\ t.chain = TailChain
    BY <1>6
  <2>1. y \in States
    BY <2>0, TailEnds
  <2>2. ASSUME Absent(p, f, sets) PROVE y.verdict = "REJECT"
    BY <2>0, <2>2, TailEnds
  <2> QED BY <2>1, <2>2 DEF t, r
<1>7. CASE t.k = "jump" /\ t.chain[1] = "POD-FW"
  <2>1. y \in States /\ y.verdict # "RETURN" /\ (Plain(p, I) => y.verdict # "ACCEPT")
    BY <1>1, <1>7, PodEnds
  <2> HIDE DEF y
  <2>2. Plain(p, I) => y.verdict \in {"go", "REJECT", "DROP"}
    BY <2>1 DEF States
  <2> QED BY <2>1, <2>2 DEF y, t, r
<1> QED BY <1>3, <1>5, <1>6, <1>7

\* Its last jump leads to the tail: whoever has got that far is refused there.
LEMMA TopEnds ==
  ASSUME NEW C, NEW f, NEW I, Guards(C, f, I), NEW sets, NEW p, NEW b \in Range(Builtins),
         NEW s \in States, s.verdict = "go"
  PROVE  LET e == Traverse(C, sets, b, p, s)
         IN  /\ e \in States
             /\ Plain(p, I) /\ Absent(p, f, sets) /\ (b = Input => ~ForService(p)) => Stopped(e)
<1> DEFINE n == Len(C[b])
           e == Traverse(C, sets, b, p, s)
           H == Plain(p, I) /\ Absent(p, f, sets) /\ (b = Input => ~ForService(p))
           S == {x \in States : H => x.verdict \in {"go", "REJECT", "DROP"}}
<1>0. b \in DOMAIN C
  <2>1. Range(Builtins) = {Input, Forward, Output}
    BY Triple DEF Builtins
  <2> QED BY <2>1 DEF Guards, Tops
<1>1. IsList(C[b]) /\ n \in Nat /\ DOMAIN C[b] = 1..n
  BY <1>0, GuardsAt, ListFacts
<1>2. ASSUME NEW i \in 1..n, NEW x \in S, x.verdict = "go", CondsHold(C[b][i], p, x, sets)
      PROVE  PodStep(C, sets, p, C[b][i].target, x) \in S
  <2> DEFINE y == PodStep(C, sets, p, C[b][i].target, x)
  <2>1. y \in States /\ (H => y.verdict \in {"go", "REJECT", "DROP"})
    BY <1>2, TopStep
  <2> HIDE DEF y, H
  <2>2. y \in S
    BY <2>1
  <2> QED BY <2>2 DEF y
<1> HIDE DEF H
<1>3. TopStays(C, sets, p, b, S)
  BY <1>2 DEF TopStays
<1>4. s \in S
  OBVIOUS
<1> HIDE DEF S
<1>5. PICK run : IsTopRun(run, C, sets, p, b, S, s)
  BY <1>1, <1>3, <1>4, TopRun
<1>6. /\ run[0] = s /\ \A i \in 0..n : run[i] \in S
      /\ \A i \in 1..n : run[i] = IF run[i - 1].verdict = "go" /\ CondsHold(C[b][i], p, run[i - 1], sets)
                                  THEN PodStep(C, sets, p, C[b][i].target, run[i - 1]) ELSE run[i - 1]
      /\ e = Ends(run[n])
  BY <1>5 DEF IsTopRun
<1>7. run[n] \in States
  BY <1>1, <1>6 DEF S
<1>8. e \in States
  BY <1>6, <1>7, StateFacts
<1>9. ASSUME H PROVE Stopped(e)
  <2>1. PICK j \in 1..n : C[b][j] = ToTail(b)
    <3>1. ToTail(b) \in Range(C[b])
      BY DEF Guards
    <3> QED BY <1>1, <3>1 DEF Range
  <2>2. ToTail(b).conds = <<>> /\ ToTail(b).target.k = "jump" /\ ToTail(b).target.chain = TailChain
    BY DEF ToTail, R, Jump
  <2>3. \A x : CondsHold(C[b][j], p, x, sets)
    <3>1. DOMAIN C[b][j].conds = {}
      BY <2>1, <2>2
    <3> QED BY <3>1 DEF CondsHold
  <2> DEFINE q == run[j - 1]
  <2>4. j - 1 \in 0..n
    BY <1>1
  <2>5. q \in States /\ q.verdict \in {"go", "REJECT", "DROP"}
    BY <1>6, <1>9, <2>4 DEF S
  <2>6. run[j] = IF q.verdict = "go" THEN PodStep(C, sets, p, C[b][j].target, q) ELSE q
    BY <1>6, <2>3
  <2> HIDE DEF q
  <2>7. Stopped(run[j])
    <3>1. CASE q.verdict = "go"
      <4> DEFINE t == C[b][j].target
      <4>1. t.k = "jump" /\ t.chain = TailChain
        BY <2>1, <2>2
      <4> HIDE DEF t
      <4>2. Absent(p, f, sets)
        BY <1>9 DEF H
      <4>3. PodStep(C, sets, p, t, q).verdict = "REJECT"
        BY <2>5, <3>1, <4>1, <4>2, TailEnds
      <4> QED BY <2>6, <3>1, <4>3 DEF t, Stopped
    <3>2. CASE q.verdict # "go"
      BY <2>5, <2>6, <3>2 DEF Stopped
    <3> QED BY <3>1, <3>2
  <2>8. \A i \in j..n : Stopped(run[i])
    <3> DEFINE B == {i \in j..n : ~Stopped(run[i])}
    <3> SUFFICES ASSUME B # {} PROVE FALSE
      OBVIOUS
    <3>1. B \in SUBSET Nat
      BY <1>1
    <3>2. PICK m \in B : \A k \in B : m <= k
      BY <3>1, Least
    <3>3. m # j
      BY <2>7, <3>2
    <3>4. m \in 1..n /\ m - 1 \in j..n /\ m - 1 \notin B
      BY <1>1, <3>2, <3>3
    <3>5. Stopped(run[m - 1])
      BY <3>4
    <3>6. run[m - 1].verdict # "go"
      BY <3>5 DEF Stopped
    <3>7. run[m] = run[m - 1]
      BY <1>6, <3>4, <3>6
    <3> QED BY <3>2, <3>5, <3>7
  <2>9. Stopped(run[n])
    BY <1>1, <2>8
  <2>10. Ends(run[n]) = run[n]
    BY <1>7, <2>9, StateFacts DEF Stopped
  <2> QED BY <1>6, <2>9, <2>10
<1> QED BY <1>8, <1>9 DEF H

\* A flow whose last packet is such a one does not pass.
LEMMA FreshStops ==
  ASSUME NEW C, NEW f, NEW I, Guards(C, f, I), NEW sets, NEW flow \in Flow,
         Plain(HopPacket(flow, Len(flow.hops)), I), Absent(HopPacket(flow, Len(flow.hops)), f, sets),
         flow.hops[Len(flow.hops)].hook = Input => ~ForService(HopPacket(flow, Len(flow.hops)))
  PROVE  ~Passes(C, sets, Range(Builtins), flow)
<1> DEFINE n == Len(flow.hops)
           J == Range(Builtins)
           S == States
<1>1. /\ IsList(flow.hops) /\ flow.hops # <<>> /\ \A i \in DOMAIN flow.hops : flow.hops[i].hook \in J
  BY NpFlows
<1>2. n \in Nat /\ DOMAIN flow.hops = 1..n
  BY <1>1, ListFacts
<1>3. n \in 1..n
  <2>1. n # 0
    BY <1>1 DEF IsList
  <2> QED BY <1>2, <2>1
<1>4. ASSUME NEW x \in States PROVE Anew(x) \in States /\ Anew(x).verdict = "go"
  BY DEF Anew, States
<1> HIDE DEF n, J
<1>5. HopsStay(C, sets, J, flow, S)
  <2>1. ASSUME NEW i \in 1..n, NEW x \in S, flow.hops[i].hook \in J
        PROVE  Traverse(C, sets, flow.hops[i].hook, HopPacket(flow, i), Anew(x)) \in S
    BY <2>1, <1>4, TopEnds DEF J
  <2> QED BY <2>1 DEF HopsStay, n
<1>6. Start \in S
  BY DEF Start, States
<1> HIDE DEF S
<1>7. PICK run : IsHopsRun(run, C, sets, J, flow, S)
  BY <1>1, <1>5, <1>6, HopsRun
<1>8. /\ \A i \in 0..n : run[i] \in S
      /\ \A i \in 1..n : run[i] = IF Stopped(run[i - 1]) \/ flow.hops[i].hook \notin J THEN run[i - 1]
                                  ELSE Traverse(C, sets, flow.hops[i].hook, HopPacket(flow, i), Anew(run[i - 1]))
      /\ Passes(C, sets, J, flow) <=> ~Stopped(run[n])
  BY <1>7 DEF IsHopsRun, n
<1> DEFINE q == run[n - 1]
<1>9. q \in S /\ flow.hops[n].hook \in J
  BY <1>1, <1>2, <1>3, <1>8
<1>10. run[n] = IF Stopped(q) THEN q ELSE Traverse(C, sets, flow.hops[n].hook, HopPacket(flow, n), Anew(q))
  BY <1>3, <1>8, <1>9
<1> HIDE DEF q
<1>11. Stopped(Traverse(C, sets, flow.hops[n].hook, HopPacket(flow, n), Anew(q)))
  BY <1>4, <1>9, TopEnds DEF n, J, S
<1> QED BY <1>8, <1>10, <1>11 DEF J


\* An address that a plan has a chain for is one of a local pod that some policy selects.
LEMMA ProgrammedFacts ==
  ASSUME NEW w \in DOMAIN World, NEW f, NEW ip \in Unprogrammed(w)
  PROVE  ip \in PodCidr /\ ip \notin Programmed(Seen[w], f)
<1> DEFINE W == World[w]
           S == Seen[w]
           guarded == {q \in Pods(w) : q.node = ThisNode /\ ~q.hostNet /\ \E np \in Policies(w) : Selects(np, q)}
<1>1. ip \in PodCidr /\ \A q \in guarded : ip \notin Range(q.ips)
  BY DEF Unprogrammed
<1>2. /\ S.policies = [i \in DOMAIN W.policies |-> MapPolicy(W.policies[i])]
      /\ S.pods = [i \in DOMAIN W.pods |-> MapPod(W.pods[i])]
  BY DEF Seen, Snapshot, MapSeq
<1>3. IsView(S)
  BY SeenIsView
<1>4. Pods(w) = Range(W.pods) /\ Policies(w) = Range(W.policies)
  BY DEF Pods, Policies
<1> HIDE DEF W, S, guarded
<1>5. IsList(S.policies) /\ IsList(S.pods) /\ \A p \in Range(S.pods) : IsList(p.ips)
  BY <1>3 DEF IsView, PortsAreLists
<1>6. \A p \in Range(S.pods) : \E q \in Pods(w) : p = MapPod(q)
  BY <1>2, <1>4 DEF Range
<1>7. \A p \in Range(S.policies) : \E np \in Policies(w) : p = MapPolicy(np)
  BY <1>2, <1>4 DEF Range
<1>8. ASSUME ip \in Programmed(S, f) PROVE FALSE
  <2>1. PICK p \in Range(FirewalledPods(S, f)) : ip \in Range(PodFamilyIps(p, f))
    BY <1>8 DEF Programmed
  <2>2. p \in Range(S.pods) /\ p.node = ThisNode /\ ~p.hostNet /\ Selecting(p, S) # <<>>
    BY <1>5, <2>1, FirewalledFacts
  <2>3. ip \in Range(p.ips)
    BY <1>5, <2>1, <2>2, FamilyIps
  <2>4. IsList(Selecting(p, S)) /\ Range(Selecting(p, S)) = {x \in Applying(S) : PolicySelects(x, p)}
    BY <1>5, ApplyingFacts
  <2> DEFINE s == Selecting(p, S)
  <2>5. Range(s) # {}
    <3> HIDE DEF s
    <3>1. s # <<>> /\ IsList(s)
      BY <2>2, <2>4 DEF s
    <3>2. 1 \in DOMAIN s
      BY <3>1 DEF IsList
    <3> QED BY <3>1, <3>2, ListFacts
  <2>6. PICK pol \in Range(S.policies) : PolicySelects(pol, p)
    BY <2>4, <2>5 DEF Applying
  <2>7. PICK q \in Pods(w) : p = MapPod(q)
    BY <1>6, <2>2
  <2>8. PICK np \in Policies(w) : pol = MapPolicy(np)
    BY <1>7, <2>6
  <2>9. q.ns = p.ns /\ q.labels = p.labels /\ q.ips = p.ips /\ q.node = p.node /\ q.hostNet = p.hostNet
    BY <2>7 DEF MapPod
  <2>10. np.ns = pol.ns /\ np.podSel = pol.podSel
    BY <2>8 DEF MapPolicy
  <2>11. Selects(np, q)
    BY <2>6, <2>9, <2>10 DEF Selects, PolicySelects
  <2>12. q \in guarded
    BY <2>2, <2>7, <2>8, <2>9, <2>11 DEF guarded
  <2> QED BY <1>1, <2>3, <2>9, <2>12
<1> QED BY <1>1, <1>8 DEF S

\* The set of the local pods has one value in a plan, however often the plan writes it.
LEMMA LocalWrites ==
  ASSUME NEW w \in DOMAIN World, NEW f \in Family, NEW j \in 1..Len(SetWrites(w, TRUE, f)),
         SetWrites(w, TRUE, f)[j].name = LocalPodsSet(f)
  PROVE  SetWrites(w, TRUE, f)[j] = LocalPods(Seen[w], f)
<1> DEFINE all == SetWrites(w, TRUE, f)
<1>1. IsList(all)
  BY WritesFacts
<1>2. \A s \in Range(all) : s.name[1] \in {"SRC", "DST"} \/ s = LocalPods(Seen[w], f)
  BY PlansFacts DEF PlanFacts, SetWrites
<1>3. j \in 1..Len(all) /\ all[j].name = LocalPodsSet(f)
  OBVIOUS
<1> HIDE DEF all
<1>4. all[j] \in Range(all)
  BY <1>1, <1>3, ListFacts
<1>5. LocalPodsSet(f)[1] = "local-pods"
  BY DEF LocalPodsSet
<1>6. all[j] = LocalPods(Seen[w], f)
  BY <1>2, <1>3, <1>4, <1>5
<1> QED BY <1>6 DEF all


\* What some of the writes of a pass make of the set of the local pods.
LEMMA LocalWritten ==
  ASSUME NEW w \in DOMAIN World, NEW f \in Family, NEW sets, NEW n \in Nat, n <= Len(SetWrites(w, TRUE, f))
  PROVE  LET S == Written(sets, SetWrites(w, TRUE, f), n)
         IN  LocalPodsSet(f) \in DOMAIN S =>
                \/ S[LocalPodsSet(f)] = Filled(LocalPods(Seen[w], f))
                \/ LocalPodsSet(f) \in DOMAIN sets /\ S[LocalPodsSet(f)] = sets[LocalPodsSet(f)]
<1> DEFINE all == SetWrites(w, TRUE, f)
           k == LocalPodsSet(f)
           S == Written(sets, all, n)
<1>1. /\ DOMAIN S = DOMAIN sets \cup {all[j].name : j \in 1..n}
      /\ \A x \in DOMAIN sets : (\A j \in 1..n : all[j].name # x) => S[x] = sets[x]
  BY WrittenDomain DEF WrittenNames
<1>2. Len(all) \in Nat
  BY WritesFacts
<1>3. ASSUME \E j \in 1..n : all[j].name = k PROVE S[k] = Filled(LocalPods(Seen[w], f))
  <2> HIDE DEF all, k
  <2>1. PICK j \in 1..n : all[j].name = k /\ \A m \in 1..n : all[m].name = k => m <= j
    BY <1>3, LastWrite
  <2>2. Written(sets, all, n)[all[j].name] = Filled(all[j])
    BY <2>1, WrittenAt
  <2>3. j \in 1..Len(all)
    <3> DEFINE l == Len(all)
    <3>1. l \in Nat /\ n <= l
      BY <1>2 DEF all
    <3> HIDE DEF l
    <3>2. j \in 1..l
      BY <2>1, <3>1
    <3> QED BY <3>2 DEF l
  <2>4. all[j] = LocalPods(Seen[w], f)
    BY <2>1, <2>3, LocalWrites DEF all, k
  <2> QED BY <2>1, <2>2, <2>4
<1> HIDE DEF S, all, k
<1>4. k \in DOMAIN S => S[k] = Filled(LocalPods(Seen[w], f)) \/ (k \in DOMAIN sets /\ S[k] = sets[k])
  BY <1>1, <1>3
<1> QED BY <1>4 DEF S, all, k

LEMMA LocalOf ==
  ASSUME NEW v \in DOMAIN World, NEW f \in Family
  PROVE  LocalPodsSet(f) \in DOMAIN SetsLeft(v, TRUE, f) /\ SetsLeft(v, TRUE, f)[LocalPodsSet(f)] = Filled(LocalPods(Seen[v], f))
<1> DEFINE n == Len(SetWrites(v, TRUE, f))
           k == LocalPodsSet(f)
           S == Written(<<>>, SetWrites(v, TRUE, f), n)
<1>1. n \in Nat /\ n <= Len(SetWrites(v, TRUE, f))
  <2>2. n \in Nat
    BY WritesFacts
  <2> HIDE DEF n
  <2>3. n <= n
    BY <2>2
  <2> QED BY <2>2, <2>3 DEF n
<1>2. k \in DOMAIN SetsLeft(v, TRUE, f)
  <2>1. LocalPods(Seen[v], f) \in Range(Plans[v][f][TRUE].sets)
    BY PlansFacts DEF PlanFacts
  <2>2. LocalPods(Seen[v], f).name = k
    BY DEF LocalPods
  <2>3. k \in Names(Plans[v][f][TRUE])
    BY <2>1, <2>2 DEF Names
  <2> QED BY <2>3, SetsLeftFacts
<1>3. SetsLeft(v, TRUE, f) = S
  BY DEF SetsLeft
<1> HIDE DEF n
<1>4. k \in DOMAIN S => S[k] = Filled(LocalPods(Seen[v], f)) \/ (k \in DOMAIN <<>> /\ S[k] = <<>>[k])
  BY <1>1, LocalWritten
<1>5. DOMAIN <<>> = {}
  OBVIOUS
<1> HIDE DEF S, k
<1> QED BY <1>2, <1>3, <1>4, <1>5 DEF k

\* In the mixture that a pass makes, the chains a packet meets are all of one of the two
\* worlds, and the set of the local pods is that of one of them, not always the same.
LEMMA MixtureOf ==
  ASSUME NEW v \in DOMAIN World, NEW w \in DOMAIN World, NEW f \in Family,
         NEW step \in 1..(Len(SetWrites(w, TRUE, f)) + 4)
  PROVE  LET C == ChainsAt(v, w, TRUE, f, step)
             S == SetsAt(v, w, TRUE, f, step)
         IN  /\ \E x \in {v, w} : /\ Includes(C, ChainsLeft(x, TRUE, f)) /\ Closed(ChainsLeft(x, TRUE, f), S)
                                  /\ Range(Builtins) \subseteq DOMAIN ChainsLeft(x, TRUE, f)
             /\ \E y \in {v, w} : S[LocalPodsSet(f)] = Filled(LocalPods(Seen[y], f))
<1> DEFINE C == ChainsAt(v, w, TRUE, f, step)
           n == SetsWritten(w, TRUE, f, step)
           S == SetsAt(v, w, TRUE, f, step)
           Q == SetsLeft(v, TRUE, f)
           k == LocalPodsSet(f)
<1>1. /\ n \in Nat /\ n <= Len(SetWrites(w, TRUE, f))
      /\ Restored(w, TRUE, f, step) => n = Len(SetWrites(w, TRUE, f))
  BY SetsWrittenFacts
<1>2. S = Written(Q, SetWrites(w, TRUE, f), n)
  BY DEF SetsAt
<1> HIDE DEF n, S
<1>3. DOMAIN Q \subseteq DOMAIN S
  <2>1. DOMAIN Q \subseteq DOMAIN Written(Q, SetWrites(w, TRUE, f), n)
    BY <1>1, WrittenKeeps
  <2> QED BY <1>2, <2>1
<1>4. \E y \in {v, w} : S[k] = Filled(LocalPods(Seen[y], f))
  <2>1. k \in DOMAIN Q /\ Q[k] = Filled(LocalPods(Seen[v], f))
    BY LocalOf
  <2>2. k \in DOMAIN S => S[k] = Filled(LocalPods(Seen[w], f)) \/ (k \in DOMAIN Q /\ S[k] = Q[k])
    BY <1>1, <1>2, LocalWritten
  <2> QED BY <1>3, <2>1, <2>2
<1>5. CASE Restored(w, TRUE, f, step)
  <2>0. S = Written(Q, SetWrites(w, TRUE, f), Len(SetWrites(w, TRUE, f)))
    BY <1>1, <1>2, <1>5
  <2>1. Names(Plans[w][f][TRUE]) \subseteq DOMAIN S
    BY <2>0, NamesWritten
  <2>2. Closed(ChainsLeft(w, TRUE, f), S) /\ Range(Builtins) \subseteq DOMAIN ChainsLeft(w, TRUE, f)
    BY <2>1, ImageClosed
  <2>3. Includes(C, ChainsLeft(w, TRUE, f))
    BY <1>5, DocHolds DEF ChainsAt, ChainsLeft
  <2> QED BY <1>4, <2>2, <2>3 DEF S
<1>6. CASE ~Restored(w, TRUE, f, step)
  <2>1. Names(Plans[v][f][TRUE]) \subseteq DOMAIN S
    BY <1>3, SetsLeftFacts
  <2>2. Closed(ChainsLeft(v, TRUE, f), S) /\ Range(Builtins) \subseteq DOMAIN ChainsLeft(v, TRUE, f)
    BY <2>1, ImageClosed
  <2>3. C = ChainsLeft(v, TRUE, f)
    BY <1>6 DEF ChainsAt
  <2>4. Includes(C, ChainsLeft(v, TRUE, f))
    BY <2>3 DEF Includes
  <2> QED BY <1>4, <2>2, <2>4 DEF S
<1> QED BY <1>5, <1>6


\* Whichever world the chains are of, and whichever the set: the flow is refused.
LEMMA FreshRefused ==
  ASSUME NEW x \in DOMAIN World, NEW y \in DOMAIN World, NEW flow \in Flow, FreshPod(x, flow), FreshPod(y, flow),
         flow.packet.ct = "new", flow.packet.proto # "icmp", ~EndsAsService(flow), NEW sets,
         sets[LocalPodsSet(FamilyOf(flow))] = Filled(LocalPods(Seen[y], FamilyOf(flow)))
  PROVE  ~Passes(ChainsLeft(x, TRUE, FamilyOf(flow)), sets, Range(Builtins), flow)
<1> DEFINE f == FamilyOf(flow)
           n == Len(flow.hops)
           q == flow.packet
           p == HopPacket(flow, n)
           I == Programmed(Seen[x], f)
           C == ChainsLeft(x, TRUE, f)
<1>1. /\ DOMAIN q = {"src", "dst", "proto", "dport", "ct", "bridged"}
      /\ q.dst[1] = q.src[1] /\ flow.hops[n].dst = q.dst
  BY NpFlows
<1>2. p.src = q.src /\ p.dst = q.dst /\ p.ct = "new" /\ p.proto # "icmp" /\ p.dport = flow.hops[n].dport
  BY <1>1 DEF HopPacket
<1>3. f \in Family /\ q.src[1] = f /\ q.dst[1] = f
  BY <1>1, FlowFamily DEF FamilyOf
<1>4. ASSUME NEW w \in {x, y} PROVE p.src \in Unprogrammed(w) \ NodeIps \/ p.dst \in Unprogrammed(w)
  BY <1>2, <1>4 DEF FreshPod
<1>5. ASSUME NEW w \in {x, y}, NEW ip \in Unprogrammed(w) PROVE ip \in PodCidr /\ ip \notin Programmed(Seen[w], f)
  BY <1>5, ProgrammedFacts
<1>6. ~(flow.hops[n].hook = Input /\ ForService(p))
  BY <1>1, <1>2 DEF EndsAsService, ForService
<1>7. sets[LocalPodsSet(f)].type = "ip" /\ sets[LocalPodsSet(f)].content = Programmed(Seen[y], f)
  BY DEF Filled, LocalPods, Loaded
<1> HIDE DEF p, q, f, n, I
<1>8. \E ip \in PodCidr : ip[1] = f
  BY <1>2, <1>3, <1>4, <1>5
<1>9. Guards(C, f, I)
  BY <1>3, <1>8, ImageGuards DEF I
<1>10. Plain(p, I)
  BY <1>2, <1>4, <1>5 DEF Plain, Quiet, I
<1>11. Absent(p, f, sets)
  <2>1. \E side \in Sides : p[side] \in PodCidr /\ p[side][1] = f /\ p[side] \notin Programmed(Seen[y], f)
    BY <1>2, <1>3, <1>4, <1>5 DEF Sides
  <2> QED BY <1>7, <2>1 DEF Absent
<1> HIDE DEF C
<1>12. ~Passes(C, sets, Range(Builtins), flow)
  BY <1>6, <1>9, <1>10, <1>11, FreshStops DEF p, n
<1> QED BY <1>12 DEF C, f

\* FreshPodsWait, for every set of worlds and flows: with default_deny, whatever the pass
\* that runs has written of the new objects and not of the old, in whatever kernel it
\* began, a pod that neither have programmed gets no new connection in a family that was
\* once written, which IPv6 never is (build_plan, the tail of synth.rs; reconcile).
THEOREM UnprogrammedWait == NpSpec => []FreshPodsWait
<1>1. KernelInv => FreshPodsWait
  <2> SUFFICES ASSUME KernelInv, NEW flow \in Flow, npDeny, npBase[FamilyOf(flow)] # NoWorld,
                      FreshPod(npBase[FamilyOf(flow)], flow),
                      Rewriting(FamilyOf(flow)) => FreshPod(npPass.world, flow),
                      flow.packet.ct = "new", flow.packet.proto # "icmp", ~EndsAsService(flow)
               PROVE  ~KernelPasses(flow)
    BY DEF FreshPodsWait
  <2> DEFINE f == FamilyOf(flow)
             v == npBase[f]
             w == npPass.world
             J == Range(Builtins)
  <2>1. v \in DOMAIN World /\ npDeny = TRUE /\ f \in Family /\ NpTypes /\ BaseKeptIn(f)
    BY FlowFamily DEF KernelInv, NpTypes, BaseKept
  <2>2. npJumps[f] = J
    BY <2>1 DEF BaseKeptIn
  <2>3. KernelPasses(flow) <=> Passes(npChains[f], npSets[f], J, flow)
    BY <2>2 DEF KernelPasses
  <2>4. CASE ~Rewriting(f)
    <3> DEFINE C == ChainsLeft(v, TRUE, f)
               S == SetsLeft(v, TRUE, f)
    <3>1. Includes(npSets[f], S) /\ Includes(npChains[f], C)
      BY <2>1, <2>4 DEF BaseKeptIn
    <3>2. Closed(C, S) /\ J \subseteq DOMAIN C
      BY <2>1, SetsLeftFacts, ImageClosed
    <3>3. S[LocalPodsSet(f)] = Filled(LocalPods(Seen[v], f))
      BY <2>1, LocalOf
    <3> HIDE DEF S
    <3>4. ~Passes(C, S, J, flow)
      BY <2>1, <3>3, FreshRefused
    <3> HIDE DEF C, J
    <3>5. Passes(npChains[f], npSets[f], J, flow) <=> Passes(C, S, J, flow)
      BY <3>1, <3>2, PassesAlike
    <3> QED BY <2>3, <3>4, <3>5
  <2>5. CASE Rewriting(f)
    <3> DEFINE step == npPass.step
               C == ChainsAt(v, w, TRUE, f, step)
               S == SetsAt(v, w, TRUE, f, step)
    <3>1. w \in DOMAIN World /\ step \in 1..(Len(SetWrites(w, TRUE, f)) + 4)
      <4>1. npPass.on /\ F = f
        BY <2>5 DEF Rewriting
      <4>2. step \in 1..(NSets + 4) /\ NSets = Len(SetWrites(w, npDeny, F)) /\ w \in DOMAIN World
        BY <2>1, <4>1, PassFacts
      <4> QED BY <2>1, <4>1, <4>2
    <3>2. Includes(npSets[f], S) /\ Includes(npChains[f], C)
      BY <2>1, <2>5 DEF BaseKeptIn
    <3>3. Closed(C, S) /\ J \subseteq DOMAIN C
      BY <2>1, <3>1, MixtureClosed
    <3>4. /\ \E x \in {v, w} : Includes(C, ChainsLeft(x, TRUE, f)) /\ Closed(ChainsLeft(x, TRUE, f), S)
                               /\ J \subseteq DOMAIN ChainsLeft(x, TRUE, f)
          /\ \E y \in {v, w} : S[LocalPodsSet(f)] = Filled(LocalPods(Seen[y], f))
      BY <2>1, <3>1, MixtureOf
    <3>5. PICK x \in {v, w} : Includes(C, ChainsLeft(x, TRUE, f)) /\ Closed(ChainsLeft(x, TRUE, f), S)
                              /\ J \subseteq DOMAIN ChainsLeft(x, TRUE, f)
      BY <3>4
    <3>6. PICK y \in {v, w} : S[LocalPodsSet(f)] = Filled(LocalPods(Seen[y], f))
      BY <3>4
    <3> HIDE DEF S, C
    <3>7. ~Passes(ChainsLeft(x, TRUE, f), S, J, flow)
      <4>1. x \in DOMAIN World /\ y \in DOMAIN World /\ FreshPod(x, flow) /\ FreshPod(y, flow)
        BY <2>1, <2>5, <3>1
      <4> QED BY <3>6, <4>1, FreshRefused
    <3> DEFINE D == ChainsLeft(x, TRUE, f)
    <3>8. Includes(S, S)
      BY DEF Includes
    <3> HIDE DEF D, J
    <3>9. Passes(C, S, J, flow) <=> Passes(D, S, J, flow)
      BY <3>5, <3>8, PassesAlike DEF D
    <3>10. Passes(npChains[f], npSets[f], J, flow) <=> Passes(C, S, J, flow)
      BY <3>2, <3>3, PassesAlike
    <3> QED BY <2>3, <3>7, <3>9, <3>10 DEF D
  <2> QED BY <2>4, <2>5
<1> QED BY <1>1, KernelKept, PTL
============================================================================
