--------------------------- MODULE Services_proofs ---------------------------
(***************************************************************************)
(* Theorems about the readers of Services and EndpointSlices, ProxyTail and *)
(* VipAdvertise, for all Services, configurations and hashes and any number *)
(* of changes and failed calls.                                             *)
(*                                                                          *)
(* The sets of the firewall need one fact about the stage that wrote them.  *)
(* Whether the firewall closes depends on the order of the stages:          *)
(* TodoShape says that a pass ends with the chain of IPv4 and then that of  *)
(* IPv6, so that the flag is set after both.  For the nat table and the     *)
(* health checks, TailDone says that what is not left to do has been done   *)
(* over the present stores, IPv6 with what IPv4 has read.  What a FWMARK    *)
(* service holds depends on the jobs of a pass: Aimed says that each DSR    *)
(* stage still to come adds endpoints of its own key, which rests on the    *)
(* lemmas about lists.                                                      *)
(*                                                                          *)
(* RibIsKnown says nothing of the time between a failed sync and the next   *)
(* one.  TableInv does: the table then holds every VIP that is remembered   *)
(* and wanted, and none that is neither, so that the same sync repairs it.  *)
(***************************************************************************)
EXTENDS ProxyTail, VipAdvertise, Lists_proofs

----------------------------------------------------------------------------
(* The entries of map_services *)

\* The entry of a Service port, and whether map_services makes one.
EntryOf(world, node, svc, sp) ==
    [info |-> ServiceInfo(svc, sp), eps |-> EndpointsFor(svc, sp.name, world.slices, node)]
Mapped(svc) == svc.type # "ExternalName" /\ ClusterIps(svc) # <<>>
Ports(svc) == {sp \in Range(svc.ports) : ParseU16(sp.port) # NoPort}

\* map_services makes an entry of every valid port of a mapped Service, and no other.
LEMMA MappedEntries ==
  ASSUME NEW world, NEW node, IsList(world.services), \A svc \in Range(world.services) : IsList(svc.ports)
  PROVE  /\ IsList(MapServices(world, node))
         /\ Range(MapServices(world, node)) =
                UNION {{EntryOf(world, node, svc, sp) : sp \in Ports(svc)} :
                           svc \in {x \in Range(world.services) : Mapped(x)}}
<1> DEFINE ports(svc) == Filter(svc.ports, LAMBDA sp : ParseU16(sp.port) # NoPort)
           of(svc) == [i \in DOMAIN ports(svc) |-> EntryOf(world, node, svc, ports(svc)[i])]
           parts == [i \in DOMAIN world.services |->
               IF Mapped(world.services[i]) THEN of(world.services[i]) ELSE <<>>]
<1>1. MapServices(world, node) = FlattenSeq(parts)
  BY DEF MapServices, EntryOf, Mapped
<1>2. ASSUME NEW svc \in Range(world.services)
      PROVE  IsList(of(svc)) /\ Range(of(svc)) = {EntryOf(world, node, svc, sp) : sp \in Ports(svc)}
  <2> DEFINE sel == [i \in DOMAIN svc.ports |-> IF svc.ports[i] \in Ports(svc) THEN <<svc.ports[i]>> ELSE <<>>]
             raw == [i \in DOMAIN svc.ports |-> IF ParseU16(svc.ports[i].port) # NoPort THEN <<svc.ports[i]>> ELSE <<>>]
  <2>1. ports(svc) = FlattenSeq(raw)
    BY DEF Filter
  <2>2. \A i \in DOMAIN svc.ports : (svc.ports[i] \in Ports(svc)) <=> (ParseU16(svc.ports[i].port) # NoPort)
    BY DEF Ports, Range
  <2>3. raw = sel
    <3> HIDE DEF Ports
    <3> QED BY <2>2, Zenon
  <2>4. IsList(FlattenSeq(sel)) /\ Range(FlattenSeq(sel)) = Range(svc.ports) \cap Ports(svc)
    BY Kept
  <2> DEFINE list == FlattenSeq(sel)
             img == [i \in DOMAIN list |-> EntryOf(world, node, svc, list[i])]
  <2>5. ports(svc) = list
    BY <2>1, <2>3
  <2>5a. of(svc) = img
    BY <2>5
  <2>6. IsList(list) /\ Range(list) = Ports(svc)
    BY <2>4 DEF Ports
  <2> HIDE DEF sel, raw, ports, list, of
  <2>7. DOMAIN list = 1..Len(list) /\ Len(list) \in Nat
    BY <2>6, ListFacts
  <2>8. Range(img) = {EntryOf(world, node, svc, sp) : sp \in Range(list)}
    BY DEF Range
  <2>9. IsList(img)
    <3>1. img = [i \in 1..Len(list) |-> img[i]]
      BY <2>7
    <3> HIDE DEF img
    <3> QED BY <3>1, <2>7, FunctionIsList
  <2> QED BY <2>5a, <2>6, <2>8, <2>9
<1>3. DOMAIN world.services = 1..Len(world.services) /\ Len(world.services) \in Nat
  BY ListFacts
<1>4. \A i \in DOMAIN world.services : world.services[i] \in Range(world.services)
  BY DEF Range
<1> HIDE DEF of
<1>5. \A i \in DOMAIN world.services : /\ IsList(parts[i])
                                      /\ Range(parts[i]) = IF Mapped(world.services[i])
                                            THEN {EntryOf(world, node, world.services[i], sp) : sp \in Ports(world.services[i])}
                                            ELSE {}
  BY <1>2, <1>4, Empty
<1>6. DOMAIN parts = DOMAIN world.services /\ IsList(parts)
  <2>1. parts = [i \in 1..Len(world.services) |-> parts[i]] /\ DOMAIN parts = DOMAIN world.services
    BY <1>3
  <2> HIDE DEF parts
  <2> QED BY <1>3, <2>1, FunctionIsList
<1> HIDE DEF parts
<1>7. /\ IsList(FlattenSeq(parts))
      /\ Range(FlattenSeq(parts)) = UNION {Range(parts[i]) : i \in DOMAIN parts}
  BY <1>5, <1>6, FlatRange
<1> DEFINE Made == UNION {{EntryOf(world, node, svc, sp) : sp \in Ports(svc)} :
                            svc \in {x \in Range(world.services) : Mapped(x)}}
<1>8. ASSUME NEW e \in UNION {Range(parts[i]) : i \in DOMAIN parts} PROVE e \in Made
  <2>1. PICK i \in DOMAIN world.services : e \in Range(parts[i])
    BY <1>6, <1>8
  <2> DEFINE x == world.services[i]
  <2>2. Mapped(x) /\ e \in {EntryOf(world, node, x, sp) : sp \in Ports(x)} /\ x \in Range(world.services)
    BY <2>1, <1>4, <1>5
  <2> HIDE DEF x
  <2> QED BY <2>2
<1>9. ASSUME NEW e \in Made PROVE e \in UNION {Range(parts[i]) : i \in DOMAIN parts}
  <2>1. PICK svc \in Range(world.services) : Mapped(svc) /\ e \in {EntryOf(world, node, svc, sp) : sp \in Ports(svc)}
    BY <1>9
  <2>2. PICK i \in DOMAIN world.services : svc = world.services[i]
    BY DEF Range
  <2>3. e \in Range(parts[i])
    BY <2>1, <2>2, <1>5
  <2> QED BY <2>3, <1>6
<1>10. UNION {Range(parts[i]) : i \in DOMAIN parts} = Made
  BY <1>8, <1>9
<1> HIDE DEF Made
<1> QED BY <1>1, <1>7, <1>10 DEF Made

----------------------------------------------------------------------------
(* The stages of a pass *)

\* The entries of map_services form a list, each made from a port of a Service.
LEMMA Entries ==
  ASSUME NEW w \in DOMAIN PtWorlds
  PROVE  /\ EntriesAt[w] \in Seq(Range(EntriesAt[w]))
         /\ \A e \in Range(EntriesAt[w]) : /\ e.info.externalIps \in Seq(Range(e.info.externalIps))
                                           /\ e.info.lbIps \in Seq(Range(e.info.lbIps))
<1> DEFINE world == PtWorlds[w]
<1>1. EntriesAt[w] = MapServices(world, PtNode)
  BY DEF EntriesAt
<1>2. /\ IsList(world.services)
      /\ \A svc \in Range(world.services) : IsList(svc.ports) /\ IsList(svc.externalIps) /\ IsList(svc.lbIps)
  BY PtLists DEF IsList
<1> HIDE DEF world
<1>3. /\ IsList(EntriesAt[w])
      /\ Range(EntriesAt[w]) = UNION {{EntryOf(world, PtNode, svc, sp) : sp \in Ports(svc)} :
                                          svc \in {x \in Range(world.services) : Mapped(x)}}
  BY <1>1, <1>2, MappedEntries
<1>4. ASSUME NEW e \in Range(EntriesAt[w])
      PROVE  IsList(e.info.externalIps) /\ IsList(e.info.lbIps)
  <2>1. PICK svc \in Range(world.services) : \E sp \in Ports(svc) : e = EntryOf(world, PtNode, svc, sp)
    BY <1>3, <1>4
  <2>2. e.info.externalIps = svc.externalIps /\ e.info.lbIps = svc.lbIps
    BY <2>1 DEF EntryOf, ServiceInfo
  <2> QED BY <2>2, <1>2
<1> QED BY <1>3, <1>4 DEF IsList

\* The addresses of an entry, and the job that reconcile_inner makes of it.
VipsOf(e) == Range(e.info.externalIps \o e.info.lbIps)
JobOf(e, cfg) ==
    [vips |-> ExternalVips(e, cfg), proto |-> e.info.proto, port |-> e.info.port, eps |-> e.eps,
     conf |-> e.info.conf, on |-> TakesFwmark(e, cfg)]

\* Validation only takes addresses away.
LEMMA Vips ==
  ASSUME NEW e, NEW cfg,
         e.info.externalIps \in Seq(Range(e.info.externalIps)), e.info.lbIps \in Seq(Range(e.info.lbIps))
  PROVE  ExternalVips(e, cfg) \in Seq(VipsOf(e))
<1> DEFINE ext == e.info.externalIps
           lb == e.info.lbIps
           a == [i \in DOMAIN ext |-> IF ValidateExternalIp(ext[i], cfg.external, cfg.cluster, cfg.strict)
                                      THEN <<ext[i]>> ELSE <<>>]
           b == [i \in DOMAIN lb |-> IF ValidateExternalIp(lb[i], cfg.loadbalancer, cfg.cluster, cfg.strict)
                                     THEN <<lb[i]>> ELSE <<>>]
<1>1. ExternalVips(e, cfg) = FlattenSeq(a) \o FlattenSeq(b)
  BY DEF ExternalVips, Filter
<1>2. a \in [DOMAIN ext -> {<<>>} \cup {<<x>> : x \in Range(ext)}]
  BY DEF Range
<1>3. b \in [DOMAIN lb -> {<<>>} \cup {<<x>> : x \in Range(lb)}]
  BY DEF Range
<1> HIDE DEF a, b
<1>4. FlattenSeq(a) \in Seq(Range(ext))
  BY <1>2, Filtered
<1>5. FlattenSeq(b) \in Seq(Range(lb))
  BY <1>3, Filtered
<1>6. Range(ext) \subseteq VipsOf(e) /\ Range(lb) \subseteq VipsOf(e)
  <2> DEFINE c == ext \o lb
             V == Range(ext) \cup Range(lb)
  <2>0. ext \in Seq(V) /\ lb \in Seq(V)
    OBVIOUS
  <2> HIDE DEF ext, lb, V
  <2>1. DOMAIN ext = 1..Len(ext) /\ DOMAIN lb = 1..Len(lb) /\ Len(ext) \in Nat /\ Len(lb) \in Nat
    BY <2>0
  <2>2. /\ DOMAIN c = 1..(Len(ext) + Len(lb))
        /\ \A i \in 1..Len(ext) : c[i] = ext[i]
        /\ \A i \in 1..Len(lb) : c[Len(ext) + i] = lb[i]
    <3>1. c \in Seq(V) /\ Len(c) = Len(ext) + Len(lb)
      BY <2>0
    <3>2. \A i \in 1..Len(ext) : c[i] = ext[i]
      BY <2>0
    <3>3. \A i \in 1..Len(lb) : c[Len(ext) + i] = lb[i]
      BY <2>0
    <3> HIDE DEF c
    <3>4. DOMAIN c = 1..(Len(ext) + Len(lb))
      BY <3>1
    <3> QED BY <3>2, <3>3, <3>4
  <2> HIDE DEF c
  <2>3. \A i \in 1..Len(ext) : ext[i] \in Range(c)
    BY <2>1, <2>2 DEF Range
  <2>4. \A i \in 1..Len(lb) : lb[i] \in Range(c)
    <3> SUFFICES ASSUME NEW i \in 1..Len(lb) PROVE lb[i] \in Range(c)
      OBVIOUS
    <3>1. Len(ext) + i \in 1..(Len(ext) + Len(lb))
      BY <2>1
    <3> QED BY <2>2, <3>1 DEF Range
  <2>5. Range(ext) \subseteq Range(c) /\ Range(lb) \subseteq Range(c)
    BY <2>1, <2>3, <2>4 DEF Range
  <2> QED BY <2>5 DEF VipsOf, c, ext, lb
<1> HIDE DEF ext, lb
<1>7. FlattenSeq(a) \in Seq(VipsOf(e)) /\ FlattenSeq(b) \in Seq(VipsOf(e))
  BY <1>4, <1>5, <1>6
<1> QED BY <1>1, <1>7

\* The jobs of a pass are made of entries.
LEMMA Jobs ==
  ASSUME NEW w \in DOMAIN PtWorlds, NEW cfg
  PROVE  DsrJobs(EntriesAt[w], cfg) \in Seq({JobOf(e, cfg) : e \in Range(EntriesAt[w])})
<1> DEFINE ents == EntriesAt[w]
           J == {JobOf(e, cfg) : e \in Range(ents)}
           jobs == [i \in DOMAIN ents |-> JobOf(ents[i], cfg)]
           sel == [i \in DOMAIN jobs |-> IF jobs[i].on /\ jobs[i].vips # <<>> THEN <<jobs[i]>> ELSE <<>>]
<1>1. DsrJobs(ents, cfg) = FlattenSeq(sel)
  BY DEF DsrJobs, Filter, JobOf
<1>2. ents \in Seq(Range(ents))
  BY Entries
<1> HIDE DEF ents
<1>3. DOMAIN ents = 1..Len(ents) /\ Len(ents) \in Nat /\ \A i \in 1..Len(ents) : ents[i] \in Range(ents)
  BY <1>2
<1>4. \A i \in 1..Len(ents) : jobs[i] \in J
  BY <1>3
<1>5. jobs = [i \in 1..Len(ents) |-> jobs[i]] /\ DOMAIN jobs = 1..Len(ents)
  BY <1>3
<1> HIDE DEF jobs, J
<1>6. jobs \in Seq(J)
  <2>1. jobs \in [1..Len(ents) -> J]
    BY <1>4, <1>5
  <2> QED BY <2>1, <1>3
<1>7. jobs \in Seq(Range(jobs)) /\ Range(jobs) \subseteq J
  BY <1>6, ListOf
<1>8. sel \in [DOMAIN jobs -> {<<>>} \cup {<<x>> : x \in Range(jobs)}]
  BY DEF Range
<1> HIDE DEF sel
<1>9. FlattenSeq(sel) \in Seq(Range(jobs))
  BY <1>7, <1>8, Filtered
<1>10. FlattenSeq(sel) \in Seq(J)
  BY <1>7, <1>9
<1> QED BY <1>1, <1>10 DEF J, ents

\* The stages of the DSR jobs of a world.
StagesOf(w, cfg) ==
    UNION {{DsrStage(op, ip, JobOf(e, cfg)) : op \in {"mark", "tcpmss"}, ip \in VipsOf(e)} :
              e \in Range(EntriesAt[w])}

LEMMA StagesAreOf ==
  ASSUME NEW w \in DOMAIN PtWorlds, NEW cfg
  PROVE  DsrStages(DsrJobs(EntriesAt[w], cfg)) \in Seq(StagesOf(w, cfg))
<1> DEFINE jobs == DsrJobs(EntriesAt[w], cfg)
           S == StagesOf(w, cfg)
           vips(j, fam) == Filter(j.vips, LAMBDA ip : ip[1] = fam)
           all(op, j, fam) == [i \in DOMAIN vips(j, fam) |-> DsrStage(op, vips(j, fam)[i], j)]
           both(j, fam) == all("mark", j, fam) \o all("tcpmss", j, fam)
           parts == [i \in DOMAIN jobs |-> both(jobs[i], PtFams[1]) \o both(jobs[i], PtFams[2])]
<1>1. DsrStages(jobs) = FlattenSeq(parts)
  BY DEF DsrStages
<1>2. jobs \in Seq({JobOf(e, cfg) : e \in Range(EntriesAt[w])})
  BY Jobs
<1>3. ASSUME NEW e \in Range(EntriesAt[w]), NEW fam, NEW op \in {"mark", "tcpmss"}
      PROVE  all(op, JobOf(e, cfg), fam) \in Seq(S)
  <2> DEFINE j == JobOf(e, cfg)
             v == j.vips
             sel == [i \in DOMAIN v |-> IF v[i][1] = fam THEN <<v[i]>> ELSE <<>>]
             f == vips(j, fam)
  <2>1. f = FlattenSeq(sel)
    BY DEF Filter
  <2>2. v \in Seq(VipsOf(e))
    <3>1. v = ExternalVips(e, cfg)
      BY DEF JobOf
    <3> QED BY <3>1, Entries, Vips
  <2> HIDE DEF v
  <2>3. v \in Seq(Range(v)) /\ Range(v) \subseteq VipsOf(e)
    BY <2>2, ListOf
  <2>4. sel \in [DOMAIN v -> {<<>>} \cup {<<x>> : x \in Range(v)}]
    BY DEF Range
  <2> HIDE DEF sel, f
  <2>5. f \in Seq(Range(v))
    BY <2>1, <2>3, <2>4, Filtered
  <2>6. DOMAIN f = 1..Len(f) /\ Len(f) \in Nat /\ \A i \in 1..Len(f) : f[i] \in VipsOf(e)
    BY <2>3, <2>5
  <2>7. \A i \in 1..Len(f) : DsrStage(op, f[i], j) \in S
    BY <2>6 DEF StagesOf
  <2>8. all(op, j, fam) = [i \in 1..Len(f) |-> DsrStage(op, f[i], j)]
    BY <2>6 DEF f
  <2> HIDE DEF S, all
  <2>9. all(op, j, fam) \in [1..Len(f) -> S]
    BY <2>7, <2>8
  <2>10. all(op, j, fam) \in Seq(S)
    BY <2>6, <2>9
  <2> QED BY <2>10
<1> HIDE DEF S, all, jobs
<1>4. ASSUME NEW i \in 1..Len(jobs)
      PROVE  both(jobs[i], PtFams[1]) \o both(jobs[i], PtFams[2]) \in Seq(S)
  <2>1. PICK e \in Range(EntriesAt[w]) : jobs[i] = JobOf(e, cfg)
    BY <1>2
  <2>2. \A fam : both(jobs[i], fam) \in Seq(S)
    BY <2>1, <1>3
  <2> HIDE DEF both
  <2> QED BY <2>2
<1>5. DOMAIN jobs = 1..Len(jobs) /\ Len(jobs) \in Nat
  BY <1>2
<1> HIDE DEF both
<1>6. parts \in [1..Len(jobs) -> Seq(S)]
  BY <1>4, <1>5
<1> HIDE DEF parts
<1>7. parts \in Seq(Seq(S))
  BY <1>5, <1>6
<1>8. FlattenSeq(parts) \in Seq(S)
  BY <1>7, Flat
<1> QED BY <1>1, <1>8 DEF S, jobs

\* The destinations of such a stage are endpoints of its key.
LEMMA StageFacts ==
  ASSUME NEW w \in DOMAIN PtWorlds, NEW cfg, NEW s \in StagesOf(w, cfg)
  PROVE  s.op \in {"mark", "tcpmss"} /\ s.dests \subseteq EndpointsOf[s.key]
<1>1. PICK e \in Range(EntriesAt[w]) :
         \E op \in {"mark", "tcpmss"}, ip \in VipsOf(e) : s = DsrStage(op, ip, JobOf(e, cfg))
  BY DEF StagesOf
<1>2. PICK op \in {"mark", "tcpmss"}, ip \in VipsOf(e) : s = DsrStage(op, ip, JobOf(e, cfg))
  BY <1>1
<1>3. /\ s.op = op /\ s.key = <<ip, e.info.proto, e.info.port>>
      /\ s.dests = {[ip |-> x.ip, port |-> x.port] : x \in {y \in e.eps : y.ready}}
  BY <1>2 DEF DsrStage, JobOf
<1>4. e \in AllEntries
  BY DEF AllEntries
<1>5. s.key \in VipKeys(e)
  BY <1>3 DEF VipKeys, VipsOf
<1>6. EndpointsOf[s.key] =
        UNION {{[ip |-> x.ip, port |-> x.port] : x \in y.eps} : y \in {z \in AllEntries : s.key \in VipKeys(z)}}
  BY <1>4, <1>5 DEF EndpointsOf
<1> HIDE DEF AllEntries
<1>7. \A d \in s.dests : d \in {[ip |-> x.ip, port |-> x.port] : x \in e.eps}
  BY <1>3
<1>8. \A d \in s.dests : d \in EndpointsOf[s.key]
  BY <1>4, <1>5, <1>6, <1>7
<1> QED BY <1>3, <1>8

----------------------------------------------------------------------------
(* The service firewall fails open *)

Typed == ptCfg \in PtConfigs /\ ptStore \in DOMAIN PtWorlds

LEMMA TypedStep ==
  ASSUME Typed, [PtNext]_ptVars
  PROVE  Typed'
<1>1. CASE PtStoreChange
  BY <1>1 DEF Typed, PtStoreChange
<1>2. CASE PtRestart
  BY <1>2 DEF Typed, PtRestart
<1>3. CASE UNCHANGED <<ptCfg, ptStore>>
  BY <1>3 DEF Typed
<1> QED BY <1>1, <1>2, <1>3 DEF PtNext, PtPass, PtMetrics, PtMark, PtTcpMss, PtHairpin, PtMasquerade, PtHealth,
           PtFirewallSets, PtFirewallChain, ptVars

\* Sets that were filled without an error hold what they were filled from.
SetsKnown ==
    /\ DOMAIN ptSets = FamSet /\ DOMAIN ptFilled = FamSet
    /\ \A f \in FamSet : ptFilled[f].ok => ptSets[f] = FilledSets(ptFilled[f].local, ptFilled[f].applied, f)

\* The chain of a family has the first rules and no others.
ChainKnown ==
    /\ DOMAIN ptChain = FamSet
    /\ \A f \in FamSet : \E n \in 0..3 : ptChain[f].rules = SubSeq(FirewallRules, 1, n)

LEMMA SetsStep ==
  ASSUME SetsKnown, [PtNext]_ptVars
  PROVE  SetsKnown'
<1>1. CASE PtFirewallSets
  <2>0. PICK local \in IF Fam = PtFams[1] THEN AllLocalIps ELSE {ptFilled[PtFams[1]].local}, ok \in BOOLEAN :
          /\ \E sets \in IF ok THEN {FilledSets(local, ptApplied, Fam)}
                         ELSE HalfFilled(ptSets[Fam], FilledSets(local, ptApplied, Fam)) :
                ptSets' = [ptSets EXCEPT ![Fam] = sets]
          /\ ptFilled' = [ptFilled EXCEPT ![Fam] = [ok |-> ok, applied |-> ptApplied, local |-> local]]
    BY <1>1, Zenon DEF PtFirewallSets
  <2>1. PICK sets :
          /\ ok => sets = FilledSets(local, ptApplied, Fam)
          /\ ptSets' = [ptSets EXCEPT ![Fam] = sets]
          /\ ptFilled' = [ptFilled EXCEPT ![Fam] = [ok |-> ok, applied |-> ptApplied, local |-> local]]
    BY <2>0, Zenon
  <2>2. DOMAIN ptSets' = FamSet /\ DOMAIN ptFilled' = FamSet
    BY <2>1 DEF SetsKnown
  <2>3. ASSUME NEW f \in FamSet, ptFilled'[f].ok
        PROVE  ptSets'[f] = FilledSets(ptFilled'[f].local, ptFilled'[f].applied, f)
    <3>1. CASE f = Fam
      <4>1. ptSets'[f] = sets /\ ptFilled'[f] = [ok |-> ok, applied |-> ptApplied, local |-> local]
        BY <2>1, <3>1 DEF SetsKnown
      <4> QED BY <2>1, <2>3, <3>1, <4>1
    <3>2. CASE f # Fam
      <4>1. ptSets'[f] = ptSets[f] /\ ptFilled'[f] = ptFilled[f]
        BY <2>1, <3>2 DEF SetsKnown
      <4> QED BY <2>3, <4>1 DEF SetsKnown
    <3> QED BY <3>1, <3>2
  <2> QED BY <2>2, <2>3 DEF SetsKnown
<1>2. CASE UNCHANGED <<ptSets, ptFilled>>
  BY <1>2 DEF SetsKnown
<1> QED BY <1>1, <1>2 DEF PtNext, PtStoreChange, PtPass, PtMetrics, PtMark, PtTcpMss, PtHairpin, PtMasquerade,
           PtHealth, PtFirewallChain, PtRestart, ptVars, ptKernel, ptGhost

\* What a step of PtFirewallChain makes of the chain of its family.
LEMMA Built ==
  ASSUME NEW k \in 0..4
  PROVE  \E n \in 0..3 : Building(k).rules = SubSeq(FirewallRules, 1, n) /\ (k = 4 => n = 3)
<1>1. Len(FirewallRules) = 3
  BY DEF FirewallRules
<1>2. CASE k = 4
  BY <1>1, <1>2 DEF Building, FirstOf
<1>3. CASE k # 4
  <2>1. k \in 0..3 /\ ~(k > 3)
    BY <1>3
  <2>2. Building(k).rules = SubSeq(FirewallRules, 1, k)
    BY <1>1, <2>1 DEF Building, FirstOf
  <2> QED BY <2>1, <2>2, <1>3
<1> QED BY <1>2, <1>3

LEMMA ChainStep ==
  ASSUME ChainKnown, [PtNext]_ptVars
  PROVE  ChainKnown'
<1>1. CASE PtFirewallChain
  <2>0. Len(FirewallRules) = 3
    BY DEF FirewallRules
  <2> DEFINE jump(ok, k) == (Building(k).jump \/ ptChain[Fam].jump) /\ ~(ok /\ ptCfg.permitAll)
  <2>1. PICK ok \in BOOLEAN, k \in -1..Len(FirewallRules) + 1 :
          ptChain' = IF k = -1 THEN ptChain
                     ELSE [ptChain EXCEPT ![Fam] = [rules |-> Building(k).rules, jump |-> jump(ok, k)]]
    BY <1>1 DEF PtFirewallChain
  <2> HIDE DEF jump
  <2>2. DOMAIN ptChain' = FamSet
    BY <2>1 DEF ChainKnown
  <2>3. ASSUME NEW f \in FamSet
        PROVE  \E n \in 0..3 : ptChain'[f].rules = SubSeq(FirewallRules, 1, n)
    <3>1. CASE f = Fam /\ k # -1
      <4>2. ptChain'[f].rules = Building(k).rules
        BY <2>1, <3>1 DEF ChainKnown
      <4>3. k \in 0..4
        BY <2>0, <3>1
      <4> QED BY <4>2, <4>3, Built
    <3>2. CASE ~(f = Fam /\ k # -1)
      <4>1. ptChain'[f] = ptChain[f]
        BY <2>1, <3>2 DEF ChainKnown
      <4> QED BY <4>1 DEF ChainKnown
    <3> QED BY <3>1, <3>2
  <2> QED BY <2>2, <2>3 DEF ChainKnown
<1>2. CASE UNCHANGED ptChain
  BY <1>2 DEF ChainKnown
<1> QED BY <1>1, <1>2 DEF PtNext, PtStoreChange, PtPass, PtMetrics, PtMark, PtTcpMss, PtHairpin, PtMasquerade,
           PtHealth, PtFirewallSets, PtRestart, ptVars, ptKernel

\* The verdict of netfilter on the first n rules.
LEMMA Verdict ==
  ASSUME NEW dst, NEW n \in 0..3, ptChain[dst[1][1]].rules = SubSeq(FirewallRules, 1, n)
  PROVE  Rejected(dst) <=> /\ n = 3 /\ ptChain[dst[1][1]].jump
                           /\ dst[1] \in ptSets[dst[1][1]].ips
                           /\ dst \notin ptSets[dst[1][1]].ports
                           /\ dst[1] \notin ptSets[dst[1][1]].local
<1> DEFINE rules == ptChain[dst[1][1]].rules
           sets == ptSets[dst[1][1]]
           passes == {i \in DOMAIN rules : \/ rules[i] = "accept-service" /\ dst \in sets.ports
                                           \/ rules[i] = "reject-other" /\ dst[1] \notin sets.local}
           first == CHOOSE i \in passes : \A j \in passes : i <= j
<1>1. Rejected(dst) <=> /\ ptChain[dst[1][1]].jump /\ dst[1] \in sets.ips
                        /\ passes # {} /\ rules[first] = "reject-other"
  BY DEF Rejected
<1>2. /\ DOMAIN rules = 1..n
      /\ \A i \in 1..n : rules[i] = FirewallRules[i]
  BY DEF FirewallRules
<1>3. FirewallRules[1] = "icmp" /\ FirewallRules[2] = "accept-service" /\ FirewallRules[3] = "reject-other"
  BY DEF FirewallRules
<1> HIDE DEF rules, sets
<1>4. \A i : i \in passes <=> i \in 1..n /\ ((i = 2 /\ dst \in sets.ports) \/ (i = 3 /\ dst[1] \notin sets.local))
  <2>1. \A i \in 1..n : i = 1 \/ i = 2 \/ i = 3
    OBVIOUS
  <2>2. \A i \in 1..n : /\ rules[i] = "accept-service" <=> i = 2
                        /\ rules[i] = "reject-other" <=> i = 3
    BY <2>1, <1>2, <1>3
  <2>3. \A i : i \in passes <=> /\ i \in 1..n
                                /\ \/ rules[i] = "accept-service" /\ dst \in sets.ports
                                   \/ rules[i] = "reject-other" /\ dst[1] \notin sets.local
    BY <1>2
  <2> HIDE DEF passes
  <2> SUFFICES ASSUME NEW i
               PROVE  i \in passes <=> i \in 1..n /\ ((i = 2 /\ dst \in sets.ports) \/ (i = 3 /\ dst[1] \notin sets.local))
    OBVIOUS
  <2>4. CASE i \in 1..n
    <3>1. (rules[i] = "accept-service" <=> i = 2) /\ (rules[i] = "reject-other" <=> i = 3)
      BY <2>2, <2>4
    <3>2. i \in passes <=> \/ rules[i] = "accept-service" /\ dst \in sets.ports
                           \/ rules[i] = "reject-other" /\ dst[1] \notin sets.local
      BY <2>3, <2>4
    <3> QED BY <3>1, <3>2, <2>4
  <2>5. CASE i \notin 1..n
    BY <2>3, <2>5, Zenon
  <2> QED BY <2>4, <2>5
<1> HIDE DEF passes
<1>5. CASE 2 \in passes
  <2>1. \A j \in passes : 2 <= j
    BY <1>4
  <2>2. \A i \in passes : (\A j \in passes : i <= j) => i = 2
    BY <1>4, <1>5
  <2>3. first = 2
    BY <1>5, <2>1, <2>2
  <2>4. rules[first] # "reject-other"
    BY <2>3, <1>5, <1>4, <1>2, <1>3
  <2> QED BY <1>1, <2>4, <1>4, <1>5 DEF rules, sets
<1>6. CASE 2 \notin passes /\ 3 \in passes
  <2>1. passes = {3}
    BY <1>4, <1>6
  <2>2. first = 3
    BY <2>1
  <2>3. n = 3
    BY <1>4, <1>6
  <2> HIDE DEF first
  <2>4. rules[first] = "reject-other"
    BY <2>2, <2>3, <1>2, <1>3
  <2>5. dst \notin sets.ports /\ dst[1] \notin sets.local
    BY <1>4, <1>6, <2>3
  <2> QED BY <1>1, <2>1, <2>3, <2>4, <2>5 DEF rules, sets
<1>7. CASE 2 \notin passes /\ 3 \notin passes
  <2>1. passes = {}
    BY <1>4, <1>7
  <2>2. n = 3 => dst[1] \in sets.local
    BY <1>4, <1>7
  <2> QED BY <1>1, <2>1, <2>2 DEF rules, sets
<1> QED BY <1>5, <1>6, <1>7

LEMMA InitKnown ==
  ASSUME PtInit
  PROVE  SetsKnown /\ ChainKnown
<1>1. SetsKnown
  <2>1. \A f \in FamSet : ptSets[f] = NoSets /\ ptFilled[f] = Unfilled
    BY DEF PtInit
  <2>2. DOMAIN ptSets = FamSet /\ DOMAIN ptFilled = FamSet
    BY DEF PtInit
  <2>3. \A f \in FamSet : FilledSets({}, << >>, f) = NoSets
    BY DEF FilledSets, SetsOf, OfFamily, KeysOfFamily, NoSets
  <2> QED BY <2>1, <2>2, <2>3 DEF SetsKnown, Unfilled
<1>2. ChainKnown
  <2>1. \A f \in FamSet : ptChain[f].rules = <<>>
    BY DEF PtInit
  <2>2. DOMAIN ptChain = FamSet
    BY DEF PtInit
  <2>3. SubSeq(FirewallRules, 1, 0) = <<>>
    BY DEF FirewallRules
  <2>4. \A f \in FamSet : ptChain[f].rules = SubSeq(FirewallRules, 1, 0)
    BY <2>1, <2>3
  <2>5. 0 \in 0..3
    OBVIOUS
  <2> QED BY <2>2, <2>4, <2>5, Zenon DEF ChainKnown
<1> QED BY <1>1, <1>2

\* FirewallFailsOpen for all Services, flags and addresses: the rule that rejects
\* is the last of the chain (firewall.rs:215-235), behind the one that accepts.
THEOREM FirewallStaysOpen == PtSpec => []FirewallFailsOpen
<1>1. PtInit => SetsKnown /\ ChainKnown
  BY InitKnown
<1>2. SetsKnown /\ ChainKnown /\ [PtNext]_ptVars => SetsKnown' /\ ChainKnown'
  BY SetsStep, ChainStep
<1>3. SetsKnown /\ ChainKnown => FirewallFailsOpen
  <2> SUFFICES ASSUME SetsKnown, ChainKnown, NEW dst \in PtPackets, ptFilled[dst[1][1]].ok, Rejected(dst)
               PROVE  /\ dst \notin DOMAIN ptFilled[dst[1][1]].applied
                      /\ dst[1] \notin ptFilled[dst[1][1]].local
    BY DEF FirewallFailsOpen
  <2> DEFINE f == dst[1][1]
             from == ptFilled[f]
  <2>1. f \in FamSet
    BY PtDestinations
  <2>2. ptSets[f] = FilledSets(from.local, from.applied, f)
    BY <2>1 DEF SetsKnown
  <2>3. PICK n \in 0..3 : ptChain[f].rules = SubSeq(FirewallRules, 1, n)
    BY <2>1 DEF ChainKnown
  <2>4. dst \notin ptSets[f].ports /\ dst[1] \notin ptSets[f].local
    BY <2>3, Verdict
  <2>5. /\ ptSets[f].ports = {k \in DOMAIN from.applied : k[1][1] = f}
        /\ ptSets[f].local = {ip \in from.local : ip[1] = f}
    BY <2>2 DEF FilledSets, SetsOf, OfFamily, KeysOfFamily
  <2> QED BY <2>4, <2>5
<1> QED BY <1>1, <1>2, <1>3, PTL DEF PtSpec

----------------------------------------------------------------------------
(* The service firewall closes *)

\* setup_firewall has ended well for a family, under the flags of this process.
SetUp(f) ==
    /\ ptCfg.permitAll => ~ptChain[f].jump
    /\ ~ptCfg.permitAll => ptChain[f].jump /\ ptChain[f].rules = SubSeq(FirewallRules, 1, 3)

\* The chain is set up by the last two stages of a pass, one for each family, so
\* that the flag is set when both have ended well.
TodoShape ==
    /\ ptTodo \in Seq(Range(ptTodo))
    /\ \/ ptTodo = <<>>
       \/ ptSetupDone /\ \A i \in 1..Len(ptTodo) : ptTodo[i].op # "chain"
       \/ /\ ~ptSetupDone /\ Len(ptTodo) >= 2
          /\ \A i \in 1..(Len(ptTodo) - 2) : ptTodo[i].op # "chain"
          /\ ptTodo[Len(ptTodo) - 1] = Stage("chain", 4)
          /\ ptTodo[Len(ptTodo)] = Stage("chain", 6)
       \/ ~ptSetupDone /\ Len(ptTodo) = 1 /\ ptTodo[1] = Stage("chain", 6) /\ SetUp(4)

Closed == ptSetupDone => \A f \in FamSet : SetUp(f)

LEMMA Families == FamSet = {4, 6} /\ PtFams[1] = 4 /\ PtFams[2] = 6 /\ DOMAIN PtFams = 1..2
<1>1. PtFams[1] = 4 /\ PtFams[2] = 6 /\ DOMAIN PtFams = 1..2
  BY DEF PtFams
<1> QED BY <1>1 DEF FamSet, Range

\* A stage other than the chain's.
LEMMA OtherStage ==
  ASSUME TodoShape, Closed, NEW op, op # "chain", At(op), ptTodo' \in {Tail(ptTodo), <<>>},
         UNCHANGED <<ptSetupDone, ptChain, ptCfg>>
  PROVE  TodoShape' /\ Closed'
<1>1. Closed'
  BY DEF Closed, SetUp
<1>2. CASE ptTodo' = <<>>
  BY <1>1, <1>2 DEF TodoShape
<1>3. CASE ptTodo' = Tail(ptTodo)
  <2> DEFINE n == Len(ptTodo)
             S == Range(ptTodo)
  <2>1. ptTodo \in Seq(S) /\ ptTodo # <<>> /\ ptTodo[1].op # "chain"
    BY DEF At, TodoShape
  <2>2. n \in Nat /\ n >= 1
    BY <2>1
  <2> HIDE DEF S
  <2>3. /\ ptTodo' \in Seq(S) /\ Len(ptTodo') = n - 1
        /\ \A i \in 1..(n - 1) : ptTodo'[i] = ptTodo[i + 1]
    BY <1>3, <2>1
  <2>4. ptTodo' \in Seq(Range(ptTodo'))
    BY <2>3, ListOf
  <2> HIDE DEF n
  <2>5. CASE ptSetupDone /\ \A i \in 1..n : ptTodo[i].op # "chain"
    <3>1. \A i \in 1..(n - 1) : i + 1 \in 1..n
      BY <2>2
    <3>2. \A i \in 1..Len(ptTodo') : ptTodo'[i].op # "chain"
      BY <2>3, <2>5, <3>1
    <3>3. ptSetupDone'
      BY <2>5
    <3> QED BY <1>1, <2>4, <3>2, <3>3 DEF TodoShape
  <2>6. CASE /\ ~ptSetupDone /\ n >= 2
             /\ \A i \in 1..(n - 2) : ptTodo[i].op # "chain"
             /\ ptTodo[n - 1] = Stage("chain", 4) /\ ptTodo[n] = Stage("chain", 6)
    <3>1. n # 2
      BY <2>1, <2>6 DEF Stage
    <3> DEFINE m == Len(ptTodo')
    <3>2. m = n - 1 /\ m >= 2 /\ m \in Nat
      BY <2>2, <2>3, <2>6, <3>1
    <3> HIDE DEF m
    <3>3. \A i \in 1..(m - 2) : i \in 1..(n - 1) /\ i + 1 \in 1..(n - 2)
      BY <2>2, <3>2
    <3>4. \A i \in 1..(m - 2) : ptTodo'[i].op # "chain"
      BY <2>3, <2>6, <3>3
    <3>5. ptTodo'[m - 1] = Stage("chain", 4)
      <4>1. m - 1 \in 1..(n - 1) /\ (m - 1) + 1 = n - 1
        BY <2>2, <3>2
      <4> QED BY <4>1, <2>3, <2>6
    <3>6. ptTodo'[m] = Stage("chain", 6)
      <4>1. m \in 1..(n - 1) /\ m + 1 = n
        BY <2>2, <3>2
      <4> QED BY <4>1, <2>3, <2>6
    <3> QED BY <1>1, <2>4, <2>6, <3>2, <3>4, <3>5, <3>6 DEF TodoShape, m
  <2>7. ~(n = 1 /\ ptTodo[1] = Stage("chain", 6))
    BY <2>1 DEF Stage
  <2> QED BY <2>1, <2>5, <2>6, <2>7 DEF TodoShape, n
<1> QED BY <1>2, <1>3

\* What a step of setup_firewall does to its family and to no other.
LEMMA SetUpStage ==
  ASSUME ChainKnown, Typed, PtFirewallChain
  PROVE  \E ok \in BOOLEAN :
            /\ ptTodo' = IF ok THEN Tail(ptTodo) ELSE <<>>
            /\ ptSetupDone' = (ok /\ Len(ptTodo) = 1)
            /\ \A f \in FamSet : f # Fam => ptChain'[f] = ptChain[f]
            /\ ok => \A f \in FamSet : f = Fam => SetUp(f)'
<1>0. Len(FirewallRules) = 3
  BY DEF FirewallRules
<1> DEFINE jump(ok, k) == (Building(k).jump \/ ptChain[Fam].jump) /\ ~(ok /\ ptCfg.permitAll)
<1>1. PICK ok \in BOOLEAN, k \in -1..Len(FirewallRules) + 1 :
         /\ ok => k = IF ptCfg.permitAll THEN 0 ELSE Len(FirewallRules) + 1
         /\ ptTodo' = IF ok THEN Tail(ptTodo) ELSE <<>>
         /\ ptChain' = IF k = -1 THEN ptChain
                       ELSE [ptChain EXCEPT ![Fam] = [rules |-> Building(k).rules, jump |-> jump(ok, k)]]
         /\ ptSetupDone' = (ok /\ Len(ptTodo) = 1)
  BY DEF PtFirewallChain, PtResult, PtOutcome
<1>2. UNCHANGED ptCfg
  BY DEF PtFirewallChain
<1>3. \A f \in FamSet : f # Fam => ptChain'[f] = ptChain[f]
  BY <1>1 DEF ChainKnown
<1>4. ASSUME ok, NEW f \in FamSet, f = Fam
      PROVE  SetUp(f)'
  <2>1. k # -1
    BY <1>0, <1>1, <1>4
  <2>2. ptChain' = [ptChain EXCEPT ![Fam] = [rules |-> Building(k).rules, jump |-> jump(ok, k)]]
    BY <1>1, <2>1
  <2>3. ptChain'[f].rules = Building(k).rules /\ ptChain'[f].jump = jump(ok, k)
    BY <2>2, <1>4 DEF ChainKnown
  <2>4. ptCfg.permitAll \in BOOLEAN
    BY PtFlags DEF Typed
  <2>5. CASE ptCfg.permitAll
    <3>1. ~ptChain'[f].jump
      BY <2>3, <2>5, <1>4
    <3> QED BY <3>1, <2>5, <1>2 DEF SetUp
  <2>6. CASE ~ptCfg.permitAll
    <3>1. k = 4
      BY <1>0, <1>1, <1>4, <2>6
    <3>2. Building(k).jump /\ Building(k).rules = SubSeq(FirewallRules, 1, 3)
      <4>1. 4 > Len(FirewallRules)
        BY <1>0
      <4>2. Building(4).jump
        BY <4>1 DEF Building
      <4>3. Building(4).rules = SubSeq(FirewallRules, 1, Len(FirewallRules))
        BY <4>1 DEF Building, FirstOf
      <4> QED BY <1>0, <3>1, <4>2, <4>3
    <3>3. ptChain'[f].jump /\ ptChain'[f].rules = SubSeq(FirewallRules, 1, 3)
      BY <2>3, <2>6, <3>2
    <3> QED BY <3>3, <2>6, <1>2 DEF SetUp
  <2> QED BY <2>4, <2>5, <2>6
<1> QED BY <1>1, <1>3, <1>4

LEMMA ChainStage ==
  ASSUME ChainKnown, Typed, TodoShape, Closed, PtFirewallChain
  PROVE  TodoShape' /\ Closed'
<1>1. PICK ok \in BOOLEAN :
         /\ ptTodo' = IF ok THEN Tail(ptTodo) ELSE <<>>
         /\ ptSetupDone' = (ok /\ Len(ptTodo) = 1)
         /\ \A f \in FamSet : f # Fam => ptChain'[f] = ptChain[f]
         /\ ok => \A f \in FamSet : f = Fam => SetUp(f)'
  BY SetUpStage
<1> DEFINE n == Len(ptTodo)
<1>2. /\ ptTodo # <<>> /\ ptTodo \in Seq(Range(ptTodo)) /\ ptTodo[1].op = "chain"
      /\ n \in Nat /\ n >= 1 /\ Fam = ptTodo[1].fam /\ UNCHANGED ptCfg
  BY DEF PtFirewallChain, At, Fam, TodoShape
<1>3. CASE ~ok
  <2>1. ptTodo' = <<>> /\ ~ptSetupDone'
    BY <1>1, <1>3
  <2> QED BY <2>1 DEF TodoShape, Closed
<1>4. CASE ok /\ n >= 2
  <2>1. /\ ~ptSetupDone /\ \A i \in 1..(n - 2) : ptTodo[i].op # "chain"
        /\ ptTodo[n - 1] = Stage("chain", 4) /\ ptTodo[n] = Stage("chain", 6)
    <3>1. ~ \A i \in 1..n : ptTodo[i].op # "chain"
      <4>1. 1 \in 1..n
        BY <1>2
      <4> QED BY <4>1, <1>2
    <3>2. n # 1
      BY <1>2, <1>4
    <3> QED BY <1>2, <3>1, <3>2 DEF TodoShape
  <2> HIDE DEF n
  <2>2. n = 2
    <3>1. ~ (1 \in 1..(n - 2))
      BY <1>2, <2>1
    <3> QED BY <1>2, <1>4, <3>1
  <2>3. Fam = 4
    BY <1>2, <2>1, <2>2 DEF Stage
  <2>4. ptTodo' = <<Stage("chain", 6)>>
    <3>1. ptTodo' \in Seq(Range(ptTodo)) /\ Len(ptTodo') = 1 /\ ptTodo'[1] = ptTodo[2]
      BY <1>1, <1>2, <1>4, <2>2 DEF n
    <3> QED BY <3>1, <2>1, <2>2
  <2>5. ~ptSetupDone'
    <3>1. Len(ptTodo) # 1
      BY <2>2 DEF n
    <3> QED BY <1>1, <3>1, Zenon
  <2>6. SetUp(4)'
    BY <1>1, <1>4, <2>3, Families
  <2>7. /\ ptTodo' \in Seq(Range(ptTodo')) /\ Len(ptTodo') = 1 /\ ptTodo'[1] = Stage("chain", 6)
    <3>1. ptTodo' \in Seq({Stage("chain", 6)})
      BY <2>4
    <3>2. ptTodo' \in Seq(Range(ptTodo'))
      BY <3>1, ListOf
    <3>3. Len(ptTodo') = 1 /\ ptTodo'[1] = Stage("chain", 6)
      BY <2>4
    <3> QED BY <3>2, <3>3
  <2> QED BY <2>5, <2>6, <2>7 DEF TodoShape, Closed
<1>5. CASE ok /\ n = 1
  <2>1. ~ptSetupDone /\ ptTodo[1] = Stage("chain", 6) /\ SetUp(4)
    BY <1>2, <1>5 DEF TodoShape
  <2>2. Fam = 6
    BY <1>2, <2>1 DEF Stage
  <2>3. SetUp(6)'
    BY <1>1, <1>5, <2>2, Families
  <2>4. SetUp(4)'
    <3>1. ptChain'[4] = ptChain[4]
      BY <1>1, <2>2, Families
    <3> QED BY <3>1, <2>1, <1>2 DEF SetUp
  <2>5. ptTodo' = <<>>
    BY <1>1, <1>2, <1>5
  <2>6. Closed'
    BY <2>3, <2>4, Families DEF Closed
  <2> QED BY <2>5, <2>6 DEF TodoShape
<1>6. n \in Nat /\ n >= 1
  BY <1>2
<1> HIDE DEF n
<1>7. n = 1 \/ n >= 2
  BY <1>6
<1> QED BY <1>3, <1>4, <1>5, <1>7

\* The stages that a pass begins with, but for the chain.
Body(world, cfg) ==
    LET each(op) == [i \in DOMAIN PtFams |-> Stage(op, PtFams[i])]
    IN  <<Stage("metrics", 0)>> \o DsrStages(DsrJobs(EntriesAt[world], cfg))
        \o each("hairpin") \o <<Stage("masquerade", PtPrimary[1]), Stage("health", 0)>> \o each("sets")

\* Every stage of a pass: those of the DSR jobs, and the others.
Plain == {Stage(op, fam) : op \in {"metrics", "hairpin", "masquerade", "health", "sets"}, fam \in {0, 4, 6, PtPrimary[1]}}

LEMMA BodyIs ==
  ASSUME NEW w \in DOMAIN PtWorlds, NEW cfg
  PROVE  Body(w, cfg) \in Seq(StagesOf(w, cfg) \cup Plain)
<1> DEFINE S == StagesOf(w, cfg) \cup Plain
           each(op) == [i \in DOMAIN PtFams |-> Stage(op, PtFams[i])]
           dsr == DsrStages(DsrJobs(EntriesAt[w], cfg))
<1>1. ASSUME NEW op \in {"metrics", "hairpin", "masquerade", "health", "sets"}, NEW fam \in {0, 4, 6, PtPrimary[1]}
      PROVE  Stage(op, fam) \in S
  BY DEF Plain
<1>2. ASSUME NEW op \in {"hairpin", "sets"}
      PROVE  each(op) \in Seq(S)
  <2>1. \A i \in 1..2 : Stage(op, PtFams[i]) \in S
    <3>1. \A i \in 1..2 : PtFams[i] \in {4, 6}
      BY Families
    <3> QED BY <3>1, <1>1
  <2> HIDE DEF S
  <2>2. each(op) \in [1..2 -> S]
    BY <2>1, Families
  <2> HIDE DEF each
  <2>3. PICK k \in Nat : k = 2
    OBVIOUS
  <2>4. each(op) \in [1..k -> S]
    BY <2>2, <2>3
  <2> QED BY <2>4
<1>3. dsr \in Seq(S)
  <2>1. dsr \in Seq(StagesOf(w, cfg))
    BY StagesAreOf
  <2> HIDE DEF dsr
  <2> QED BY <2>1
<1>4. /\ Stage("metrics", 0) \in S /\ Stage("masquerade", PtPrimary[1]) \in S /\ Stage("health", 0) \in S
  BY <1>1
<1>5. each("hairpin") \in Seq(S) /\ each("sets") \in Seq(S)
  BY <1>2
<1> HIDE DEF S, each, dsr
<1>6. <<Stage("metrics", 0)>> \in Seq(S) /\ <<Stage("masquerade", PtPrimary[1]), Stage("health", 0)>> \in Seq(S)
  BY <1>4
<1>7. <<Stage("metrics", 0)>> \o dsr \o each("hairpin")
        \o <<Stage("masquerade", PtPrimary[1]), Stage("health", 0)>> \o each("sets") \in Seq(S)
  BY <1>3, <1>5, <1>6
<1> QED BY <1>7 DEF Body, S, each, dsr

\* The DSR stages of a list mark for endpoints of their key.
Aimed == \A i \in 1..Len(ptTodo) : ptTodo[i].op = "mark" => ptTodo[i].dests \subseteq EndpointsOf[ptTodo[i].key]

LEMMA BodyFacts ==
  ASSUME NEW w \in DOMAIN PtWorlds, NEW cfg, NEW s \in StagesOf(w, cfg) \cup Plain
  PROVE  s.op # "chain" /\ (s.op = "mark" => s.dests \subseteq EndpointsOf[s.key])
<1>1. CASE s \in StagesOf(w, cfg)
  BY <1>1, StageFacts
<1>2. CASE s \in Plain
  BY <1>2 DEF Plain, Stage
<1> QED BY <1>1, <1>2

LEMMA PassStage ==
  ASSUME Typed, Closed, PtPass
  PROVE  TodoShape' /\ Closed' /\ Aimed'
<1> DEFINE S == StagesOf(ptStore, ptCfg) \cup Plain
           body == Body(ptStore, ptCfg)
           n == Len(body)
<1>1. body \in Seq(S)
  BY BodyIs DEF Typed
<1>2. \A s \in S : s.op # "chain" /\ (s.op = "mark" => s.dests \subseteq EndpointsOf[s.key])
  BY BodyFacts DEF Typed
<1>3. ptTodo' = body \o (IF ptSetupDone THEN <<>> ELSE [i \in DOMAIN PtFams |-> Stage("chain", PtFams[i])])
  BY DEF PtPass, PtStages, Body
<1>4. UNCHANGED <<ptCfg, ptSetupDone, ptChain>>
  BY DEF PtPass, ptKernel
<1>5. Closed'
  BY <1>4 DEF Closed, SetUp
<1>6. EndpointsOf' = EndpointsOf
  BY DEF EndpointsOf, AllEntries, EntriesAt
<1> HIDE DEF S, body
<1>7. n \in Nat /\ \A i \in 1..n : body[i] \in S
  BY <1>1
<1>8. CASE ptSetupDone
  <2>1. ptTodo' = body
    BY <1>1, <1>3, <1>8
  <2>2. ptTodo' \in Seq(Range(ptTodo'))
    BY <1>1, <2>1, ListOf
  <2>3. \A i \in 1..Len(ptTodo') : ptTodo'[i] \in S
    BY <1>7, <2>1
  <2>4. TodoShape'
    BY <1>2, <1>4, <1>8, <2>2, <2>3 DEF TodoShape
  <2>5. Aimed'
    BY <1>2, <1>6, <2>3 DEF Aimed
  <2> QED BY <1>5, <2>4, <2>5
<1>9. CASE ~ptSetupDone
  <2> DEFINE c == <<Stage("chain", 4), Stage("chain", 6)>>
             U == S \cup {Stage("chain", 4), Stage("chain", 6)}
  <2>1. [i \in DOMAIN PtFams |-> Stage("chain", PtFams[i])] = c
    BY Families
  <2>2. ptTodo' = body \o c
    BY <1>3, <1>9, <2>1
  <2>3. c \in Seq(U)
    OBVIOUS
  <2>c. Len(c) = 2 /\ c[1] = Stage("chain", 4) /\ c[2] = Stage("chain", 6)
    OBVIOUS
  <2>4. body \in Seq(U)
    BY <1>1
  <2> HIDE DEF c, U
  <2>5. ptTodo' \in Seq(U) /\ Len(ptTodo') = n + 2
    <3>1. ptTodo' \in Seq(U)
      BY <2>2, <2>3, <2>4
    <3>2. Len(ptTodo') = Len(body) + Len(c)
      BY <2>2, <2>3, <2>4
    <3> QED BY <3>1, <3>2, <2>c
  <2>6. \A i \in 1..n : ptTodo'[i] = body[i]
    BY <2>2, <2>3, <2>4
  <2>7. ptTodo'[n + 1] = Stage("chain", 4) /\ ptTodo'[n + 2] = Stage("chain", 6)
    <3>1. \A i \in 1..Len(c) : ptTodo'[Len(body) + i] = c[i]
      BY <2>2, <2>3, <2>4
    <3>2. 1 \in 1..Len(c) /\ 2 \in 1..Len(c)
      BY <2>c
    <3> QED BY <2>c, <3>1, <3>2
  <2>8. ptTodo' \in Seq(Range(ptTodo'))
    BY <2>5, ListOf
  <2> HIDE DEF n
  <2>9. \A i \in 1..n : ptTodo'[i] \in S
    BY <1>7, <2>6
  <2>10. TodoShape'
    <3> DEFINE m == Len(ptTodo')
    <3>1. m = n + 2
      BY <2>5
    <3> HIDE DEF m
    <3>2. m >= 2 /\ m - 1 = n + 1 /\ m - 2 = n
      BY <1>7, <3>1
    <3>3. /\ ptTodo'[m - 1] = Stage("chain", 4) /\ ptTodo'[m] = Stage("chain", 6)
          /\ \A i \in 1..(m - 2) : ptTodo'[i].op # "chain"
      BY <1>2, <2>7, <2>9, <3>1, <3>2
    <3> QED BY <1>4, <1>9, <2>8, <3>2, <3>3 DEF TodoShape, m
  <2>11. Aimed'
    <3>1. \A i \in 1..(n + 2) : i \in 1..n \/ i = n + 1 \/ i = n + 2
      BY <1>7
    <3>2. ptTodo'[n + 1].op # "mark" /\ ptTodo'[n + 2].op # "mark"
      BY <2>7 DEF Stage
    <3>3. \A i \in 1..(n + 2) : ptTodo'[i].op = "mark" => ptTodo'[i].dests \subseteq EndpointsOf[ptTodo'[i].key]
      BY <1>2, <2>9, <3>1, <3>2
    <3> QED BY <1>6, <2>5, <3>3 DEF Aimed
  <2> QED BY <1>5, <2>10, <2>11
<1> QED BY <1>8, <1>9

LEMMA CloseStep ==
  ASSUME Typed, ChainKnown, TodoShape, Closed, [PtNext]_ptVars
  PROVE  TodoShape' /\ Closed'
<1>1. CASE PtPass
  BY <1>1, PassStage
<1>2. CASE PtFirewallChain
  BY <1>2, ChainStage
<1>3. CASE PtRestart
  BY <1>3 DEF PtRestart, TodoShape, Closed
<1>4. CASE PtStoreChange \/ UNCHANGED ptVars
  <2>1. UNCHANGED <<ptTodo, ptSetupDone, ptChain, ptCfg>>
    BY <1>4 DEF PtStoreChange, ptVars, ptMemory, ptKernel
  <2> QED BY <2>1 DEF TodoShape, Closed, SetUp
<1>5. CASE PtMetrics
  <2>1. At("metrics") /\ ptTodo' \in {Tail(ptTodo), <<>>} /\ UNCHANGED <<ptSetupDone, ptChain, ptCfg>>
    BY <1>5 DEF PtMetrics, PtResult, PtOutcome, ptMemory, ptKernel
  <2> QED BY <2>1, OtherStage
<1>6. CASE PtMark
  <2>1. At("mark") /\ ptTodo' \in {Tail(ptTodo), <<>>} /\ UNCHANGED <<ptSetupDone, ptChain, ptCfg>>
    BY <1>6 DEF PtMark, PtResult, PtOutcome
  <2> QED BY <2>1, OtherStage
<1>7. CASE PtTcpMss
  <2>1. At("tcpmss") /\ ptTodo' \in {Tail(ptTodo), <<>>} /\ UNCHANGED <<ptSetupDone, ptChain, ptCfg>>
    BY <1>7 DEF PtTcpMss, PtResult, PtOutcome, ptMemory
  <2> QED BY <2>1, OtherStage
<1>8. CASE PtHairpin
  <2>1. At("hairpin") /\ ptTodo' \in {Tail(ptTodo), <<>>} /\ UNCHANGED <<ptSetupDone, ptChain, ptCfg>>
    BY <1>8 DEF PtHairpin, PtResult, PtOutcome
  <2> QED BY <2>1, OtherStage
<1>9. CASE PtMasquerade
  <2>1. At("masquerade") /\ ptTodo' \in {Tail(ptTodo), <<>>} /\ UNCHANGED <<ptSetupDone, ptChain, ptCfg>>
    BY <1>9 DEF PtMasquerade, PtResult, PtOutcome, ptMemory
  <2> QED BY <2>1, OtherStage
<1>10. CASE PtHealth
  <2>1. At("health") /\ ptTodo' \in {Tail(ptTodo), <<>>} /\ UNCHANGED <<ptSetupDone, ptChain, ptCfg>>
    BY <1>10 DEF PtHealth, PtResult, PtOutcome, ptKernel
  <2> QED BY <2>1, OtherStage
<1>11. CASE PtFirewallSets
  <2>1. At("sets") /\ ptTodo' \in {Tail(ptTodo), <<>>} /\ UNCHANGED <<ptSetupDone, ptChain, ptCfg>>
    BY <1>11 DEF PtFirewallSets, PtOutcome, ptMemory
  <2> QED BY <2>1, OtherStage
<1> QED BY <1>1, <1>2, <1>3, <1>4, <1>5, <1>6, <1>7, <1>8, <1>9, <1>10, <1>11 DEF PtNext

\* All that the theorems below need of the initial states.
LEMMA InitFacts ==
  ASSUME PtInit
  PROVE  Typed /\ SetsKnown /\ ChainKnown /\ TodoShape /\ Closed /\ Aimed
<1>1. SetsKnown /\ ChainKnown
  BY InitKnown
<1>2. ptTodo \in Seq(Range(ptTodo)) /\ ptTodo = <<>> /\ Len(ptTodo) = 0
  BY DEF PtInit
<1> QED BY <1>1, <1>2 DEF PtInit, Typed, TodoShape, Closed, Aimed

\* FirewallCloses for all Services, flags and addresses: firewall_setup_done
\* (sync.rs:586-595) is only set when the chains of both families are whole.
THEOREM FirewallStaysClosed == PtSpec => []FirewallCloses
<1> DEFINE Inv == Typed /\ SetsKnown /\ ChainKnown /\ TodoShape /\ Closed
<1>1. PtInit => Inv
  BY InitFacts
<1>2. Inv /\ [PtNext]_ptVars => Inv'
  BY TypedStep, SetsStep, ChainStep, CloseStep
<1>3. Inv => FirewallCloses
  <2> SUFFICES ASSUME Inv, ptSetupDone, NEW dst \in PtPackets, ptFilled[dst[1][1]].ok,
                      dst[1] \in {k[1] : k \in DOMAIN ptFilled[dst[1][1]].applied},
                      dst \notin DOMAIN ptFilled[dst[1][1]].applied,
                      dst[1] \notin ptFilled[dst[1][1]].local
               PROVE  Rejected(dst) <=> ~ptCfg.permitAll
    BY DEF FirewallCloses
  <2> DEFINE f == dst[1][1]
             from == ptFilled[f]
  <2>1. f \in FamSet
    BY PtDestinations
  <2>2. ptSets[f] = FilledSets(from.local, from.applied, f)
    BY <2>1 DEF SetsKnown
  <2>3. PICK n \in 0..3 : ptChain[f].rules = SubSeq(FirewallRules, 1, n)
    BY <2>1 DEF ChainKnown
  <2>4. /\ ptSets[f].ports = {k \in DOMAIN from.applied : k[1][1] = f}
        /\ ptSets[f].ips = {k[1] : k \in {x \in DOMAIN from.applied : x[1][1] = f}}
        /\ ptSets[f].local = {ip \in from.local : ip[1] = f}
    BY <2>2 DEF FilledSets, SetsOf, OfFamily, KeysOfFamily
  <2>5. dst \notin ptSets[f].ports /\ dst[1] \in ptSets[f].ips /\ dst[1] \notin ptSets[f].local
    BY <2>4
  <2>6. SetUp(f)
    BY <2>1 DEF Closed
  <2>7. ptCfg.permitAll \in BOOLEAN
    BY PtFlags DEF Typed
  <2>8. CASE ptCfg.permitAll
    <3>1. ~ptChain[f].jump
      BY <2>6, <2>8 DEF SetUp
    <3> QED BY <3>1, <2>3, <2>8, Verdict
  <2>9. CASE ~ptCfg.permitAll
    <3>1. ptChain[f].jump /\ ptChain[f].rules = SubSeq(FirewallRules, 1, 3)
      BY <2>6, <2>9 DEF SetUp
    <3>2. 3 \in 0..3
      OBVIOUS
    <3>3. Rejected(dst)
      BY <3>1, <3>2, <2>5, Verdict
    <3> QED BY <3>3, <2>9
  <2> QED BY <2>7, <2>8, <2>9
<1> QED BY <1>1, <1>2, <1>3, PTL DEF PtSpec

----------------------------------------------------------------------------
(* The nat table and the health checks *)

HairpinOf(f) == Stage("hairpin", f)
MasqueradeStage == Stage("masquerade", PtPrimary[1])
HealthStage == Stage("health", 0)

\* The kinds of stages, and that the family that reads the stores comes first.
StageKinds ==
    /\ \A i \in 1..Len(ptTodo) : /\ ptTodo[i].op = "hairpin" => ptTodo[i] \in {HairpinOf(4), HairpinOf(6)}
                                 /\ ptTodo[i].op = "masquerade" => ptTodo[i] = MasqueradeStage
                                 /\ ptTodo[i].op = "health" => ptTodo[i] = HealthStage
    /\ \A i, j \in 1..Len(ptTodo) : ptTodo[i] = HairpinOf(4) /\ ptTodo[j] = HairpinOf(6) => i < j

Left(x) == \E i \in 1..Len(ptTodo) : ptTodo[i] = x

NatFields == DOMAIN ptNat = FamSet /\ \A f \in FamSet : {"jump", "hairpin", "masquerade"} \subseteq DOMAIN ptNat[f]

\* sync_hairpin has ended well for a family, with these rules.
HairpinDone(f, rules) ==
    /\ ptNat[f].jump /\ rules \subseteq ptNat[f].hairpin
    /\ <<"hairpin", f>> \notin ptRefused => ptNat[f].hairpin = rules

RulesOf(world, f) == HairpinRules(EntriesAt[world], ptCfg.hairpin, f)

\* What a pass over steady stores need not do again it has done.
TailDone ==
    ptTodo # <<>> /\ ptSteady =>
        /\ Left(HairpinOf(4)) \/ (ptRead = <<ptStore>> /\ HairpinDone(4, RulesOf(ptStore, 4)))
        /\ Left(HairpinOf(6)) \/ HairpinDone(6, RulesOf(ptStore, 6))
        /\ Left(MasqueradeStage) \/ MasqueradeFollows(PtPrimary[1])
        /\ Left(HealthStage) \/ HealthFollows

\* What is left of a list after its head.
LEMMA AfterHead ==
  ASSUME ptTodo \in Seq(Range(ptTodo)), ptTodo # <<>>, StageKinds, ptTodo' = Tail(ptTodo)
  PROVE  /\ StageKinds'
         /\ \A x : Left(x) /\ x # ptTodo[1] => Left(x)'
<1> DEFINE n == Len(ptTodo)
           S == Range(ptTodo)
<1>1. n \in Nat /\ n >= 1 /\ ptTodo \in Seq(S)
  OBVIOUS
<1> HIDE DEF S
<1>2. Len(ptTodo') = n - 1 /\ \A i \in 1..(n - 1) : ptTodo'[i] = ptTodo[i + 1]
  BY <1>1
<1> HIDE DEF n
<1>3. \A i \in 1..(n - 1) : i + 1 \in 1..n
  BY <1>1
<1>4. StageKinds'
  <2>1. \A i \in 1..Len(ptTodo') : /\ ptTodo'[i].op = "hairpin" => ptTodo'[i] \in {HairpinOf(4), HairpinOf(6)}
                                   /\ ptTodo'[i].op = "masquerade" => ptTodo'[i] = MasqueradeStage
                                   /\ ptTodo'[i].op = "health" => ptTodo'[i] = HealthStage
    BY <1>2, <1>3 DEF StageKinds, n
  <2>2. ASSUME NEW i \in 1..(n - 1), NEW j \in 1..(n - 1), ptTodo'[i] = HairpinOf(4), ptTodo'[j] = HairpinOf(6)
        PROVE  i < j
    <3>1. ptTodo[i + 1] = HairpinOf(4) /\ ptTodo[j + 1] = HairpinOf(6) /\ i + 1 \in 1..n /\ j + 1 \in 1..n
      BY <1>2, <1>3, <2>2
    <3>2. i + 1 < j + 1
      BY <3>1 DEF StageKinds, n
    <3> QED BY <1>1, <3>2
  <2> QED BY <1>2, <2>1, <2>2 DEF StageKinds, HairpinOf, MasqueradeStage, HealthStage, Stage
<1>5. ASSUME NEW x, Left(x), x # ptTodo[1] PROVE Left(x)'
  <2>1. PICK i \in 1..n : ptTodo[i] = x
    BY <1>5 DEF Left, n
  <2>2. i # 1
    BY <1>5, <2>1
  <2>3. i - 1 \in 1..(n - 1) /\ (i - 1) + 1 = i
    BY <1>1, <2>1, <2>2
  <2>4. ptTodo'[i - 1] = x
    BY <1>2, <2>1, <2>3
  <2> QED BY <1>2, <2>3, <2>4 DEF Left
<1> QED BY <1>4, <1>5

\* What is in a concatenation.
LEMMA Joined ==
  ASSUME NEW S, NEW s \in Seq(S), NEW t \in Seq(S)
  PROVE  /\ s \o t \in Seq(S) /\ Len(s \o t) = Len(s) + Len(t) /\ Len(s) \in Nat /\ Len(t) \in Nat
         /\ \A i \in 1..Len(s) : (s \o t)[i] = s[i] /\ s[i] \in S
         /\ \A i \in 1..Len(t) : (s \o t)[Len(s) + i] = t[i] /\ t[i] \in S
OBVIOUS

\* A list of two.
LEMMA PairList ==
  ASSUME NEW S, NEW a \in S, NEW b \in S
  PROVE  <<a, b>> \in Seq(S) /\ Len(<<a, b>>) = 2 /\ <<a, b>>[1] = a /\ <<a, b>>[2] = b
OBVIOUS

\* The stages of a pass that begins: every one is left.
LEMMA PassBegins ==
  ASSUME Typed, PtPass
  PROVE  /\ StageKinds'
         /\ \A x \in {HairpinOf(4), HairpinOf(6), MasqueradeStage, HealthStage} : Left(x)'
<1> DEFINE others == StagesOf(ptStore, ptCfg) \cup {Stage("metrics", 0), Stage("sets", 4), Stage("sets", 6),
                                                    Stage("chain", 4), Stage("chain", 6)}
           S == others \cup {HairpinOf(4), HairpinOf(6), MasqueradeStage, HealthStage}
           each(op) == [i \in DOMAIN PtFams |-> Stage(op, PtFams[i])]
           dsr == DsrStages(DsrJobs(EntriesAt[ptStore], ptCfg))
           m == <<Stage("metrics", 0)>>
           hp == <<HairpinOf(4), HairpinOf(6)>>
           mh == <<MasqueradeStage, HealthStage>>
           st == <<Stage("sets", 4), Stage("sets", 6)>>
           c == IF ptSetupDone THEN <<>> ELSE each("chain")
           a0 == m \o dsr
           a1 == a0 \o hp
           a2 == a1 \o mh
           a3 == a2 \o st
<1>1. ptTodo' = a3 \o c
  <2>1. \A op : each(op) = <<Stage(op, 4), Stage(op, 6)>>
    BY Families
  <2>2. ptTodo' = m \o dsr \o each("hairpin") \o mh \o each("sets") \o c
    BY DEF PtPass, PtStages, MasqueradeStage, HealthStage
  <2>3. each("hairpin") = hp /\ each("sets") = st
    BY <2>1 DEF HairpinOf
  <2> HIDE DEF each, dsr, m, mh, c, hp, st
  <2> QED BY <2>2, <2>3
<1>2. dsr \in Seq(S) /\ dsr \in Seq(others)
  <2>1. dsr \in Seq(StagesOf(ptStore, ptCfg))
    BY StagesAreOf DEF Typed
  <2> HIDE DEF dsr
  <2> QED BY <2>1
<1>3. m \in Seq(others)
  OBVIOUS
<1>4. hp \in Seq(S) /\ Len(hp) = 2 /\ hp[1] = HairpinOf(4) /\ hp[2] = HairpinOf(6)
  BY PairList
<1>5. mh \in Seq(S) /\ Len(mh) = 2 /\ mh[1] = MasqueradeStage /\ mh[2] = HealthStage
  BY PairList
<1>6. st \in Seq(S) /\ st \in Seq(others) /\ Len(st) = 2
  BY PairList
<1>7. c \in Seq(S) /\ c \in Seq(others)
  <2>1. each("chain") = <<Stage("chain", 4), Stage("chain", 6)>>
    BY Families
  <2>2. each("chain") \in Seq(S) /\ each("chain") \in Seq(others)
    BY <2>1, PairList
  <2> HIDE DEF each
  <2>3. <<>> \in Seq(S) /\ <<>> \in Seq(others)
    OBVIOUS
  <2> QED BY <2>2, <2>3
<1>8. ASSUME NEW x \in others PROVE x.op \notin {"hairpin", "masquerade", "health"}
  <2>1. CASE x \in StagesOf(ptStore, ptCfg)
    BY <2>1, StageFacts DEF Typed
  <2>2. CASE x \notin StagesOf(ptStore, ptCfg)
    BY <2>2 DEF Stage
  <2> QED BY <2>1, <2>2
<1>9. /\ HairpinOf(4).op = "hairpin" /\ HairpinOf(6).op = "hairpin" /\ HairpinOf(4) # HairpinOf(6)
      /\ MasqueradeStage.op = "masquerade" /\ HealthStage.op = "health"
  BY DEF HairpinOf, MasqueradeStage, HealthStage, Stage
<1> DEFINE n == Len(a0)
           others_S == others \subseteq S
<1>sub. others_S
  OBVIOUS
<1> HIDE DEF m, dsr, hp, mh, st, c, others
<1>10. a0 \in Seq(others) /\ n \in Nat /\ \A i \in 1..n : a0[i] \in others
  <2>1. a0 \in Seq(others)
    BY <1>2, <1>3, Joined
  <2> HIDE DEF a0
  <2> QED BY <2>1
<1>11. a0 \in Seq(S)
  BY <1>10, <1>sub
<1> HIDE DEF a0, S
<1>12. a1 \in Seq(S) /\ Len(a1) = n + 2
  <2>1. a1 \in Seq(S) /\ Len(a1) = Len(a0) + Len(hp)
    BY <1>4, <1>11, Joined, Zenon
  <2> QED BY <1>4, <2>1
<1>13. a1[n + 1] = HairpinOf(4) /\ a1[n + 2] = HairpinOf(6) /\ \A i \in 1..n : a1[i] = a0[i]
  <2>1. 1 \in 1..Len(hp) /\ 2 \in 1..Len(hp)
    BY <1>4
  <2> QED BY <1>4, <1>11, <2>1, Joined
<1> HIDE DEF a1
<1>14. a2 \in Seq(S) /\ Len(a2) = (n + 2) + 2
  <2>1. a2 \in Seq(S) /\ Len(a2) = Len(a1) + Len(mh)
    BY <1>5, <1>12, Joined, Zenon
  <2> QED BY <1>5, <1>12, <2>1
<1>15. a2[(n + 2) + 1] = MasqueradeStage /\ a2[(n + 2) + 2] = HealthStage /\ \A i \in 1..(n + 2) : a2[i] = a1[i]
  <2>1. 1 \in 1..Len(mh) /\ 2 \in 1..Len(mh)
    BY <1>5
  <2>2. /\ \A i \in 1..Len(a1) : a2[i] = a1[i]
        /\ \A i \in 1..Len(mh) : a2[Len(a1) + i] = mh[i]
    <3>1. a1 \in Seq(S) /\ mh \in Seq(S)
      BY <1>5, <1>12
    <3> QED BY <3>1, Joined
  <2>3. a2[Len(a1) + 1] = mh[1] /\ a2[Len(a1) + 2] = mh[2]
    BY <2>1, <2>2
  <2> QED BY <1>5, <1>12, <2>2, <2>3
<1> HIDE DEF a2
<1>16. a3 \in Seq(S) /\ Len(a3) = ((n + 2) + 2) + 2 /\ \A i \in 1..((n + 2) + 2) : a3[i] = a2[i]
  <2>1. a3 \in Seq(S) /\ Len(a3) = Len(a2) + Len(st) /\ \A i \in 1..Len(a2) : a3[i] = a2[i]
    <3>1. a2 \in Seq(S) /\ st \in Seq(S)
      BY <1>6, <1>14
    <3> QED BY <3>1, Joined
  <2> QED BY <1>6, <1>14, <2>1
<1>17. \A i \in 1..2 : a3[((n + 2) + 2) + i] \in others
  <2>1. \A i \in 1..2 : i \in 1..Len(st) /\ st[i] \in others
    BY <1>6
  <2> QED BY <1>6, <1>14, <2>1, Joined
<1> HIDE DEF a3
<1>18. /\ Len(ptTodo') = Len(a3) + Len(c) /\ Len(c) \in Nat
       /\ \A i \in 1..Len(a3) : ptTodo'[i] = a3[i]
       /\ \A i \in 1..Len(c) : ptTodo'[Len(a3) + i] = c[i] /\ c[i] \in others
  <2>1. /\ Len(a3 \o c) = Len(a3) + Len(c) /\ Len(c) \in Nat
        /\ \A i \in 1..Len(a3) : (a3 \o c)[i] = a3[i]
        /\ \A i \in 1..Len(c) : (a3 \o c)[Len(a3) + i] = c[i]
    <3>1. a3 \in Seq(S) /\ c \in Seq(S)
      BY <1>7, <1>16
    <3> QED BY <3>1, Joined
  <2>2. \A i \in 1..Len(c) : c[i] \in others
    BY <1>7
  <2> QED BY <1>1, <2>1, <2>2, Zenon
<1> DEFINE N == Len(ptTodo')
           l == Len(c)
           k == n + 6
<1> HIDE DEF n, N, l
<1>19. k = Len(a3) /\ k = n + 6 /\ N = k + l /\ l \in Nat /\ n \in Nat
  BY <1>10, <1>16, <1>18 DEF N, l
<1>20. /\ n + 1 \in 1..N /\ n + 2 \in 1..N /\ n + 3 \in 1..N /\ n + 4 \in 1..N
       /\ n + 1 \in 1..k /\ n + 2 \in 1..k /\ n + 3 \in 1..k /\ n + 4 \in 1..k
       /\ n + 1 \in 1..(n + 2) /\ n + 2 \in 1..(n + 2)
       /\ \A i \in 1..4 : n + i \in 1..((n + 2) + 2)
       /\ (n + 2) + 1 = n + 3 /\ (n + 2) + 2 = n + 4
  BY <1>19
<1>21. /\ ptTodo'[n + 1] = HairpinOf(4) /\ ptTodo'[n + 2] = HairpinOf(6)
       /\ ptTodo'[n + 3] = MasqueradeStage /\ ptTodo'[n + 4] = HealthStage
  <2>1. \A i \in 1..k : ptTodo'[i] = a3[i]
    BY <1>18, <1>19
  <2>2. a3[n + 1] = HairpinOf(4) /\ a3[n + 2] = HairpinOf(6)
    BY <1>13, <1>15, <1>16, <1>20
  <2>3. a3[n + 3] = MasqueradeStage /\ a3[n + 4] = HealthStage
    BY <1>15, <1>16, <1>20
  <2> QED BY <1>20, <2>1, <2>2, <2>3
<1>22. ASSUME NEW i \in 1..N
       PROVE  i \in {n + 1, n + 2, n + 3, n + 4} \/ ptTodo'[i] \in others
  <2>1. CASE i \in 1..n
    <3>1. i \in 1..Len(a3) /\ i \in 1..((n + 2) + 2) /\ i \in 1..(n + 2)
      BY <1>19, <2>1
    <3>2. ptTodo'[i] = a3[i] /\ a3[i] = a2[i] /\ a2[i] = a1[i] /\ a1[i] = a0[i] /\ a0[i] \in others
      BY <1>10, <1>13, <1>15, <1>16, <1>18, <2>1, <3>1, Zenon
    <3> QED BY <3>2
  <2>2. CASE i = n + 5 \/ i = n + 6
    <3>1. PICK j \in 1..2 : i = ((n + 2) + 2) + j
      <4>1. n + 5 = ((n + 2) + 2) + 1 /\ n + 6 = ((n + 2) + 2) + 2
        BY <1>19
      <4> QED BY <2>2, <4>1
    <3>2. i \in 1..Len(a3)
      BY <1>19, <2>2
    <3> QED BY <1>17, <1>18, <3>1, <3>2
  <2>3. CASE i > k
    <3>1. i - k \in 1..l /\ Len(a3) + (i - k) = i
      BY <1>19, <2>3
    <3> QED BY <1>18, <3>1 DEF l
  <2> QED BY <1>19, <2>1, <2>2, <2>3
<1>23. \A x \in {HairpinOf(4), HairpinOf(6), MasqueradeStage, HealthStage} : Left(x)'
  <2>1. Left(HairpinOf(4))' /\ Left(HairpinOf(6))' /\ Left(MasqueradeStage)' /\ Left(HealthStage)'
    BY <1>20, <1>21 DEF Left, N, HairpinOf, MasqueradeStage, HealthStage, Stage
  <2> QED BY <2>1
<1>24. StageKinds'
  <2>1. ASSUME NEW i \in 1..N
        PROVE  /\ ptTodo'[i].op = "hairpin" => ptTodo'[i] \in {HairpinOf(4), HairpinOf(6)}
               /\ ptTodo'[i].op = "masquerade" => ptTodo'[i] = MasqueradeStage
               /\ ptTodo'[i].op = "health" => ptTodo'[i] = HealthStage
    BY <1>8, <1>9, <1>21, <1>22
  <2>2. ASSUME NEW i \in 1..N, NEW j \in 1..N, ptTodo'[i] = HairpinOf(4), ptTodo'[j] = HairpinOf(6)
        PROVE  i < j
    <3>1. i = n + 1
      BY <1>8, <1>9, <1>21, <1>22, <2>2
    <3>2. j = n + 2
      BY <1>8, <1>9, <1>21, <1>22, <2>2
    <3> QED BY <1>19, <3>1, <3>2
  <2> QED BY <2>1, <2>2 DEF StageKinds, N, HairpinOf, MasqueradeStage, HealthStage, Stage
<1> QED BY <1>23, <1>24

\* The first stage of a pass is one of a known kind, and the only one of its kind.
LEMMA First ==
  ASSUME ptTodo \in Seq(Range(ptTodo)), ptTodo # <<>>, StageKinds
  PROVE  /\ Head(ptTodo) = ptTodo[1] /\ Fam = ptTodo[1].fam
         /\ ptTodo[1].op = "hairpin" => ptTodo[1] \in {HairpinOf(4), HairpinOf(6)}
         /\ ptTodo[1].op = "masquerade" => ptTodo[1] = MasqueradeStage
         /\ ptTodo[1].op = "health" => ptTodo[1] = HealthStage
         /\ ptTodo[1] = HairpinOf(6) => ~Left(HairpinOf(4))
<1>1. Head(ptTodo) = ptTodo[1] /\ 1 \in 1..Len(ptTodo)
  OBVIOUS
<1>2. ASSUME ptTodo[1] = HairpinOf(6), Left(HairpinOf(4)) PROVE FALSE
  <2>1. PICK i \in 1..Len(ptTodo) : ptTodo[i] = HairpinOf(4)
    BY <1>2 DEF Left
  <2>2. i < 1
    BY <1>1, <1>2, <2>1 DEF StageKinds
  <2> QED BY <2>1, <2>2
<1> QED BY <1>1, <1>2 DEF StageKinds, Fam

\* The four kinds differ.
LEMMA Kinds ==
  /\ HairpinOf(4).op = "hairpin" /\ HairpinOf(6).op = "hairpin" /\ HairpinOf(4) # HairpinOf(6)
  /\ HairpinOf(4).fam = 4 /\ HairpinOf(6).fam = 6
  /\ MasqueradeStage.op = "masquerade" /\ HealthStage.op = "health" /\ MasqueradeStage.fam = PtPrimary[1]
BY DEF HairpinOf, MasqueradeStage, HealthStage, Stage

\* A pass that ends has nothing left to do.
LEMMA Ended ==
  ASSUME ptTodo' = <<>>
  PROVE  StageKinds' /\ TailDone'
<1>1. Len(ptTodo') = 0
  OBVIOUS
<1> QED BY <1>1 DEF StageKinds, TailDone

\* The stages that write neither nat rules nor health checks.
LEMMA OtherTail ==
  ASSUME ptTodo \in Seq(Range(ptTodo)), ptTodo # <<>>, StageKinds, NatFields, TailDone,
         ptTodo[1].op \notin {"hairpin", "masquerade", "health"}, ptTodo' \in {Tail(ptTodo), <<>>},
         UNCHANGED <<ptCfg, ptStore, ptRead, ptHc, ptNat, ptSteady, ptRefused>>
  PROVE  StageKinds' /\ NatFields' /\ TailDone'
<1>1. NatFields'
  BY DEF NatFields
<1>2. CASE ptTodo' = <<>>
  BY <1>1, <1>2, Ended
<1>3. CASE ptTodo' = Tail(ptTodo)
  <2>1. StageKinds' /\ \A x : Left(x) /\ x # ptTodo[1] => Left(x)'
    BY <1>3, AfterHead
  <2>2. /\ Left(HairpinOf(4)) => Left(HairpinOf(4))'
        /\ Left(HairpinOf(6)) => Left(HairpinOf(6))'
        /\ Left(MasqueradeStage) => Left(MasqueradeStage)'
        /\ Left(HealthStage) => Left(HealthStage)'
    BY <2>1, Kinds
  <2>3. TailDone'
    BY <2>2 DEF TailDone, HairpinDone, RulesOf, MasqueradeFollows, HealthFollows
  <2> QED BY <1>1, <2>1, <2>3
<1> QED BY <1>2, <1>3

\* What sync_hairpin does for one family.
LEMMA HairpinEffect ==
  ASSUME NatFields, PtHairpin, Fam \in FamSet
  PROVE  /\ NatFields'
         /\ \A f \in FamSet : f # Fam => ptNat'[f] = ptNat[f]
         /\ \A f \in FamSet : ptNat'[f].masquerade = ptNat[f].masquerade
         /\ \A x : x # <<"hairpin", Fam>> => (x \in ptRefused' <=> x \in ptRefused)
         /\ ptTodo' = <<>> \/
              /\ ptTodo' = Tail(ptTodo)
              /\ LET world == IF Fam = 4 THEN ptStore ELSE ptRead[1]
                 IN  /\ ptRead' = <<world>>
                     /\ ptNat'[Fam].jump /\ RulesOf(world, Fam) \subseteq ptNat'[Fam].hairpin
                     /\ <<"hairpin", Fam>> \notin ptRefused' => ptNat'[Fam].hairpin = RulesOf(world, Fam)
<1> DEFINE world == IF Fam = 4 THEN ptStore ELSE ptRead[1]
           rules == RulesOf(world, Fam)
<1>1. ptRead' = <<world>>
  BY Families DEF PtHairpin, HairpinWorld
<1>2. CASE /\ PtResult(FALSE) /\ UNCHANGED ptRefused
           /\ \E jump \in {ptNat[Fam].jump, TRUE} : ptNat' = [ptNat EXCEPT ![Fam].jump = jump]
  <2>1. PICK jump : ptNat' = [ptNat EXCEPT ![Fam].jump = jump]
    BY <1>2
  <2>2. ptTodo' = <<>> /\ UNCHANGED ptRefused
    BY <1>2 DEF PtResult, PtOutcome
  <2>3. NatFields'
    BY <2>1 DEF NatFields
  <2>4. \A f \in FamSet : (f # Fam => ptNat'[f] = ptNat[f]) /\ ptNat'[f].masquerade = ptNat[f].masquerade
    BY <2>1 DEF NatFields
  <2> QED BY <2>2, <2>3, <2>4
<1>3. ASSUME NEW done \in SUBSET rules, NEW ok \in BOOLEAN, NEW refused \in BOOLEAN,
             PtOutcome(ok, ~ok \/ refused), ok => done = rules,
             ptNat' = [ptNat EXCEPT ![Fam].jump = TRUE, ![Fam].hairpin = Flushed(@, refused) \cup done],
             ptRefused' = Refusal("hairpin", refused)
      PROVE  /\ NatFields'
             /\ \A f \in FamSet : f # Fam => ptNat'[f] = ptNat[f]
             /\ \A f \in FamSet : ptNat'[f].masquerade = ptNat[f].masquerade
             /\ \A x : x # <<"hairpin", Fam>> => (x \in ptRefused' <=> x \in ptRefused)
             /\ ptTodo' = <<>> \/
                  /\ ptTodo' = Tail(ptTodo)
                  /\ ptNat'[Fam].jump /\ rules \subseteq ptNat'[Fam].hairpin
                  /\ <<"hairpin", Fam>> \notin ptRefused' => ptNat'[Fam].hairpin = rules
  <2> HIDE DEF rules
  <2>1. NatFields'
    BY <1>3 DEF NatFields
  <2>2. \A f \in FamSet : (f # Fam => ptNat'[f] = ptNat[f]) /\ ptNat'[f].masquerade = ptNat[f].masquerade
    BY <1>3 DEF NatFields
  <2>3. \A x : x # <<"hairpin", Fam>> => (x \in ptRefused' <=> x \in ptRefused)
    BY <1>3 DEF Refusal
  <2>4. ptNat'[Fam].jump /\ ptNat'[Fam].hairpin = Flushed(ptNat[Fam].hairpin, refused) \cup done
    BY <1>3 DEF NatFields
  <2>5. ptTodo' = IF ok THEN Tail(ptTodo) ELSE <<>>
    BY <1>3 DEF PtOutcome
  <2>6. <<"hairpin", Fam>> \notin ptRefused' => ~refused
    BY <1>3 DEF Refusal
  <2>7. <<"hairpin", Fam>> \notin ptRefused' => ptNat'[Fam].hairpin = done
    BY <2>4, <2>6 DEF Flushed
  <2>8. ok => rules \subseteq ptNat'[Fam].hairpin /\ done = rules
    BY <1>3, <2>4
  <2> QED BY <2>1, <2>2, <2>3, <2>4, <2>5, <2>7, <2>8
<1>4. \/ /\ PtResult(FALSE) /\ UNCHANGED ptRefused
         /\ \E jump \in {ptNat[Fam].jump, TRUE} : ptNat' = [ptNat EXCEPT ![Fam].jump = jump]
      \/ \E done \in SUBSET rules, ok, refused \in BOOLEAN :
            /\ PtOutcome(ok, ~ok \/ refused) /\ (ok => done = rules)
            /\ ptNat' = [ptNat EXCEPT ![Fam].jump = TRUE, ![Fam].hairpin = Flushed(@, refused) \cup done]
            /\ ptRefused' = Refusal("hairpin", refused)
  BY Families, Zenon DEF PtHairpin, HairpinWorld, RulesOf
<1> HIDE DEF rules, world
<1>5. rules = RulesOf(world, Fam)
  BY DEF rules
<1> QED BY <1>1, <1>2, <1>3, <1>4, <1>5 DEF world

LEMMA HairpinTail ==
  ASSUME ptTodo \in Seq(Range(ptTodo)), StageKinds, NatFields, TailDone, PtHairpin
  PROVE  StageKinds' /\ NatFields' /\ TailDone'
<1>1. ptTodo # <<>> /\ ptTodo[1] \in {HairpinOf(4), HairpinOf(6)} /\ Fam = ptTodo[1].fam /\ Fam \in FamSet
  <2>1. ptTodo # <<>> /\ Head(ptTodo).op = "hairpin"
    BY DEF PtHairpin, At
  <2>2. ptTodo[1] \in {HairpinOf(4), HairpinOf(6)} /\ Fam = ptTodo[1].fam
    BY <2>1, First
  <2> QED BY <2>1, <2>2, Kinds, Families
<1>2. NatFields'
  BY <1>1, HairpinEffect
<1>3. CASE ptTodo' = <<>>
  BY <1>2, <1>3, Ended
<1>4. CASE ptTodo' # <<>>
  <2>1. StageKinds' /\ \A x : Left(x) /\ x # ptTodo[1] => Left(x)'
    <3>1. ptTodo' = Tail(ptTodo)
      BY <1>1, <1>4, HairpinEffect
    <3> QED BY <1>1, <3>1, AfterHead
  <2>2. UNCHANGED <<ptCfg, ptStore, ptHc, ptSteady>>
    BY DEF PtHairpin
  <2>3. /\ \A f \in {4, 6} : f # Fam => ptNat'[f] = ptNat[f]
        /\ \A f \in {4, 6} : ptNat'[f].masquerade = ptNat[f].masquerade
        /\ \A x : x # <<"hairpin", Fam>> => (x \in ptRefused' <=> x \in ptRefused)
    BY <1>1, HairpinEffect, Families
  <2> DEFINE world == IF Fam = 4 THEN ptStore ELSE ptRead[1]
  <2>4. /\ ptRead' = <<world>>
        /\ ptNat'[Fam].jump /\ RulesOf(world, Fam) \subseteq ptNat'[Fam].hairpin
        /\ <<"hairpin", Fam>> \notin ptRefused' => ptNat'[Fam].hairpin = RulesOf(world, Fam)
    BY <1>1, <1>4, HairpinEffect
  <2>5. RulesOf(ptStore, 4)' = RulesOf(ptStore, 4) /\ RulesOf(ptStore, 6)' = RulesOf(ptStore, 6)
    BY <2>2 DEF RulesOf
  <2>6. ASSUME ptSteady
        PROVE  Left(MasqueradeStage)' \/ MasqueradeFollows(PtPrimary[1])'
    <3>1. CASE Left(MasqueradeStage)
      BY <1>1, <2>1, <3>1, Kinds
    <3>2. CASE MasqueradeFollows(PtPrimary[1])
      <4> DEFINE P == PtPrimary[1]
      <4>1. ptNat'[P].masquerade = ptNat[P].masquerade
        BY <2>3, PtPrimaryAddress, Families
      <4>2. <<"masquerade", P>> \in ptRefused' <=> <<"masquerade", P>> \in ptRefused
        BY <2>3
      <4> QED BY <2>2, <3>2, <4>1, <4>2 DEF MasqueradeFollows
    <3> QED BY <1>1, <2>6, <3>1, <3>2 DEF TailDone
  <2>7. ASSUME ptSteady
        PROVE  Left(HealthStage)' \/ HealthFollows'
    <3>1. CASE Left(HealthStage)
      BY <1>1, <2>1, <3>1, Kinds
    <3>2. CASE HealthFollows
      BY <2>2, <3>2 DEF HealthFollows
    <3> QED BY <1>1, <2>7, <3>1, <3>2 DEF TailDone
  <2>8. CASE ptTodo[1] = HairpinOf(4)
    <3>1. Fam = 4 /\ world = ptStore
      BY <1>1, <2>8, Kinds
    <3>2. ptRead' = <<ptStore'>> /\ HairpinDone(4, RulesOf(ptStore, 4))'
      BY <2>2, <2>4, <2>5, <3>1 DEF HairpinDone
    <3>3. ASSUME ptSteady PROVE Left(HairpinOf(6))' \/ HairpinDone(6, RulesOf(ptStore, 6))'
      <4>1. CASE Left(HairpinOf(6))
        BY <2>1, <2>8, <4>1, Kinds
      <4>2. CASE HairpinDone(6, RulesOf(ptStore, 6))
        <5>1. ptNat'[6] = ptNat[6] /\ (<<"hairpin", 6>> \in ptRefused' <=> <<"hairpin", 6>> \in ptRefused)
          BY <2>3, <3>1
        <5> QED BY <2>5, <4>2, <5>1 DEF HairpinDone
      <4> QED BY <1>1, <3>3, <4>1, <4>2 DEF TailDone
    <3>4. TailDone'
      BY <2>2, <2>6, <2>7, <3>2, <3>3 DEF TailDone
    <3> QED BY <1>2, <2>1, <3>4
  <2>9. CASE ptTodo[1] = HairpinOf(6)
    <3>1. Fam = 6 /\ world = ptRead[1]
      BY <1>1, <2>9, Kinds
    <3>2. ASSUME ptSteady
          PROVE  /\ ptRead' = <<ptStore'>> /\ HairpinDone(4, RulesOf(ptStore, 4))'
                 /\ HairpinDone(6, RulesOf(ptStore, 6))'
      <4>1. ptRead = <<ptStore>> /\ HairpinDone(4, RulesOf(ptStore, 4))
        BY <1>1, <2>9, <3>2, First DEF TailDone
      <4>2. world = ptStore
        BY <3>1, <4>1
      <4>3. ptNat'[4] = ptNat[4] /\ (<<"hairpin", 4>> \in ptRefused' <=> <<"hairpin", 4>> \in ptRefused)
        BY <2>3, <3>1
      <4>4. HairpinDone(4, RulesOf(ptStore, 4))'
        BY <2>5, <4>1, <4>3 DEF HairpinDone
      <4>5. HairpinDone(6, RulesOf(ptStore, 6))'
        BY <2>4, <2>5, <3>1, <4>2 DEF HairpinDone
      <4> QED BY <2>2, <2>4, <4>2, <4>4, <4>5
    <3>3. TailDone'
      BY <2>2, <2>6, <2>7, <3>2 DEF TailDone
    <3> QED BY <1>2, <2>1, <3>3
  <2> QED BY <1>1, <2>8, <2>9
<1> QED BY <1>3, <1>4

LEMMA MasqueradeTail ==
  ASSUME ptTodo \in Seq(Range(ptTodo)), StageKinds, NatFields, TailDone, PtMasquerade
  PROVE  StageKinds' /\ NatFields' /\ TailDone'
<1>1. ptTodo # <<>> /\ ptTodo[1] = MasqueradeStage /\ Fam = PtPrimary[1] /\ Fam \in FamSet
  <2>1. ptTodo # <<>> /\ Head(ptTodo).op = "masquerade"
    BY DEF PtMasquerade, At
  <2>2. ptTodo[1] = MasqueradeStage /\ Fam = ptTodo[1].fam
    BY <2>1, First
  <2> QED BY <2>1, <2>2, Kinds, PtPrimaryAddress
<1> DEFINE cidrs == {MasqueradeRule(c) : c \in {x \in PtPodCidrs : x[1] = Fam}}
           F == Fam
<1>2. PICK ok \in BOOLEAN, began \in BOOLEAN, refused \in BOOLEAN, done \in SUBSET cidrs :
         /\ PtOutcome(ok, ~ok \/ refused)
         /\ (ok => done = cidrs) /\ (ok \/ refused \/ done # {} => began)
         /\ refused => ~ptCfg.masqueradeAll /\ MasqueradeRule(All) \in ptNat[Fam].masquerade
         /\ ptNat' = [ptNat EXCEPT ![Fam].masquerade =
                         IF began THEN Masqueraded(@, ptCfg.masqueradeAll \/ refused, done) ELSE @]
         /\ ptRefused' = IF began THEN Refusal("masquerade", refused) ELSE ptRefused
  BY Zenon DEF PtMasquerade
<1>3. UNCHANGED <<ptCfg, ptStore, ptRead, ptHc, ptSteady>>
  BY DEF PtMasquerade, ptMemory
<1>4. NatFields'
  BY <1>1, <1>2 DEF NatFields
<1>5. ptTodo' = IF ok THEN Tail(ptTodo) ELSE <<>>
  BY <1>2 DEF PtOutcome
<1>6. CASE ptTodo' = <<>>
  BY <1>4, <1>6, Ended
<1>7. CASE ptTodo' # <<>>
  <2>1. ok /\ began /\ done = cidrs /\ ptTodo' = Tail(ptTodo)
    BY <1>2, <1>5, <1>7
  <2>2. StageKinds' /\ \A x : Left(x) /\ x # ptTodo[1] => Left(x)'
    BY <1>1, <2>1, AfterHead
  <2>3. /\ Left(HairpinOf(4)) => Left(HairpinOf(4))'
        /\ Left(HairpinOf(6)) => Left(HairpinOf(6))'
        /\ Left(HealthStage) => Left(HealthStage)'
    BY <1>1, <2>2, Kinds
  <2>4. \A f \in {4, 6} : /\ ptNat'[f].jump = ptNat[f].jump /\ ptNat'[f].hairpin = ptNat[f].hairpin
                          /\ <<"hairpin", f>> \in ptRefused' <=> <<"hairpin", f>> \in ptRefused
    <3>1. \A f \in {4, 6} : ptNat'[f].jump = ptNat[f].jump /\ ptNat'[f].hairpin = ptNat[f].hairpin
      BY <1>1, <1>2, Families DEF NatFields
    <3>2. \A f : <<"hairpin", f>> \in ptRefused' <=> <<"hairpin", f>> \in ptRefused
      BY <1>2 DEF Refusal
    <3> QED BY <3>1, <3>2
  <2>5. ptNat'[F].masquerade = Masqueraded(ptNat[F].masquerade, ptCfg.masqueradeAll \/ refused, cidrs)
    BY <1>1, <1>2, <2>1 DEF NatFields
  <2>6. <<"masquerade", F>> \notin ptRefused' => ~refused
    BY <1>2, <2>1 DEF Refusal
  <2>7. MasqueradeRule(All) \notin cidrs
    <3>1. All[1] = 0 /\ F # 0
      BY <1>1, Families DEF All
    <3>2. \A c : MasqueradeRule(c).except = c
      BY DEF MasqueradeRule
    <3> QED BY <3>1, <3>2
  <2>8. MasqueradeFollows(PtPrimary[1])'
    <3>1. \A cidr \in PtPodCidrs : cidr[1] = F => MasqueradeRule(cidr) \in ptNat'[F].masquerade
      BY <2>5 DEF Masqueraded
    <3>2. <<"masquerade", F>> \notin ptRefused' =>
            (MasqueradeRule(All) \in ptNat'[F].masquerade <=> ptCfg.masqueradeAll)
      BY <2>5, <2>6, <2>7 DEF Masqueraded
    <3> HIDE DEF F
    <3>3. F = PtPrimary[1]
      BY <1>1 DEF F
    <3> QED BY <1>3, <3>1, <3>2, <3>3 DEF MasqueradeFollows, MasqueradeRule, All
  <2>9. TailDone'
    <3>1. RulesOf(ptStore, 4)' = RulesOf(ptStore, 4) /\ RulesOf(ptStore, 6)' = RulesOf(ptStore, 6)
      BY <1>3 DEF RulesOf
    <3>2. HairpinDone(4, RulesOf(ptStore, 4)) => HairpinDone(4, RulesOf(ptStore, 4))'
      BY <2>4, <3>1 DEF HairpinDone
    <3>3. HairpinDone(6, RulesOf(ptStore, 6)) => HairpinDone(6, RulesOf(ptStore, 6))'
      BY <2>4, <3>1 DEF HairpinDone
    <3>4. HealthFollows => HealthFollows'
      BY <1>3 DEF HealthFollows
    <3> QED BY <1>1, <1>3, <2>3, <2>8, <3>2, <3>3, <3>4 DEF TailDone
  <2> QED BY <1>4, <2>2, <2>9
<1> QED BY <1>6, <1>7

LEMMA HealthTail ==
  ASSUME ptTodo \in Seq(Range(ptTodo)), StageKinds, NatFields, TailDone, PtHealth
  PROVE  StageKinds' /\ NatFields' /\ TailDone'
<1>1. ptTodo # <<>> /\ ptTodo[1] = HealthStage
  <2>1. ptTodo # <<>> /\ Head(ptTodo).op = "health"
    BY DEF PtHealth, At
  <2> QED BY <2>1, First
<1>2. UNCHANGED <<ptCfg, ptStore, ptRead, ptNat, ptSteady, ptRefused>>
  BY DEF PtHealth, ptKernel, ptGhost
<1>3. NatFields'
  BY <1>2 DEF NatFields
<1>4. CASE ptTodo' = <<>>
  BY <1>3, <1>4, Ended
<1>5. CASE ptTodo' # <<>>
  <2> DEFINE counts == CountsAt[ptStore]
             kept == ptHc.servers \cap DOMAIN counts
  <2>1. PICK bound : /\ PtResult(kept \cup bound = DOMAIN counts)
                     /\ ptHc' = [servers |-> kept \cup bound, counts |-> counts]
    BY DEF PtHealth
  <2>2. kept \cup bound = DOMAIN counts /\ ptTodo' = Tail(ptTodo)
    BY <1>5, <2>1 DEF PtResult, PtOutcome
  <2>3. StageKinds' /\ \A x : Left(x) /\ x # ptTodo[1] => Left(x)'
    BY <1>1, <2>2, AfterHead
  <2>4. /\ Left(HairpinOf(4)) => Left(HairpinOf(4))'
        /\ Left(HairpinOf(6)) => Left(HairpinOf(6))'
        /\ Left(MasqueradeStage) => Left(MasqueradeStage)'
    BY <1>1, <2>3, Kinds
  <2>5. HealthFollows'
    BY <1>2, <2>1, <2>2 DEF HealthFollows
  <2>6. TailDone'
    BY <1>1, <1>2, <2>4, <2>5 DEF TailDone, HairpinDone, RulesOf, MasqueradeFollows
  <2> QED BY <1>3, <2>3, <2>6
<1> QED BY <1>4, <1>5

LEMMA TailStep ==
  ASSUME Typed, TodoShape, StageKinds, NatFields, TailDone, [PtNext]_ptVars
  PROVE  StageKinds' /\ NatFields' /\ TailDone'
<1> DEFINE seen == <<ptCfg, ptStore, ptRead, ptHc, ptNat, ptSteady, ptRefused>>
<1>1. ptTodo \in Seq(Range(ptTodo))
  BY DEF TodoShape
<1>2. CASE PtPass
  <2>1. UNCHANGED ptNat
    BY <1>2 DEF PtPass, ptKernel
  <2>2. StageKinds' /\ \A x \in {HairpinOf(4), HairpinOf(6), MasqueradeStage, HealthStage} : Left(x)'
    BY <1>2, PassBegins
  <2> QED BY <2>1, <2>2 DEF NatFields, TailDone
<1>3. CASE PtStoreChange
  <2>1. UNCHANGED <<ptTodo, ptNat>> /\ ~ptSteady'
    BY <1>3 DEF PtStoreChange, ptKernel
  <2> QED BY <2>1 DEF NatFields, TailDone, StageKinds, HairpinOf, MasqueradeStage, HealthStage, Stage
<1>4. CASE PtRestart
  <2>1. ptTodo' = <<>> /\ UNCHANGED ptNat
    BY <1>4 DEF PtRestart, ptKernel
  <2> QED BY <2>1, Ended DEF NatFields
<1>5. CASE UNCHANGED ptVars
  <2>1. UNCHANGED <<ptTodo, ptCfg, ptStore, ptRead, ptHc, ptNat, ptSteady, ptRefused>>
    BY <1>5 DEF ptVars, ptMemory, ptKernel, ptGhost
  <2> QED BY <2>1 DEF NatFields, TailDone, StageKinds, Left, HairpinDone, RulesOf, MasqueradeFollows, HealthFollows,
                      HairpinOf, MasqueradeStage, HealthStage, Stage
<1>6. ASSUME NEW op \in {"metrics", "mark", "tcpmss", "sets", "chain"}, At(op), ptTodo' \in {Tail(ptTodo), <<>>},
             UNCHANGED seen
      PROVE  StageKinds' /\ NatFields' /\ TailDone'
  <2>1. ptTodo # <<>> /\ ptTodo[1].op = op
    <3>1. ptTodo # <<>> /\ Head(ptTodo).op = op
      BY <1>6 DEF At
    <3> QED BY <1>1, <3>1, First
  <2>2. op \notin {"hairpin", "masquerade", "health"}
    BY <1>6
  <2> QED BY <1>1, <1>6, <2>1, <2>2, OtherTail
<1>7. CASE PtMetrics
  <2>1. At("metrics") /\ ptTodo' \in {Tail(ptTodo), <<>>} /\ UNCHANGED seen
    BY <1>7 DEF PtMetrics, PtResult, PtOutcome, ptMemory, ptKernel, ptGhost
  <2> QED BY <1>6, <2>1
<1>8. CASE PtMark
  <2>1. At("mark") /\ ptTodo' \in {Tail(ptTodo), <<>>} /\ UNCHANGED seen
    BY <1>8 DEF PtMark, PtResult, PtOutcome, ptGhost
  <2> QED BY <1>6, <2>1
<1>9. CASE PtTcpMss
  <2>1. At("tcpmss") /\ ptTodo' \in {Tail(ptTodo), <<>>} /\ UNCHANGED seen
    BY <1>9 DEF PtTcpMss, PtResult, PtOutcome, ptMemory, ptGhost
  <2> QED BY <1>6, <2>1
<1>10. CASE PtFirewallSets
  <2>1. At("sets") /\ ptTodo' \in {Tail(ptTodo), <<>>} /\ UNCHANGED seen
    BY <1>10 DEF PtFirewallSets, PtOutcome, ptMemory
  <2> QED BY <1>6, <2>1
<1>11. CASE PtFirewallChain
  <2>1. At("chain") /\ ptTodo' \in {Tail(ptTodo), <<>>} /\ UNCHANGED seen
    BY <1>11 DEF PtFirewallChain, PtResult, PtOutcome, ptGhost
  <2> QED BY <1>6, <2>1
<1>12. CASE PtHairpin
  BY <1>1, <1>12, HairpinTail
<1>13. CASE PtMasquerade
  BY <1>1, <1>13, MasqueradeTail
<1>14. CASE PtHealth
  BY <1>1, <1>14, HealthTail
<1> QED BY <1>2, <1>3, <1>4, <1>5, <1>7, <1>8, <1>9, <1>10, <1>11, <1>12, <1>13, <1>14 DEF PtNext

\* The rules of sync_hairpin are those of the calls a pod may make to itself.
LEMMA RulesAreCalls ==
  ASSUME NEW world \in DOMAIN PtWorlds, NEW fam
  PROVE  \A rule : rule \in RulesOf(world, fam) <=>
             \E x \in Range(EntriesAt[world]) : \E pod, vip :
                 Calls(x, pod, vip, fam) /\ rule = [pod |-> pod, vip |-> vip, port |-> x.info.port]
<1> DEFINE entries == EntriesAt[world]
           vips(x) == {ip \in Range(x.info.clusterIps)
                                 \cup (IF x.info.hairpinExternal THEN Range(x.info.externalIps) ELSE {}) : ip[1] = fam}
           pods(x) == {e \in x.eps : e.local /\ e.ready /\ e.ip[1] = fam}
           of(x) == IF ptCfg.hairpin \/ x.info.hairpin
                    THEN {[pod |-> e.ip, vip |-> ip, port |-> x.info.port] : e \in pods(x), ip \in vips(x)} ELSE {}
<1>1. RulesOf(world, fam) = UNION {of(entries[i]) : i \in DOMAIN entries}
  BY DEF RulesOf, HairpinRules
<1>2. ASSUME NEW x, NEW rule
      PROVE  rule \in of(x) <=> \E pod, vip : Calls(x, pod, vip, fam)
                                              /\ rule = [pod |-> pod, vip |-> vip, port |-> x.info.port]
  <2>1. ASSUME rule \in of(x)
        PROVE  \E pod, vip : Calls(x, pod, vip, fam) /\ rule = [pod |-> pod, vip |-> vip, port |-> x.info.port]
    <3>1. PICK e \in pods(x), ip \in vips(x) : rule = [pod |-> e.ip, vip |-> ip, port |-> x.info.port]
      BY <2>1
    <3>2. ptCfg.hairpin \/ x.info.hairpin
      BY <2>1
    <3>3. Calls(x, e.ip, ip, fam)
      BY <3>1, <3>2 DEF Calls
    <3> QED BY <3>1, <3>3
  <2>2. ASSUME NEW pod, NEW vip, Calls(x, pod, vip, fam), rule = [pod |-> pod, vip |-> vip, port |-> x.info.port]
        PROVE  rule \in of(x)
    <3>1. PICK e \in x.eps : e.local /\ e.ready /\ e.ip = pod /\ pod[1] = fam
      BY <2>2 DEF Calls
    <3>2. e \in pods(x) /\ vip \in vips(x) /\ (ptCfg.hairpin \/ x.info.hairpin)
      BY <2>2, <3>1 DEF Calls
    <3> QED BY <2>2, <3>1, <3>2
  <2> QED BY <2>1, <2>2
<1> HIDE DEF of
<1>3. \A rule : rule \in RulesOf(world, fam) <=> \E i \in DOMAIN entries : rule \in of(entries[i])
  BY <1>1
<1>4. \A rule : rule \in RulesOf(world, fam) <=> \E x \in Range(entries) : rule \in of(x)
  BY <1>3 DEF Range
<1> QED BY <1>2, <1>4

\* TailFollows for all Services and flags and any number of failures: the nat rules and
\* the health checks follow the stores that the pass has read (sync.rs:620-648).
THEOREM TailStaysInStep == PtSpec => []TailFollows
<1> DEFINE Inv == /\ Typed /\ ChainKnown /\ TodoShape /\ Closed
                  /\ StageKinds /\ NatFields /\ TailDone
<1>1. PtInit => Inv
  <2> SUFFICES ASSUME PtInit PROVE Inv
    OBVIOUS
  <2>1. ptTodo = <<>> /\ Len(ptTodo) = 0
    BY DEF PtInit
  <2>2. StageKinds /\ TailDone
    BY <2>1 DEF StageKinds, TailDone
  <2>3. NatFields
    BY DEF PtInit, NatFields
  <2> QED BY <2>2, <2>3, InitFacts
<1>2. Inv /\ [PtNext]_ptVars => Inv'
  BY TypedStep, ChainStep, CloseStep, TailStep
<1>3. Inv => TailFollows
  <2> SUFFICES ASSUME Inv, ptSteady PROVE /\ Past("hairpin") => \A fam \in FamSet : HairpinFollows(fam)
                                          /\ Past("masquerade") => MasqueradeFollows(PtPrimary[1])
                                          /\ Past("health") => HealthFollows
    BY DEF TailFollows
  <2>1. \A x : Left(x) => ~Past(x.op)
    <3>1. DOMAIN ptTodo = 1..Len(ptTodo)
      BY DEF TodoShape
    <3> QED BY <3>1 DEF Left, Past
  <2>2. Past("masquerade") => MasqueradeFollows(PtPrimary[1])
    BY <2>1, Kinds DEF TailDone, Past
  <2>3. Past("health") => HealthFollows
    BY <2>1, Kinds DEF TailDone, Past
  <2>4. ASSUME Past("hairpin"), NEW fam \in FamSet PROVE HairpinFollows(fam)
    <3>1. HairpinDone(fam, RulesOf(ptStore, fam))
      BY <2>1, <2>4, Kinds, Families DEF TailDone, Past
    <3>2. \A rule : rule \in RulesOf(ptStore, fam) <=>
             \E x \in Range(EntriesAt[ptStore]) : \E pod, vip :
                 Calls(x, pod, vip, fam) /\ rule = [pod |-> pod, vip |-> vip, port |-> x.info.port]
      BY RulesAreCalls DEF Typed
    <3>3. ASSUME NEW x \in Range(EntriesAt[ptStore]), NEW e \in x.eps, NEW vip, Calls(x, e.ip, vip, fam)
          PROVE  [pod |-> e.ip, vip |-> vip, port |-> x.info.port] \in ptNat[fam].hairpin
      BY <3>1, <3>2, <3>3 DEF HairpinDone
    <3>4. ASSUME <<"hairpin", fam>> \notin ptRefused, NEW rule \in ptNat[fam].hairpin
          PROVE  \E x \in Range(EntriesAt[ptStore]) : x.info.port = rule.port /\ Calls(x, rule.pod, rule.vip, fam)
      <4>1. rule \in RulesOf(ptStore, fam)
        BY <3>1, <3>4 DEF HairpinDone
      <4>2. PICK x \in Range(EntriesAt[ptStore]) :
                   \E pod, vip : Calls(x, pod, vip, fam) /\ rule = [pod |-> pod, vip |-> vip, port |-> x.info.port]
        BY <3>2, <4>1
      <4>2a. PICK pod, vip : Calls(x, pod, vip, fam) /\ rule = [pod |-> pod, vip |-> vip, port |-> x.info.port]
        BY <4>2
      <4>3. rule.pod = pod /\ rule.vip = vip /\ rule.port = x.info.port
        BY <4>2a
      <4> QED BY <4>2a, <4>3
    <3> QED BY <3>1, <3>3, <3>4 DEF HairpinFollows, HairpinDone
  <2> QED BY <2>2, <2>3, <2>4
<1> QED BY <1>1, <1>2, <1>3, PTL DEF PtSpec

----------------------------------------------------------------------------
(* Marks *)

\* A process that has found no rules of an earlier one knows every mark in the
\* kernel: a MARK rule is for the key that has the mark, and a FWMARK service has
\* endpoints of that key only.
MarksKnown ==
    ptInherited \/ /\ \A r \in ptMangle : r.chain # "tcpmss" =>
                         r.set \in DOMAIN ptMarks /\ r.set \in DOMAIN ptRegistry /\ ptRegistry[r.set] = r.key
                   /\ \A m \in DOMAIN ptMarks : m \in DOMAIN ptRegistry /\ ptMarks[m] \subseteq EndpointsOf[ptRegistry[m]]

\* A mark that is given out was free, or the key had it.
LEMMA Assigned ==
  ASSUME NEW reg, NEW key, AssignMark(reg, key) # -1
  PROVE  AssignMark(reg, key) \in DOMAIN reg => reg[AssignMark(reg, key)] = key
<1> DEFINE free == {i \in 0..PtMaxInc - 1 : PtHash[<<key, i>>] \notin DOMAIN reg \/ reg[PtHash[<<key, i>>]] = key}
           least == CHOOSE i \in free : \A j \in free : i <= j
<1>1. free # {} /\ AssignMark(reg, key) = PtHash[<<key, least>>]
  BY DEF AssignMark
<1>2. free \in SUBSET Nat
  BY PtIncrements
<1> HIDE DEF free
<1>3. \E i \in free : \A j \in free : i <= j
  BY <1>1, <1>2, Least
<1>4. least \in free
  BY <1>3
<1> HIDE DEF least
<1>5. PtHash[<<key, least>>] \notin DOMAIN reg \/ reg[PtHash[<<key, least>>]] = key
  BY <1>4 DEF free
<1> QED BY <1>1, <1>5

\* A step that gives key its mark and adds destinations and MARK rules for it.
LEMMA Marking ==
  ASSUME ~ptInherited, MarksKnown, NEW key, NEW mark, mark \in DOMAIN ptRegistry => ptRegistry[mark] = key,
         NEW some, some \subseteq EndpointsOf[key], NEW marking,
         \A r \in marking : r.key = key /\ r.set = mark,
         ptRegistry' = MapTo(ptRegistry, mark, key), ptInherited' = ptInherited,
         \/ UNCHANGED <<ptMarks, ptMangle>>
         \/ /\ ptMarks' = MapTo(ptMarks, mark, At0(ptMarks, mark) \cup some)
            /\ ptMangle' = ptMangle \cup marking
  PROVE  MarksKnown'
<1>0. EndpointsOf' = EndpointsOf
  BY DEF EndpointsOf, AllEntries, EntriesAt
<1>1. /\ DOMAIN ptRegistry' = DOMAIN ptRegistry \cup {mark} /\ ptRegistry'[mark] = key
      /\ \A m \in DOMAIN ptRegistry : ptRegistry'[m] = ptRegistry[m]
  BY DEF MapTo
<1>2. /\ \A r \in ptMangle : r.chain # "tcpmss" =>
            r.set \in DOMAIN ptMarks /\ r.set \in DOMAIN ptRegistry /\ ptRegistry[r.set] = r.key
      /\ \A m \in DOMAIN ptMarks : m \in DOMAIN ptRegistry /\ ptMarks[m] \subseteq EndpointsOf[ptRegistry[m]]
  BY DEF MarksKnown
<1>3. CASE UNCHANGED <<ptMarks, ptMangle>>
  BY <1>0, <1>1, <1>2, <1>3 DEF MarksKnown
<1>4. CASE /\ ptMarks' = MapTo(ptMarks, mark, At0(ptMarks, mark) \cup some)
           /\ ptMangle' = ptMangle \cup marking
  <2>1. At0(ptMarks, mark) \subseteq EndpointsOf[key]
    BY <1>2 DEF At0
  <2>2. /\ DOMAIN ptMarks' = DOMAIN ptMarks \cup {mark}
        /\ ptMarks'[mark] = At0(ptMarks, mark) \cup some
        /\ \A m \in DOMAIN ptMarks : m # mark => ptMarks'[m] = ptMarks[m]
    BY <1>4 DEF MapTo
  <2>3. \A m \in DOMAIN ptMarks' : m \in DOMAIN ptRegistry' /\ ptMarks'[m] \subseteq EndpointsOf[ptRegistry'[m]]
    <3> SUFFICES ASSUME NEW m \in DOMAIN ptMarks'
                 PROVE  m \in DOMAIN ptRegistry' /\ ptMarks'[m] \subseteq EndpointsOf[ptRegistry'[m]]
      OBVIOUS
    <3>1. CASE m = mark
      BY <3>1, <1>1, <2>1, <2>2
    <3>2. CASE m # mark
      BY <3>2, <1>1, <1>2, <2>2
    <3> QED BY <3>1, <3>2
  <2>4. \A r \in ptMangle' : r.chain # "tcpmss" =>
           r.set \in DOMAIN ptMarks' /\ r.set \in DOMAIN ptRegistry' /\ ptRegistry'[r.set] = r.key
    <3> SUFFICES ASSUME NEW r \in ptMangle', r.chain # "tcpmss"
                 PROVE  r.set \in DOMAIN ptMarks' /\ r.set \in DOMAIN ptRegistry' /\ ptRegistry'[r.set] = r.key
      OBVIOUS
    <3>1. CASE r \in ptMangle
      BY <3>1, <1>1, <1>2, <2>2
    <3>2. CASE r \in marking
      BY <3>2, <1>1, <2>2
    <3> QED BY <3>1, <3>2, <1>4
  <2> QED BY <1>0, <2>3, <2>4 DEF MarksKnown
<1> QED BY <1>3, <1>4

LEMMA MarksStep ==
  ASSUME MarksKnown, TodoShape, Aimed, [PtNext]_ptVars
  PROVE  MarksKnown'
<1>0. EndpointsOf' = EndpointsOf
  BY DEF EndpointsOf, AllEntries, EntriesAt
<1>1. CASE PtMark
  <2> DEFINE key == Head(ptTodo).key
             dests == Head(ptTodo).dests
             mark == AssignMark(ptRegistry, key)
             rules == {MangleRule(chain, key, mark) : chain \in {"PREROUTING", "OUTPUT"}}
             adds(some, marking) == /\ ptMarks' = MapTo(ptMarks, mark, At0(ptMarks, mark) \cup some)
                                    /\ ptMangle' = ptMangle \cup marking
  <2>1. dests \subseteq EndpointsOf[key]
    <3>1. ptTodo # <<>> /\ ptTodo \in Seq(Range(ptTodo)) /\ ptTodo[1].op = "mark" /\ Head(ptTodo) = ptTodo[1]
      BY <1>1 DEF PtMark, At, TodoShape
    <3>2. 1 \in 1..Len(ptTodo)
      BY <3>1
    <3> QED BY <3>1, <3>2 DEF Aimed
  <2>2. ptInherited' = ptInherited
    BY <1>1 DEF PtMark, ptGhost
  <2>3. CASE ptInherited
    BY <2>2, <2>3 DEF MarksKnown
  <2>4. CASE ~ptInherited /\ UNCHANGED <<ptRegistry, ptMarks, ptMangle>>
    BY <1>0, <2>2, <2>4 DEF MarksKnown
  <2>5. CASE ~ptInherited /\ mark # -1 /\ ptRegistry' = MapTo(ptRegistry, mark, key)
    <3>1. mark \in DOMAIN ptRegistry => ptRegistry[mark] = key
      BY <2>5, Assigned
    <3>2. \A r \in rules : r.key = key /\ r.set = mark
      BY DEF MangleRule
    <3>3. \A r \in {MangleRule("PREROUTING", key, mark)} : r.key = key /\ r.set = mark
      BY DEF MangleRule
    <3>4. \/ adds(dests, rules)
          \/ UNCHANGED <<ptMarks, ptMangle>>
          \/ \E some \in SUBSET dests : adds(some, {})
          \/ adds(dests, {MangleRule("PREROUTING", key, mark)})
      BY <1>1, <2>5 DEF PtMark
    <3> HIDE DEF key, mark, rules, dests
    <3>5. CASE adds(dests, rules)
      BY <2>1, <2>2, <2>5, <3>1, <3>2, <3>5, Marking
    <3>6. CASE UNCHANGED <<ptMarks, ptMangle>>
      BY <2>1, <2>2, <2>5, <3>1, <3>2, <3>6, Marking
    <3>7. ASSUME NEW some \in SUBSET dests, adds(some, {})
          PROVE  MarksKnown'
      <4>1. PICK none : none = {}
        OBVIOUS
      <4>2. some \subseteq EndpointsOf[key] /\ \A r \in none : r.key = key /\ r.set = mark
        BY <2>1, <4>1
      <4>3. adds(some, none)
        BY <3>7, <4>1
      <4> QED BY <4>2, <4>3, <2>2, <2>5, <3>1, Marking
    <3>8. CASE adds(dests, {MangleRule("PREROUTING", key, mark)})
      <4>1. PICK one : one = {MangleRule("PREROUTING", key, mark)}
        OBVIOUS
      <4>2. (\A r \in one : r.key = key /\ r.set = mark) /\ adds(dests, one)
        BY <3>3, <3>8, <4>1
      <4> QED BY <4>2, <2>1, <2>2, <2>5, <3>1, Marking
    <3> QED BY <3>4, <3>5, <3>6, <3>7, <3>8
  <2> QED BY <1>1, <2>3, <2>4, <2>5 DEF PtMark
<1>2. CASE PtTcpMss
  <2>1. UNCHANGED <<ptInherited, ptRegistry, ptMarks>>
    BY <1>2 DEF PtTcpMss, ptMemory, ptGhost
  <2>2. \A r \in ptMangle' : r \in ptMangle \/ r.chain = "tcpmss"
    BY <1>2 DEF PtTcpMss, MangleRule
  <2> QED BY <1>0, <2>1, <2>2 DEF MarksKnown
<1>3. CASE PtRestart
  <2>1. CASE ptInherited \/ ptMangle # {} \/ ptMarks # << >>
    BY <1>3, <2>1 DEF PtRestart, MarksKnown
  <2>2. CASE ptMangle = {} /\ ptMarks = << >>
    <3>1. ptMangle' = {} /\ DOMAIN ptMarks' = {}
      BY <1>3, <2>2 DEF PtRestart, ptKernel
    <3> QED BY <3>1 DEF MarksKnown
  <2> QED BY <2>1, <2>2
<1>4. CASE UNCHANGED <<ptInherited, ptRegistry, ptMarks, ptMangle>>
  BY <1>0, <1>4 DEF MarksKnown
<1> QED BY <1>1, <1>2, <1>3, <1>4 DEF PtNext, PtStoreChange, PtPass, PtMetrics, PtHairpin, PtMasquerade, PtHealth,
           PtFirewallSets, PtFirewallChain, ptVars, ptMemory, ptKernel, ptGhost

LEMMA AimedStep ==
  ASSUME Typed, TodoShape, Closed, Aimed, [PtNext]_ptVars
  PROVE  Aimed'
<1>0. EndpointsOf' = EndpointsOf
  BY DEF EndpointsOf, AllEntries, EntriesAt
<1>1. CASE PtPass
  BY <1>1, PassStage
<1>2. CASE ptTodo' = ptTodo
  BY <1>0, <1>2 DEF Aimed
<1>3. CASE ptTodo' = <<>>
  <2>1. Len(ptTodo') = 0
    BY <1>3
  <2> QED BY <2>1 DEF Aimed
<1>4. CASE ptTodo # <<>> /\ ptTodo' = Tail(ptTodo)
  <2> DEFINE n == Len(ptTodo)
  <2>1. ptTodo \in Seq(Range(ptTodo))
    BY DEF TodoShape
  <2>2. /\ n \in Nat /\ Len(ptTodo') = n - 1
        /\ \A i \in 1..(n - 1) : ptTodo'[i] = ptTodo[i + 1] /\ i + 1 \in 1..n
    BY <1>4, <2>1
  <2> QED BY <1>0, <2>2 DEF Aimed
<1>5. PtNext => PtPass \/ ptTodo' = ptTodo \/ ptTodo' = <<>> \/ (ptTodo # <<>> /\ ptTodo' = Tail(ptTodo))
  BY DEF PtNext, PtStoreChange, PtMetrics, PtMark, PtTcpMss, PtHairpin, PtMasquerade, PtHealth, PtFirewallSets,
         PtFirewallChain, PtRestart, PtResult, PtOutcome, At
<1> QED BY <1>1, <1>2, <1>3, <1>4, <1>5 DEF ptVars

\* DsrSeparate for all hashes, Services and configurations: the probing of dsr.rs:101-120
\* keeps a mark with the key that has it, so that no MARK rule can send the traffic
\* of a VIP to the endpoints of another.
THEOREM MarksStaySeparate == PtSpec => []DsrSeparate
<1> DEFINE Inv == Typed /\ ChainKnown /\ TodoShape /\ Closed /\ Aimed /\ MarksKnown
<1>1. PtInit => Inv
  <2> SUFFICES ASSUME PtInit PROVE Inv
    OBVIOUS
  <2>1. Typed /\ ChainKnown /\ TodoShape /\ Closed /\ Aimed
    BY InitFacts
  <2>2. ptMangle = {} /\ DOMAIN ptMarks = {}
    BY DEF PtInit
  <2>3. MarksKnown
    BY <2>2 DEF MarksKnown
  <2> QED BY <2>1, <2>3
<1>2. Inv /\ [PtNext]_ptVars => Inv'
  BY TypedStep, ChainStep, CloseStep, AimedStep, MarksStep
<1>3. Inv => DsrSeparate
  BY DEF MarksKnown, DsrSeparate
<1> QED BY <1>1, <1>2, <1>3, PTL DEF PtSpec

----------------------------------------------------------------------------
(* The announced addresses *)

Wanted(w) == AdvertisedServiceVips(AdWorlds[w], adCfg.defaults)

\* The table with the paths of some VIPs and some pod CIDRs.
Table(vips, pods) ==
    {BuildPath(x, adPolicy) : x \in vips} \cup {BuildPath(x, NoPolicy) : x \in pods}

AdTypeOK ==
    /\ adCfg \in AdConfigs /\ adStore \in DOMAIN AdWorlds
    /\ adFlapped \in BOOLEAN /\ adPodsDone \in BOOLEAN
    /\ adPending # <<>> => adPending = <<adPending[1]>>

\* The sets of VIPs that the table may hold.
Held ==
    {S \in SUBSET (adAdvertised \cup IF adPending = <<>> THEN {} ELSE adPending[1]) :
        IF adPending = <<>> THEN S = adAdvertised ELSE adAdvertised \cap adPending[1] \subseteq S}

TableInv ==
    /\ adAdvertised \cap AdPodCidrs = {}
    /\ adPending # <<>> => adPending[1] \cap AdPodCidrs = {}
    /\ ~adFlapped => \E S \in Held, P \in SUBSET PodPrefixes(adCfg) :
                        /\ adPodsDone => P = PodPrefixes(adCfg)
                        /\ adRib = Table(S, P)

AdInv == AdTypeOK /\ TableInv

---------------------------------------------------------------------------
LEMMA PathPrefix == \A x, policy : BuildPath(x, policy).prefix = x
BY DEF BuildPath

\* What the calls of one sync make of the table.
LEMMA TableAfter ==
    ASSUME NEW S, NEW P, NEW added, NEW withdrawn,
           (S \cup added \cup withdrawn) \cap P = {}
    PROVE  DeletePaths(AddPaths(Table(S, P), added, adPolicy), withdrawn)
               = Table((S \cup added) \ withdrawn, P)
<1> DEFINE after == DeletePaths(AddPaths(Table(S, P), added, adPolicy), withdrawn)
           T == Table((S \cup added) \ withdrawn, P)
<1>1. ASSUME NEW p \in after PROVE p \in T
  BY <1>1, PathPrefix DEF DeletePaths, AddPaths, Table
<1>2. ASSUME NEW p \in T PROVE p \in after
  BY <1>2, PathPrefix DEF DeletePaths, AddPaths, Table
<1> QED BY <1>1, <1>2

LEMMA TableAtStart ==
    ASSUME NEW pods PROVE AddPaths({}, pods, NoPolicy) = {BuildPath(x, NoPolicy) : x \in pods}
BY DEF AddPaths

LEMMA AdInitially == AdInit => AdInv
<1> SUFFICES ASSUME AdInit PROVE AdInv
  OBVIOUS
<1>1. adRib = Table({}, PodPrefixes(adCfg))
  BY TableAtStart DEF AdInit, Table
<1>2. {} \in Held
  BY DEF AdInit, Held
<1> QED BY <1>1, <1>2 DEF AdInit, AdInv, AdTypeOK, TableInv

LEMMA AdRestartKeeps == ASSUME AdInv, AdRestart PROVE AdInv'
<1>1. PICK pods \in SUBSET PodPrefixes(adCfg) : AdStarted(adCfg, pods)
  BY DEF AdRestart
<1>2. adRib' = Table({}, pods)'
  BY <1>1, TableAtStart DEF AdStarted, Table
<1>3. {} \in Held'
  BY <1>1 DEF AdStarted, Held
<1>4. adCfg' = adCfg /\ adStore' = adStore
  BY DEF AdRestart
<1>5. AdTypeOK'
  BY <1>1, <1>4 DEF AdInv, AdTypeOK, AdStarted
<1>6. TableInv'
  BY <1>1, <1>2, <1>3, <1>4 DEF TableInv, AdStarted
<1> QED BY <1>5, <1>6 DEF AdInv

LEMMA AdSyncKeeps == ASSUME AdInv, AdSync PROVE AdInv'
<1> DEFINE desired == Wanted(adStore)
           add == desired \ adAdvertised
           withdraw == adAdvertised \ desired
<1>1. PICK added \in SUBSET add, withdrawn \in SUBSET withdraw :
        LET complete == added = add /\ withdrawn = withdraw
        IN  /\ RememberLast(desired, complete)
            /\ adPending' = IF complete THEN <<>> ELSE <<desired>>
            /\ adFlapped' = (adFlapped \/ (adPending # <<>> /\ adPending # <<desired>>))
            /\ adRib' = DeletePaths(AddPaths(adRib, added, adPolicy), withdrawn)
  BY DEF AdSync, Wanted
<1>2. UNCHANGED <<adCfg, adStore, adPolicy, adPodsDone>>
  BY DEF AdSync
<1>3. desired \cap AdPodCidrs = {}
  BY AdPrefixes DEF AdPrefixes, AdInv, AdTypeOK, Wanted
<1> HIDE DEF desired
<1>4. AdTypeOK'
  BY <1>1, <1>2 DEF AdInv, AdTypeOK
<1>5. adAdvertised' \cap AdPodCidrs = {} /\ (adPending' # <<>> => adPending'[1] \cap AdPodCidrs = {})
  BY <1>1, <1>3 DEF AdInv, TableInv, RememberLast
<1>6. ASSUME ~adFlapped' PROVE \E S \in Held', P \in SUBSET PodPrefixes(adCfg') :
                                  /\ adPodsDone' => P = PodPrefixes(adCfg')
                                  /\ adRib' = Table(S, P)'
  <2>1. ~adFlapped /\ (adPending # <<>> => adPending[1] = desired)
    <3>1. ~(adFlapped \/ (adPending # <<>> /\ adPending # <<desired>>))
      BY <1>1, <1>6
    <3> QED BY <3>1
  <2>2. PICK S \in Held, P \in SUBSET PodPrefixes(adCfg) :
            (adPodsDone => P = PodPrefixes(adCfg)) /\ adRib = Table(S, P)
    BY <2>1 DEF AdInv, TableInv
  <2>3. adAdvertised \cap desired \subseteq S /\ S \subseteq adAdvertised \cup desired
    BY <2>1, <2>2 DEF Held
  <2>4. P \subseteq AdPodCidrs
    BY DEF PodPrefixes
  <2>5. (S \cup added \cup withdrawn) \cap P = {}
    BY <1>3, <2>3, <2>4 DEF AdInv, TableInv
  <2> DEFINE T == (S \cup added) \ withdrawn
  <2>6. adRib' = Table(T, P)
    BY <1>1, <2>2, <2>5, TableAfter
  <2>7. Table(T, P)' = Table(T, P)
    BY <1>2 DEF Table
  <2>8. T \in Held'
    <3>1. CASE added = add /\ withdrawn = withdraw
      <4>1. adPending' = <<>> /\ adAdvertised' = desired
        BY <1>1, <3>1 DEF RememberLast
      <4>2. T = desired
        BY <2>3, <3>1
      <4> QED BY <4>1, <4>2 DEF Held
    <3>2. CASE ~(added = add /\ withdrawn = withdraw)
      <4>1. adPending' = <<desired>> /\ adAdvertised' = adAdvertised
        BY <1>1, <3>2 DEF RememberLast
      <4>2. adAdvertised \cap desired \subseteq T /\ T \subseteq adAdvertised \cup desired
        BY <2>3
      <4> QED BY <4>1, <4>2 DEF Held
    <3> QED BY <3>1, <3>2
  <2> QED BY <1>2, <2>2, <2>6, <2>7, <2>8
<1> QED BY <1>4, <1>5, <1>6 DEF AdInv, TableInv

LEMMA TableUntouched ==
    ASSUME TableInv, UNCHANGED <<adCfg, adPolicy, adAdvertised, adRib, adPodsDone, adPending, adFlapped>>
    PROVE  TableInv'
<1>1. Held' = Held
  BY DEF Held
<1>2. \A S, P : Table(S, P)' = Table(S, P)
  BY DEF Table
<1> QED BY <1>1, <1>2 DEF TableInv

LEMMA AdInvariance == AdSpec => []AdInv
<1>1. AdInv /\ [AdNext]_adVars => AdInv'
  <2> SUFFICES ASSUME AdInv, [AdNext]_adVars PROVE AdInv'
    OBVIOUS
  <2>1. CASE AdStoreChange
    BY <2>1, TableUntouched DEF AdStoreChange, AdInv, AdTypeOK
  <2>2. CASE AdProxyPass
    BY <2>2, TableUntouched DEF AdProxyPass, AdInv, AdTypeOK
  <2>3. CASE UNCHANGED adVars
    BY <2>3, TableUntouched DEF adVars, AdInv, AdTypeOK
  <2> QED BY <2>1, <2>2, <2>3, AdRestartKeeps, AdSyncKeeps DEF AdNext
<1> QED BY AdInitially, <1>1, PTL DEF AdSpec

\* After any failed calls, a retry that wants the same makes gobgpd's table exact again
\* (advertise.rs:46-76): it holds the remembered VIPs and the pod CIDRs and nothing else.
THEOREM RibKnown == AdSpec => []RibIsKnown
<1>1. AdInv => RibIsKnown
  BY DEF AdInv, TableInv, Held, Table, RibIsKnown
<1> QED BY AdInvariance, <1>1, PTL

----------------------------------------------------------------------------
(* What an announced address leads to *)

\* The services of one entry: the ClusterIPs, unless they take the FWMARK path the
\* validated external addresses, and the addresses of the node.
LEMMA EntryServices ==
  ASSUME NEW e, NEW cfg, IsList(e.info.clusterIps), IsList(e.info.externalIps), IsList(e.info.lbIps),
         IsList(cfg.nodeIps)
  PROVE  /\ IsList(IpvsServices(e, cfg))
         /\ \A ip \in Range(e.info.clusterIps) : \E x \in Range(IpvsServices(e, cfg)) :
                x.key = <<ip, e.info.proto, e.info.port>> /\ x.dests = Dests(e, e.info.internalLocal)
         /\ ~TakesFwmark(e, cfg) /\ ~cfg.strict =>
                \A ip \in Range(e.info.externalIps) \cup Range(e.info.lbIps) : \E x \in Range(IpvsServices(e, cfg)) :
                    x.key = <<ip, e.info.proto, e.info.port>> /\ x.dests = Dests(e, e.info.externalLocal)
<1> DEFINE info == e.info
           at(ip, port, localOnly) ==
               [key |-> <<ip, info.proto, port>>, conf |-> info.conf, of |-> <<info.ns, info.name>>,
                dests |-> Dests(e, localOnly)]
           vips(ips, localOnly) == [i \in DOMAIN ips |-> at(ips[i], info.port, localOnly)]
           nodePort == /\ info.nodePort # NoPort
                       /\ cfg.nodePorts = {} \/ info.nodePort \in cfg.nodePorts
                       /\ ~(info.externalLocal /\ Dests(e, TRUE) = {})
           A == vips(info.clusterIps, info.internalLocal)
           E == vips(ExternalVips(e, cfg), info.externalLocal)
           B == IF TakesFwmark(e, cfg) THEN <<>> ELSE E
           C == IF nodePort THEN [i \in DOMAIN cfg.nodeIps |-> at(cfg.nodeIps[i], info.nodePort, info.externalLocal)]
                ELSE <<>>
<1>1. IpvsServices(e, cfg) = A \o B \o C
  BY DEF IpvsServices
<1>2. ASSUME NEW ips, IsList(ips), NEW port, NEW localOnly
      PROVE  LET list == [i \in DOMAIN ips |-> at(ips[i], port, localOnly)]
             IN  IsList(list) /\ Range(list) = {at(ip, port, localOnly) : ip \in Range(ips)}
  <2> DEFINE list == [i \in DOMAIN ips |-> at(ips[i], port, localOnly)]
  <2> HIDE DEF at
  <2>1. DOMAIN ips = 1..Len(ips) /\ Len(ips) \in Nat
    BY <1>2, ListFacts
  <2>2. list = [i \in 1..Len(ips) |-> list[i]]
    BY <2>1
  <2>3. Range(list) = {at(ip, port, localOnly) : ip \in Range(ips)}
    BY DEF Range
  <2> HIDE DEF list
  <2>4. IsList(list)
    BY <2>1, <2>2, FunctionIsList
  <2> QED BY <2>3, <2>4 DEF list
<1> DEFINE ext == e.info.externalIps
           lb == e.info.lbIps
           okE == {ip \in Range(ext) : ValidateExternalIp(ip, cfg.external, cfg.cluster, cfg.strict)}
           okL == {ip \in Range(lb) : ValidateExternalIp(ip, cfg.loadbalancer, cfg.cluster, cfg.strict)}
<1>3. IsList(ExternalVips(e, cfg)) /\ Range(ExternalVips(e, cfg)) = okE \cup okL
  <2> DEFINE a == [i \in DOMAIN ext |-> IF ext[i] \in okE THEN <<ext[i]>> ELSE <<>>]
             b == [i \in DOMAIN lb |-> IF lb[i] \in okL THEN <<lb[i]>> ELSE <<>>]
             ra == [i \in DOMAIN ext |-> IF ValidateExternalIp(ext[i], cfg.external, cfg.cluster, cfg.strict)
                                          THEN <<ext[i]>> ELSE <<>>]
             rb == [i \in DOMAIN lb |-> IF ValidateExternalIp(lb[i], cfg.loadbalancer, cfg.cluster, cfg.strict)
                                         THEN <<lb[i]>> ELSE <<>>]
  <2>1. ExternalVips(e, cfg) = FlattenSeq(ra) \o FlattenSeq(rb)
    BY DEF ExternalVips, Filter
  <2>2. /\ \A i \in DOMAIN ext : (ext[i] \in okE) <=> ValidateExternalIp(ext[i], cfg.external, cfg.cluster, cfg.strict)
        /\ \A i \in DOMAIN lb : (lb[i] \in okL) <=> ValidateExternalIp(lb[i], cfg.loadbalancer, cfg.cluster, cfg.strict)
    BY DEF Range
  <2>3. ra = a /\ rb = b
    <3> HIDE DEF okE, okL, ext, lb
    <3> QED BY <2>2, Zenon
  <2>4. IsList(FlattenSeq(a)) /\ Range(FlattenSeq(a)) = Range(ext) \cap okE
    <3> HIDE DEF okE
    <3> QED BY Kept
  <2>5. IsList(FlattenSeq(b)) /\ Range(FlattenSeq(b)) = Range(lb) \cap okL
    <3> HIDE DEF okL
    <3> QED BY Kept
  <2> DEFINE fa == FlattenSeq(a)
             fb == FlattenSeq(b)
  <2>6. ExternalVips(e, cfg) = fa \o fb
    BY <2>1, <2>3
  <2>7. IsList(fa) /\ IsList(fb) /\ Range(fa) = okE /\ Range(fb) = okL
    BY <2>4, <2>5
  <2> HIDE DEF fa, fb, okE, okL
  <2> QED BY <2>6, <2>7, Concat
<1>4. IsList(A) /\ Range(A) = {at(ip, info.port, info.internalLocal) : ip \in Range(info.clusterIps)}
  <2> HIDE DEF at
  <2> QED BY <1>2
<1>5. IsList(E) /\ Range(E) = {at(ip, info.port, info.externalLocal) : ip \in Range(ExternalVips(e, cfg))}
  <2> HIDE DEF at
  <2> QED BY <1>2, <1>3
<1>6. IsList(C)
  <2> HIDE DEF at, nodePort
  <2> QED BY <1>2, Empty
<1> HIDE DEF A, E, C, okE, okL
<1>7. IsList(B)
  BY <1>5, Empty
<1> HIDE DEF B
<1>8. IsList(A \o B) /\ Range(A \o B) = Range(A) \cup Range(B)
  BY <1>4, <1>7, Concat
<1> DEFINE AB == A \o B
<1> HIDE DEF AB
<1>9. IsList(AB \o C) /\ Range(AB \o C) = Range(AB) \cup Range(C)
  BY <1>6, <1>8, Concat DEF AB
<1>10. Range(A) \cup Range(B) \subseteq Range(IpvsServices(e, cfg)) /\ IsList(IpvsServices(e, cfg))
  BY <1>1, <1>8, <1>9 DEF AB
<1>11. ASSUME NEW ip, NEW localOnly
       PROVE  /\ at(ip, info.port, localOnly).key = <<ip, e.info.proto, e.info.port>>
              /\ at(ip, info.port, localOnly).dests = Dests(e, localOnly)
  OBVIOUS
<1> HIDE DEF at
<1>12. ASSUME NEW ip \in Range(e.info.clusterIps)
       PROVE  \E x \in Range(IpvsServices(e, cfg)) :
                 x.key = <<ip, e.info.proto, e.info.port>> /\ x.dests = Dests(e, e.info.internalLocal)
  BY <1>4, <1>10, <1>11
<1>13. ASSUME ~TakesFwmark(e, cfg), ~cfg.strict, NEW ip \in Range(e.info.externalIps) \cup Range(e.info.lbIps)
       PROVE  \E x \in Range(IpvsServices(e, cfg)) :
                 x.key = <<ip, e.info.proto, e.info.port>> /\ x.dests = Dests(e, e.info.externalLocal)
  <2>1. ip \in Range(ExternalVips(e, cfg))
    BY <1>3, <1>13 DEF okE, okL, ValidateExternalIp
  <2>2. B = E
    BY <1>13 DEF B
  <2>3. at(ip, info.port, info.externalLocal) \in Range(IpvsServices(e, cfg))
    BY <1>5, <1>10, <2>1, <2>2
  <2> QED BY <2>3, <1>11
<1> QED BY <1>10, <1>12, <1>13

\* Where no two insertions with one key differ, each of them stays.
LEMMA InsertionStays ==
  ASSUME NEW entries, NEW cfg, IsList(entries),
         \A e \in Range(entries) : IsList(IpvsServices(e, cfg)),
         LET all == Insertions(entries, cfg)
         IN  \A i, j \in DOMAIN all : all[i].key = all[j].key => all[i] = all[j],
         NEW e \in Range(entries), NEW x \in Range(IpvsServices(e, cfg))
  PROVE  x.key \in DOMAIN Desired(entries, cfg) /\ Desired(entries, cfg)[x.key] = x
<1> DEFINE parts == [i \in DOMAIN entries |-> IpvsServices(entries[i], cfg)]
           all == Insertions(entries, cfg)
           last(k) == CHOOSE i \in DOMAIN all : all[i].key = k /\ \A j \in DOMAIN all : all[j].key = k => j <= i
<1>1. all = FlattenSeq(parts)
  BY DEF Insertions
<1>2. DOMAIN entries = 1..Len(entries) /\ Len(entries) \in Nat /\ \A i \in DOMAIN entries : entries[i] \in Range(entries)
  BY ListFacts
<1>3. /\ DOMAIN parts = DOMAIN entries /\ \A i \in DOMAIN parts : parts[i] = IpvsServices(entries[i], cfg)
      /\ parts = [i \in 1..Len(entries) |-> parts[i]]
  BY <1>2
<1> HIDE DEF parts, all
<1>4. IsList(parts) /\ \A i \in DOMAIN parts : IsList(parts[i])
  BY <1>2, <1>3, FunctionIsList
<1>5. IsList(all) /\ Range(all) = UNION {Range(parts[i]) : i \in DOMAIN parts}
  BY <1>1, <1>4, FlatRange
<1>6. x \in Range(all)
  <2>1. PICK i \in DOMAIN entries : e = entries[i]
    BY DEF Range
  <2>2. x \in Range(parts[i])
    BY <2>1, <1>3
  <2> QED BY <2>2, <1>3, <1>5
<1>7. PICK m \in DOMAIN all : x = all[m]
  BY <1>6 DEF Range
<1>8. DOMAIN all = 1..Len(all) /\ Len(all) \in Nat
  BY <1>5, ListFacts
\* There is a last insertion with the key.
<1>9. \E i \in DOMAIN all : all[i].key = x.key /\ \A j \in DOMAIN all : all[j].key = x.key => j <= i
  <2> DEFINE T == {n \in 0..Len(all) : \A j \in DOMAIN all : all[j].key = x.key => j <= n}
  <2>1. T \in SUBSET Nat /\ Len(all) \in T
    BY <1>8
  <2>2. PICK n \in T : \A k \in T : n <= k
    BY <2>1, Least
  <2>3. n >= m /\ n \in DOMAIN all
    BY <1>7, <1>8, <2>2
  <2>4. all[n].key = x.key
    <3> SUFFICES ASSUME all[n].key # x.key PROVE FALSE
      OBVIOUS
    <3>1. n - 1 \in 0..Len(all)
      BY <1>8, <2>3
    <3>2. \A j \in DOMAIN all : all[j].key = x.key => j <= n - 1
      BY <1>8, <2>2, <2>3
    <3>3. n - 1 \in T
      BY <3>1, <3>2
    <3>4. n <= n - 1 /\ n \in Nat
      BY <3>3, <2>1, <2>2
    <3> QED BY <3>4
  <2> QED BY <2>2, <2>3, <2>4
<1>10. last(x.key) \in DOMAIN all /\ all[last(x.key)].key = x.key
  BY <1>9
<1>11. Desired(entries, cfg) = [k \in {all[i].key : i \in DOMAIN all} |-> all[last(k)]]
  BY DEF Desired, all
<1>12. x.key \in {all[i].key : i \in DOMAIN all}
  BY <1>7
<1> HIDE DEF last
<1>13. all[last(x.key)] = all[m]
  BY <1>7, <1>10 DEF all
<1> QED BY <1>7, <1>11, <1>12, <1>13

\* A Service with a ready endpoint on this node has one behind each port, where its
\* slices have the port.
LEMMA LocalDests ==
  ASSUME NEW w \in DOMAIN AdWorlds, NEW svc, NEW sp, NEW e,
         e.info.dsr = svc.dsr, e.eps = EndpointsFor(svc, sp.name, AdWorlds[w].slices, AdNode),
         HasLocalEndpoints(svc, AdWorlds[w].slices),
         \A sl \in SlicesOf(svc, AdWorlds[w].slices) :
            \E j \in DOMAIN sl.ports : sl.ports[j].name = sp.name /\ ParseU16(sl.ports[j].port) # NoPort
  PROVE  Dests(e, TRUE) # {}
<1> DEFINE slices == AdWorlds[w].slices
<1>1. PICK sl \in SlicesOf(svc, slices) : \E ep \in Range(sl.endpoints) : ep.node = AdNode /\ IsReady(ep)
  BY DEF HasLocalEndpoints
<1>2. PICK ep \in Range(sl.endpoints) : ep.node = AdNode /\ IsReady(ep)
  BY <1>1
<1>3. sl \in Range(slices)
  BY DEF SlicesOf
<1>4. /\ IsList(sl.ports) /\ \A i, j \in DOMAIN sl.ports : sl.ports[i].name = sl.ports[j].name => i = j
      /\ ep.addresses # {}
  BY <1>3, AdSlices
<1>5. PICK j \in DOMAIN sl.ports : sl.ports[j].name = sp.name /\ ParseU16(sl.ports[j].port) # NoPort
  OBVIOUS
<1> DEFINE Q == {p \in Range(sl.ports) : p.name = sp.name}
           named == Filter(sl.ports, LAMBDA p : p.name = sp.name)
           sel == [i \in DOMAIN sl.ports |-> IF sl.ports[i] \in Q THEN <<sl.ports[i]>> ELSE <<>>]
           raw == [i \in DOMAIN sl.ports |-> IF sl.ports[i].name = sp.name THEN <<sl.ports[i]>> ELSE <<>>]
<1>6. named = FlattenSeq(raw)
  BY DEF Filter
<1>7. raw = sel
  <2>1. \A i \in DOMAIN sl.ports : (sl.ports[i] \in Q) <=> (sl.ports[i].name = sp.name)
    BY DEF Range
  <2> HIDE DEF Q
  <2> QED BY <2>1, Zenon
<1>8. IsList(FlattenSeq(sel)) /\ Range(FlattenSeq(sel)) = Range(sl.ports) \cap Q
  <2> HIDE DEF Q
  <2> QED BY <1>4, Kept
<1>9. IsList(named) /\ Range(named) = Q
  BY <1>6, <1>7, <1>8
<1>10. sl.ports[j] \in Q /\ \A p \in Q : p = sl.ports[j]
  BY <1>4, <1>5 DEF Range
<1> HIDE DEF named, Q
<1>11. named # <<>> /\ named[1] = sl.ports[j]
  <2>1. Range(named) # {}
    BY <1>9, <1>10
  <2>2. Len(named) \in Nat /\ DOMAIN named = 1..Len(named) /\ \A i \in DOMAIN named : named[i] \in Range(named)
    BY <1>9, ListFacts
  <2>3. DOMAIN named # {}
    BY <2>1 DEF Range
  <2>4. 1 \in DOMAIN named
    BY <2>2, <2>3
  <2>5. named # <<>>
    BY <2>1, Empty
  <2> QED BY <2>2, <2>4, <2>5, <1>9, <1>10
<1> DEFINE port == IF named = <<>> THEN NoPort ELSE ParseU16(named[1].port)
<1>12. port # NoPort
  BY <1>5, <1>11
<1>13. PICK ip \in ep.addresses : TRUE
  BY <1>4
<1> DEFINE z == [ip |-> ip, port |-> port, local |-> TRUE, ready |-> TRUE]
<1>14. z \in EndpointsFor(svc, sp.name, slices, AdNode)
  <2> DEFINE E(l) ==
        LET n == Filter(l.ports, LAMBDA p : p.name = sp.name)
            q == IF n = <<>> THEN NoPort ELSE ParseU16(n[1].port)
        IN  IF q = NoPort THEN {}
            ELSE UNION {{[ip |-> a, port |-> q, local |-> p.node = AdNode, ready |-> IsReady(p)] :
                            a \in p.addresses} : p \in Range(l.endpoints)}
  <2>1. EndpointsFor(svc, sp.name, slices, AdNode) = UNION {E(l) : l \in SlicesOf(svc, slices)}
    BY DEF EndpointsFor
  <2>2. E(sl) = IF port = NoPort THEN {}
                ELSE UNION {{[ip |-> a, port |-> port, local |-> p.node = AdNode, ready |-> IsReady(p)] :
                               a \in p.addresses} : p \in Range(sl.endpoints)}
    BY DEF named
  <2> HIDE DEF E, port
  <2>3. z = [ip |-> ip, port |-> port, local |-> ep.node = AdNode, ready |-> IsReady(ep)]
    BY <1>2
  <2> DEFINE Z(p) == {[ip |-> a, port |-> port, local |-> p.node = AdNode, ready |-> IsReady(p)] : a \in p.addresses}
  <2>5. z \in Z(ep)
    BY <2>3, <1>13
  <2>6. E(sl) = UNION {Z(p) : p \in Range(sl.endpoints)}
    BY <2>2, <1>12
  <2> HIDE DEF Z, z
  <2>4. z \in E(sl)
    BY <2>5, <2>6, <1>2
  <2> QED BY <2>1, <2>4
<1>15. z \in {q \in e.eps : q.ready /\ (TRUE => q.local)}
  BY <1>14
<1> HIDE DEF z
<1> QED BY <1>15 DEF Dests

\* What the two readers made of the stores that they have seen.
SeenInv ==
    /\ "vips" \in adSeen => adPending = <<>> /\ adAdvertised = Wanted(adStore)
    /\ "proxy" \in adSeen => adIpvs = Desired(MapServices(AdWorlds[adStore], AdNode), adCfg)

LEMMA SeenInvariance == AdSpec => []SeenInv
<1>1. AdInit => SeenInv
  BY DEF AdInit, SeenInv
<1>2. SeenInv /\ [AdNext]_adVars => SeenInv'
  <2> SUFFICES ASSUME SeenInv, [AdNext]_adVars PROVE SeenInv'
    OBVIOUS
  <2>1. CASE AdRestart
    BY <2>1 DEF AdRestart, AdStarted, SeenInv
  <2>2. CASE AdStoreChange
    BY <2>2 DEF AdStoreChange, SeenInv
  <2>3. CASE AdProxyPass
    BY <2>3 DEF AdProxyPass, SeenInv, Wanted
  <2>4. CASE AdSync
    <3> DEFINE desired == AdvertisedServiceVips(AdWorlds[adStore], adCfg.defaults)
               add == desired \ adAdvertised
               withdraw == adAdvertised \ desired
    <3>1. PICK added \in SUBSET add, withdrawn \in SUBSET withdraw :
              LET complete == added = add /\ withdrawn = withdraw
              IN  /\ RememberLast(desired, complete)
                  /\ adPending' = IF complete THEN <<>> ELSE <<desired>>
                  /\ adSeen' = IF complete THEN adSeen \cup {"vips"} ELSE adSeen \ {"vips"}
      BY <2>4 DEF AdSync
    <3>2. UNCHANGED <<adCfg, adStore, adIpvs>>
      BY <2>4 DEF AdSync
    <3>3. Wanted(adStore)' = desired
      BY <3>2 DEF Wanted
    <3> HIDE DEF desired
    <3> QED BY <3>1, <3>2, <3>3 DEF SeenInv, RememberLast
  <2>5. CASE UNCHANGED adVars
    BY <2>5 DEF adVars, SeenInv, Wanted
  <2> QED BY <2>1, <2>2, <2>3, <2>4, <2>5 DEF AdNext
<1> QED BY <1>1, <1>2, PTL DEF AdSpec

LEMMA Served ==
  ASSUME AdInv, SeenInv, adSeen = {"vips", "proxy"}, ~adFlapped,
         NEW svc \in Range(AdWorlds[adStore].services), JudgedAlike(svc),
         NEW ip \in AdvertisedVips(svc, AdWorlds[adStore].slices, adCfg.defaults),
         ~(adCfg.dsr /\ svc.dsr /\ ip \notin Range(ClusterIps(svc))), NEW i \in DOMAIN svc.ports
  PROVE  LET key == <<ip, ParseProtocol(svc.ports[i].proto), svc.ports[i].port>>
             isLocal == IF ip \in Range(ClusterIps(svc)) THEN svc.internalPolicy = "Local"
                        ELSE svc.externalPolicy = "Local"
         IN  /\ BuildPath(ip, adPolicy) \in adRib
             /\ key \in DOMAIN adIpvs
             /\ isLocal => adIpvs[key].dests # {}
<1> DEFINE world == AdWorlds[adStore]
           sp == svc.ports[i]
           e == EntryOf(world, AdNode, svc, sp)
           key == <<ip, ParseProtocol(sp.proto), sp.port>>
           isLocal == IF ip \in Range(ClusterIps(svc)) THEN svc.internalPolicy = "Local"
                      ELSE svc.externalPolicy = "Local"
<1>1. adStore \in DOMAIN AdWorlds /\ adCfg \in AdConfigs
  BY DEF AdInv, AdTypeOK
<1>2. BuildPath(ip, adPolicy) \in adRib
  <2>1. adPending = <<>> /\ adAdvertised = Wanted(adStore)
    BY DEF SeenInv
  <2>2. ip \in adAdvertised
    BY <2>1 DEF Wanted, AdvertisedServiceVips
  <2>3. PICK S \in Held, P \in SUBSET PodPrefixes(adCfg) : adRib = Table(S, P)
    BY DEF AdInv, TableInv
  <2>4. S = adAdvertised
    BY <2>1, <2>3 DEF Held
  <2> QED BY <2>2, <2>3, <2>4 DEF Table
<1>3. /\ IsList(world.services) /\ IsList(adCfg.nodeIps)
      /\ \A x \in Range(world.services) : /\ IsList(x.ports) /\ IsList(ClusterIps(x))
                                           /\ IsList(x.externalIps) /\ IsList(x.lbIps)
  BY <1>1, AdLists DEF ClusterIps
<1>4. Mapped(svc) /\ sp \in Ports(svc)
  BY DEF Mapped, Ports, JudgedAlike, AdvertisedVips, Range
<1> DEFINE entries == MapServices(world, AdNode)
<1>5. /\ IsList(entries)
      /\ Range(entries) = UNION {{EntryOf(world, AdNode, x, p) : p \in Ports(x)} :
                                     x \in {y \in Range(world.services) : Mapped(y)}}
  BY <1>3, MappedEntries
<1>6. e \in Range(entries)
  BY <1>4, <1>5
<1>7. ASSUME NEW x, NEW p
      PROVE  LET n == EntryOf(world, AdNode, x, p)
             IN  /\ n.info.clusterIps = ClusterIps(x) /\ n.info.externalIps = x.externalIps
                 /\ n.info.lbIps = x.lbIps /\ n.info.proto = ParseProtocol(p.proto) /\ n.info.port = p.port
                 /\ n.info.dsr = x.dsr
                 /\ n.info.internalLocal = (x.localAnn \/ x.internalPolicy = "Local")
                 /\ n.info.externalLocal = (x.localAnn \/ x.externalPolicy = "Local")
                 /\ n.eps = EndpointsFor(x, p.name, world.slices, AdNode)
  BY DEF EntryOf, ServiceInfo
<1>8. ASSUME NEW n \in Range(entries)
      PROVE  IsList(n.info.clusterIps) /\ IsList(n.info.externalIps) /\ IsList(n.info.lbIps)
  <2> HIDE DEF world, entries
  <2>1. PICK x \in Range(world.services) : \E p \in Ports(x) : n = EntryOf(world, AdNode, x, p)
    BY <1>5, <1>8
  <2>2. n.info.clusterIps = ClusterIps(x) /\ n.info.externalIps = x.externalIps /\ n.info.lbIps = x.lbIps
    BY <2>1, <1>7
  <2> QED BY <2>2, <1>3
<1>9. \A n \in Range(entries) : IsList(IpvsServices(n, adCfg))
  BY <1>3, <1>8, EntryServices
<1>10. LET all == Insertions(entries, adCfg)
       IN  \A k, j \in DOMAIN all : all[k].key = all[j].key => all[k] = all[j]
  BY <1>1, AdAddresses
<1>11. \A x \in Range(IpvsServices(e, adCfg)) :
           x.key \in DOMAIN Desired(entries, adCfg) /\ Desired(entries, adCfg)[x.key] = x
  <2> HIDE DEF entries, e
  <2> QED BY <1>5, <1>6, <1>9, <1>10, InsertionStays
<1>12. adIpvs = Desired(entries, adCfg)
  BY DEF SeenInv
<1>13. /\ ~adCfg.strict /\ ~svc.localAnn
       /\ \A sl \in SlicesOf(svc, world.slices) :
            \E j \in DOMAIN sl.ports : sl.ports[j].name = sp.name /\ ParseU16(sl.ports[j].port) # NoPort
  BY DEF JudgedAlike
<1>14. /\ \A a \in Range(e.info.clusterIps) : \E x \in Range(IpvsServices(e, adCfg)) :
                x.key = <<a, e.info.proto, e.info.port>> /\ x.dests = Dests(e, e.info.internalLocal)
       /\ ~TakesFwmark(e, adCfg) /\ ~adCfg.strict =>
                \A a \in Range(e.info.externalIps) \cup Range(e.info.lbIps) : \E x \in Range(IpvsServices(e, adCfg)) :
                    x.key = <<a, e.info.proto, e.info.port>> /\ x.dests = Dests(e, e.info.externalLocal)
  <2> HIDE DEF e
  <2> QED BY <1>3, <1>6, <1>8, EntryServices
<1>15. /\ e.info.clusterIps = ClusterIps(svc) /\ e.info.externalIps = svc.externalIps /\ e.info.lbIps = svc.lbIps
       /\ key = <<ip, e.info.proto, e.info.port>> /\ e.info.dsr = svc.dsr
       /\ e.info.internalLocal = (svc.internalPolicy = "Local")
       /\ e.info.externalLocal = (svc.externalPolicy = "Local")
       /\ e.eps = EndpointsFor(svc, sp.name, world.slices, AdNode)
  BY <1>7, <1>13
<1>16. Range(ClusterIps(svc)) \cap (Range(svc.externalIps) \cup Range(svc.lbIps)) = {}
  BY <1>1, AdAddresses
\* Why the address is announced.
<1>17. \/ /\ ip \in Range(ClusterIps(svc))
          /\ svc.internalPolicy = "Local" => HasLocalEndpoints(svc, world.slices)
       \/ /\ ip \in Range(svc.externalIps) \cup Range(svc.lbIps)
          /\ svc.externalPolicy = "Local" => HasLocalEndpoints(svc, world.slices)
  BY <1>13 DEF AdvertisedVips, ShouldAdvertise
<1>18. isLocal => HasLocalEndpoints(svc, world.slices)
  BY <1>16, <1>17
<1>19. HasLocalEndpoints(svc, world.slices) => Dests(e, TRUE) # {}
  BY <1>1, <1>13, <1>15, LocalDests
<1> HIDE DEF e, key, world, entries, sp
<1>20. \E x \in Range(IpvsServices(e, adCfg)) : x.key = key /\ x.dests = Dests(e, isLocal)
  <2>1. CASE ip \in Range(ClusterIps(svc))
    BY <2>1, <1>14, <1>15
  <2>2. CASE ip \notin Range(ClusterIps(svc))
    <3>1. ip \in Range(svc.externalIps) \cup Range(svc.lbIps)
      BY <2>2, <1>17
    <3>2. ~TakesFwmark(e, adCfg)
      BY <2>2, <1>15 DEF TakesFwmark
    <3> QED BY <2>2, <3>1, <3>2, <1>13, <1>14, <1>15
  <2> QED BY <2>1, <2>2
<1>21. key \in DOMAIN adIpvs /\ (isLocal => adIpvs[key].dests # {})
  <2>1. PICK x \in Range(IpvsServices(e, adCfg)) : x.key = key /\ x.dests = Dests(e, isLocal)
    BY <1>20
  <2>2. key \in DOMAIN adIpvs /\ adIpvs[key] = x
    BY <2>1, <1>11, <1>12
  <2> QED BY <2>1, <2>2, <1>18, <1>19
<1> QED BY <1>2, <1>21 DEF key, sp

\* Once the VIP task and the proxy have seen the present stores, every announced VIP has
\* an IPVS service here, with a destination where the Local policy asks for one, whatever
\* calls failed before (svc_vip_wire.rs:45-114, proxy_wire.rs:89-211, sync.rs).
THEOREM AnnouncedIsServed == AdSpec => []AdvertisedIsServed
<1>1. AdInv /\ SeenInv => AdvertisedIsServed
  BY Served DEF AdvertisedIsServed
<1> QED BY AdInvariance, SeenInvariance, <1>1, PTL
=============================================================================
