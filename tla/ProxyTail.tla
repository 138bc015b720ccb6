----------------------------- MODULE ProxyTail -----------------------------
(***************************************************************************)
(* The tail of a pass of the service proxy, after the IPVS services have    *)
(* been programmed (ServiceSync): metrics, DSR, hairpin, masquerade,        *)
(* NodePort health checks and the service firewall, in that order, each     *)
(* ending the pass when it fails.  What they write, except the health check *)
(* servers, belongs to the kernel and survives a restart.                   *)
(***************************************************************************)
EXTENDS SvcModel

CONSTANTS
    PtNode,        \* this node
    PtPrimary,     \* its primary address
    PtLocalIps,    \* addresses of its interfaces, without dummy, kube and docker ones
    PtPodCidrs,    \* its pod CIDRs, as pairs <<family, cidr>>
    PtWorlds,      \* function: name -> contents of the Service and EndpointSlice stores
    PtConfigs,     \* flags of the agent; a restart may change them
    PtHash,        \* function: <<key, increment>> -> mark, the masked FNV-1a hash
    PtMaxInc,      \* MAX_UNIQUE_FWMARK_INC
    PtPackets,     \* destinations <<address, protocol, port>> the firewall is asked about
    PtMaxChanges,  \* bound on changes of the stores
    PtMaxFaults    \* bound on failed commands and restarts

PtFams == <<4, 6>>
FamSet == Range(PtFams)
Mtu == 1500

\* The lists of a Service are finite, as vectors are.
ASSUME PtLists ==
    \A w \in DOMAIN PtWorlds :
        LET services == PtWorlds[w].services
        IN  /\ IsList(services)
            /\ \A svc \in Range(services) : \A list \in {svc.ports, svc.externalIps, svc.lbIps} : IsList(list)
ASSUME PtFlags == \A cfg \in PtConfigs : cfg.permitAll \in BOOLEAN
ASSUME PtIncrements == PtMaxInc \in Nat
ASSUME PtPrimaryAddress == PtPrimary[1] \in FamSet
ASSUME PtDestinations == \A dst \in PtPackets : dst[1][1] \in FamSet

\* The elements of a set in some order.
InOrder(S) == FoldSet(LAMBDA x, seq : Append(seq, x), <<>>, S)

----------------------------------------------------------------------------
\* MSS for replies of a VIP: room for two IP headers and one TCP header.
TcpMss(fam) == Mtu - (2 * (IF fam = 6 THEN 40 ELSE 20) + 20)

\* Mutant: the hash alone.
AssignHash(registry, key) == PtHash[<<key, 0>>]

\* The first increment whose mark is free or the key's own; -1 when all are taken.
AssignMark(registry, key) ==
    LET free == {i \in 0..PtMaxInc - 1 : PtHash[<<key, i>>] \notin DOMAIN registry
                                         \/ registry[PtHash[<<key, i>>]] = key}
    IN  IF free = {} THEN -1 ELSE PtHash[<<key, CHOOSE i \in free : \A j \in free : i <= j>>]

\* Source NAT of a pod that reaches itself through its own service.
HairpinRules(entries, global, fam) ==
    UNION {LET info == entries[i].info
               vips == {ip \in Range(info.clusterIps)
                                \cup (IF info.hairpinExternal THEN Range(info.externalIps) ELSE {}) : ip[1] = fam}
           IN  IF global \/ info.hairpin
               THEN {[pod |-> e.ip, vip |-> ip, port |-> info.port] :
                        e \in {x \in entries[i].eps : x.local /\ x.ready /\ x.ip[1] = fam}, ip \in vips}
               ELSE {}
           : i \in DOMAIN entries}

\* Source NAT of IPVS traffic: all of it, or what is not between pods of a CIDR.
MasqueradeRule(cidr) == [to |-> PtPrimary, except |-> cidr]
All == <<0, 0>>

\* Ready local endpoints for each health check port, summed over Service ports.
ActiveLocalCounts(entries) ==
    LET of(port) == {i \in DOMAIN entries : entries[i].info.hcPort = port}
        active(i) == {e \in entries[i].eps : e.local /\ e.ready}
    IN  [port \in {entries[i].info.hcPort : i \in DOMAIN entries} \ {NoPort} |->
            FoldLeft(LAMBDA n, i : n + Cardinality(active(i)), 0, InOrder(of(port)))]

\* The chain of the firewall, for traffic to a service address.
FirewallRules == <<"icmp", "accept-service", "reject-other">>

\* What all_local_ips returns: the addresses, or none when they cannot be listed.
AllLocalIps == {PtLocalIps, {}}

\* What `ipset restore` makes of the sets of one family: the local addresses, and
\* each service in both of its sets.
SetsOf(local, keys) == [local |-> local, ips |-> {k[1] : k \in keys}, ports |-> keys]
OfFamily(addrs, fam) == {ip \in addrs : ip[1] = fam}
KeysOfFamily(applied, fam) == {k \in DOMAIN applied : k[1][1] = fam}

\* Mutant: the addresses of the dummy interface count as local.
FilledWithDummy(local, applied, fam) ==
    SetsOf(OfFamily(local, fam) \cup {k[1] : k \in KeysOfFamily(applied, fam)}, KeysOfFamily(applied, fam))

\* The sets once all of the lines have been read.
FilledSets(local, applied, fam) == SetsOf(OfFamily(local, fam), KeysOfFamily(applied, fam))
NoSets == [local |-> {}, ips |-> {}, ports |-> {}]

\* What has been added of a set, in some order, when a line fails.
Progress(S) == {Range(SubSeq(InOrder(S), 1, n)) : n \in 0..Cardinality(S)}

\* The sets when a line fails: they are flushed one by one, then filled in turn,
\* with the address of a service before its port.
HalfFilled(old, full) ==
    {old, [old EXCEPT !.local = {}], [NoSets EXCEPT !.ports = old.ports]}
    \cup {[NoSets EXCEPT !.local = done] : done \in Progress(full.local)}
    \cup {[local |-> full.local, ips |-> {k[1] : k \in pair[1]}, ports |-> pair[2]] :
             pair \in {p \in Progress(full.ports) \X Progress(full.ports) :
                         p[2] # full.ports /\ p[2] \subseteq p[1] /\ Cardinality(p[1] \ p[2]) <= 1}}

----------------------------------------------------------------------------
VARIABLES
    ptCfg, ptStore,
    ptTodo,       \* stages of the running pass, <<>> between passes
    ptApplied,    \* self.applied
    ptRead,       \* what sync_hairpin has read
    ptRegistry,   \* FwMarkRegistry
    ptHc,         \* health checks: running servers and published counts
    ptSetupDone,  \* firewall_setup_done
    ptMarks,      \* kernel: destinations of each FWMARK service
    ptMangle,     \* kernel: the set of MARK and TCPMSS rules
    ptNat,        \* kernel: hairpin and masquerade rules of each family
    ptSets,       \* kernel: firewall sets of each family
    ptChain,      \* kernel: firewall chain and INPUT jump of each family
    ptFilled,     \* what the sets of each family were last filled from, and whether that worked
    ptInherited,  \* the kernel holds DSR rules of an earlier process
    ptSteady,     \* the stores have not changed since the pass began
    ptRefused,    \* nat commands whose last refusal by iptables was ignored, as <<stage, family>>
    ptChanges, ptFaults

ptMemory == <<ptApplied, ptRead, ptRegistry, ptHc, ptSetupDone>>
ptKernel == <<ptMarks, ptMangle, ptNat, ptSets, ptChain>>
ptGhost == <<ptFilled, ptInherited, ptSteady, ptRefused>>
ptVars == <<ptCfg, ptStore, ptTodo, ptMemory, ptKernel, ptGhost, ptChanges, ptFaults>>

EntriesAt == [w \in DOMAIN PtWorlds |-> MapServices(PtWorlds[w], PtNode)]
CountsAt == [w \in DOMAIN PtWorlds |-> ActiveLocalCounts(EntriesAt[w])]
NoHc == [servers |-> {}, counts |-> << >>]
Unfilled == [ok |-> TRUE, applied |-> << >>, local |-> {}]

PtInit ==
    /\ ptCfg \in PtConfigs /\ ptStore \in DOMAIN PtWorlds
    /\ ptTodo = <<>> /\ ptApplied = << >> /\ ptRead = <<>> /\ ptRegistry = << >>
    /\ ptHc = NoHc /\ ptSetupDone = FALSE
    /\ ptMarks = << >> /\ ptMangle = {}
    /\ ptNat = [f \in FamSet |-> [jump |-> FALSE, hairpin |-> {}, masquerade |-> {}]]
    /\ ptSets = [f \in FamSet |-> NoSets] /\ ptChain = [f \in FamSet |-> [rules |-> <<>>, jump |-> FALSE]]
    /\ ptFilled = [f \in FamSet |-> Unfilled]
    /\ ptInherited = FALSE /\ ptSteady = FALSE /\ ptRefused = {}
    /\ ptChanges = 0 /\ ptFaults = 0

PtStoreChange ==
    /\ ptChanges < PtMaxChanges /\ ptChanges' = ptChanges + 1
    /\ ptStore' \in DOMAIN PtWorlds \ {ptStore}
    /\ ptSteady' = FALSE
    /\ UNCHANGED <<ptCfg, ptTodo, ptMemory, ptKernel, ptFilled, ptInherited, ptRefused, ptFaults>>

Stage(op, fam) == [op |-> op, fam |-> fam]
DsrStage(op, ip, job) ==
    [op |-> op, fam |-> ip[1], key |-> <<ip, job.proto, job.port>>,
     dests |-> {[ip |-> e.ip, port |-> e.port] : e \in {x \in job.eps : x.ready}}]

\* process_dsr_jobs: for each job and each family the marks of its VIPs, then the
\* MSS of their replies.
DsrStages(jobs) ==
    LET all(op, job, fam) == LET vips == Filter(job.vips, LAMBDA ip : ip[1] = fam)
                             IN  [i \in DOMAIN vips |-> DsrStage(op, vips[i], job)]
        both(job, fam) == all("mark", job, fam) \o all("tcpmss", job, fam)
    IN  FlattenSeq([i \in DOMAIN jobs |-> both(jobs[i], PtFams[1]) \o both(jobs[i], PtFams[2])])

\* The stages of a pass over a world.  Masquerading is for the family of the
\* primary address only, and the chain is set up once per process, after all of
\* the sets have been filled.
PtStages(world) ==
    LET each(op) == [i \in DOMAIN PtFams |-> Stage(op, PtFams[i])]
    IN  <<Stage("metrics", 0)>> \o DsrStages(DsrJobs(EntriesAt[world], ptCfg))
        \o each("hairpin") \o <<Stage("masquerade", PtPrimary[1]), Stage("health", 0)>>
        \o each("sets") \o (IF ptSetupDone THEN <<>> ELSE each("chain"))

\* A pass has programmed IPVS and begins its tail.
PtPass ==
    /\ ptTodo = <<>>
    /\ ptApplied' = Desired(EntriesAt[ptStore], ptCfg)
    /\ ptTodo' = PtStages(ptStore)
    /\ ptSteady' = TRUE
    /\ UNCHANGED <<ptCfg, ptStore, ptRead, ptRegistry, ptHc, ptSetupDone, ptKernel, ptFilled, ptInherited, ptRefused,
                   ptChanges, ptFaults>>

At(op) == ptTodo # <<>> /\ Head(ptTodo).op = op
Fam == Head(ptTodo).fam

\* A stage ends well, perhaps although a command has failed, or with an error that
\* also ends the pass.
PtOutcome(ok, fault) ==
    /\ fault => ptFaults < PtMaxFaults
    /\ ptFaults' = IF fault THEN ptFaults + 1 ELSE ptFaults
    /\ ptTodo' = IF ok THEN Tail(ptTodo) ELSE <<>>
PtResult(ok) == PtOutcome(ok, ~ok)

\* update_metrics reads the kernel's statistics; the gauges are not modelled.
PtMetrics ==
    /\ At("metrics") /\ \E ok \in BOOLEAN : PtResult(ok)
    /\ UNCHANGED <<ptCfg, ptStore, ptMemory, ptKernel, ptGhost, ptChanges>>

MapTo(f, k, v) == [x \in DOMAIN f \cup {k} |-> IF x = k THEN v ELSE f[x]]
At0(f, k) == IF k \in DOMAIN f THEN f[k] ELSE {}
MangleRule(chain, key, set) == [chain |-> chain, key |-> key, set |-> set]

\* One VIP of configure_dsr_host: its mark, the FWMARK service with the ready
\* endpoints, and the MARK rules, up to the command that fails.  There may be no
\* mark left, whatever the kernel does.
PtMark ==
    /\ At("mark")
    /\ LET key == Head(ptTodo).key
           dests == Head(ptTodo).dests
           mark == AssignMark(ptRegistry, key)
           rules == {MangleRule(chain, key, mark) : chain \in {"PREROUTING", "OUTPUT"}}
           adds(some, marking) == /\ ptMarks' = MapTo(ptMarks, mark, At0(ptMarks, mark) \cup some)
                                  /\ ptMangle' = ptMangle \cup marking
       IN  \/ /\ mark = -1 /\ ptTodo' = <<>>
              /\ UNCHANGED <<ptRegistry, ptMarks, ptMangle, ptFaults>>
           \/ /\ mark # -1 /\ ptRegistry' = MapTo(ptRegistry, mark, key)
              /\ \/ PtResult(TRUE) /\ adds(dests, rules)
                 \/ PtResult(FALSE) /\ UNCHANGED <<ptMarks, ptMangle>>
                 \/ PtResult(FALSE) /\ \E some \in SUBSET dests : adds(some, {})
                 \/ PtResult(FALSE) /\ adds(dests, {MangleRule("PREROUTING", key, mark)})
    /\ UNCHANGED <<ptCfg, ptStore, ptApplied, ptRead, ptHc, ptSetupDone, ptNat, ptSets, ptChain,
                   ptGhost, ptChanges>>

\* ensure_tcpmss for one VIP.
PtTcpMss ==
    /\ At("tcpmss")
    /\ \E ok \in BOOLEAN :
          /\ PtResult(ok)
          /\ ptMangle' = IF ok THEN ptMangle \cup {MangleRule("tcpmss", Head(ptTodo).key, TcpMss(Fam))} ELSE ptMangle
    /\ UNCHANGED <<ptCfg, ptStore, ptMemory, ptMarks, ptNat, ptSets, ptChain, ptGhost, ptChanges>>

\* Mutant: the chain is not flushed.
FlushedNever(old, refused) == old

\* flush_chain does not look at the exit status of iptables.
Flushed(old, refused) == IF refused THEN old ELSE {}

Refusal(op, refused) == IF refused THEN ptRefused \cup {<<op, Fam>>} ELSE ptRefused \ {<<op, Fam>>}

\* The services are read again, once for both families.
HairpinWorld == IF Fam = PtFams[1] THEN ptStore ELSE ptRead[1]

\* The jump is put in, then the chain is flushed and filled rule by rule; an error
\* before the flush leaves it alone.
PtHairpin ==
    /\ At("hairpin")
    /\ LET world == HairpinWorld
           rules == HairpinRules(EntriesAt[world], ptCfg.hairpin, Fam)
       IN  /\ ptRead' = <<world>>
           /\ \/ /\ PtResult(FALSE) /\ UNCHANGED ptRefused
                 /\ \E jump \in {ptNat[Fam].jump, TRUE} : ptNat' = [ptNat EXCEPT ![Fam].jump = jump]
              \/ \E done \in SUBSET rules, ok, refused \in BOOLEAN :
                    /\ PtOutcome(ok, ~ok \/ refused) /\ (ok => done = rules)
                    /\ ptNat' = [ptNat EXCEPT ![Fam].jump = TRUE, ![Fam].hairpin = Flushed(@, refused) \cup done]
                    /\ ptRefused' = Refusal("hairpin", refused)
    /\ UNCHANGED <<ptCfg, ptStore, ptApplied, ptRegistry, ptHc, ptSetupDone, ptMarks, ptMangle, ptSets, ptChain,
                   ptFilled, ptInherited, ptSteady, ptChanges>>

\* Rules for CIDRs that are no longer the node's stay.
Masqueraded(rules, all, cidrs) ==
    (IF all THEN rules \cup {MasqueradeRule(All)} ELSE rules \ {MasqueradeRule(All)}) \cup cidrs

\* delete does not look at the exit status either: a rule that is there may stay.
PtMasquerade ==
    /\ At("masquerade")
    /\ LET cidrs == {MasqueradeRule(c) : c \in {x \in PtPodCidrs : x[1] = Fam}}
       IN  \E ok, began, refused \in BOOLEAN, done \in SUBSET cidrs :
              /\ PtOutcome(ok, ~ok \/ refused)
              /\ (ok => done = cidrs) /\ (ok \/ refused \/ done # {} => began)
              /\ refused => ~ptCfg.masqueradeAll /\ MasqueradeRule(All) \in ptNat[Fam].masquerade
              /\ ptNat' = [ptNat EXCEPT ![Fam].masquerade =
                              IF began THEN Masqueraded(@, ptCfg.masqueradeAll \/ refused, done) ELSE @]
              /\ ptRefused' = IF began THEN Refusal("masquerade", refused) ELSE ptRefused
    /\ UNCHANGED <<ptCfg, ptStore, ptMemory, ptMarks, ptMangle, ptSets, ptChain, ptFilled, ptInherited, ptSteady, ptChanges>>

\* The counts are published, servers of ports that are gone are stopped and missing
\* ones started; a port that cannot be bound ends the pass.
PtHealth ==
    /\ At("health")
    /\ LET counts == CountsAt[ptStore]
           kept == ptHc.servers \cap DOMAIN counts
       IN  \E bound \in SUBSET (DOMAIN counts \ kept) :
              /\ PtResult(kept \cup bound = DOMAIN counts)
              /\ ptHc' = [servers |-> kept \cup bound, counts |-> counts]
    /\ UNCHANGED <<ptCfg, ptStore, ptApplied, ptRead, ptRegistry, ptSetupDone, ptKernel, ptGhost, ptChanges>>

\* The local addresses are listed once for both families; `ipset restore` then runs
\* up to the line that fails.
PtFirewallSets ==
    /\ At("sets")
    /\ \E local \in IF Fam = PtFams[1] THEN AllLocalIps ELSE {ptFilled[PtFams[1]].local}, ok \in BOOLEAN :
          LET full == FilledSets(local, ptApplied, Fam)
          IN  /\ PtOutcome(ok, ~ok \/ (Fam = PtFams[1] /\ local = {}))
              /\ \E sets \in IF ok THEN {full} ELSE HalfFilled(ptSets[Fam], full) :
                    ptSets' = [ptSets EXCEPT ![Fam] = sets]
              /\ ptFilled' = [ptFilled EXCEPT ![Fam] = [ok |-> ok, applied |-> ptApplied, local |-> local]]
    /\ UNCHANGED <<ptCfg, ptStore, ptMemory, ptMarks, ptMangle, ptNat, ptChain, ptInherited, ptSteady, ptRefused, ptChanges>>

FirstOf(s, k) == SubSeq(s, 1, IF k > Len(s) THEN Len(s) ELSE k)

\* Mutant: the jump goes in before the rules, the rejecting rule first.
RejectFirst(k) ==
    [rules |-> FirstOf(<<"reject-other", "icmp", "accept-service">>, k), jump |-> k > 0]

\* The chain after k rules: the jump is the last command.
Building(k) == [rules |-> FirstOf(FirewallRules, k), jump |-> k > Len(FirewallRules)]

\* The chain is cleared; permit-all takes the jump away, else the rules and then
\* the jump are put in.  A jump that was there stays.  Not cleared: k is -1.
PtFirewallChain ==
    /\ At("chain")
    /\ \E ok \in BOOLEAN, k \in -1..Len(FirewallRules) + 1 :
          /\ ok => k = IF ptCfg.permitAll THEN 0 ELSE Len(FirewallRules) + 1
          /\ ~ok => k <= IF ptCfg.permitAll THEN 0 ELSE Len(FirewallRules)
          /\ PtResult(ok)
          /\ LET jump == (Building(k).jump \/ ptChain[Fam].jump) /\ ~(ok /\ ptCfg.permitAll)
             IN  ptChain' = IF k = -1 THEN ptChain
                            ELSE [ptChain EXCEPT ![Fam] = [rules |-> Building(k).rules, jump |-> jump]]
          /\ ptSetupDone' = (ok /\ Len(ptTodo) = 1)
    /\ UNCHANGED <<ptCfg, ptStore, ptApplied, ptRead, ptRegistry, ptHc, ptMarks, ptMangle, ptNat, ptSets,
                   ptGhost, ptChanges>>

\* The agent is started again, perhaps with other flags.
PtRestart ==
    /\ ptFaults < PtMaxFaults /\ ptFaults' = ptFaults + 1
    /\ ptCfg' \in PtConfigs
    /\ ptTodo' = <<>> /\ ptApplied' = << >> /\ ptRead' = <<>> /\ ptRegistry' = << >>
    /\ ptHc' = NoHc /\ ptSetupDone' = FALSE
    /\ ptInherited' = (ptInherited \/ ptMangle # {} \/ ptMarks # << >>)
    /\ ptSteady' = FALSE
    /\ UNCHANGED <<ptStore, ptKernel, ptFilled, ptRefused, ptChanges>>

PtNext ==
    \/ PtStoreChange \/ PtPass \/ PtMetrics \/ PtMark \/ PtTcpMss \/ PtHairpin \/ PtMasquerade \/ PtHealth
    \/ PtFirewallSets \/ PtFirewallChain \/ PtRestart
PtSpec == PtInit /\ [][PtNext]_ptVars

----------------------------------------------------------------------------
\* What netfilter does with a packet to a destination on this node.
Rejected(dst) ==
    LET fam == dst[1][1]
        sets == ptSets[fam]
        passes == {i \in DOMAIN ptChain[fam].rules :
                      \/ ptChain[fam].rules[i] = "accept-service" /\ dst \in sets.ports
                      \/ ptChain[fam].rules[i] = "reject-other" /\ dst[1] \notin sets.local}
        first == CHOOSE i \in passes : \A j \in passes : i <= j
    IN  /\ ptChain[fam].jump /\ dst[1] \in sets.ips
        /\ passes # {} /\ ptChain[fam].rules[first] = "reject-other"

\* The firewall (firewall.rs:215-235, set up and refreshed by sync.rs:566-599)
\* fails open: whatever failed while the chain was built, rebuilt or taken away, by this
\* process or an earlier one, a packet to a service that the sets were filled from is
\* not rejected, nor is any packet to the node's own addresses if those could be
\* listed.  Left out: sets that `ipset restore` has filled in part.
FirewallFailsOpen ==
    \A dst \in PtPackets : ptFilled[dst[1][1]].ok /\ Rejected(dst) =>
        LET from == ptFilled[dst[1][1]]
        IN  dst \notin DOMAIN from.applied /\ dst[1] \notin from.local

\* Once set up it also closes: a packet to a service address on a port that no
\* service has is rejected, unless all is permitted.
FirewallCloses ==
    ptSetupDone => \A dst \in PtPackets :
        LET from == ptFilled[dst[1][1]]
            stray == dst[1] \in {k[1] : k \in DOMAIN from.applied} /\ dst \notin DOMAIN from.applied
        IN  from.ok /\ stray /\ dst[1] \notin from.local => (Rejected(dst) <=> ~ptCfg.permitAll)

\* The endpoints a DSR service has in some world.
AllEntries == UNION {Range(EntriesAt[w]) : w \in DOMAIN PtWorlds}
VipKeys(x) == {<<ip, x.info.proto, x.info.port>> : ip \in Range(x.info.externalIps \o x.info.lbIps)}
EndpointsOf ==
    [key \in UNION {VipKeys(x) : x \in AllEntries} |->
        UNION {{[ip |-> e.ip, port |-> e.port] : e \in x.eps} : x \in {y \in AllEntries : key \in VipKeys(y)}}]

\* FWMARKs (dsr.rs:101-120) keep DSR services apart although their hashes collide:
\* traffic to a VIP is marked for a FWMARK service with endpoints of that VIP alone.
\* This is for one process: the next one starts with an empty registry, while the
\* kernel keeps the rules and the destinations.
DsrSeparate ==
    ~ptInherited => \A r, s \in {x \in ptMangle : x.chain # "tcpmss"} :
        /\ r.set = s.set => r.key = s.key
        /\ ptMarks[r.set] \subseteq EndpointsOf[r.key]

\* A pod on this node that may call itself through an address of its Service.
Calls(x, pod, vip, fam) ==
    /\ ptCfg.hairpin \/ x.info.hairpin
    /\ vip[1] = fam /\ vip \in Range(x.info.clusterIps)
                              \cup (IF x.info.hairpinExternal THEN Range(x.info.externalIps) ELSE {})
    /\ \E e \in x.eps : e.local /\ e.ready /\ e.ip = pod /\ pod[1] = fam

\* Each such call is source-NATed, and no rule is left of another Service, pod or flag,
\* unless iptables has refused to flush the chain.
HairpinFollows(fam) ==
    LET entries == Range(EntriesAt[ptStore])
        rules == ptNat[fam].hairpin
    IN  /\ ptNat[fam].jump
        /\ \A x \in entries : \A e \in x.eps : \A vip \in Range(x.info.clusterIps \o x.info.externalIps) :
              Calls(x, e.ip, vip, fam) => [pod |-> e.ip, vip |-> vip, port |-> x.info.port] \in rules
        /\ <<"hairpin", fam>> \notin ptRefused =>
              \A rule \in rules : \E x \in entries : x.info.port = rule.port /\ Calls(x, rule.pod, rule.vip, fam)

\* Traffic of IPVS is source-NATed outside of the pod CIDRs, and everywhere as the
\* flag of this process says.
MasqueradeFollows(fam) ==
    /\ \A cidr \in PtPodCidrs : cidr[1] = fam => MasqueradeRule(cidr) \in ptNat[fam].masquerade
    /\ <<"masquerade", fam>> \notin ptRefused =>
          (MasqueradeRule(All) \in ptNat[fam].masquerade <=> ptCfg.masqueradeAll)

\* Every health check port of a Service is served, with the present count.
HealthFollows == ptHc.servers = DOMAIN CountsAt[ptStore] /\ ptHc.counts = CountsAt[ptStore]

\* The running pass has no stage of this kind left.
Past(op) == ptTodo # <<>> /\ \A i \in DOMAIN ptTodo : ptTodo[i].op # op

\* The tail of a pass reads the stores again, for the nat table and for the health
\* checks (sync.rs:620-648), and its stages end well although iptables refuses a command
\* (hairpin.rs:190-200).  Whatever earlier passes, that failed anywhere or ran with other
\* flags, have left, and whatever is refused, a pass during which the stores stay as they
\* are leaves nat rules of both families and health checks that agree with them.
TailFollows ==
    ptSteady => /\ Past("hairpin") => \A fam \in FamSet : HairpinFollows(fam)
                /\ Past("masquerade") => MasqueradeFollows(PtPrimary[1])
                /\ Past("health") => HealthFollows
============================================================================
