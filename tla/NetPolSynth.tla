---------------------------- MODULE NetPolSynth ----------------------------
(***************************************************************************)
(* What the network policy controller derives from NetworkPolicies, pods   *)
(* and namespaces: the ipsets and the filter-table chains of one IP family *)
(* (netpol/src/synth.rs, translate.rs, model.rs, naming.rs), from objects   *)
(* as the API server stores them (kube-router-rs/src/netpol_wire.rs).       *)
(*                                                                         *)
(* An optional value is a sequence of at most one element.  An address is  *)
(* <<family, number>>, a CIDR [fam, ips] the set of its addresses, a name  *)
(* or namespace a sequence of letters, because chain and set names are     *)
(* hashes of their concatenation.                                          *)
(***************************************************************************)
EXTENDS FiniteSetsExt, Lists

CONSTANTS
    ThisNode,       \* name of the node the controller runs on
    NodeIps,        \* addresses of its interfaces (addrtype LOCAL)
    PodCidr,        \* its pod CIDRs: set of addresses
    ServiceRange,   \* --service-cluster-ip-range: set of addresses
    NodePortArg     \* --service-node-port-range: <<lo, hi>>

Family == {4, 6}

----------------------------------------------------------------------------
(* Objects of the API server to the projected model *)

\* An operator the projection does not know makes the selector match nothing.
Requirement(e, labels) ==
    LET present == e.key \in DOMAIN labels
    IN  \/ e.op = "In" /\ present /\ labels[e.key] \in e.values
        \/ e.op = "NotIn" /\ (present => labels[e.key] \notin e.values)
        \/ e.op = "Exists" /\ present
        \/ e.op = "DoesNotExist" /\ ~present

SelectorMatches(sel, labels) ==
    /\ \A k \in DOMAIN sel.labels : k \in DOMAIN labels /\ labels[k] = sel.labels[k]
    /\ \A i \in DOMAIN sel.exprs : Requirement(sel.exprs[i], labels)

\* A peer whose ipBlock does not parse is dropped; exceptions that do not are too.
MapPeers(peers) ==
    LET parsed(p) == p.kind = "block" => p.cidr.ok
        exceptions(p) == IF p.kind = "block"
                         THEN [p EXCEPT !.except = Filter(@, LAMBDA c : c.ok)] ELSE p
    IN  MapSeq(Filter(peers, parsed), exceptions)

\* No port is every port of the protocol, as is a number outside 16 bits; a
\* missing protocol is tcp.
MapPorts(ports) ==
    LET one(p) == [proto |-> IF p.proto = "" THEN "tcp" ELSE p.proto,
                   ref |-> IF p.port.kind = "number" /\ p.port.v > 65535
                           THEN [kind |-> "all"] ELSE p.port]
    IN  MapSeq(ports, one)

MapPolicy(np) ==
    LET rule(r) == [peers |-> MapPeers(r.peers), ports |-> MapPorts(r.ports)]
    IN  [ns |-> np.ns, name |-> np.name, podSel |-> np.podSel,
         ingress |-> "Ingress" \in np.types \/ np.types = {},
         egress |-> "Egress" \in np.types \/ (np.types = {} /\ np.egress # <<>>),
         rules |-> [Ingress |-> MapSeq(np.ingress, rule), Egress |-> MapSeq(np.egress, rule)]]

\* Pods keep their status addresses whatever their phase.
MapPod(p) ==
    [ns |-> p.ns, name |-> p.name, labels |-> p.labels, ips |-> p.ips, node |-> p.node, hostNet |-> p.hostNet,
     ports |-> MapSeq(p.ports, LAMBDA c : [c EXCEPT !.proto = IF @ = "" THEN "tcp" ELSE @])]

\* The snapshot of the three stores.
Snapshot(w) == [policies |-> MapSeq(w.policies, MapPolicy), pods |-> MapSeq(w.pods, MapPod),
                namespaces |-> w.namespaces]

----------------------------------------------------------------------------
(* Selection and peers *)

PolicySelects(pol, pod) == pod.ns = pol.ns /\ SelectorMatches(pol.podSel, pod.labels)

PodFamilyIps(pod, f) == Filter(pod.ips, LAMBDA ip : ip[1] = f)

MatchedNamespaces(sel, w, ns) ==
    IF sel = <<>> THEN {ns}
    ELSE {n.name : n \in {m \in Range(w.namespaces) : SelectorMatches(sel[1], m.labels)}}

\* The pods a selector peer stands for; pods on the host network never.
SelectedPeers(peer, w, ns) ==
    {p \in Range(w.pods) :
        /\ p.ns \in MatchedNamespaces(peer.nsSel, w, ns)
        /\ ~p.hostNet
        /\ \A i \in DOMAIN peer.podSel : SelectorMatches(peer.podSel[i], p.labels)}

\* Pod addresses for a hash:ip set, blocks and exceptions for a hash:net set.
ResolvePeers(peers, w, ns, f) ==
    LET nets(peer) ==
            IF peer.kind # "block" \/ peer.cidr.fam # f THEN <<>>
            ELSE <<[cidr |-> peer.cidr, nomatch |-> FALSE]>>
                 \o MapSeq(peer.except, LAMBDA c : [cidr |-> c, nomatch |-> TRUE])
        pods == UNION {SelectedPeers(p, w, ns) : p \in {q \in Range(peers) : q.kind = "sel"}}
    IN  [matchAll |-> peers = <<>>,
         ips |-> UNION {Range(PodFamilyIps(p, f)) : p \in pods},
         nets |-> FlattenSeq(MapSeq(peers, nets))]

----------------------------------------------------------------------------
(* Names: a prefix, and the hash of a concatenation, taken to be injective *)

Key(pol) == pol.ns \o pol.name
NetworkPolicyChain(pol) == <<"NWPLCY", Key(pol)>>
PodFirewallChain(pod) == <<"POD-FW", pod.ns \o pod.name>>
DstSet(pol, f) == <<"DST", Key(pol), f>>
SrcSet(pol, f) == <<"SRC", Key(pol), f>>
SetPrefix(dir) == IF dir = "Ingress" THEN "SRC" ELSE "DST"
IndexedPodSet(pol, dir, i, f) == <<SetPrefix(dir), Key(pol), dir, i, f, "pod">>
IndexedBlockSet(pol, dir, i, f) == <<SetPrefix(dir), Key(pol), dir, i, f, "ipblock">>
IndexedNamedPortSet(pol, dir, i, ep, f) == <<"DST", Key(pol), dir, i, ep, f, "namedport">>
LocalPodsSet(f) == <<"local-pods", f>>

Input == <<"INPUT">>
Forward == <<"FORWARD">>
Output == <<"OUTPUT">>
Common == <<"COMMON">>
Default == <<"DEFAULT">>
TailChain == <<"TAIL">>

----------------------------------------------------------------------------
(* Rules: [chain, conds, target].  A condition is a record with a field k. *)

R(chain, conds, target) == [chain |-> chain, conds |-> conds, target |-> target]
Jump(c) == [k |-> "jump", chain |-> c]
Do(v) == [k |-> v]
MatchSet(n, side) == <<[k |-> "set", set |-> n, side |-> side, in |-> TRUE]>>
NotInSet(n, side) == <<[k |-> "set", set |-> n, side |-> side, in |-> FALSE]>>
Is(side, ips) == <<[k |-> "addr", side |-> side, ips |-> ips]>>
Proto(p) == <<[k |-> "proto", v |-> p]>>
Dports(ps) == <<[k |-> "dports", v |-> ps]>>
Marked(v) == <<[k |-> "matched", v |-> v]>>
IpSet(n, type, entries) == <<[name |-> n, type |-> type, entries |-> entries]>>

Plan(sets, chains, rules) == [sets |-> sets, chains |-> chains, rules |-> rules]
Joined(plans) ==
    Plan(FlattenSeq(MapSeq(plans, LAMBDA p : p.sets)),
         UNION {p.chains : p \in Range(plans)},
         FlattenSeq(MapSeq(plans, LAMBDA p : p.rules)))

\* INVALID packets are dropped, answers and the permitted ICMP kinds accepted.
CommonRules ==
    <<R(Common, <<[k |-> "ct", v |-> {"invalid"}]>>, Do("DROP")),
      R(Common, <<[k |-> "ct", v |-> {"est"}]>>, Do("ACCEPT")),
      R(Common, Proto("icmp"), Do("ACCEPT")),
      R(Default, <<>>, Do("MATCHED"))>>

\* A range of a single port is refused, like one written backwards.
ValidateNodePortRange(arg) == IF arg[1] >= arg[2] THEN <<>> ELSE <<arg[1]..arg[2]>>

\* Service traffic leaves the INPUT chain before IPVS has chosen a backend.
ServiceReturns(f) ==
    LET range == {ip \in ServiceRange : ip[1] = f}
        ports == ValidateNodePortRange(NodePortArg)
        nodePort(proto) == R(Input, Proto(proto) \o <<[k |-> "dstLocal"]>> \o Dports(ports[1]),
                             Do("RETURN"))
    IN  (IF range = {} THEN <<>> ELSE <<R(Input, Is("dst", range), Do("RETURN"))>>)
        \o (IF ports = <<>> THEN <<>> ELSE MapSeq(<<"tcp", "udp", "sctp">>, nodePort))

\* MARK and RETURN: an ACCEPT would skip the chain of the other pod.
PushPolicyVerdict(chain, conds) ==
    <<R(chain, conds, Do("MATCHED")), R(chain, conds \o Marked(TRUE), Do("RETURN"))>>

\* The pods on which a named port is looked up: those that receive the traffic.
Receivers(pol, dir, resolved, w, f) ==
    Filter(w.pods, LAMBDA p :
        CASE dir = "Ingress" -> PolicySelects(pol, p)
          [] dir = "Egress" /\ resolved.matchAll -> p.ns = pol.ns
          [] OTHER -> \E ip \in Range(PodFamilyIps(p, f)) : ip \in resolved.ips)

\* One group per number that the name has on the receivers, in ascending order.
PortGroups(port, receivers, f) ==
    LET exposes(p, n) == \E i \in DOMAIN p.ports : /\ p.ports[i].name = port.ref.v
                                                   /\ p.ports[i].proto = port.proto
                                                   /\ p.ports[i].port = n
        numbers == {n \in UNION {{q.port : q \in Range(p.ports)} : p \in Range(receivers)} :
                        \E p \in Range(receivers) : exposes(p, n)}
        ips(n) == UNION {Range(PodFamilyIps(p, f)) :
                            p \in {q \in Range(receivers) : exposes(q, n)}}
        nth(k) == CHOOSE n \in numbers : Cardinality({m \in numbers : m < n}) = k - 1
    IN  [k \in 1..Cardinality(numbers) |-> [port |-> nth(k), ips |-> ips(nth(k))]]

\* The rules of one named port: a set of receivers per group, always on dst.
\* The name of that set carries the position of the group, not of the port.
NamedPortPlan(pol, dir, i, port, receivers, peerMatch, target, f) ==
    LET groups == PortGroups(port, receivers, f)
        setOf(ep) == IndexedNamedPortSet(pol, dir, i, ep, f)
        other == IF dir = "Ingress" THEN peerMatch ELSE target
    IN  Plan(FlattenSeq([ep \in DOMAIN groups |-> IpSet(setOf(ep), "ip", groups[ep].ips)]), {},
             FlattenSeq([ep \in DOMAIN groups |->
                PushPolicyVerdict(NetworkPolicyChain(pol),
                    other \o MatchSet(setOf(ep), "dst") \o Proto(port.proto)
                          \o Dports({groups[ep].port}))]))

\* What a rule matches of its peers, and the sets that this takes.
PeerSide(dir) == IF dir = "Ingress" THEN "src" ELSE "dst"

PeerMatches(pol, dir, i, resolved, f) ==
    IF resolved.matchAll THEN <<<<>>>>
    ELSE (IF resolved.ips = {} THEN <<>> ELSE <<MatchSet(IndexedPodSet(pol, dir, i, f), PeerSide(dir))>>)
         \o (IF resolved.nets = <<>> THEN <<>> ELSE <<MatchSet(IndexedBlockSet(pol, dir, i, f), PeerSide(dir))>>)

PeerSets(pol, dir, i, resolved, f) ==
    IF resolved.matchAll THEN <<>>
    ELSE (IF resolved.ips = {} THEN <<>> ELSE IpSet(IndexedPodSet(pol, dir, i, f), "ip", resolved.ips))
         \o (IF resolved.nets = <<>> THEN <<>> ELSE IpSet(IndexedBlockSet(pol, dir, i, f), "net", resolved.nets))

\* The rules for one port, and for all ports, of what is matched of the peers.
Verdict(pol, conds) == Plan(<<>>, {}, PushPolicyVerdict(NetworkPolicyChain(pol), conds))

OnPort(pol, dir, i, port, receivers, peerMatch, target, f) ==
    CASE port.ref.kind = "all" -> Verdict(pol, peerMatch \o target \o Proto(port.proto))
      [] port.ref.kind = "number" ->
            Verdict(pol, peerMatch \o target \o Proto(port.proto) \o Dports({port.ref.v}))
      [] OTHER -> NamedPortPlan(pol, dir, i, port, receivers, peerMatch, target, f)

OnPeer(pol, dir, i, ports, receivers, peerMatch, target, f) ==
    IF ports = <<>> THEN Verdict(pol, peerMatch \o target)
    ELSE Joined(MapSeq(ports, LAMBDA p : OnPort(pol, dir, i, p, receivers, peerMatch, target, f)))

\* The sets and the rules of rule i of a policy in one direction.
EmitRule(pol, dir, i, target, w, f) ==
    LET rule == pol.rules[dir][i]
        resolved == ResolvePeers(rule.peers, w, pol.ns, f)
        receivers == Receivers(pol, dir, resolved, w, f)
    IN  Joined(<<Plan(PeerSets(pol, dir, i, resolved, f), {}, <<>>),
                 Joined(MapSeq(PeerMatches(pol, dir, i, resolved, f), LAMBDA pm :
                            OnPeer(pol, dir, i, rule.ports, receivers, pm, target, f)))>>)

\* The set of the policy's own pods, and the plans of the rules that match it.
OwnSet(pol, dir, w, f) ==
    LET own == {q \in Range(w.pods) : PolicySelects(pol, q)}
    IN  IpSet(IF dir = "Ingress" THEN DstSet(pol, f) ELSE SrcSet(pol, f), "ip",
              UNION {Range(PodFamilyIps(p, f)) : p \in own})

RulePlans(pol, dir, w, f) ==
    LET target == IF dir = "Ingress" THEN MatchSet(DstSet(pol, f), "dst")
                                     ELSE MatchSet(SrcSet(pol, f), "src")
    IN  [i \in DOMAIN pol.rules[dir] |-> EmitRule(pol, dir, i, target, w, f)]

\* One direction of a policy: the set of its own pods first, then its rules.
DirectionPlan(pol, dir, w, f) ==
    Joined(<<Plan(OwnSet(pol, dir, w, f), {}, <<>>)>> \o RulePlans(pol, dir, w, f))

Applies(pol) == pol.ingress \/ pol.egress

PolicyPlan(pol, w, f) ==
    Joined(<<Plan(<<>>, {NetworkPolicyChain(pol)}, <<>>)>>
           \o (IF pol.ingress THEN <<DirectionPlan(pol, "Ingress", w, f)>> ELSE <<>>)
           \o (IF pol.egress THEN <<DirectionPlan(pol, "Egress", w, f)>> ELSE <<>>))

----------------------------------------------------------------------------
(* Chains of the local pods *)

Selecting(pod, w) == Filter(w.policies, LAMBDA p : Applies(p) /\ PolicySelects(p, pod))

\* Pods that get a chain: local, not on the host network, with an address of
\* the family, and selected by some policy.
FirewalledPods(w, f) ==
    Filter(w.pods, LAMBDA p : /\ p.node = ThisNode
                                 /\ ~p.hostNet
                                 /\ PodFamilyIps(p, f) # <<>>
                                 /\ Selecting(p, w) # <<>>)

\* Policies that cover one direction are entered only for packets on that side.
PolicyJumps(pod, ip, w) ==
    LET chain == PodFirewallChain(pod)
        selecting == Selecting(pod, w)
        jump(pol) ==
            R(chain, CASE pol.ingress /\ pol.egress -> <<>>
                       [] pol.ingress /\ ~pol.egress -> Is("dst", {ip})
                       [] OTHER -> Is("src", {ip}),
              Jump(NetworkPolicyChain(pol)))
        uncovered(side) == <<R(chain, Is(side, {ip}), Jump(Default))>>
    IN  MapSeq(selecting, jump)
        \o (IF \E p \in Range(selecting) : p.ingress THEN <<>> ELSE uncovered("dst"))
        \o (IF \E p \in Range(selecting) : p.egress THEN <<>> ELSE uncovered("src"))

\* The paths on which a packet to or from the pod reaches its chain.
TopLevelJumps(chain, ip) ==
    LET bridged(side) == R(Forward, <<[k |-> "bridged"]>> \o Is(side, {ip}), Jump(chain))
    IN  <<R(Forward, Is("dst", {ip}), Jump(chain)), R(Output, Is("dst", {ip}), Jump(chain)),
          bridged("dst")>>
        \o MapSeq(<<Input, Forward, Output>>, LAMBDA c : R(c, Is("src", {ip}), Jump(chain)))
        \o <<bridged("src")>>

PodPlan(pod, w, f) ==
    LET chain == PodFirewallChain(pod)
        ips == PodFamilyIps(pod, f)
        nodeLocal(ip) == R(chain, <<[k |-> "srcLocal"]>> \o Is("dst", {ip}), Do("ACCEPT"))
    IN  Plan(<<>>, {chain},
             <<R(chain, <<>>, Jump(Common))>>
             \o MapSeq(ips, nodeLocal)
             \o FlattenSeq(MapSeq(ips, LAMBDA ip : PolicyJumps(pod, ip, w)))
             \o <<R(chain, Marked(FALSE), Do("REJECT")), R(chain, <<>>, Do("UNMATCHED")),
                  R(chain, <<>>, Do("ACCEPTED"))>>
             \o FlattenSeq(MapSeq(ips, LAMBDA ip : TopLevelJumps(chain, ip))))

\* Mutant: packets that a policy accepted are accepted before the set is looked up.
TailPlanMarkFirst(w, f, deny) ==
    LET cidr == {ip \in PodCidr : ip[1] = f}
    IN  Plan(<<>>, {},
             <<R(TailChain, <<[k |-> "accepted"]>>, Do("ACCEPT"))>>
             \o (IF deny THEN MapSeq(<<"src", "dst">>, LAMBDA side : R(TailChain, Is(side, cidr), Do("REJECT")))
                 ELSE <<>>)
             \o MapSeq(<<Input, Forward, Output>>, LAMBDA c : R(c, <<>>, Jump(TailChain))))

\* The end of each top-level chain; with default_deny, addresses of the pod
\* CIDR that have no chain are refused.
TailPlan(w, f, deny) ==
    LET cidr == {ip \in PodCidr : ip[1] = f}
        scoped == deny /\ cidr # {}
        programmed == UNION {Range(PodFamilyIps(p, f)) : p \in Range(FirewalledPods(w, f))}
        unless(side) == R(TailChain, Is(side, cidr) \o NotInSet(LocalPodsSet(f), side), Do("REJECT"))
        rest(side) == R(TailChain, Is(side, cidr), Do("REJECT"))
    IN  Plan(IF deny THEN IpSet(LocalPodsSet(f), "ip", programmed) ELSE <<>>, {},
             (IF scoped THEN MapSeq(<<"src", "dst">>, unless) ELSE <<>>)
             \o <<R(TailChain, <<[k |-> "accepted"]>>, Do("ACCEPT"))>>
             \o (IF scoped THEN MapSeq(<<"src", "dst">>, rest) ELSE <<>>)
             \o MapSeq(<<Input, Forward, Output>>, LAMBDA c : R(c, <<>>, Jump(TailChain))))

BuildPlan(w, f, deny) ==
    Joined(<<Plan(<<>>, {Input, Forward, Output, Common, Default, TailChain},
                  CommonRules \o ServiceReturns(f))>>
           \o MapSeq(Filter(w.policies, Applies), LAMBDA p : PolicyPlan(p, w, f))
           \o MapSeq(FirewalledPods(w, f), LAMBDA p : PodPlan(p, w, f))
           \o <<TailPlan(w, f, deny)>>)

----------------------------------------------------------------------------
(* netfilter: what the kernel does with the sets and the chains *)

\* Contents of a set: addresses, or blocks with their nomatch flag, the last
\* addition of a block deciding its flag.
Loaded(set) ==
    IF set.type = "ip" THEN set.entries
    ELSE LET cidrs == {e.cidr.ips : e \in Range(set.entries)}
             last(c) == Max({i \in DOMAIN set.entries : set.entries[i].cidr.ips = c})
         IN  {[ips |-> c, nomatch |-> set.entries[last(c)].nomatch] : c \in cidrs}

\* Letters of the name of a set: KUBE-SRC- or KUBE-DST- and a hash of 16, or
\* kube-router-local-pods, with -inet6 in IPv6.  The kernel takes names of up to 31.
NameLength(name) == IF name[1] # "local-pods" THEN 25 ELSE IF name[2] = 4 THEN 22 ELSE 28
MaxNameLength == 31

\* The payload of a set can be restored: the name of the set that is filled and swapped in
\* is longer by TMP-, which the local pods of IPv6 have no room for, and hash:net refuses a
\* block that is the whole address space.
Loadable(set) ==
    /\ 4 + NameLength(set.name) <= MaxNameLength
    /\ set.type = "net" => \A i \in DOMAIN set.entries : ~set.entries[i].cidr.whole

\* The longest matching prefix decides.
InSet(set, ip) ==
    IF set.type = "ip" THEN ip \in set.content
    ELSE LET hits == {e \in set.content : ip \in e.ips}
         IN  \E e \in hits : ~e.nomatch /\ \A g \in hits : Cardinality(e.ips) <= Cardinality(g.ips)

\* s = [verdict, matched, accepted] is the packet's state in the traversal.
CondHolds(c, p, s, sets) ==
    CASE c.k = "addr"     -> p[c.side] \in c.ips
      [] c.k = "set"      -> InSet(sets[c.set], p[c.side]) = c.in
      [] c.k = "proto"    -> p.proto = c.v
      [] c.k = "dports"   -> p.dport \in c.v
      [] c.k = "matched"  -> s.matched = c.v
      [] c.k = "accepted" -> s.accepted
      [] c.k = "ct"       -> p.ct \in c.v
      [] c.k = "srcLocal" -> p.src \in NodeIps
      [] c.k = "dstLocal" -> p.dst \in NodeIps
      [] c.k = "bridged"  -> p.bridged

\* The state after the rules of a chain; Enter does the target of a rule.
Walk(rules, p, sets, Enter(_, _), s0) ==
    LET run[i \in 0..Len(rules)] ==
            IF i = 0 THEN s0
            ELSE LET s == run[i - 1]
                 IN  IF /\ s.verdict = "go"
                        /\ \A j \in DOMAIN rules[i].conds :
                                CondHolds(rules[i].conds[j], p, s, sets)
                     THEN Enter(rules[i].target, s)
                     ELSE s
        end == run[Len(rules)]
    IN  IF end.verdict = "RETURN" THEN [end EXCEPT !.verdict = "go"] ELSE end

Target(t, s) ==
    CASE t.k = "MATCHED"   -> [s EXCEPT !.matched = TRUE]
      [] t.k = "UNMATCHED" -> [s EXCEPT !.matched = FALSE]
      [] t.k = "ACCEPTED"  -> [s EXCEPT !.accepted = TRUE]
      [] OTHER             -> [s EXCEPT !.verdict = t.k]

\* A packet on one hook: top-level chain, then PodStep, pod chain, then PolicyStep,
\* policy chain.
PolicyStep(chains, sets, p, t, s) ==
    IF t.k = "jump" THEN Walk(chains[t.chain], p, sets, Target, s) ELSE Target(t, s)
PodStep(chains, sets, p, t, s) ==
    IF t.k = "jump" THEN Walk(chains[t.chain], p, sets, LAMBDA u, q : PolicyStep(chains, sets, p, u, q), s)
    ELSE Target(t, s)
Traverse(chains, sets, hook, p, s0) ==
    Walk(chains[hook], p, sets, LAMBDA u, q : PodStep(chains, sets, p, u, q), s0)

\* A flow is a packet and the hooks it passes, the marks kept: a packet to a
\* service passes INPUT with the virtual address and OUTPUT with the backend,
\* which is its destination in the end.  A hook without a jump, or not refused, lets the packet on.
Passes(chains, sets, jumps, flow) ==
    LET n == Len(flow.hops)
        at[i \in 0..n] ==
            IF i = 0 THEN [verdict |-> "go", matched |-> FALSE, accepted |-> FALSE]
            ELSE LET s == at[i - 1]
                     hook == flow.hops[i].hook
                 IN  IF s.verdict \in {"REJECT", "DROP"} \/ hook \notin jumps THEN s
                     ELSE Traverse(chains, sets, hook,
                                   [flow.packet EXCEPT !.dst = flow.hops[i].dst, !.dport = flow.hops[i].dport],
                                   [s EXCEPT !.verdict = "go"])
    IN  at[n].verdict \notin {"REJECT", "DROP"}
=============================================================================
