------------------------------- MODULE NetPol -------------------------------
(***************************************************************************)
(* The network policy controller as a process: FirewallController::run and  *)
(* reconcile (netpol/src/controller.rs) against the ipsets and the filter   *)
(* tables of the kernel, which other programs share and which survive a     *)
(* restart.  The verdicts are those of the chains of NetPolSynth.           *)
(***************************************************************************)
EXTENDS NetPolSynth

CONSTANTS
    World,        \* function from identifiers to contents of the three stores
    NoWorld,      \* not in DOMAIN World
    Flow,         \* the flows whose fate the properties are about
    MaxChanges,   \* bound on changes of the stores
    MaxNpFaults   \* bound on failed commands, restarts, lost jumps and cleanups

ASSUME NpNoWorld == NoWorld \notin DOMAIN World
\* The lists of the objects are finite, as vectors are.
ASSUME NpLists ==
    \A w \in DOMAIN World :
        /\ IsList(World[w].policies) /\ IsList(World[w].pods)
        /\ \A p \in Range(World[w].pods) : IsList(p.ips) /\ IsList(p.ports)
        /\ \A np \in Range(World[w].policies) :
              /\ IsList(np.ingress) /\ IsList(np.egress)
              /\ \A r \in Range(np.ingress) \cup Range(np.egress) : IsList(r.ports)

\* The families that --enable-ipv4 and --enable-ipv6 switch on, in the order they are synced;
\* validation asks for one of them.
FamilyLists == {<<4>>, <<6>>, <<4, 6>>}
Builtins == <<Input, Forward, Output>>

\* A packet is of one of the two families and meets some hooks, the last on its way to
\* its destination.
ASSUME NpFlows ==
    \A flow \in Flow :
        /\ DOMAIN flow.packet = {"src", "dst", "proto", "dport", "ct", "bridged"}
        /\ flow.packet.src[1] \in Family /\ flow.packet.dst[1] = flow.packet.src[1]
        /\ IsList(flow.hops) /\ flow.hops # <<>> /\ flow.hops[Len(flow.hops)].dst = flow.packet.dst
        /\ \A i \in DOMAIN flow.hops : flow.hops[i].hook \in Range(Builtins)

\* Everything that depends on a world only, computed once.
Seen == [w \in DOMAIN World |-> Snapshot(World[w])]
Plans == [w \in DOMAIN World |->
            [f \in Family |-> [d \in BOOLEAN |-> BuildPlan(Seen[w], f, d)]]]

VARIABLES
    npStore,      \* the world in the informer stores
    npDeny,       \* default_deny
    npFams,       \* the families of the controller
    npPass,       \* the running reconcile: world, position in npFams and the plan there,
                  \* next command, whether jumps of that family were lost under it; or idle
    npSets,       \* ipsets of the kernel, by family and name (a name carries its family)
    npChains,     \* chains of the filter table of each family
    npJumps,      \* built-in chains of each family that jump to ours
    npBase,       \* world that a pass last wrote of each family, to its last command; NoWorld
                  \* once the kernel holds a mixture
    npChanges, npFaults

npKernel == <<npSets, npChains, npJumps>>
npFlags == <<npDeny, npFams>>
npVars == <<npStore, npFlags, npPass, npKernel, npBase, npChanges, npFaults>>

IdlePass == [on |-> FALSE, world |-> NoWorld, fam |-> 1, plan |-> << >>, step |-> 1, drift |-> FALSE]
\* The pass comes to a family: build_plan.
Planned(pass, i) ==
    [pass EXCEPT !.fam = i, !.plan = Plans[pass.world][npFams[i]][npDeny], !.step = 1, !.drift = FALSE]
\* A pass over the objects that the stores hold now.
BeginPass == Planned([IdlePass EXCEPT !.on = TRUE, !.world = npStore], 1)
\* The family and the plan that the pass is at.
F == npFams[npPass.fam]
Current == npPass.plan
NSets == Len(Current.sets)

Put(f, k, v) == [x \in DOMAIN f \cup {k} |-> IF x = k THEN v ELSE f[x]]
\* The set in the kernel that a set of the plan becomes.
Filled(set) == [type |-> set.type, content |-> Loaded(set)]

NpInit ==
    /\ npStore \in DOMAIN World /\ npDeny \in BOOLEAN /\ npFams \in FamilyLists
    /\ npPass = IdlePass
    /\ npSets = [f \in Family |-> << >>] /\ npChains = [f \in Family |-> << >>]
    /\ npJumps = [f \in Family |-> {}]
    /\ npBase = [f \in Family |-> NoWorld] /\ npChanges = 0 /\ npFaults = 0

\* The API server's objects change.
NpStoreChange ==
    /\ npChanges < MaxChanges
    /\ npStore' \in DOMAIN World \ {npStore}
    /\ npChanges' = npChanges + 1
    /\ UNCHANGED <<npFlags, npPass, npKernel, npBase, npFaults>>

\* Mutant: an error ends the loop instead of the pass.
NpTickUntilError ==
    /\ ~npPass.on
    /\ npPass' = IF npFaults = 0 THEN BeginPass ELSE npPass
    /\ UNCHANGED <<npStore, npFlags, npKernel, npBase, npChanges, npFaults>>

\* A tick: the snapshot is taken once and used for all families.
NpTick ==
    /\ ~npPass.on
    /\ npPass' = BeginPass
    /\ UNCHANGED <<npStore, npFlags, npKernel, npBase, npChanges, npFaults>>

NextCommand == npPass' = [npPass EXCEPT !.step = @ + 1]

\* The jumps are the last commands of a family.
LastOfFamily == npPass.step = NSets + 1 + Len(Builtins)
Completes == LastOfFamily /\ npPass.fam = Len(npFams)

\* Mutant: the sets of a plan are written from the last to the first.
NpRestoreSetBackwards ==
    /\ npPass.on /\ npPass.step <= NSets
    /\ LET set == Current.sets[NSets + 1 - npPass.step]
       IN  /\ Loadable(set)
           /\ npSets' = [npSets EXCEPT ![F] = Put(@, set.name, Filled(set))]
    /\ NextCommand
    /\ UNCHANGED <<npStore, npFlags, npChains, npJumps, npBase, npChanges, npFaults>>

\* `ipset restore` fills a temporary set and swaps it in.
NpRestoreSet ==
    /\ npPass.on /\ npPass.step <= NSets
    /\ LET set == Current.sets[npPass.step]
       IN  /\ Loadable(set)
           /\ npSets' = [npSets EXCEPT ![F] = Put(@, set.name, Filled(set))]
    /\ NextCommand
    /\ UNCHANGED <<npStore, npFlags, npChains, npJumps, npBase, npChanges, npFaults>>

\* Mutant: a document that declares no chains appends to those that exist.
FilterRestoreAppends(chains, plan) ==
    [c \in DOMAIN chains \cup plan.chains |->
        (IF c \in DOMAIN chains THEN chains[c] ELSE <<>>) \o Filter(plan.rules, LAMBDA r : r.chain = c)]

\* The chains after a document that declares those of the plan and appends its rules.
FilterRestoreDoc(chains, plan) ==
    [c \in DOMAIN chains \cup plan.chains |->
        IF c \in plan.chains THEN Filter(plan.rules, LAMBDA r : r.chain = c) ELSE chains[c]]

\* `iptables-restore --noflush` applies the document in one commit.
NpRestoreFilter ==
    /\ npPass.on /\ npPass.step = NSets + 1
    /\ npChains' = [npChains EXCEPT ![F] = FilterRestoreDoc(@, Current)]
    /\ NextCommand
    /\ UNCHANGED <<npStore, npFlags, npSets, npJumps, npBase, npChanges, npFaults>>

\* The jump from a built-in chain is checked, and inserted when it is missing.
NpEnsureJump ==
    /\ npPass.on /\ npPass.step > NSets + 1
    /\ npJumps' = [npJumps EXCEPT ![F] = @ \cup {Builtins[npPass.step - NSets - 1]}]
    /\ \/ ~LastOfFamily /\ NextCommand
       \/ LastOfFamily /\ ~Completes /\ npPass' = Planned(npPass, npPass.fam + 1)
       \/ Completes /\ npPass' = IdlePass
    /\ npBase' = IF LastOfFamily /\ ~npPass.drift THEN [npBase EXCEPT ![F] = npPass.world] ELSE npBase
    /\ UNCHANGED <<npStore, npFlags, npSets, npChains, npChanges, npFaults>>

\* A failed command ends the pass, and what is left of this family is a mixture; the
\* families before it are written, those after it untouched.  `ipset restore` runs line
\* by line: the set may have been created empty, or even swapped, before it failed; one
\* that is not Loadable always fails, with the new set created.
NpFail ==
    /\ npPass.on
    /\ LET set == Current.sets[npPass.step]
           refused == npPass.step <= NSets /\ ~Loadable(set)
           old == npSets[F]
           created == IF set.name \in DOMAIN old THEN old
                      ELSE Put(old, set.name, [type |-> set.type, content |-> {}])
       IN  /\ refused \/ npFaults < MaxNpFaults
           /\ npFaults' = IF refused THEN npFaults ELSE npFaults + 1
           /\ \E new \in IF refused THEN {created}
                         ELSE IF npPass.step > NSets THEN {old}
                         ELSE {old, created, Put(old, set.name, Filled(set))} :
                    npSets' = [npSets EXCEPT ![F] = new]
    /\ npPass' = IdlePass /\ npBase' = [npBase EXCEPT ![F] = NoWorld]
    /\ UNCHANGED <<npStore, npFlags, npChains, npJumps, npChanges>>

\* The agent is killed and started again; the kernel keeps everything.
NpRestart ==
    /\ npFaults < MaxNpFaults /\ npPass.on
    /\ npFaults' = npFaults + 1
    /\ npPass' = IdlePass /\ npBase' = [npBase EXCEPT ![F] = NoWorld]
    /\ UNCHANGED <<npStore, npFlags, npKernel, npChanges>>

\* Another program rebuilds the built-in chains of a family and our jumps go.
NpJumpsLost ==
    /\ npFaults < MaxNpFaults
    /\ \E f \in Family :
            /\ npJumps[f] # {} /\ npJumps' = [npJumps EXCEPT ![f] = {}]
            /\ npBase' = [npBase EXCEPT ![f] = NoWorld]
            /\ npPass' = [npPass EXCEPT !.drift = @ \/ (npPass.on /\ F = f)]
    /\ npFaults' = npFaults + 1
    /\ UNCHANGED <<npStore, npFlags, npSets, npChains, npChanges>>

\* Mutant: the chains of pods are not swept.
SweptPolicies(chain) == chain[1] \in {"NWPLCY", "COMMON", "DEFAULT", "TAIL"}

\* Chains that are swept by prefix; that of the policies is also the one of the
\* common chains.
Swept(chain) == chain[1] \in {"POD-FW", "NWPLCY", "COMMON", "DEFAULT", "TAIL"}

Referenced(chains, from, c) ==
    \E d \in from : \E i \in DOMAIN chains[d] :
        chains[d][i].target.k = "jump" /\ chains[d][i].target.chain = c

\* firewall_cmds deletes the top-level chains, with iptables only.
LeftByFirewallCmds(f) == DOMAIN npChains[f] \ (IF f = 4 THEN Range(Builtins) ELSE {})

\* The agent has been stopped and is run with --cleanup-config: the IPv4 jumps and
\* top-level chains go, a set goes unless a rule still names it, then the swept chains
\* of both families are flushed and deleted.  One that another refers to is only
\* flushed, unless it is listed after it; the model keeps it, empty.
NpCleanup ==
    /\ npFaults < MaxNpFaults /\ npFaults' = npFaults + 1
    /\ npJumps' = [npJumps EXCEPT ![4] = {}]
    /\ npChains' = [f \in Family |->
            LET left == LeftByFirewallCmds(f)
            IN  [c \in {x \in left : Swept(x) => Referenced(npChains[f], left, x)} |->
                    IF Swept(c) THEN <<>> ELSE npChains[f][c]]]
    /\ LET named == \E c \in LeftByFirewallCmds(4) : \E i \in DOMAIN npChains[4][c] :
                        \E j \in DOMAIN npChains[4][c][i].conds :
                            /\ npChains[4][c][i].conds[j].k = "set"
                            /\ npChains[4][c][i].conds[j].set = LocalPodsSet(4)
       IN  npSets' = IF named THEN npSets
                     ELSE [npSets EXCEPT ![4] = [n \in DOMAIN @ \ {LocalPodsSet(4)} |-> @[n]]]
    /\ npPass' = IdlePass /\ npBase' = [f \in Family |-> NoWorld]
    /\ UNCHANGED <<npStore, npFlags, npChanges>>

NpNext ==
    \/ NpStoreChange \/ NpTick \/ NpRestoreSet \/ NpRestoreFilter \/ NpEnsureJump
    \/ NpFail \/ NpRestart \/ NpJumpsLost \/ NpCleanup

\* The interval ticks, and an awaited command ends.
NpFairness == WF_npVars(NpTick) /\ WF_npVars(NpRestoreSet \/ NpRestoreFilter \/ NpEnsureJump \/ NpFail)

NpSpec == NpInit /\ [][NpNext]_npVars /\ NpFairness

----------------------------------------------------------------------------
(* NetworkPolicy as Kubernetes defines it, over the objects themselves *)

Pods(w) == Range(World[w].pods)
Policies(w) == Range(World[w].policies)
Covers(np, dir) == IF np.types = {} THEN dir = "Ingress" \/ np.egress # <<>> ELSE dir \in np.types
Selects(np, p) == p.ns = np.ns /\ SelectorMatches(np.podSel, p.labels)
Owners(w, ip) == {p \in Pods(w) : ip \in Range(p.ips) /\ ~p.hostNet}
LocalOwners(w, ip) == {p \in Owners(w, ip) : p.node = ThisNode}
RulesOf(np, dir) == Range(IF dir = "Ingress" THEN np.ingress ELSE np.egress)

PeerAllows(peer, np, w, ip) ==
    IF peer.kind = "block"
    THEN ip \in peer.cidr.ips /\ \A i \in DOMAIN peer.except : ip \notin peer.except[i].ips
    ELSE \E p \in Owners(w, ip) :
            /\ IF peer.nsSel = <<>> THEN p.ns = np.ns
               ELSE \E n \in Range(World[w].namespaces) :
                        n.name = p.ns /\ SelectorMatches(peer.nsSel[1], n.labels)
            /\ peer.podSel = <<>> \/ SelectorMatches(peer.podSel[1], p.labels)

PortAllows(port, packet, receivers) ==
    LET tcp(proto) == IF proto = "" THEN "tcp" ELSE proto
    IN  /\ packet.proto = tcp(port.proto)
        /\ \/ port.port.kind = "all"
           \/ port.port.kind = "number" /\ packet.dport = port.port.v
           \/ /\ port.port.kind = "name"
              /\ \E p \in receivers : \E i \in DOMAIN p.ports :
                    /\ p.ports[i].name = port.port.v /\ p.ports[i].port = packet.dport
                    /\ tcp(p.ports[i].proto) = packet.proto

\* Some policy that covers the direction allows the flow, or none covers it.
DirectionAllows(w, pod, dir, other, flow) ==
    LET covering == {np \in Policies(w) : Covers(np, dir) /\ Selects(np, pod)}
        receivers == IF dir = "Ingress" THEN {pod} ELSE Owners(w, other)
    IN  \/ covering = {}
        \/ \E np \in covering : \E r \in RulesOf(np, dir) :
            /\ r.peers = <<>> \/ \E peer \in Range(r.peers) : PeerAllows(peer, np, w, other)
            /\ r.ports = <<>> \/ \E port \in Range(r.ports) : PortAllows(port, flow.packet, receivers)

\* The promise for the pods of this node.  Answers and ICMP pass, INVALID
\* packets of selected pods do not, and the node itself reaches its pods.
Allowed(w, flow) ==
    LET src == flow.packet.src
        dst == flow.packet.dst
        guarded == {p \in LocalOwners(w, src) \cup LocalOwners(w, dst) :
                        \E np \in Policies(w) : Selects(np, p)}
    IN  CASE guarded = {} -> TRUE
          [] flow.packet.ct = "invalid" -> FALSE
          [] flow.packet.ct = "est" \/ flow.packet.proto = "icmp" -> TRUE
          [] OTHER ->
                /\ src \in NodeIps \/ \A p \in LocalOwners(w, dst) : DirectionAllows(w, p, "Ingress", src, flow)
                /\ \A p \in LocalOwners(w, src) : DirectionAllows(w, p, "Egress", dst, flow)

AllowedIn == [w \in DOMAIN World |-> {flow \in Flow : Allowed(w, flow)}]

\* Worlds on which the names of chains and sets tell everything apart: no two
\* objects with the same concatenated name, no rule with two named ports.
NamesApart(w) ==
    /\ \A objs \in {Pods(w), Policies(w)} : \A x, y \in objs : x.ns \o x.name = y.ns \o y.name => x = y
    /\ \A np \in Policies(w) : \A r \in RulesOf(np, "Ingress") \cup RulesOf(np, "Egress") :
            Cardinality({i \in DOMAIN r.ports : r.ports[i].port.kind = "name"}) <= 1

\* A policy for both directions that selects both ends: its ingress rules are
\* also tried in the chain of the sender, and its egress rules in the receiver's.
SharedPolicy(w, flow) ==
    \E np \in Policies(w) : /\ Covers(np, "Ingress") /\ Covers(np, "Egress")
                            /\ \E p \in Owners(w, flow.packet.src) : Selects(np, p)
                            /\ \E p \in Owners(w, flow.packet.dst) : Selects(np, p)

\* A pass over w gets to the end of family f: no set of it, and of those before it, is refused.
Restorable(w, f) ==
    \A i \in DOMAIN npFams :
        (\E j \in DOMAIN npFams : i <= j /\ npFams[j] = f) =>
            \A set \in Range(Plans[w][npFams[i]][npDeny].sets) : Loadable(set)

\* Addresses of the node's pod CIDR that no chain guards.
Unprogrammed(w) ==
    PodCidr \ UNION {Range(p.ips) : p \in {q \in Pods(w) : /\ q.node = ThisNode /\ ~q.hostNet
                                                           /\ \E np \in Policies(w) : Selects(np, q)}}
Fresh(w, flow) == flow.packet.src \in Unprogrammed(w) \/ flow.packet.dst \in Unprogrammed(w)
\* The node has an address in its pod CIDR too; it is no pod when it is the sender.
FreshPod(w, flow) == flow.packet.src \in Unprogrammed(w) \ NodeIps \/ flow.packet.dst \in Unprogrammed(w)

\* Service traffic that no backend takes on to OUTPUT: ServiceReturns lets it into the node.
EndsAsService(flow) ==
    LET last == flow.hops[Len(flow.hops)]
    IN  /\ last.hook = Input
        /\ last.dst \in ServiceRange \/ (last.dst \in NodeIps /\ last.dport \in NodePortArg[1]..NodePortArg[2])

FamilyOf(flow) == flow.packet.src[1]
KernelPasses(flow) ==
    LET f == FamilyOf(flow) IN Passes(npChains[f], npSets[f], npJumps[f], flow)

----------------------------------------------------------------------------
(* What the commands of undisturbed passes leave, without the rest of a kernel *)

\* Some sets after the first n of some writes; the last of a name stays.
Written(sets, writes, n) ==
    LET last(k) == CHOOSE j \in 1..n : writes[j].name = k /\ \A m \in 1..n : writes[m].name = k => m <= j
        names == {writes[j].name : j \in 1..n}
    IN  [k \in DOMAIN sets \cup names |-> IF k \in names THEN Filled(writes[last(k)]) ELSE sets[k]]

\* The sets that a pass writes of a family.
SetWrites(w, d, f) == Plans[w][f][d].sets

\* All commands of a family over w in an empty kernel.
SetsLeft(w, d, f) == Written(<<>>, SetWrites(w, d, f), Len(SetWrites(w, d, f)))
ChainsLeft(w, d, f) == FilterRestoreDoc(<<>>, Plans[w][f][d])

\* All of them over v, then those over w that come before a command.
SetsWritten(w, d, f, step) ==
    LET n == Len(SetWrites(w, d, f)) IN IF step <= n THEN step - 1 ELSE n
Restored(w, d, f, step) == step > Len(SetWrites(w, d, f)) + 1
SetsAt(v, w, d, f, step) == Written(SetsLeft(v, d, f), SetWrites(w, d, f), SetsWritten(w, d, f, step))
ChainsAt(v, w, d, f, step) ==
    IF Restored(w, d, f, step) THEN FilterRestoreDoc(ChainsLeft(v, d, f), Plans[w][f][d]) ELSE ChainsLeft(v, d, f)

\* The translation of the objects is right: build_plan, loaded into an empty kernel,
\* lets pass what the policies allow and nothing else.
Exact(w, d) ==
    NamesApart(w) =>
        \A flow \in Flow :
            \/ SharedPolicy(w, flow) \/ (d /\ Fresh(w, flow))
            \/ Passes(ChainsLeft(w, d, FamilyOf(flow)), SetsLeft(w, d, FamilyOf(flow)), Range(Builtins), flow)
                    <=> flow \in AllowedIn[w]
TranslationExact == \A w \in DOMAIN World, d \in BOOLEAN : Exact(w, d)

SamePolicies(v, w) == World[v].policies = World[w].policies
NoNamedPort(w) ==
    \A np \in Policies(w) : \A r \in RulesOf(np, "Ingress") : \A i \in DOMAIN r.ports : r.ports[i].port.kind # "name"
Refused(v, w, flow) ==
    /\ flow \notin AllowedIn[v] \cup AllowedIn[w]
    /\ ~SharedPolicy(v, flow) /\ ~SharedPolicy(w, flow)

\* The order of the commands is right: what v and w both refuse is refused by what a
\* pass from the one to the other leaves after each command.
Tight(v, w, d) ==
    SamePolicies(v, w) /\ NoNamedPort(v) =>
        \A f \in Family : \A step \in 1..(Len(SetWrites(w, d, f)) + 4) :
            \A flow \in Flow : FamilyOf(flow) = f /\ Refused(v, w, flow) =>
                ~Passes(ChainsAt(v, w, d, f, step), SetsAt(v, w, d, f, step), Range(Builtins), flow)
OrderTight == \A v, w \in DOMAIN World, d \in BOOLEAN : Tight(v, w, d)

----------------------------------------------------------------------------
(* Properties *)

\* The family is being rewritten.
Rewriting(f) == npPass.on /\ F = f

\* After a pass over a family, whatever earlier passes, failures and restarts left in
\* the kernel and whatever becomes of the other family, a flow passes exactly when the
\* policies of the applied objects allow it (reconcile, build_plan).  Left out: worlds
\* whose names collide, flows between two pods of one policy for both directions, and,
\* with default_deny, pods that no policy selects.  With default_deny no pass gets to the
\* end of IPv6 (see Loadable), and the property says nothing of it.
EnforcesPolicy ==
    \A flow \in Flow :
        LET f == FamilyOf(flow)
            v == npBase[f]
        IN  ~Rewriting(f) /\ v # NoWorld /\ NamesApart(v) =>
                \/ SharedPolicy(v, flow) \/ (npDeny /\ Fresh(v, flow))
                \/ KernelPasses(flow) <=> flow \in AllowedIn[v]

\* Rules with two named ports admit no more than the policy does: each port has
\* "one set per resolved (protocol, port) group" (netpol/src/naming.rs:130-133).
NamedPortsExact ==
    \A flow \in Flow :
        LET f == FamilyOf(flow)
        IN  ~Rewriting(f) /\ npBase[f] # NoWorld /\ ~npDeny /\ KernelPasses(flow) =>
                flow \in AllowedIn[npBase[f]]

\* While pods and namespaces change under unchanged policies, a flow that both
\* the old and the new objects refuse is refused after every single command of
\* the pass: the sets of a policy change its own pods first, the chains last.
\* Left out: named ports, whose set of receivers is written after the peers.
NoHole ==
    \A flow \in Flow :
        LET f == FamilyOf(flow)
            v == npBase[f]
        IN  /\ Rewriting(f) /\ v # NoWorld
            /\ SamePolicies(v, npPass.world) /\ NoNamedPort(v) /\ Refused(v, npPass.world, flow)
            => ~KernelPasses(flow)

\* With default_deny, a new connection of a pod that no applied policy has programmed is
\* refused on both sides, at every step, once a first pass has written the family.  A pass
\* never gets that far in IPv6, whose set of local pods has too long a name (see
\* Loadable), so that this protects IPv4 only.  Left out: what the pod sends to the node
\* itself on an address or a port of the services.
FreshPodsWait ==
    \A flow \in Flow :
        LET f == FamilyOf(flow)
        IN  /\ npDeny /\ npBase[f] # NoWorld /\ FreshPod(npBase[f], flow)
            /\ Rewriting(f) => FreshPod(npPass.world, flow)
            /\ flow.packet.ct = "new" /\ flow.packet.proto # "icmp"
            /\ ~EndsAsService(flow)
            => ~KernelPasses(flow)

\* --cleanup-config (cleanup.rs:153-228) leaves the IPv6 jumps and most sets behind, in
\* whatever state the agent was stopped: nothing of it refuses a packet, all the same.
CleanupOpens == [][NpCleanup => (\A flow \in Flow : KernelPasses(flow))']_npVars

\* Once failures, restarts, lost jumps and changes stop, the firewall of each family that
\* is switched on is that of the objects in the stores, unless `ipset restore` refuses a
\* set of theirs: for a block that is the whole address space, in this family or the one
\* before it, or, with default_deny, always in IPv6 (see Loadable).
Converges ==
    \A f \in Family : <>[](f \in Range(npFams) => npBase[f] = npStore \/ ~Restorable(npStore, f))
=============================================================================
