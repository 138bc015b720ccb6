------------------------------ MODULE Routing ------------------------------
(***************************************************************************)
(* The writers of a node's kernel routes, run_routing of                   *)
(* crates/kube-router-rs/src/main.rs: with the logging engine the          *)
(* PodNetController of routing/src/podnet.rs, which follows the Node       *)
(* informer; with gobgpd the RouteInjector of routing/src/inject.rs, fed   *)
(* by the best-path watch of bgp/src/grpc.rs through an mpsc channel.      *)
(* Which of the two runs is decided by build_engine at every start.        *)
(*                                                                         *)
(* Every `ip` command is a step of its own.  The order of the routes in a  *)
(* pass is abstracted to "any order".  One address family.  The kernel,    *)
(* iproute2, gobgpd and the Node store are the environment.                *)
(***************************************************************************)
EXTENDS Naturals, FiniteSets, Sequences

CONSTANTS
    Prefix,     \* destinations
    Gw,         \* next hops
    NoGw,       \* no route, no path, no node
    LocalIp,    \* this node's address
    Node,       \* Node objects
    Local,      \* this node's name
    PodCidrs,   \* the pod CIDRs of every node
    Addresses,  \* the addresses a node may have in its life
    Own,        \* prefixes this node may itself advertise over BGP
    Rejectable, \* prefixes the customimportreject annotation may cover
    MaxStream,  \* bound: events between gobgpd and the watch task
    QueueCap,   \* capacity of the channel to the injector (256)
    MaxFaults   \* bound: faults of any kind

Fault == {"fail", "cut", "drift", "boot"}
Engine == {"logging", "gobgp"}

ASSUME ConstantsAssumption ==
    /\ IsFiniteSet(Prefix)
    /\ NoGw \notin Gw
    /\ LocalIp \in Gw \cup {NoGw}
    /\ Local \in Node
    /\ PodCidrs \in [Node -> SUBSET Prefix]
    /\ Addresses \in [Node -> SUBSET Gw]
    /\ Own \subseteq Prefix /\ Rejectable \subseteq Prefix
    /\ MaxStream \in Nat /\ QueueCap \in Nat \ {0}
    /\ MaxFaults \in Nat

VARIABLES
    engine,     \* SelectedEngine: "logging" or "gobgp"
    reject,     \* import_reject, read from the Node at start
    nodes,      \* Node store: the address of every known node
    kroute,     \* kernel: the main routing table
    mem,        \* PodNetController.applied / RouteInjector.routes
    pc,         \* "idle", or in the middle of a reconcile or sync "pass"
    want,       \* `desired` of the running reconcile
    add, del,   \* what the running pass has yet to replace and delete
    best,       \* gobgpd: the best path of every prefix
    watching,   \* the watch stream is open
    stream,     \* events gobgpd has sent that watch_best_paths has not read
    queue,      \* the mpsc channel
    count       \* how many faults of each kind there have been

daemon == <<best, watching, stream>>
writer == <<mem, pc, want, add, del>>
vars   == <<engine, reject, nodes, kroute, writer, daemon, queue, count>>

Route == [dst : Prefix, gateway : Gw]
Event == [dst : Prefix, gateway : Gw, withdrawal : BOOLEAN]
MaybeGw == Gw \cup {NoGw}

\* A fault of kind f happens; at most MaxFaults do in all.
Spend(f) ==
    /\ count["fail"] + count["cut"] + count["drift"] + count["boot"] < MaxFaults
    /\ count' = [count EXCEPT ![f] = @ + 1]

---------------------------------------------------------------------------
(* iproute2, as SystemNetlink calls it *)

\* `ip route replace dst via gateway`.
RouteReplace(k, r) == [k EXCEPT ![r.dst] = r.gateway]

\* `ip route del dst`: the gateway is not named, and a missing route is Ok.
RouteDel(k, r) == [k EXCEPT ![r.dst] = NoGw]

\* Another program deletes a route.
Drift(p) ==
    /\ kroute[p] # NoGw
    /\ Spend("drift")
    /\ kroute' = [kroute EXCEPT ![p] = NoGw]
    /\ UNCHANGED <<engine, reject, nodes, writer, daemon, queue>>

---------------------------------------------------------------------------
(* PodNetController *)

\* desired_pod_routes over StoreNodeRouteProvider.node_routes.
DesiredPodRoutes ==
    {r \in Route : \E n \in Node \ {Local} :
                       nodes[n] = r.gateway /\ r.dst \in PodCidrs[n]}

\* The to_add and to_del of a reconcile.
ToAdd(old, new) == new \ old
ToDel(old, new) == old \ new

\* The Node store changes: a node appears, disappears or has another address.
NodeChange(n, ip) ==
    /\ engine = "logging" /\ nodes[n] # ip
    /\ nodes' = [nodes EXCEPT ![n] = ip]
    /\ UNCHANGED <<engine, reject, kroute, writer, daemon, queue, count>>

\* The ticker fires and reconcile takes its snapshot.
Reconcile ==
    /\ engine = "logging" /\ pc = "idle"
    /\ pc' = "pass"
    /\ want' = DesiredPodRoutes
    /\ add' = ToAdd(mem, DesiredPodRoutes)
    /\ del' = ToDel(mem, DesiredPodRoutes)
    /\ UNCHANGED <<engine, reject, nodes, kroute, mem, daemon, queue, count>>

---------------------------------------------------------------------------
(* The steps of a pass: reconcile of podnet.rs and sync of inject.rs *)

\* One successful route_replace.
PassReplace(r) ==
    /\ pc = "pass" /\ r \in add
    /\ kroute' = RouteReplace(kroute, r)
    /\ add' = add \ {r}
    /\ UNCHANGED <<engine, reject, nodes, mem, pc, want, del, daemon, queue,
                   count>>

\* One successful route_del; they come after all the replaces.
PassDel(r) ==
    /\ pc = "pass" /\ add = {} /\ r \in del
    /\ kroute' = RouteDel(kroute, r)
    /\ del' = del \ {r}
    /\ UNCHANGED <<engine, reject, nodes, mem, pc, want, add, daemon, queue,
                   count>>

\* The pass is over: idle until the next tick or event.
Rest(remembered) ==
    /\ mem' = remembered
    /\ pc' = "idle" /\ want' = {} /\ add' = {} /\ del' = {}

\* The pass returns Ok; only then does reconcile set applied = desired.
PassDone ==
    /\ pc = "pass" /\ add = {} /\ del = {}
    /\ Rest(IF engine = "logging" THEN want ELSE mem)
    /\ UNCHANGED <<engine, reject, nodes, kroute, daemon, queue, count>>

\* The next `ip` of the pass fails: `?` ends the pass there.
PassFail ==
    /\ pc = "pass" /\ add \cup del # {}
    /\ Spend("fail")
    /\ Rest(mem)
    /\ UNCHANGED <<engine, reject, nodes, kroute, daemon, queue>>

---------------------------------------------------------------------------
(* gobgpd and the best-path watch *)

Advert(p, g) == [dst |-> p, gateway |-> g, withdrawal |-> FALSE]
Withdrawal(p, g) == [dst |-> p, gateway |-> g, withdrawal |-> TRUE]

\* The best path of p becomes g (NoGw: there is none left).  The event that
\* reports a lost best path carries the attributes of that path.
BestChange(p, g) ==
    /\ engine = "gobgp"
    /\ g # best[p]
    /\ g # NoGw /\ g = LocalIp => p \in Own
    /\ Len(stream) < MaxStream
    /\ best' = [best EXCEPT ![p] = g]
    /\ stream' = IF ~watching THEN stream
                 ELSE Append(stream, IF g = NoGw THEN Withdrawal(p, best[p])
                                     ELSE Advert(p, g))
    /\ UNCHANGED <<engine, reject, nodes, kroute, writer, watching, queue, count>>

\* Mutant: the channel is never full.
ForwardAlways ==
    /\ stream # <<>>
    /\ queue' = Append(queue, Head(stream))
    /\ stream' = Tail(stream)
    /\ UNCHANGED <<engine, reject, nodes, kroute, writer, best, watching, count>>

\* watch_best_paths receives an event and sends it on, when there is room.
Forward ==
    /\ stream # <<>>
    /\ Len(queue) < QueueCap
    /\ queue' = Append(queue, Head(stream))
    /\ stream' = Tail(stream)
    /\ UNCHANGED <<engine, reject, nodes, kroute, writer, best, watching, count>>

\* The stream ends or breaks; what it still held is lost.
Cut ==
    /\ watching
    /\ Spend("cut")
    /\ watching' = FALSE
    /\ stream' = <<>>
    /\ UNCHANGED <<engine, reject, nodes, kroute, writer, best, queue>>

\* Mutant: a watch that is opened without init, so that nothing is replayed.
NoReplay == {}

\* What a new watch begins with, since it is opened with init: true.
Replay == {Advert(p, best[p]) : p \in {q \in Prefix : best[q] # NoGw}}

\* watch_task opens a watch: the first one, or another one after the backoff.
Connect ==
    /\ engine = "gobgp" /\ ~watching
    /\ watching' = TRUE
    /\ \E s \in [1 .. Cardinality(Replay) -> Replay] :
          /\ {s[i] : i \in DOMAIN s} = Replay
          /\ stream' = s
    /\ UNCHANGED <<engine, reject, nodes, kroute, writer, best, queue, count>>

---------------------------------------------------------------------------
(* receive_side_inject and RouteInjector *)

\* What the injector remembers about p.
Remembered(p) == {r \in mem : r.dst = p}

\* RouteInjector::is_rejected.
IsRejected(ev) == ev.dst \in reject

\* Mutant: a sync that re-applies nothing.
SyncsNothing == {}

\* The routes a sync replaces.
SyncRoutes == mem

\* The injector is between two events and takes the next one.
Receives(ev) ==
    /\ engine = "gobgp" /\ pc = "idle"
    /\ queue # <<>> /\ ev = Head(queue)
    /\ queue' = Tail(queue)
    /\ UNCHANGED <<engine, reject, nodes, pc, want, add, del, daemon>>

\* An event of this node's own advertisement is skipped.
IsOwn(ev) == ev.gateway = LocalIp

\* Mutant: a withdrawal that forgets the route without deleting it.
ForgetOnly(ev) ==
    /\ mem' = mem \ Remembered(ev.dst)
    /\ UNCHANGED <<kroute, count>>

\* Mutant: the route leaves the map only once `ip route del` succeeded.
UninstallChecked(ev) ==
    \/ /\ mem' = mem \ Remembered(ev.dst)
       /\ kroute' = (IF Remembered(ev.dst) = {} THEN kroute
                     ELSE RouteDel(kroute, ev))
       /\ UNCHANGED count
    \/ Remembered(ev.dst) # {} /\ Spend("fail") /\ UNCHANGED <<kroute, mem>>

\* on_event for a withdrawal or a rejected prefix: the route leaves the map
\* first, then `ip route del` runs, and may fail.
Uninstall(ev) ==
    /\ mem' = mem \ Remembered(ev.dst)
    /\ \/ kroute' = (IF Remembered(ev.dst) = {} THEN kroute
                     ELSE RouteDel(kroute, ev))
          /\ UNCHANGED count
       \/ Remembered(ev.dst) # {} /\ Spend("fail") /\ UNCHANGED kroute

\* Mutant: the route is remembered even when `ip route replace` failed.
InstallFirst(ev) ==
    LET r == [dst |-> ev.dst, gateway |-> ev.gateway] IN
    /\ mem' = (mem \ Remembered(ev.dst)) \cup {r}
    /\ \/ kroute' = RouteReplace(kroute, r) /\ UNCHANGED count
       \/ Spend("fail") /\ UNCHANGED kroute

\* on_event for an advertisement: remembered only once `ip` succeeded.
Install(ev) ==
    LET r == [dst |-> ev.dst, gateway |-> ev.gateway] IN
    \/ /\ kroute' = RouteReplace(kroute, r)
       /\ mem' = (mem \ Remembered(ev.dst)) \cup {r}
       /\ UNCHANGED count
    \/ /\ Spend("fail")
       /\ UNCHANGED <<kroute, mem>>

OnEvent(ev) ==
    /\ Receives(ev)
    /\ \/ IsOwn(ev) /\ UNCHANGED <<kroute, mem, count>>
       \/ ~IsOwn(ev) /\ (ev.withdrawal \/ IsRejected(ev)) /\ Uninstall(ev)
       \/ ~IsOwn(ev) /\ ~ev.withdrawal /\ ~IsRejected(ev) /\ Install(ev)

\* The injected-routes sync tick.
Sync ==
    /\ engine = "gobgp" /\ pc = "idle"
    /\ pc' = "pass"
    /\ add' = SyncRoutes
    /\ UNCHANGED <<engine, reject, nodes, kroute, mem, want, del, daemon, queue,
                   count>>

---------------------------------------------------------------------------
(* Starting and restarting *)

\* What the synced Node store may hold.  The injector does not read it, so it
\* is left empty there.
Stores(e) ==
    IF e = "gobgp" THEN {[n \in Node |-> NoGw]}
    ELSE {s \in [Node -> MaybeGw] :
             /\ s[Local] = LocalIp
             /\ \A n \in Node \ {Local} : s[n] \in Addresses[n] \cup {NoGw}}

Init ==
    /\ engine \in Engine /\ reject \in SUBSET Rejectable
    /\ nodes \in Stores(engine)
    /\ kroute = [p \in Prefix |-> NoGw]
    /\ mem = {} /\ pc = "idle" /\ want = {} /\ add = {} /\ del = {}
    /\ best = [p \in Prefix |-> NoGw]
    /\ watching = FALSE
    /\ stream = <<>> /\ queue = <<>>
    /\ count = [f \in Fault |-> 0]

\* The agent and its gobgpd end at any point and are started again; the
\* kernel keeps its routes.
Restart(e, rej) ==
    /\ Spend("boot")
    /\ engine' = e /\ reject' = rej
    /\ nodes' \in Stores(e)
    /\ Rest({})
    /\ best' = [p \in Prefix |-> NoGw]
    /\ watching' = FALSE
    /\ stream' = <<>> /\ queue' = <<>>
    /\ UNCHANGED kroute

---------------------------------------------------------------------------

PassStep == (\E r \in add : PassReplace(r)) \/ (\E r \in del : PassDel(r)) \/ PassDone

Recv == \E ev \in {queue[i] : i \in 1 .. Len(queue)} : OnEvent(ev)

Next ==
    \/ \E p \in Prefix : Drift(p)
    \/ \E n \in Node \ {Local} : \E ip \in Addresses[n] \cup {NoGw} : NodeChange(n, ip)
    \/ Reconcile \/ PassStep \/ PassFail
    \/ \E p \in Prefix, g \in MaybeGw : BestChange(p, g)
    \/ Forward \/ Cut \/ Connect
    \/ Recv \/ Sync
    \/ \E e \in Engine, rej \in SUBSET Rejectable : Restart(e, rej)

Spec == Init /\ [][Next]_vars

\* The tokio runtime runs every task that can make a step; select! picks at
\* random among its ready branches, so neither the ticker nor the channel is
\* passed over for ever.
Fairness ==
    /\ WF_vars(PassStep)
    /\ WF_vars(Forward)
    /\ WF_vars(Connect)
    /\ WF_vars(Reconcile)
    /\ SF_vars(Recv)
    /\ WF_vars(Sync)

FairSpec == Spec /\ Fairness

---------------------------------------------------------------------------
(* Properties *)

TypeOK ==
    /\ engine \in Engine /\ reject \subseteq Rejectable
    /\ nodes \in [Node -> MaybeGw]
    /\ kroute \in [Prefix -> MaybeGw]
    /\ mem \subseteq Route /\ want \subseteq Route
    /\ add \subseteq Route /\ del \subseteq Route
    /\ pc \in {"idle", "pass"}
    /\ best \in [Prefix -> MaybeGw]
    /\ watching \in BOOLEAN
    /\ stream \in Seq(Event) /\ queue \in Seq(Event)
    /\ Len(queue) <= QueueCap
    /\ count \in [Fault -> Nat]

\* No event is on its way and the watch is open.
Quiet == watching /\ stream = <<>> /\ queue = <<>>

\* None of these faults has happened.
Free(faults) == \A f \in faults : count[f] = 0

\* The routes this node should have: to the pods of the other nodes, or what
\* gobgpd has learned from peers and the node does not reject.
Wanted ==
    IF engine = "logging" THEN DesiredPodRoutes
    ELSE {r \in Route : best[r.dst] = r.gateway /\ r.gateway # LocalIp
                        /\ r.dst \notin reject}

Installed(r) == kroute[r.dst] = r.gateway

\* Whatever `ip` commands fail and however often the watch breaks, a route in
\* the injector's map is in the kernel, so that what sync re-applies and what
\* a withdrawal removes is what is there.
InjectedInKernel ==
    engine = "gobgp" /\ Free({"drift"}) => \A r \in mem : Installed(r)

\* Between two passes the kernel has exactly the routes the running writer
\* remembers, as long as no command failed and nobody else touched the table.
\* Nodes keep their address here (see PodRoutesInstalled).
KernelIsMemory ==
    pc = "idle" /\ Free({"fail", "drift", "boot"}) =>
        \A p \in Prefix : {r.gateway : r \in Remembered(p)} = {kroute[p]} \ {NoGw}

\* Once no event is on its way, every route learned from a peer is in the map,
\* however often the watch broke and the agent was restarted: opening the
\* watch with init makes up for what was lost.
LearnedInstalled ==
    engine = "gobgp" /\ Quiet /\ Free({"fail"}) => Wanted \subseteq mem

\* Once no event is on its way, a prefix without a best path has no injected
\* route, if the watch never broke and this node never advertised it itself.
WithdrawnRemoved ==
    engine = "gobgp" /\ Quiet /\ Free({"cut"}) =>
        \A p \in Prefix \ Own : best[p] = NoGw => Remembered(p) = {}

\* A route the node goes on wanting is in the kernel in the end and stays
\* there, although the channel is bounded, the watch breaks and, for injected
\* routes, other programs delete them.
Delivered ==
    \A r \in Route :
        <>[](r \in Wanted /\ Free({"fail"} \cup (IF engine = "logging" THEN {"drift"} ELSE {})))
            => <>[]Installed(r)

\* podnet.rs: "each node installs a direct route to every *other* node's pod
\* CIDR via that node's IP": when a reconcile has applied the current nodes,
\* nothing failed and nobody else touched the table, their routes are there.
PodRoutesInstalled ==
    engine = "logging" /\ pc = "idle" /\ mem = DesiredPodRoutes
        /\ Free({"fail", "drift", "boot"})
        => \A r \in DesiredPodRoutes : Installed(r)
============================================================================
