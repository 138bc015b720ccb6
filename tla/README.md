# kube-router-rs: a TLA+ verification project

kube-router-rs is a node agent for Kubernetes.  One process per node runs up to
four controllers, each an asynchronous task with its own loop: the **router**
(BGP and kernel routes), the **firewall** (NetworkPolicy), the **service proxy**
(IPVS) and the **LoadBalancer allocator**.  Every controller compares what it
wants with what it remembers having done and repairs the difference with a long
series of calls to the kernel, to a daemon or to the API server, any of which may
fail.  The controllers share no state except the health table; they meet in the
kernel and on the API server.

This directory models the controllers whose loops keep state, checks them with
TLC and proves their main results with TLAPS.

## 1. Inventory

| Component (crates/...) | State | Operations | Talks to | What is hard |
|---|---|---|---|---|
| IPVS sync loop (`proxy/src/sync.rs`, `graceful.rs`, `ipvs.rs`) | `applied`, `bound_vips`, `gqueue`, `sloppy_tcp`; kernel: services, destinations, addresses, conntrack | `reconcile` on a tick, event pass on `changed`, drain, delete | informers (Notify), kernel | a pass is dozens of awaited calls and may end at any of them; memory and kernel part; events during a pass; drains that outlive a pass; restart with an old kernel |
| LB leader election (`lballoc/src/election.rs`, `lballoc_wire.rs`) | Lease, `is_leader` | `tick` | API server | clocks, truncated seconds, conflicts, lost answers, a leader that hangs |
| LB address pools (`lballoc/src/pools.rs`) | cursor per family | `inc`, `next_free_ip` | allocator | wrap-around, end of ranges, exhaustion |
| LB allocator (`lballoc/src/controller.rs`, `allocate.rs`, `lballoc_wire.rs`) | cursors, allocated sets of a pass | `reconcile`, `plan_allocation`, `append_ingress` | informer store (stale), API server | a stale store, conflicts, lost answers, change of leader |
| Informers (`kube-client`) | reflector store, Notify permit | apply, notify | API server, controllers | order of store update and ping, lost wake-ups |
| Service translation (`proxy_wire.rs`, `proxy/src/model.rs`, `validation.rs`) | none | Service and EndpointSlices to IPVS services | sync loop | traffic policies, NodePorts, ranges |
| DSR, TCPMSS (`proxy/src/dsr.rs`, `tcpmss.rs`) | fwmark registry; kernel: FWMARK services, mangle rules | assign, configure | kernel | hash collisions of marks, a registry that a restart forgets |
| Hairpin, masquerade, service firewall (`proxy/src/hairpin.rs`, `masquerade.rs`, `firewall.rs`) | `firewall_setup_done`; kernel: rules, three sets per family | sync | iptables, ipset | rules and sets that change one by one under traffic; flags that change across a restart |
| NodePort health checks (`proxy/src/nodeport_hc.rs`) | servers by port, counts | start, stop, publish | load balancers | a port that cannot be bound |
| Network policy (`netpol`) | none kept; kernel: ipsets, chains, jumps | `reconcile` | informers, ipset, iptables-restore | order of ipset and iptables updates, names that must not collide, default deny |
| BGP peers (`routing/src/controller.rs`, `peers.rs`, `external_peers.rs`) | `current_peers`, own attributes | reconcile, add external peers | Node store, gobgpd | memory and daemon part after a failure; both ends of a session decide by themselves |
| Advertisement (`routing/src/advertise.rs`, `service_vips.rs`, `bgp_policy.rs`, `svc_vip_wire.rs`) | `advertised` | sync | Service stores, gobgpd | half-applied differences; another task serves what is announced |
| Injection (`routing/src/inject.rs`) | injected routes | inject, withdraw, sync | gobgpd, kernel | lost withdrawals, reconnects |
| Pod network (`routing/src/podnet.rs`, `netlink-sys`) | `applied` routes | reconcile | Node store, `ip route` | delete after replace of one prefix |
| BGP engine (`bgp`) | the daemon's | gRPC calls, best-path watch | GoBGP | external daemon, stream ends |
| Health (`observability/src/health.rs`, `http.rs`) | last beat, TTL per component | register, heartbeat, healthz | every controller | a window too small, a component nobody beats |
| Orchestration, cleanup (`main.rs`, `orchestrate.rs`, `cleanup.rs`) | shutdown flag, tasks | start, stop | all | a controller that fails at start |
| CNI, CRI, config, common | files, flags | rewrite conflist, one call, parse | kubelet, runtime | mostly I/O |

What makes each component correct:

* sync loop: no store change is forgotten; without failures the kernel equals the
  snapshot; with failures nothing desired is taken down; a removed endpoint is
  drained, then deleted; what the kernel loses comes back;
* election: at most one leader; a Lease is not taken while it is fresh;
* pools: every free address is found; every scan ends;
* allocator: no address is given out twice; one address per family; external
  addresses are respected; everyone is served eventually;
* network policy: traffic that a policy forbids is never let through by a
  half-finished update; traffic that is allowed keeps flowing;
* routing: the kernel's routes follow the learned ones, peers and advertised
  prefixes follow the cluster, and what is announced is served;
* the tail of a proxy pass: a half-built firewall fails open, a complete one closes;
  services do not share marks; nat rules and health checks follow the stores;
* health: a live agent is not reported dead, a dead controller is; a signal ends
  everything.

## 2. Modules

    ServiceSync            the IPVS sync loop                     MCServiceSync
    ServiceSync_proofs     its theorems
    Leadership             abstract: instances take turns to lead
    LeaseElection          implements Leadership with a Lease     MCLeaseElection
    LeaseElection_proofs   its theorems
    IpRanges               pools.rs as operators
    LbAllocator            the allocator on several nodes;        MCLbAllocator
                           extends IpRanges, uses Leadership
    LbAllocator_proofs     its theorems
    Routing                pod-network and BGP routes             MCRouting
    BgpPeers               peers of every node and its gobgpd     MCBgpPeers
    Router_proofs          theorems about Routing and BgpPeers
    NetPolSynth            policies to chains and sets; what
                           netfilter makes of them (operators)
    NetPol                 the policy controller and the kernel;  MCNetPol
                           extends NetPolSynth
    NetPol_proofs          its theorems
    SvcModel               Services to IPVS services (operators)
    VipAdvertise           announced prefixes and served          MCVip
                           addresses; extends SvcModel
    ProxyTail              the tail of a proxy pass;              MCTail
                           extends SvcModel
    Services_proofs        theorems about VipAdvertise and
                           ProxyTail
    Agent                  start, health and end of the process   MCAgent
    Agent_proofs           its theorem
    Lists                  map and filter over lists (operators)
    Lists_proofs           lemmas about them, and about the
                           least element of a set of numbers
    MCNode                 NetPol, BgpPeers, VipAdvertise, ProxyTail and Agent in one run

`LbAllocator` composes with `LeaseElection` through `Leadership`: the election is
proved to implement `Leadership`, and `LbAllocator` lets its nodes lead only by
`Leadership`'s actions.  The two are not checked as one product.

### ServiceSync

`ServiceSync::run` is `Tick`, `Wake` and `Debounced`; `reconcile_inner` is a
series of actions, one per awaited operation, in the phases `program`, `stale`,
`removed`, `addvip`, `delvip`, `graceful` and `tail`.  The local variables of a
pass are `want` (`desired`) and what the current phase has still to visit
(`todo`, `dtodo`, `vtodo`, `pending`); `applied`, `bound`, `gqueue` and `sloppy`
are the fields of `ServiceSync`; `ksvc`, `kdst`, `kvip`, `ksloppy` and `ct` are the
kernel.  A snapshot is taken at the level of IPVS services: a key has a scheduler,
a DSR flag and a set of endpoints, or is absent.  BTreeMap order is abstracted to
any order.

`Fail` ends a pass at any awaited operation, as `?` does.  `RemoveDest` and
`RemoveService` leave a UDP service in `flush`, and `FlushUdp` is the awaited flush that
follows, so failures and restarts also fall between the two.  `Restart` loses the memory
and keeps the kernel.  `Drift` is another program
deleting a service.

The kernel is modelled as `SystemIpvs` reports it: `EEXIST`/"already exists" and
`ENOENT`/"No such" count as success and change nothing, and an operation on a
destination of a missing service fails.

### LeaseElection and Leadership

`acquire_or_renew` is `Start` (the clock is read), `Get`/`GetHeld`, and
`Put`/`PutConflict`/`PutUnanswered`/`Failed`; `LeaderElector::tick` is `Conclude`.
`SyncStart`/`SyncEnd` are the time a pass of the allocator takes, during which the
`select!` loop makes no attempt.  Time is counted in ticks, `SubSec` to the second;
a node's clock is `Skew[n]` ticks ahead.  `Timely` bounds how late an attempt may
end and a leader may renew (`Stall`); nothing in the code enforces it.

### IpRanges and LbAllocator

An address is a number below `Space`, a range an `IpNet`.  `Inc` and `NextFreeIp`
are `inc` and `next_free_ip`; the loop is a recursive function over the number of
increments.  `PlanAllocation` is `plan_allocation` with the gate `CanAllocate`;
the cursor moves on even when the plan is refused.  A pass of node `n` is
`PassStart`, then per Service `Plan`, `GetStatus`, `ReplaceStatus`; `Refused`,
`Failed` and `Unanswered` are the ways `append_ingress` goes wrong.  `cache[n]` is
the informer store: the API server's state at some earlier time.  `StoreCurrent`, in
`Pass`, restricts behaviours to passes that start from a store that has caught up when
`FreshCache` is set; the code has no such wait, and what happens without it is in
lb_v_stale and section 5.

### Routing

`run_routing` lets one of two tasks write the main routing table; `engine` says which,
chosen anew at every start as `build_engine` does.  Both remember the routes they have
installed: `mem` is `PodNetController.applied` or `RouteInjector.routes`.  `Reconcile`
takes the snapshot of a pod-network pass (`want`, `add`, `del`), `Sync` the one of an
injected-routes sync (`add`); `PassReplace` and `PassDel` are one `ip` command each,
`PassFail` is a failing one (`?`), and only `PassDone` of the pod network updates `mem`.

`BestChange` is gobgpd; `Forward` is the loop of `watch_best_paths`, which waits while
the channel is full; `Cut` and `Connect` are the end of a watch and the next one in
`watch_task`, which starts with a replay (`init: true`) of the paths that are best then.
`OnEvent` is an event in `receive_side_inject` and `RouteInjector::on_event`: skipped if
its next hop is the local address, removed from the map before `ip route del`, added
after `ip route replace`.  Handling one event is one step: no other task reads the map,
and a crash between its two effects has the same result as one before or after it.
`ip route del` names the destination only, so it deletes the route whatever its gateway.

`count` counts the faults of each kind (failed commands, broken watches, deletions by
other programs, restarts), so that a property can say which ones it tolerates.  There is
one address family.  gobgpd restarts only together with the agent.  Under gobgp the Node
store is left empty, because the injector does not read it.

### NetPolSynth and NetPol

`MapPod`, `MapPolicy` and `Snapshot` are `netpol_wire.rs`; `BuildPlan` is `build_plan`: a
plan has sets, chains and rules, in the order in which they are written.  A set or chain
name is a tuple of what the code hashes (`Key`: namespace and policy name run together, as
in the code), so two names are equal exactly when the hashed strings are; collisions of
SHA-256 itself are left out.  A rule is a sequence of conditions and a target.
`Walk`, `Traverse` and `Passes` are netfilter: marks, returns, nested chains, and the hooks
that a flow crosses (a flow to a service address crosses INPUT before and OUTPUT after
IPVS has rewritten it).

`Loadable` says which sets `ipset restore` takes: hash:net has no element for a whole address
space, and names have at most 31 letters.  A set is filled under its own name with TMP- before
it, so the lengths of names (`NameLength`) are modelled too.

`NetPol` has the stores (`npStore` names one of the worlds), the flags (`npDeny`; `npFams`, the
families that --enable-ipv4 and --enable-ipv6 switch on), the pass (`npPass`: snapshot, family,
plan, number of the next command) and the kernel (`npSets`, `npChains`, `npJumps`).
`NpTick` takes the snapshot; `NpRestoreSet`, `NpRestoreFilter` and `NpEnsureJump` are one
command each; `NpFail` is a failing one, with the effects that `ipset restore`, which works
line by line, may have had (a set that is not `Loadable` always fails, with the new set
created); `NpRestart`, `NpJumpsLost` and `NpCleanup` (`--cleanup-config`,
against whatever state the agent was stopped in) are the environment.  `npBase` is, for
each family, the world that a pass last wrote to its last command.  The reference is `Allowed`, Kubernetes' own
definition over the objects, which uses no part of `BuildPlan`.

`FreshPodsWait` counts an address of the pod CIDR that no policy has programmed as a fresh
pod, except the node's own when it sends (`FreshPod`), and leaves out what a pod sends to
the node itself on an address or a port of the services (`EndsAsService`): `ServiceReturns`
takes that out of the INPUT chain, for IPVS to choose a backend.

`ChainsLeft` and `SetsLeft` are what a pass leaves in an empty kernel, `ChainsAt` and `SetsAt`
what the first commands of a pass over one world leave after a pass over another.
`TranslationExact` and `OrderTight` are formulas about those alone, without a state.

### BgpPeers

Every node has an agent, a gobgpd and the same Node store.  `BgStart` is `build_engine`,
`build_controller` and `apply_external_peers`; `BgReconcile` is a tick: it reads the store
and then only calls gobgpd, one call after another, so it is one step that may stop after
any of them.  `AllNodesLearn` computes from the neighbours of all daemons who learns a
prefix: sessions need both ends and the right AS number, and a reflector passes on what
RFC 4456 lets it.

### SvcModel and VipAdvertise

`MapServices` and `Desired` are the code from Services and EndpointSlices to IPVS
services; `AdvertisedServiceVips` is the other reader of the same objects.  `AdSync` is a tick of
the VIP task, `AdProxyPass` a pass of the proxy, which `ServiceSync` models in detail.
`adPending` and `adFlapped` record whether a failed sync was followed by one that wanted
something else.

### ProxyTail

A pass is a list of stages (`ptTodo`) in the order of `sync.rs:507-539`; each stage may
fail after any of its commands, which ends the pass.  The stages for the nat table and for the
health checks read the stores again (`HairpinWorld`, `ptRead`), later than the snapshot of the
pass.  `PtHairpin` puts the jump in, then flushes and fills the chain; `flush_chain` and `delete`
do not look at the exit status of iptables, so a stage may end well although a command was
refused (`Flushed`, `ptRefused`).  `ptSteady` says that the stores have not changed since the
pass began.  `configure_dsr` and the TCPMSS rules
are a stage per VIP (`PtMark`, `PtTcpMss`).  `HalfFilled` (the sets are written line by line)
and `Building` (the chain is) say what the first commands of a stage have done.  `PtRestart`
keeps the kernel and may change the flags.  `Rejected` is the verdict of the chain for a destination.

### Agent

`agTask` are the controllers' tasks and `agLoop` their loops over tokio ticks (a late tick fires
at once), `agBeat` is `HealthState`.  Time is discrete (`AgTime`), and does not pass while
something is due.  The loop of the LoadBalancer has a second arm, the election's tick (`AgElect`,
`AgElectEnds`), which is awaited like a pass and beats no heart; `waited` counts how long it has
kept a sync tick that was due from being taken.  Any call may hang for good: of a pass or of the
election (`AgHangs`), of a start (`AgStartHangs`), and `StopBgp` (`AgStopHangs`; otherwise
`AgStopBgp` and `AgKill` are the router's end).  A task whose call hangs is "hung".

### MCNode

The five components above share no variable, so a behaviour of all of them is an
interleaving of one behaviour of each, and a property of one component's variables holds of
the whole exactly when it holds of the component.  `part` picks the component that moves in
a behaviour; the others stay in an initial state.  The state spaces add up and TLC runs
once.

## 3. Runs

| Run | Checks | Instance |
|---|---|---|
| svc_calm | `KernelMatches` | two services (UDP and TCP) sharing an address, two schedulers, DSR, no graceful termination, no failures |
| svc_faults | `TypeOK`, `NoLostWakeup`, `DesiredNeverRemoved`, `FlushedBeforeForgotten` | one UDP NodePort service with two endpoints, graceful termination, failures and restarts anywhere, any number of them |
| svc_live | `DrainedAreQueued`, `DrainBeforeDelete`, `HealsServices`, `DrainCompletes` | one service with one endpoint, graceful termination, one loss by the kernel |
| svc_v_fullsync | `FullSyncHeals` is violated | as svc_live, the service stays |
| lease | `TypeOK`, `AtMostOneLeader`, `NotStolenWhileFresh`, `TakesTurns` | two nodes, clocks half a second apart, failures, lost answers and restarts |
| lb | `NoDoubleAssign`, `OnePerFamily`, `PlansClear`, `FindsFree` | two nodes, three Services, both families, four bounded events |
| lb_live | `EverySvcServed` | one node, two Services, stale stores, failures |
| lb_v_stale | `NoDoubleAssign` is violated | one node, two Services, a pass may start from a stale store |
| routes | `TypeOK`, `InjectedInKernel`, `KernelIsMemory`, `LearnedInstalled`, `WithdrawnRemoved`, `Delivered` | two prefixes, three next hops, two peers with fixed addresses, both engines, up to two faults of any kinds |
| routes_v_move | `PodRoutesInstalled` is violated | one peer that may change its address, no faults |
| node, netpol | `EnforcesPolicy`, `NoHole`, `FreshPodsWait`, `CleanupOpens`, `Converges` | three pods in two namespaces, two of them here; four worlds with named and numbered ports, blocks with exceptions, policies for one and both directions; IPv4, IPv6 or both, with and without default_deny; 19 flows, two of them IPv6, some of or to pods that no world has yet, for which `TranslationExact` and `OrderTight` are evaluated too; one change and one fault |
| node, peers | `PeersInDaemon`, `AllNodesLearn` | three nodes; meshes, reflectors with clients of another cluster id, nodes without address, annotated AS numbers; one change and one fault |
| node, vips | `RibIsKnown`, `AdvertisedIsServed` | four Services, three worlds, three configurations, two changes and one fault |
| node, tail | `FirewallFailsOpen`, `FirewallCloses`, `DsrSeparate`, `TailFollows` | three Services, two of them DSR with colliding hashes, both families, two sets of flags, one change and two faults |
| node, agent | `LiveIsHealthy`, `DeadIsNoticed`, `SignalEnds` | each controller alone, with and without gobgpd, periods 2 and 3; passes and election calls up to 2, starts up to 1, each of which may also hang |
| netpol_v_names | `NamedPortsExact` is violated | one policy with two named ports in a rule, two pods, no faults |

**Bounds.**  Services, endpoints and addresses interact in a pass only through
equality of keys and shared addresses, so two services with one address, and one
service with two endpoints, contain every pair of interacting items.  Failures and
restarts are unbounded in svc_faults.  `MaxDrift` is 1, because a second loss starts
from a state the first one can start from too.  In lease, `MaxTime` (9 ticks) is
longer than a Lease (6 ticks) plus the longest stall (3).  In lb, `MaxEvents` (4)
counts changes by users, failures and changes of leader: enough to create three
Services and to lose an answer or the leader; pools of three and two addresses are
exhausted by them, one range has host bits and lies at the top of the address
space, and ranges are out of order.  In lb and lb_live the system comes to rest when
the bounded events are used up and everyone is served, so deadlock is not an error
there.  In
routes, `MaxFaults` (2) allows any pair of faults (such as a break of the watch after a
restart), `QueueCap` and `MaxStream` (1 each) plus a replay put up to three events in
flight, more than one per prefix, with the channel full.  In node, one change of the stores is enough for a pass over a stale
snapshot followed by one over the new one, and one fault for a pass that stops at any
command, or for a cleanup at any command; the tail has two, for a restart with other flags (it begins with the firewall on)
followed by a failure.  The policy controller begins with one of the two worlds that differ in
their pods, or, with one family alone, with the block that ipset refuses, and goes to any other.  The worlds are chosen so that each kind of peer, port and policy
type meets a flow that it allows and one that it refuses.  Controllers of the agent do not
wait for each other except in main, which takes one at a time here.  The agent ends, so
deadlock is not an error in node.  `AgMaxStart` and `AgMaxPass` bound the calls that
return, not those that hang.
The proofs below remove the bounds for the properties they cover.

**Fairness.**  In svc_live: `select!` polls its arms in random order, so a ticker
that becomes ready again and again is taken eventually although pings compete with
it: strong fairness of `Tick`.  Steps of a running pass, the debounce, the
informer's ping: weak fairness, as they are never disabled by anybody else.  A grace
period elapses in real time, also while its item is taken from the queue and put
back: strong fairness of `Expire`, per destination.  Nothing is assumed of failures,
restarts, changes of the stores.  In lb_live: the watch delivers, the ticks fire and
calls return, each with weak fairness per node.  In routes: the steps of a pass, the
watch task and the tickers are never disabled for good, so weak fairness; taking an event
is disabled during every sync and picked at random against the ticker, so strong fairness
of `Recv`.  Faults and changes of paths and nodes need not happen.
In node: the policy controller's interval ticks and its commands return (weak fairness).
For the agent, time passes, ticks fire and every call that main or a task awaits returns or
hangs for good (weak fairness of the choice between the two); `select!` takes one of its ready arms at random, so a loop whose
next tick is always due already still sees the shutdown (strong fairness of
`AgLoopStops`).  A hanging call need not end, and `SignalEnds` and `DeadIsNoticed` say what
follows from one.

## 4. Theorems

All are for any constants that satisfy the named assumptions; what a theorem needs beyond
them is a hypothesis of its own, listed here with the line of the code that makes it
necessary.

**`ServiceSync_proofs`.**  `TypeCorrect`, `WakeupsServed` (`NoLostWakeup`) and `DesiredStays`
(`DesiredNeverRemoved`) hold whatever fails.  The inductive invariant is
`TypeOK /\ PassInv /\ WakeInv`.  `PassInv` says which destinations, services and queue items
each phase may still touch, that none of them is desired by the pass and that `want` is empty
between passes; `WakeInv` says that a difference between the stores and what was (or is being)
applied is always covered by a ping on its way, a permit, a debounce or a pass that has not
taken its snapshot.

What the kernel holds is another matter, because memory is written at the end of a pass only.
Three more theorems need hypotheses:

| Theorem | Property | Hypotheses | Because |
|---|---|---|---|
| `CalmKernel` | `KernelMatches` | `Unfailing` (no failure, restart or loss) and `Steady` (no graceful termination, one forwarding method) | a failed or restarted pass leaves what it does not remember (`sync.rs:475`); `NEW_DEST` does not change the method (`sync.rs:442`) |
| `DrainsFirst` | `DrainBeforeDelete` | `Unfailing`, `Graceful` | a destination re-added by a pass that then failed may still be queued |
| `DrainedQueued` | `DrainedAreQueued` | `Unfailing` and `Lasting` (no service is removed) | a queued item of a removed service ends the pass and loses the items behind it (`sync.rs:715`) |

`FlowsFlushed` (`FlushedBeforeForgotten`) needs none: at a `Commit` no UDP flow is pinned to a
destination that `applied` had and the new snapshot lacks, however many earlier passes failed
between the removal and the flush, or in it.  It rests on `applied` being written at `Commit`
only, so that a removal cut short is repeated with its flush: `FlowInv` says that from the phase
on in which it is removed, a destination with a pinned flow is still to be visited or its service
about to be flushed.

`SvcInv`, `DestInv` and `VipInv` follow the kernel's services, destinations and addresses
through a pass: at each phase they equal the new snapshot for what has been visited and the old
one for the rest.  `ServInv` says that what takes connections is desired by the last snapshot or by the
one being applied, or about to be drained by this pass; `KeyInv` and `DrainInv` do the same for the graceful queue.

**`LeaseElection_proofs`.**  `TypeCorrect` (which includes that only a node that believes it
leads runs a pass), `NotStolen` (`NotStolenWhileFresh`, without timing
assumptions), `MutualExclusion` (`AtMostOneLeader`) and `Implementation`
(`Spec => Turns!Spec`), the last two if `Stall` plus any difference of two clocks is less than
the duration less one second.  The invariant adds to types: an attempt that will write has read
a Lease it may take (`Justified`), no stamp lies in the future (`Past`), nothing a leader relies
on is older than `Stall` (`Timely`), and a leader holds the Lease with a stamp no older than its
last success (`Holds`).

**`LbAllocator_proofs`.**  `NeverDoubleAssigned` (`NoDoubleAssign`) and `NeverOverAllocated`
(`OnePerFamily`), if passes start from stores that have caught up (`FreshCache`, through
`StoreCurrent`); both are false of the code otherwise (section 5).  The invariant
`LInv` says that only the leader is in a pass (`Alone`), that what it considers taken includes
everything given out (`Sees`), that the Services it has still to look at have not been served
meanwhile (`Unserved`), and that the planned addresses are nobody else's and fit (`Fits`).  Of
the pool it uses only that `next_free_ip` returns nothing or an address that is not allocated.

`PlansAreClear` (`PlansClear`) needs no hypothesis and `FreeIsFound` (`FindsFree`) that the
ranges of a family are disjoint (`NoOverlap`): if they overlap, the loop may come back to its
start early (`pools.rs:100`).  Their invariant `CInv` is about types, cursors (`OnRanges`: a
cursor is an address of its ranges) and what a pass has taken (`Tracked`).  They need what the
loop of `next_free_ip` visits: it is a recursive function of the number of increments, and facts
about all of its values are proved by contradiction from the least number where they fail
(lemma `Least`, from the well-founded order of the naturals).

**`Router_proofs`, routes.**  `TypeCorrect`, `InjectedStays` (`InjectedInKernel`), `LearnedStays`
(`LearnedInstalled`) and `WithdrawnStays` (`WithdrawnRemoved`), for any prefixes (finitely
many), next hops, capacities and numbers of faults.  `MapInv` adds to the first that the map has
one route per prefix and that a sync re-applies only routes of the map.  The other two speak of
states with nothing in flight; their invariants (`LearnedInv`, `WithdrawnInv`) look at channel
and stream as one sequence `Flow` and say of every prefix that the last event about it agrees
with gobgpd's best path, or, if there is none, that the map does (`Due`, `Leaving`).  Lemmas say
what adding an event at the end and taking one from the front do to such a sequence
(`EndAppend`, `EndPop`).  `OwnInv` says that only events about this node's own prefixes are
skipped.

`MemoryIsKernel` (`KernelIsMemory`) says that the kernel has no other routes than the running
writer's.  It is for nodes that keep their address (`Stationary`: nodes with a common pod CIDR
have one address), because a pass of the pod network replaces before it deletes and so deletes
the new route of a node that moved; routes_v_move shows it.  `MemInv` follows a pass: the kernel
has the remembered routes, less those deleted and with those added so far.

**`Router_proofs`, peers.**  `PeersTracked` (`PeersInDaemon`) and `ClusterLearns` (`AllNodesLearn`),
for any worlds that are lists (`BgLists`) and in which no two nodes share an address
(`BgDistinct`; the address is the key of a peer in `current_peers` and in gobgpd).  A peer is
added and removed by its address, so `DerivedInv` also has to say that `current_peers` is what
`derive_ibgp_peers` made of the store last seen, where addresses are unique.  `ClusterLearns` then
needs no history: two settled nodes either peer with each other, from both ends and with the AS
number the other end runs, or a reflector that both peer with passes the prefix on.

**`Services_proofs`, announcements.**  `RibKnown` (`RibIsKnown`), if no VIP of a Service is also a pod CIDR
(`AdPrefixes`; one prefix has one entry in gobgpd's table).  `TableInv` says what the table may
hold between a failed sync and its retry: all that is remembered and still wanted, nothing that
is neither.

`AnnouncedIsServed` (`AdvertisedIsServed`) needs in addition that lists are finite (`AdLists`), that
a slice names a port once and an endpoint has an address (`AdSlices`; the API server sees to
both), and that no two insertions of a pass have the same address, port and protocol
(`AdAddresses`: the later would replace the earlier, `sync.rs:331`).  `SeenInv` says that what is
announced and what IPVS has are the two functions of the stores that each task last saw; the
rest is about the functions: a VIP in the list of `map_svc_vips` is one of the addresses for which
`reconcile_inner` inserts a service, and what counts as a local endpoint for the one is a
destination for the other.

**`Services_proofs`, tail.**  `FirewallStaysOpen` (`FirewallFailsOpen`), `FirewallStaysClosed`
(`FirewallCloses`), `MarksStaySeparate` (`DsrSeparate`) and `TailStaysInStep` (`TailFollows`), for
any Services (`PtLists`: their ports and addresses are lists), flags, hashes and failures.
`PtFlags`, `PtIncrements`, `PtDestinations` and `PtPrimaryAddress` are types of constants.

`TailFollows` says of a pass that has got past a stage, while the stores are still those it began
with, that the nat rules of both families and the health checks are those of the stores, the
flags and the pod CIDRs, leftovers included: of earlier passes that failed half-way, of other
worlds, of a process with other flags.  It compares them with `Calls`, a definition over Services and endpoints
(which pod may call itself through which address), not with the rules a stage writes
(`RulesAreCalls`).  Its invariant adds which stages are still to come and for which families
(`StageKinds`), the shape of the nat table (`NatFields`) and what the stages behind the pass have
left (`TailDone`); a stage that ends well although iptables refused its command is recorded in
`ptRefused`, and only the rules it should have removed are excused.

`SetsKnown` says that sets filled without an error hold what they were filled from, and
`ChainKnown` that every chain has the first of the three rules, the rejecting one last;
`TodoShape` that a pass ends with the chains of both families, so that `firewall_setup_done` is
set after both (`Closed`).  `MarksKnown` says that, unless marks were inherited from a previous process, each MARK rule
carries the mark of its own key and each FWMARK service has endpoints of the key that has its
mark, and `Aimed` that the stages to come add endpoints of
their own key only; that follows from lemmas about how the jobs of a pass are listed (`Flat`,
`Filtered`, `Entries`, `Jobs`).

**`NetPol_proofs`.**  Five theorems, for any worlds and flows (`NpLists`: the lists of the objects
are finite; `NpFlows`: a packet has one family and meets its hooks in the top-level chains, the
last one with its final destination), any length of the plans and any faults.

| Theorem | Property | Hypotheses |
|---|---|---|
| `KernelKept` | `KernelInv`, the inductive invariant | |
| `UnprogrammedWait` | `FreshPodsWait` | |
| `CleanedIsOpen` | `CleanupOpens` | |
| `AppliedIsEnforced` | `EnforcesPolicy` | `TranslationExact` |
| `NothingOpens` | `NoHole` | `OrderTight` |

Nothing ever clears the kernel: earlier passes, failed ones and other worlds leave chains and
sets behind, and a pass writes into what it finds.  That this cannot change a verdict is the
first part of the argument.  `PassesAlike`: if all jumps and lookups of some chains stay within
them and some sets (`Closed`), a packet meets the same verdict in any kernel that includes both.
`BuildFacts`: a plan names no chain and no set that it does not provide, each rule is of one of the
shapes in `Shape`, and the set of the local pods is written with one value.  The second part is
`KernelInv`: the kernel includes what the running pass has written of the family it is at
(`PassWritten`) and, for each family that a pass has written to its end, `ChainsAt` and `SetsAt`
(`BaseKept`, `BaseKeptIn`); all jumps are there unless they were
lost, which makes `npBase` void.

`AppliedIsEnforced` and `NothingOpens` then say that a state of the process is right whenever a
formula about worlds alone is: everything that concurrency, failures, restarts and leftovers
could add is proved away.  The two formulas are hypotheses because they compare what `build_plan` makes
of every possible object with Kubernetes' definition; no induction over data is at hand, and both are
false for some worlds anyway (section 5; `NamesApart`, `SharedPolicy` and `NoNamedPort` leave out what is known).  TLC evaluates them for the worlds
and flows of MCNetPol, so both theorems apply there.

`UnprogrammedWait` and `CleanedIsOpen` need no such hypothesis.  The walk of a packet is a recursive
function at each of four levels (hops, top-level chain, pod chain, policy chain); `HopsRun`,
`TopRun`, `PodRun` and `PolicyRun` give its states one by one, by contradiction from the least index
that leaves a given set.  For a cleanup, `TopsLead` says that whatever jumps remain lead to chains
whose rules return or jump to chains that a cleanup empties, so no verdict is left.  For default_deny, `Guards`
collects what the plan guarantees: only answers are accepted below the chain of a pod, the chain
itself accepts only the node's own packets to a programmed address, the tail has both refusals
(source and destination not in the set of the local pods) before its first acceptance, and each
top-level chain has the jump to the tail (`BuildWaits`, by the order in which the parts of a plan
are put together).  The theorem protects IPv4 only: with default_deny no pass ever writes the
IPv6 family to its end, so `npBase[6]` stays `NoWorld` and nothing is claimed of it (section 5).  In the mixture of a pass, the chains may be of one world and the set of the
other (`MixtureOf`); a pod that is fresh in both is refused in all four combinations.

**`Lists_proofs`.**  Lemmas that the others cite: which elements a flattened or filtered list has
and in which order, that a recursive function over indices exists and has the values its
equation says (`Recursion`), and that a set of naturals has a least element (`Least`).

**`Agent_proofs`.**  `LiveStaysHealthy` (`LiveIsHealthy`): a live loop is found stale only in a
pass that takes longer than its first cycle and the grace, for any periods and lengths
(`AgDurations`: they are natural numbers).  For the LoadBalancer the time counts too for which an
election call has kept a due tick waiting.  `Paced` bounds the age of a beat by the loop's own
clock: while it is idle, the age and the time to the next tick fit in one interval and what was
`waited`, and a pass adds no more than its own length.

**Only model-checked.**  Liveness, which is out of the prover's reach: `HealsServices`,
`DrainCompletes`, `EverySvcServed`, `Delivered`, `Converges`, `DeadIsNoticed`, `SignalEnds`.  And the
two hypotheses above: that the translation of a world agrees with Kubernetes' definition
(`TranslationExact`) and that the order of the sets is safe (`OrderTight`).  Every invariant and
action property that a run checks is stated by a theorem.

## 5. Known deviations

Four disagreements between the code and what its comments say are kept as runs that
must fail (svc_v_fullsync, lb_v_stale, routes_v_move, netpol_v_names).  While the models were written, the
following were found in the same way; each is the reason why a property above is
stated with a condition.

* `NEW_DEST` does not change a destination that exists, so a full resync that
  notices a changed DSR flag leaves the old forwarding method, and records the new
  one as applied (`sync.rs:442`).  `svc_calm` therefore keeps the flag fixed.
* After a restart `applied` is empty: services, destinations and addresses removed
  from the cluster meanwhile stay in the kernel (`sync.rs:475`), and `sloppy_tcp` is
  assumed to be off (`sync.rs:414`).
* An address unbound by a pass that fails later is still in `bound_vips` and is not
  bound when it is wanted again (`sync.rs:504`).
* `gqueue.take()` empties the queue before its items are handled; an error in
  `del_destination` (its service may just have been removed) drops the items not yet
  visited (`sync.rs:715`).
* A service that the kernel lost and whose scheduler changes is edited, not created;
  the edit counts as success, its destinations then fail, and every later pass does
  the same (`sync.rs:432`).
* UDP flows stay pinned to a removed destination when the agent is killed between the
  removal and the flush (`sync.rs:486-488`, `695-702`).  A destination that only a failed pass
  has added is not in `applied`: if the next pass does not want it, it is neither removed nor
  flushed (`sync.rs:475`).
* `RENEW_DEADLINE` (`election.rs`) is never used and calls have no timeout: a leader
  that is held up for longer than the Lease lasts goes on leading (`main.rs:822`).
* Lease times are truncated to seconds, so a Lease can be taken up to a second before
  "renewTime + leaseDuration" (`lballoc_wire.rs:168`).
* `append_ingress` does not look at the addresses that are there (`lballoc_wire.rs:113-126`):
  a pass over a store that does not show its own last update yet (`controller.rs:88`) gives
  a Service a second address of a family.  `OnePerFamily` is for passes over current stores.
* With one range inside another `next_free_ip` can report exhaustion although
  addresses are free (`pools.rs:100`); `FindsFree` is for disjoint ranges.
* A Service changed to RequireDualStack while it has one address is never given the
  other, because the plan holds only one (`allocate.rs:118`).
* A reconcile of the pod network that fails between two deletes still lists the deleted
  routes as applied; if their node comes back, they are not installed again
  (`podnet.rs:102`).  Nor are routes that another program deletes.
* A withdrawal lost with a broken watch is never made up for: a replay contains only the
  paths that exist (`grpc.rs:180`), and the sync tick keeps the stale route alive.
* The map forgets a withdrawn route before `ip route del` runs; if that fails, the route
  stays (`inject.rs:91`).  An advertisement whose `ip route replace` fails is not retried
  until a new event or a new watch (`inject.rs:109`).
* Events with the local next hop are skipped, withdrawals too (`main.rs:384`): when a
  prefix goes from a peer's path to this node's own path and is then withdrawn, the route
  via the peer stays.  `WithdrawnRemoved` leaves the prefixes in `Own` out.
* Routes of the previous process that are no longer wanted stay after a restart.
* `node_to_route` picks one address per node, IPv4 first, also as the next hop of its IPv6
  pod CIDRs (`routing_wire.rs:348`); `ip` refuses these, and each reconcile ends there.

NetworkPolicy:

* The chain of a policy for both directions is entered for both (`synth.rs:499`): between two
  pods that it selects, its ingress rules are tried at the sender and its egress rules at
  the receiver, so a flow that only one of them allows may pass.
* With default_deny the tail refuses pods of the node that no policy selects
  (`synth.rs:558`).
* An ipBlock of /0 is not an element that hash:net takes: the restore fails, and so does
  every later pass, for all policies of the node (`ipset.rs:106`).  A failure for IPv4 also
  keeps IPv6 from being updated (`controller.rs:96`).
* With default_deny and IPv6 every pass fails: the set of the local pods is filled as
  TMP-kube-router-local-pods-inet6 (`ipset.rs:43`, `naming.rs:37`), 32 letters where ipset takes
  31.  The IPv6 filter table is never written, so nothing is refused there.
* Namespace and name are run together in names (`common/naming.rs:41`): "a", "bc" and
  "ab", "c" share chains and sets.  `EnforcesPolicy` is for worlds without such pairs.
* The set of receivers of a named port is written after the set of peers; in between, a new
  peer reaches an old receiver (`synth.rs:229-274`).
* Chains and sets of policies and pods that are gone stay in the kernel, unused.
* endPort is not read, and neither is the phase of a pod.
* Cleanup deletes neither the IPv6 jumps (`cleanup.rs:36`) nor the sets of policies, names
  the IPv6 set wrongly (`cleanup.rs:58`), and cannot destroy the local-pods set while the tail
  chain still names it.

BGP:

* After a call to gobgpd fails, `current_peers` says what was wanted: the peer is not added
  again until it changes (`controller.rs:120`); external peers after the first failing one
  are never added (`controller.rs:98`).
* A node's own attributes are read once (`controller.rs:114`).  gobgpd is started with
  --cluster-asn although other nodes expect an annotated AS number (`routing_wire.rs:303`).
* One port out of range makes the agent ignore all external peers (`routing_wire.rs:177`).
* Clients without a reflector learn nothing.  If the local node is not in the store at the
  start, there is no controller for good (`routing_wire.rs:152`).
* If a sync fails and the next one wants something else, a prefix announced by the first
  is neither known nor withdrawn (`advertise.rs:74`).
* Pod CIDRs are announced once and without the policy's attributes (`main.rs:204`).
* One bad community drops the node's whole policy, import-reject included
  (`bgp_policy.rs:72`).
* Headless Services with external addresses are announced and not served; `service.local`
  and strict range checks are known to the proxy only (`svc_vip_wire.rs:103`).

Proxy tail:

* The sets of the service firewall are flushed and filled line by line (`firewall.rs:163`):
  in between, or for good if a line fails, the node's own addresses and services whose
  port is not yet in its set are rejected.
* If the local addresses cannot be listed, the node's own ports are rejected
  (`local_ips.rs:38`).  The chain is set up once per process (`sync.rs:586`).
* A health check port that cannot be bound ends every pass before the firewall
  (`nodeport_hc.rs:105`).
* DSR rules, destinations and FWMARK services are never removed, and after a restart the
  registry is empty: a mark can be given to another service (`dsr.rs:89`).
* Masquerading covers the primary address's family only, and rules of former CIDRs stay.
* A refused flush or deletion in the nat table counts as success (`hairpin.rs:190-199`): old
  rules stay until a later pass.

Agent:

* Before the first beat the window has no TTL: a start longer than period and grace is
  reported as unhealthy (`health.rs:52`).
* The injection loop is registered with the routes period and ticks with its own; a
  longer one is reported as unhealthy between ticks (`orchestrate.rs:31-42`).
* A command that hangs keeps the agent from ending (`main.rs:133`), and so does a gobgpd that
  does not answer StopBgp (`main.rs:269`) or a call of a start that never returns
  (`main.rs:161`, `199`, `205`): none has a deadline.
* The election shares the LoadBalancer's loop (`main.rs:815-819`): a slow election call delays
  the sync tick and its heartbeat, so that /healthz may report the loop although each of its
  passes is short.
* If gobgpd does not listen in time, its process is left behind (`routing_wire.rs:291`).
* The death of the VIP task is not noticed: it has no heart.

## 6. Plan

1. `TranslationExact` and `OrderTight` for classes of worlds: first that a flow which no policy
   of a world allows is refused, one peer and one port at a time, from `Guards`-like facts.
2. Cleanup of the proxy and of the router, once the agent's leftovers there decide anything.

## 7. Not modelled

Byte layouts (`genetlink.rs`), HTTP parsing, metrics, logging, flag parsing, building
clients, the CRI call, the CNI conflist (written once before the loops start): no state, or
one external call.  `overlay.rs`, `pod_egress.rs` and `retry.rs` are not called by the
controllers, except for a tunnel decision that is recorded and never used.  The cleanup
commands of the proxy and of the router are a fixed list.  `ServiceSync` sees the tail of a
pass as one action that may fail, because the tail writes none of its state; `ProxyTail`
models it.  In `ProxyTail` the rules of a table are a set: that an append whose `-C` fails for
another reason than a missing rule adds the rule twice is not seen.
