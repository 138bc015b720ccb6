---------------------------- MODULE ServiceSync ----------------------------
(***************************************************************************)
(* The IPVS service proxy: ServiceSync::run and reconcile_inner of         *)
(* crates/proxy/src/sync.rs, with the graceful-termination queue of        *)
(* graceful.rs, against the kernel's IPVS table, the addresses of          *)
(* kube-dummy-if and the conntrack table.                                  *)
(*                                                                         *)
(* The provider's snapshot is taken at the level of IPVS virtual services: *)
(* a key (address, protocol, port) has a Config (scheduler parameters, the *)
(* DSR flag, the ready endpoints) or is absent.  Every awaited operation   *)
(* is a step of its own, so an error (`?`) can end a pass between any two  *)
(* of them.  The BTreeMap order in which a pass visits its keys is         *)
(* abstracted to "any order".                                              *)
(***************************************************************************)
EXTENDS Naturals, FiniteSets

CONSTANTS
    Key,        \* IPVS service keys (addr, protocol, port)
    Udp,        \* the keys whose protocol is UDP
    Ep,         \* endpoints (addr, port)
    Vip,        \* addresses that can be bound to kube-dummy-if
    NoVip,      \* what a NodePort key binds
    VipOf,      \* the address a key needs on kube-dummy-if, NoVip if none
    Sched,      \* scheduler / flags / persistence parameters of a service
    Mh,         \* the Maglev ones among them
    Config,     \* the service configurations of this instance
    NoSvc,      \* an absent service
    NoDst,      \* an absent destination
    Reports,    \* what the informers may report for a key
    Graceful,   \* --ipvs-graceful-termination
    Fallible,   \* operations on the kernel may fail
    Restarts,   \* the agent may be restarted
    MaxDrift    \* how often another program may delete an IPVS service

ConfigType == [sched : Sched, tun : BOOLEAN, eps : SUBSET Ep]
Dest == [up : BOOLEAN, tun : BOOLEAN]

ASSUME ConstantsAssumption ==
    /\ Udp \subseteq Key
    /\ NoVip \notin Vip
    /\ VipOf \in [Key -> Vip \cup {NoVip}]
    /\ Mh \subseteq Sched
    /\ Config \subseteq ConfigType
    /\ NoSvc \notin Config /\ NoSvc \notin Sched
    /\ NoDst \notin Dest
    /\ Reports \subseteq Config \cup {NoSvc}
    /\ Graceful \in BOOLEAN /\ Fallible \in BOOLEAN /\ Restarts \in BOOLEAN
    /\ MaxDrift \in Nat

VARIABLES
    store,      \* the informer stores, projected to IPVS services
    unnotified, \* a store change whose notify_one has not run yet
    permit,     \* the permit held by the `changed` Notify
    pc,         \* where the sync loop is
    full,       \* full_resync of the running pass
    want,       \* `desired` of the running pass
    todo,       \* keys the running phase still has to visit
    dtodo,      \* destinations <<key, endpoint>> it still has to visit
    vtodo,      \* addresses it still has to visit
    flush,      \* the removed UDP service whose flows are to be flushed next, if any
    lastOk,     \* whether the last pass returned Ok
    applied,    \* self.applied
    bound,      \* self.bound_vips
    gqueue,     \* self.gqueue
    pending,    \* the items taken from gqueue by the running pass
    sloppy,     \* self.sloppy_tcp
    ksvc,       \* kernel: parameters of every virtual service
    kdst,       \* kernel: destinations of every virtual service
    kvip,       \* kernel: addresses on kube-dummy-if
    ksloppy,    \* kernel: net.ipv4.vs.sloppy_tcp
    ct,         \* conntrack: UDP flows pinned to a removed destination
    drifts      \* how often another program has deleted a service

informer == <<store, unnotified, permit>>
pass     == <<full, want, todo, dtodo, vtodo, flush>>
memory   == <<applied, bound, gqueue, pending, sloppy>>
kernel   == <<ksvc, kdst, kvip, ksloppy, ct>>
vars     == <<informer, pc, pass, lastOk, memory, kernel, drifts>>

---------------------------------------------------------------------------
(* Data *)

Item    == [key : Key, ep : Ep, expired : BOOLEAN]
Nothing == [k \in Key |-> NoSvc]
State   == [Key -> Config \cup {NoSvc}]
NoDests == [e \in Ep |-> NoDst]
Phase   == {"wait", "debounce", "sync", "program", "stale", "removed",
            "addvip", "delvip", "graceful", "tail"}

\* Mutant: NodePort services bind an address too.
VipsOfAll(snap) == {VipOf[k] : k \in {l \in Key : snap[l] # NoSvc}}

\* The keys a snapshot has a service for, and the addresses they bind.
Keys(snap) == {k \in Key : snap[k] # NoSvc}
Vips(snap) == {VipOf[k] : k \in Keys(snap)} \ {NoVip}

\* Endpoint e is a destination of service k in a snapshot.
Desires(snap, k, e) == snap[k] # NoSvc /\ e \in snap[k].eps

\* service_wants_sloppy_tcp, over a snapshot.
WantsSloppy(snap) == \E k \in Keys(snap) : snap[k].tun /\ snap[k].sched \in Mh

\* Destinations of services that stay but lost that endpoint.
StaleDests(old, new) ==
    {d \in Key \X Ep : /\ Desires(old, d[1], d[2])
                       /\ d[1] \in Keys(new)
                       /\ ~Desires(new, d[1], d[2])}

Queued(k, e) == \E p \in gqueue : p.key = k /\ p.ep = e

---------------------------------------------------------------------------
(* The kernel as SystemIpvs reports it: an operation that finds what it     *)
(* would create, or does not find what it would edit or delete, succeeds    *)
(* without effect; a destination operation on a missing service fails.      *)

AddService(k, s)  == [ksvc EXCEPT ![k] = IF @ = NoSvc THEN s ELSE @]
EditService(k, s) == [ksvc EXCEPT ![k] = IF @ = NoSvc THEN @ ELSE s]
AddDest(k, e, d)  == [kdst EXCEPT ![k][e] = IF @ = NoDst THEN d ELSE @]
SetDest(k, e, d)  == [kdst EXCEPT ![k][e] = IF @ = NoDst THEN @ ELSE d]
DelDest(k, e)     == [kdst EXCEPT ![k][e] = NoDst]

\* UDP flows that removing destinations of k leaves pinned, and the flows that
\* `conntrack -D` for the address and port of k leaves.
Pinned(k, eps) == ct \cup {f \in {k} \X eps : k \in Udp /\ kdst[k][f[2]] # NoDst}
Flushed(k) == {f \in ct : f[1] # k}

---------------------------------------------------------------------------
(* Environment *)

\* A watch event is applied to the reflector store ...
StoreChange(k, c) ==
    /\ store[k] # c
    /\ store' = [store EXCEPT ![k] = c]
    /\ unnotified' = TRUE
    /\ UNCHANGED <<permit, pc, pass, lastOk, memory, kernel, drifts>>

\* Mutant: notify_waiters, which stores no permit for a loop that is busy.
NotifyWaiters ==
    /\ unnotified
    /\ unnotified' = FALSE
    /\ permit' = (permit \/ pc = "wait")
    /\ UNCHANGED <<store, pc, pass, lastOk, memory, kernel, drifts>>

\* ... and then pings the controller; a second ping merges with a stored one.
NotifyOne ==
    /\ unnotified
    /\ unnotified' = FALSE
    /\ permit' = TRUE
    /\ UNCHANGED <<store, pc, pass, lastOk, memory, kernel, drifts>>

\* The grace period of a queued destination elapses.
Expire(p) ==
    /\ ~p.expired
    /\ gqueue' = (gqueue \ {p}) \cup {[p EXCEPT !.expired = TRUE]}
    /\ UNCHANGED <<informer, pc, pass, lastOk, applied, bound, pending, sloppy,
                   kernel, drifts>>

\* The kernel loses a service behind the agent's back.
Drift(k) ==
    /\ drifts < MaxDrift
    /\ ksvc[k] # NoSvc
    /\ ksvc' = [ksvc EXCEPT ![k] = NoSvc]
    /\ kdst' = [kdst EXCEPT ![k] = NoDests]
    /\ drifts' = drifts + 1
    /\ UNCHANGED <<informer, pc, pass, lastOk, memory, kvip, ksloppy, ct>>

\* The pass that is running forgets its local variables.
EndPass ==
    /\ pc' = "wait"
    /\ full' = TRUE /\ want' = Nothing
    /\ todo' = {} /\ dtodo' = {} /\ vtodo' = {} /\ flush' = {} /\ pending' = {}

\* The agent dies and starts again: its memory is lost, the kernel's is not.
\* It waits for its stores to be listed, which leaves a permit behind.
Restart ==
    /\ Restarts
    /\ EndPass
    /\ lastOk' = FALSE
    /\ applied' = Nothing /\ bound' = {} /\ gqueue' = {} /\ sloppy' = FALSE
    /\ unnotified' = FALSE /\ permit' = TRUE
    /\ UNCHANGED <<store, kernel, drifts>>

---------------------------------------------------------------------------
(* The loop of ServiceSync::run *)

\* The sync period elapses: a full resync.
Tick ==
    /\ pc = "wait"
    /\ pc' = "sync" /\ full' = TRUE
    /\ UNCHANGED <<informer, want, todo, dtodo, vtodo, flush, lastOk, memory, kernel, drifts>>

\* changed.notified() takes the permit; the burst is given 200ms to settle ...
Wake ==
    /\ pc = "wait" /\ permit
    /\ permit' = FALSE
    /\ pc' = "debounce"
    /\ UNCHANGED <<store, unnotified, pass, lastOk, memory, kernel, drifts>>

\* ... and is served by one pass that programs the difference.
Debounced ==
    /\ pc = "debounce"
    /\ pc' = "sync" /\ full' = FALSE
    /\ UNCHANGED <<informer, want, todo, dtodo, vtodo, flush, lastOk, memory, kernel, drifts>>

---------------------------------------------------------------------------
(* reconcile_inner *)

\* ensure_dummy_link succeeded; take the snapshot and toggle sloppy_tcp (a
\* failed sysctl write is only logged).
Snapshot ==
    /\ pc = "sync"
    /\ want' = store
    /\ todo' = Keys(store)
    /\ \/ /\ sloppy' = WantsSloppy(store)
          /\ ksloppy' = IF sloppy = WantsSloppy(store) THEN ksloppy ELSE WantsSloppy(store)
       \/ /\ Fallible /\ sloppy # WantsSloppy(store)
          /\ UNCHANGED <<sloppy, ksloppy>>
    /\ pc' = "program"
    /\ UNCHANGED <<informer, full, dtodo, vtodo, flush, lastOk, applied, bound, gqueue,
                   pending, ksvc, kdst, kvip, ct, drifts>>

\* Mutants: no edit in place; no reissue of an unchanged service.
ServiceWriteNoEdit(k) ==
    IF applied[k] = NoSvc \/ full THEN AddService(k, want[k].sched) ELSE ksvc
ServiceWriteNoReissue(k) ==
    IF applied[k] = NoSvc THEN AddService(k, want[k].sched)
    ELSE IF applied[k].sched # want[k].sched THEN EditService(k, want[k].sched) ELSE ksvc

\* What a pass does to virtual service k: edit it when its parameters changed
\* since the last pass, create it when it is new or this is a full resync.
ServiceWrite(k) ==
    IF applied[k] # NoSvc /\ applied[k].sched # want[k].sched
    THEN EditService(k, want[k].sched)
    ELSE IF applied[k] = NoSvc \/ full THEN AddService(k, want[k].sched) ELSE ksvc

\* One virtual service; its destinations are next.
ProgramService(k) ==
    /\ pc = "program" /\ dtodo = {} /\ k \in todo
    /\ ksvc' = ServiceWrite(k)
    /\ todo' = todo \ {k}
    /\ dtodo' = {k} \X want[k].eps
    /\ UNCHANGED <<informer, pc, full, want, vtodo, flush, lastOk, memory, kdst, kvip, ksloppy,
                   ct, drifts>>

\* An event pass does not touch a destination it knows and finds unchanged.
DestSkipped(k, e) ==
    ~full /\ Desires(applied, k, e) /\ applied[k].tun = want[k].tun

\* A full pass adds every destination, an event pass edits those it knows.
DestWrite(k, e) ==
    LET d == [up |-> TRUE, tun |-> want[k].tun]
    IN IF DestSkipped(k, e) THEN kdst
       ELSE IF full \/ ~Desires(applied, k, e) THEN AddDest(k, e, d)
       ELSE SetDest(k, e, d)

ProgramDest(d) ==
    /\ pc = "program" /\ d \in dtodo
    /\ ksvc[d[1]] # NoSvc \/ DestSkipped(d[1], d[2])
    /\ kdst' = DestWrite(d[1], d[2])
    /\ dtodo' = dtodo \ {d}
    /\ UNCHANGED <<informer, pc, full, want, todo, vtodo, flush, lastOk, memory, ksvc, kvip,
                   ksloppy, ct, drifts>>

\* remove_destination, up to the conntrack flush: drain and queue, or delete.
Enqueued(k, e) ==
    IF Queued(k, e) THEN gqueue
    ELSE gqueue \cup {[key |-> k, ep |-> e, expired |-> FALSE]}

\* Mutant: delete at once although graceful termination is on.
DeleteAtOnce(k, e) ==
    /\ kdst' = DelDest(k, e)
    /\ UNCHANGED gqueue

DrainOrDelete(k, e) ==
    IF Graceful
    THEN /\ kdst' = SetDest(k, e, [up |-> FALSE, tun |-> applied[k].tun])
         /\ gqueue' = Enqueued(k, e)
    ELSE /\ kdst' = DelDest(k, e)
         /\ UNCHANGED gqueue

\* The destination is drained or deleted; the flows of a UDP service are next.
RemoveDest(d) ==
    /\ pc = "stale" /\ flush = {} /\ d \in dtodo
    /\ ksvc[d[1]] # NoSvc
    /\ DrainOrDelete(d[1], d[2])
    /\ ct' = Pinned(d[1], {d[2]})
    /\ dtodo' = dtodo \ {d}
    /\ flush' = {d[1]} \cap Udp
    /\ UNCHANGED <<informer, pc, full, want, todo, vtodo, lastOk, applied, bound, pending,
                   sloppy, ksvc, kvip, ksloppy, drifts>>

\* A destination operation on a service the kernel does not have is an error.
DestRefused(d) ==
    /\ d \in dtodo /\ ksvc[d[1]] = NoSvc
    /\ \/ pc = "program" /\ ~DestSkipped(d[1], d[2])
       \/ pc = "stale" /\ flush = {}
    /\ EndPass
    /\ lastOk' = FALSE
    /\ UNCHANGED <<informer, applied, bound, gqueue, sloppy, kernel, drifts>>

\* A service that is no longer desired, with all its destinations.
DelService(k) ==
    /\ ksvc' = [ksvc EXCEPT ![k] = NoSvc]
    /\ kdst' = [kdst EXCEPT ![k] = NoDests]

\* Mutant: the flows are flushed before the service is removed, not after.
RemoveServiceFlushFirst(k) ==
    /\ pc = "removed" /\ k \in todo
    /\ DelService(k)
    /\ ct' = Flushed(k) \cup (Pinned(k, Ep) \ ct)
    /\ todo' = todo \ {k}
    /\ UNCHANGED <<informer, pc, full, want, dtodo, vtodo, flush, lastOk, memory, kvip,
                   ksloppy, drifts>>

RemoveService(k) ==
    /\ pc = "removed" /\ flush = {} /\ k \in todo
    /\ DelService(k)
    /\ ct' = Pinned(k, Ep)
    /\ todo' = todo \ {k}
    /\ flush' = {k} \cap Udp
    /\ UNCHANGED <<informer, pc, full, want, dtodo, vtodo, lastOk, memory, kvip, ksloppy,
                   drifts>>

\* flush_conntrack_udp, awaited after the destination or the service is removed.
FlushUdp(k) ==
    /\ k \in flush
    /\ ct' = Flushed(k)
    /\ flush' = {}
    /\ UNCHANGED <<informer, pc, full, want, todo, dtodo, vtodo, lastOk, memory, ksvc, kdst,
                   kvip, ksloppy, drifts>>

\* addr_add and addr_del on kube-dummy-if, both idempotent.
BindVip(v) ==
    /\ pc = "addvip" /\ v \in vtodo
    /\ kvip' = kvip \cup {v}
    /\ vtodo' = vtodo \ {v}
    /\ UNCHANGED <<informer, pc, full, want, todo, dtodo, flush, lastOk, memory, ksvc, kdst,
                   ksloppy, ct, drifts>>

UnbindVip(v) ==
    /\ pc = "delvip" /\ v \in vtodo
    /\ kvip' = kvip \ {v}
    /\ vtodo' = vtodo \ {v}
    /\ UNCHANGED <<informer, pc, full, want, todo, dtodo, flush, lastOk, memory, ksvc, kdst,
                   ksloppy, ct, drifts>>

\* A phase that has visited everything hands over to the next one.
ProgramDone ==
    /\ pc = "program" /\ todo = {} /\ dtodo = {}
    /\ pc' = "stale"
    /\ dtodo' = StaleDests(applied, want)
    /\ UNCHANGED <<informer, full, want, todo, vtodo, flush, lastOk, memory, kernel, drifts>>

StaleDone ==
    /\ pc = "stale" /\ dtodo = {} /\ flush = {}
    /\ pc' = "removed"
    /\ todo' = Keys(applied) \ Keys(want)
    /\ UNCHANGED <<informer, full, want, dtodo, vtodo, flush, lastOk, memory, kernel, drifts>>

RemovedDone ==
    /\ pc = "removed" /\ todo = {} /\ flush = {}
    /\ pc' = "addvip"
    /\ vtodo' = Vips(want) \ bound
    /\ UNCHANGED <<informer, full, want, todo, dtodo, flush, lastOk, memory, kernel, drifts>>

\* Mutant: unbind the address of every removed service, shared or not.
BindDonePerService ==
    /\ pc = "addvip" /\ vtodo = {}
    /\ pc' = "delvip"
    /\ vtodo' = {VipOf[k] : k \in Keys(applied) \ Keys(want)} \ {NoVip}
    /\ UNCHANGED <<informer, full, want, todo, dtodo, flush, lastOk, memory, kernel, drifts>>

BindDone ==
    /\ pc = "addvip" /\ vtodo = {}
    /\ pc' = "delvip"
    /\ vtodo' = bound \ Vips(want)
    /\ UNCHANGED <<informer, full, want, todo, dtodo, flush, lastOk, memory, kernel, drifts>>

\* Mutant: the graceful queue is not processed.
CommitOnly ==
    /\ pc = "delvip" /\ vtodo = {}
    /\ applied' = want /\ bound' = Vips(want)
    /\ pc' = "graceful"
    /\ UNCHANGED <<informer, pass, lastOk, gqueue, pending, sloppy, kernel, drifts>>

\* The pass becomes what was last applied, and takes the graceful queue.
Commit ==
    /\ pc = "delvip" /\ vtodo = {}
    /\ applied' = want /\ bound' = Vips(want)
    /\ pending' = gqueue /\ gqueue' = {}
    /\ pc' = "graceful"
    /\ UNCHANGED <<informer, pass, lastOk, sloppy, kernel, drifts>>

\* One item of process_graceful_queue.  SystemIpvs has no dest_conn_stats, so a
\* drained destination is never known to be idle before its deadline.
\* Mutant: a destination that became ready again is not noticed.
NeverReadded(p) == FALSE /\ p.expired

Readded(p) == Desires(applied, p.key, p.ep)

DropReadded(p) ==
    /\ pc = "graceful" /\ p \in pending
    /\ Readded(p)
    /\ pending' = pending \ {p}
    /\ UNCHANGED <<informer, pc, pass, lastOk, applied, bound, gqueue, sloppy, kernel,
                   drifts>>

\* Mutant: a destination still draining is not queued again.
RequeueForgets(p) ==
    /\ pc = "graceful" /\ p \in pending
    /\ ~Readded(p) /\ ~p.expired
    /\ pending' = pending \ {p}
    /\ UNCHANGED <<informer, pc, pass, lastOk, applied, bound, gqueue, sloppy, kernel, drifts>>

Requeue(p) ==
    /\ pc = "graceful" /\ p \in pending
    /\ ~Readded(p) /\ ~p.expired
    /\ pending' = pending \ {p}
    /\ gqueue' = gqueue \cup {p}
    /\ UNCHANGED <<informer, pc, pass, lastOk, applied, bound, sloppy, kernel, drifts>>

DeleteDrained(p) ==
    /\ pc = "graceful" /\ p \in pending
    /\ ~Readded(p) /\ p.expired
    /\ ksvc[p.key] # NoSvc
    /\ kdst' = DelDest(p.key, p.ep)
    /\ pending' = pending \ {p}
    /\ UNCHANGED <<informer, pc, pass, lastOk, applied, bound, gqueue, sloppy, ksvc, kvip,
                   ksloppy, ct, drifts>>

\* The service of the drained destination is gone: del_destination fails and
\* the items taken but not yet visited go with the pass.
DeleteRefused(p) ==
    /\ pc = "graceful" /\ p \in pending
    /\ ~Readded(p) /\ p.expired
    /\ ksvc[p.key] = NoSvc
    /\ EndPass
    /\ lastOk' = FALSE
    /\ UNCHANGED <<informer, applied, bound, gqueue, sloppy, kernel, drifts>>

GracefulDone ==
    /\ pc = "graceful" /\ pending = {}
    /\ pc' = "tail"
    /\ UNCHANGED <<informer, pass, lastOk, memory, kernel, drifts>>

\* Metrics, DSR jobs, hairpin, masquerade, health checks and the firewall: they
\* write none of the state kept here.
Tail ==
    /\ pc = "tail"
    /\ EndPass
    /\ lastOk' = TRUE
    /\ UNCHANGED <<informer, applied, bound, gqueue, sloppy, kernel, drifts>>

\* An awaited operation fails and `?` ends the pass, which the loop only logs.
ServiceWritten(k) ==
    ~(~full /\ applied[k] # NoSvc /\ applied[k].sched = want[k].sched)

CanFail ==
    \/ pc \in {"sync", "tail"}
    \/ pc = "program" /\ dtodo = {} /\ \E k \in todo : ServiceWritten(k)
    \/ pc = "program" /\ \E d \in dtodo : ~DestSkipped(d[1], d[2])
    \/ pc = "stale" /\ dtodo # {}
    \/ pc = "removed" /\ todo # {}
    \/ flush # {}
    \/ pc \in {"addvip", "delvip"} /\ vtodo # {}
    \/ pc = "graceful" /\ \E p \in pending : ~Readded(p) /\ p.expired

Fail ==
    /\ Fallible /\ CanFail
    /\ EndPass
    /\ lastOk' = FALSE
    /\ UNCHANGED <<informer, applied, bound, gqueue, sloppy, kernel, drifts>>

---------------------------------------------------------------------------
Init ==
    /\ store \in [Key -> Reports \cup {NoSvc}]
    /\ unnotified = FALSE /\ permit = TRUE
    /\ pc = "wait" /\ full = TRUE /\ want = Nothing
    /\ todo = {} /\ dtodo = {} /\ vtodo = {} /\ flush = {}
    /\ lastOk = FALSE
    /\ applied = Nothing /\ bound = {} /\ gqueue = {} /\ pending = {} /\ sloppy = FALSE
    /\ ksvc = Nothing /\ kdst = [k \in Key |-> NoDests]
    /\ kvip = {} /\ ksloppy = FALSE /\ ct = {}
    /\ drifts = 0

Environment ==
    \/ \E k \in Key, c \in Reports : StoreChange(k, c)
    \/ NotifyOne
    \/ \E p \in gqueue : Expire(p)
    \/ \E k \in Key : Drift(k)
    \/ Restart

Program ==
    \/ \E k \in Key : ProgramService(k)
    \/ \E d \in dtodo : ProgramDest(d) \/ DestRefused(d)
    \/ ProgramDone

Remove ==
    \/ \E d \in dtodo : RemoveDest(d)
    \/ \E k \in todo : RemoveService(k)
    \/ \E k \in flush : FlushUdp(k)
    \/ StaleDone \/ RemovedDone

Bind ==
    \/ \E v \in vtodo : BindVip(v) \/ UnbindVip(v)
    \/ BindDone

Drain ==
    \/ \E p \in pending : DropReadded(p) \/ Requeue(p) \/ DeleteDrained(p) \/ DeleteRefused(p)
    \/ GracefulDone

Reconcile == Snapshot \/ Program \/ Remove \/ Bind \/ Commit \/ Drain \/ Tail

Next == Environment \/ Tick \/ Wake \/ Debounced \/ Fail \/ Reconcile

Spec == Init /\ [][Next]_vars

\* tokio's select! polls its branches in random order, so a ticker that keeps
\* becoming ready is eventually chosen; every other step of the agent and of the
\* informer task runs once it can.  A queued destination leaves the queue during
\* process_graceful_queue while its deadline goes on approaching: strong fairness.
FairSpec ==
    /\ Spec
    /\ SF_vars(Tick)
    /\ WF_vars(Wake) /\ WF_vars(Debounced) /\ WF_vars(Reconcile)
    /\ WF_vars(NotifyOne)
    /\ \A k \in Key, e \in Ep :
          SF_vars(\E p \in gqueue : p.key = k /\ p.ep = e /\ Expire(p))

---------------------------------------------------------------------------
(* Properties *)

InformerType == store \in State /\ unnotified \in BOOLEAN /\ permit \in BOOLEAN
PassType ==
    /\ pc \in Phase /\ full \in BOOLEAN /\ want \in State
    /\ todo \subseteq Key /\ dtodo \subseteq Key \X Ep /\ vtodo \subseteq Vip
    /\ flush \subseteq Key /\ lastOk \in BOOLEAN
MemoryType ==
    /\ applied \in State /\ bound \subseteq Vip
    /\ gqueue \subseteq Item /\ pending \subseteq Item /\ sloppy \in BOOLEAN
KernelType ==
    /\ ksvc \in [Key -> Sched \cup {NoSvc}]
    /\ kdst \in [Key -> [Ep -> Dest \cup {NoDst}]]
    /\ kvip \subseteq Vip /\ ksloppy \in BOOLEAN /\ ct \subseteq Key \X Ep
    /\ drifts \in Nat

\* Every variable keeps its type; the loop visits only keys, destinations and
\* addresses that exist, so no NodePort address is ever bound.
TypeOK == InformerType /\ PassType /\ MemoryType /\ KernelType

\* No informer event is lost between the store, the Notify permit, the debounce
\* and the snapshot of a pass: when the loop sleeps after a successful pass with
\* no ping outstanding, what it applied is what the stores hold.
NoLostWakeup ==
    pc = "wait" /\ lastOk /\ ~permit /\ ~unnotified => applied = store

\* What the kernel should hold for a snapshot: its services and their schedulers,
\* its destinations taking traffic and forwarding as they should, and beside them
\* only drained ones that are queued for deletion, its addresses, its sloppy_tcp.
Serving(k, e) == kdst[k][e] # NoDst /\ kdst[k][e].up
DestMatches(snap, k, e) ==
    IF Desires(snap, k, e) THEN Serving(k, e) /\ kdst[k][e].tun = snap[k].tun
    ELSE kdst[k][e] # NoDst => ~kdst[k][e].up /\ Queued(k, e)
KernelHolds(snap) ==
    /\ \A k \in Key :
          /\ ksvc[k] = IF snap[k] = NoSvc THEN NoSvc ELSE snap[k].sched
          /\ \A e \in Ep : DestMatches(snap, k, e)
    /\ kvip = Vips(snap)
    /\ ksloppy = WantsSloppy(snap)

\* As long as nothing fails, every successful pass leaves the kernel holding
\* exactly the snapshot it applied, whichever services came, went, shared an
\* address or changed their scheduler before.
KernelMatches == pc = "wait" /\ lastOk => KernelHolds(applied)

\* Whatever fails and whenever the agent dies, no step of a pass takes traffic
\* away from a destination that this very pass desires: a stale removal, a
\* service removal or an expired drain never hits it.
DesiredNeverRemoved ==
    [][\A k \in Key, e \in Ep :
          (drifts' = drifts /\ Desires(want, k, e) /\ Serving(k, e)) => Serving(k, e)']_vars

\* The agent forgets a destination only when no UDP flow is pinned to it any more: the
\* flush comes after the removal, in every pass, and when it failed or the pass ended
\* between the two, the destination is still in self.applied and a later pass removes and
\* flushes it again.  (After a restart self.applied is empty, and there is nothing left
\* to forget: flows of a removal cut short by it stay.)
FlushedBeforeForgotten ==
    [][Commit => \A f \in ct : Desires(applied, f[1], f[2]) => Desires(want, f[1], f[2])]_vars

\* Under graceful termination no destination of a service that stays is deleted
\* while it still takes new connections.
DrainBeforeDelete ==
    [][\A k \in Key, e \in Ep :
          (ksvc'[k] # NoSvc /\ Serving(k, e)) => kdst'[k][e] # NoDst]_vars

\* Between passes, every destination the kernel has and the agent does not
\* desire is drained and still in the queue that will delete it.
DrainedAreQueued ==
    pc = "wait" =>
        \A k \in Key, e \in Ep :
            kdst[k][e] # NoDst /\ ~Desires(applied, k, e) /\ lastOk =>
                ~kdst[k][e].up /\ Queued(k, e)

\* The periodic full resync brings back a virtual service the kernel lost.
HealsServices ==
    \A k \in Key : []<>(store[k] = NoSvc \/ ksvc[k] # NoSvc)

\* A destination that stays undesired is eventually gone from the kernel.
DrainCompletes ==
    \A k \in Key, e \in Ep : []<>(Desires(store, k, e) \/ kdst[k][e] = NoDst)

---------------------------------------------------------------------------
(* What comments of the code promise and the code does not keep *)

\* sync.rs: "one full sync" will program services and destinations, bind VIPs and
\* "remove anything no longer desired"; a full resync "self-heals any kernel state
\* that drifted".  So when one ends, the kernel holds what it applied.
FullSyncHeals == [][full /\ Tail => KernelHolds(applied)]_vars

============================================================================
