----------------------------- MODULE LbAllocator -----------------------------
(***************************************************************************)
(* The LoadBalancer allocator on several nodes: LbAllocator::reconcile of  *)
(* crates/lballoc/src/controller.rs, plan_allocation of allocate.rs, the   *)
(* status update of kube-router-rs/src/lballoc_wire.rs, and the select!    *)
(* loop that runs it on the leader.                                        *)
(*                                                                         *)
(* Leadership is the abstract Leadership, which LeaseElection implements.  *)
(* A node reads Services from its informer cache, which is the state of    *)
(* the API server at some earlier time, and writes status to the API       *)
(* server, which refuses a write of an object that has changed since it    *)
(* was read (external).                                                    *)
(***************************************************************************)
EXTENDS IpRanges, FiniteSets

CONSTANTS
    Node,           \* the kube-router instances
    Svc,            \* Services, by namespace and name
    NoSvc,          \* a Service that does not exist; no target
    Ranges,         \* the ranges of each family
    Specs,          \* the Service specs considered
    IsDefault,      \* --loadbalancer-default-class
    FreshCache,     \* restrict behaviours to passes that start from a current cache
    Fallible,       \* calls may fail, instances may restart
    MaxEvents       \* bound on user changes, failures and leader changes

Family == {"v4", "v6"}
Class == {"kube-router", "default", "unset", "other"}
Ip == [fam : Family, a : Address]

ServiceSpec == [lb : BOOLEAN, class : Class, want : SUBSET Family, dual : BOOLEAN,
                ext : SUBSET Ip]
Service == [spec : ServiceSpec, ingress : SUBSET Ip]

ASSUME LbAssumption ==
    /\ Ranges \in [Family -> Seq(IpNet)]
    /\ Specs \subseteq ServiceSpec
    /\ NoSvc \notin Svc /\ NoSvc \notin Service
    /\ IsDefault \in BOOLEAN /\ FreshCache \in BOOLEAN /\ Fallible \in BOOLEAN
    /\ MaxEvents \in Nat

VARIABLES
    leader,     \* LeaderElector::is_leader of each node
    api,        \* the Services on the API server
    cache,      \* each node's Service store
    pc,         \* where each node's loop is
    services,   \* the snapshot a pass works from
    todo,       \* the Services the pass has still to look at
    taken,      \* a4 and a6: the addresses the pass considers allocated
    cursor,     \* v4_ranges and v6_ranges, kept between passes
    target,     \* the Service being updated
    ips,        \* the addresses planned for it
    current,    \* the target has not changed since get_status
    events      \* how many bounded events have happened

passVars == <<services, todo, taken, target, ips, current>>
vars == <<leader, api, cache, pc, passVars, cursor, events>>

Turns == INSTANCE Leadership WITH Node <- Node, leader <- leader

---------------------------------------------------------------------------
(* Planning: allocate.rs and model.rs *)

\* have_families
Have(svc) == {i.fam : i \in svc.ingress}

\* check_class
CheckClass(c) == c = "kube-router" \/ (c \in {"default", "unset"} /\ IsDefault)

\* Mutant: a Service that has any address is considered served.
ShouldAllocateNone(svc) ==
    /\ svc.spec.lb
    /\ CheckClass(svc.spec.class)
    /\ Have(svc) = {}

\* should_allocate, with needs_ingress: a mismatch of wanted and present families.
ShouldAllocate(svc) ==
    /\ svc.spec.lb
    /\ CheckClass(svc.spec.class)
    /\ svc.spec.want # Have(svc)

\* Mutant: external addresses are overlooked.
AllocatedIngress(svcs) ==
    {i \in UNION {svcs[s].ingress : s \in {t \in Svc : svcs[t] # NoSvc}} :
        InRanges(Ranges[i.fam], i.a)}

\* allocated_ips: external and ingress addresses within the ranges.
AllocatedIps(svcs) ==
    {i \in UNION {svcs[s].spec.ext \cup svcs[s].ingress : s \in {t \in Svc : svcs[t] # NoSvc}} :
        InRanges(Ranges[i.fam], i.a)}

Enabled(f) == Ranges[f] # <<>>

\* The gate of canAllocate.
CanAllocate(spec) ==
    /\ spec.dual => \A f \in Family : Enabled(f)
    /\ Cardinality(spec.want) = 1 => \A f \in spec.want : Enabled(f)

\* The families an address is looked up for.
Missing(svc) == {f \in svc.spec.want : Enabled(f) /\ f \notin Have(svc)}

\* One lookup per missing family.
Lookup(svc, cur, used) ==
    [f \in Missing(svc) |-> NextFreeIp(Ranges[f], cur[f], {i.a : i \in {j \in used : j.fam = f}})]

\* plan_allocation: the addresses to assign (none on an error, or when there is
\* nothing to do) and the cursors, which have moved on even so.
PlanAllocation(svc, cur, used) ==
    IF ~CanAllocate(svc.spec) THEN [ips |-> {}, cursor |-> cur]
    ELSE LET r == Lookup(svc, cur, used)
             got == {f \in DOMAIN r : r[f].ip # NoIp}
         IN  [ips |-> IF svc.spec.dual /\ got # Family THEN {}
                      ELSE {[fam |-> f, a |-> r[f].ip] : f \in got},
              cursor |-> [f \in Family |-> IF f \in DOMAIN r THEN r[f].cursor ELSE cur[f]]]

---------------------------------------------------------------------------
(* The environment *)

Event == events < MaxEvents /\ events' = events + 1

\* Any write of a Service outdates what was read of it.
Outdate(s) == current' = [n \in Node |-> current[n] /\ target[n] # s]

\* A user creates Service s, or changes its spec.
Apply(s, spec) ==
    /\ Event
    /\ api[s] # NoSvc => api[s].spec # spec
    /\ api' = [api EXCEPT ![s] =
                 [spec |-> spec, ingress |-> IF @ = NoSvc THEN {} ELSE @.ingress]]
    /\ Outdate(s)
    /\ UNCHANGED <<leader, cache, pc, services, todo, taken, target, ips, cursor>>

\* A user deletes Service s, and with it its ingress addresses.
Delete(s) ==
    /\ Event
    /\ api[s] # NoSvc
    /\ api' = [api EXCEPT ![s] = NoSvc]
    /\ Outdate(s)
    /\ UNCHANGED <<leader, cache, pc, services, todo, taken, target, ips, cursor>>

\* The watch delivers what has happened so far.
CacheSync(n) ==
    /\ cache[n] # api
    /\ cache' = [cache EXCEPT ![n] = api]
    /\ UNCHANGED <<leader, api, pc, passVars, cursor, events>>

---------------------------------------------------------------------------
(* One node *)

\* The locals of a pass are gone when reconcile returns.
Drop(n) ==
    /\ services' = [services EXCEPT ![n] = [s \in Svc |-> NoSvc]]
    /\ todo' = [todo EXCEPT ![n] = {}]
    /\ taken' = [taken EXCEPT ![n] = {}]
    /\ target' = [target EXCEPT ![n] = NoSvc]
    /\ ips' = [ips EXCEPT ![n] = {}]

\* election_tick: only between passes, as both are arms of one select!.
Elect(n) ==
    /\ pc[n] = "idle" /\ ~leader[n]
    /\ Turns!Lead(n)
    /\ UNCHANGED <<api, cache, pc, passVars, cursor, events>>

StepDown(n) ==
    /\ Event
    /\ pc[n] = "idle" /\ leader[n]
    /\ Turns!Yield(n)
    /\ UNCHANGED <<api, cache, pc, passVars, cursor>>

\* A restarted instance waits for its store to be ready.
Restart(n) ==
    /\ Fallible /\ Event
    /\ Turns!Yield(n)
    /\ pc' = [pc EXCEPT ![n] = "idle"]
    /\ cache' = [cache EXCEPT ![n] = api]
    /\ cursor' = [cursor EXCEPT ![n] = [f \in Family |-> NewCursor(Ranges[f])]]
    /\ Drop(n)
    /\ current' = [current EXCEPT ![n] = FALSE]
    /\ UNCHANGED api

\* sync_tick on the leader: the snapshot and what it says is allocated.  A pass
\* with nothing to do leaves no trace.
PassStart(n) ==
    /\ pc[n] = "idle" /\ leader[n]
    /\ services' = [services EXCEPT ![n] = cache[n]]
    /\ todo' = [todo EXCEPT ![n] =
                  {s \in Svc : cache[n][s] # NoSvc /\ ShouldAllocate(cache[n][s])}]
    /\ todo'[n] # {}
    /\ taken' = [taken EXCEPT ![n] = AllocatedIps(cache[n])]
    /\ pc' = [pc EXCEPT ![n] = "pass"]
    /\ UNCHANGED <<leader, api, cache, cursor, target, ips, current, events>>

\* Mutant: the planned addresses are not tracked within the pass.
PlanUntracked(n, s) ==
    /\ pc[n] = "pass" /\ s \in todo[n]
    /\ LET plan == PlanAllocation(services[n][s], cursor[n], taken[n]) IN
       /\ cursor' = [cursor EXCEPT ![n] = plan.cursor]
       /\ ips' = [ips EXCEPT ![n] = plan.ips]
       /\ taken' = taken
       /\ pc' = [pc EXCEPT ![n] = IF plan.ips = {} THEN "pass" ELSE "get"]
    /\ target' = [target EXCEPT ![n] = s]
    /\ todo' = [todo EXCEPT ![n] = @ \ {s}]
    /\ UNCHANGED <<leader, api, cache, services, current, events>>

\* The next Service of the snapshot: a plan, tracked within the pass, or no
\* address and on to the next one.  The order is that of a hash map.
Plan(n, s) ==
    /\ pc[n] = "pass" /\ s \in todo[n]
    /\ LET plan == PlanAllocation(services[n][s], cursor[n], taken[n]) IN
       /\ cursor' = [cursor EXCEPT ![n] = plan.cursor]
       /\ ips' = [ips EXCEPT ![n] = plan.ips]
       /\ taken' = [taken EXCEPT ![n] = @ \cup plan.ips]
       /\ pc' = [pc EXCEPT ![n] = IF plan.ips = {} THEN "pass" ELSE "get"]
    /\ target' = [target EXCEPT ![n] = s]
    /\ todo' = [todo EXCEPT ![n] = @ \ {s}]
    /\ UNCHANGED <<leader, api, cache, services, current, events>>

\* append_ingress: get_status.
GetStatus(n) ==
    /\ pc[n] = "get" /\ api[target[n]] # NoSvc
    /\ current' = [current EXCEPT ![n] = TRUE]
    /\ pc' = [pc EXCEPT ![n] = "put"]
    /\ UNCHANGED <<leader, api, cache, services, todo, taken, cursor, target, ips, events>>

\* The addresses are appended to what get_status returned.
AppendIps(n) ==
    /\ api' = [api EXCEPT ![target[n]] =
                 [spec |-> @.spec, ingress |-> @.ingress \cup ips[n]]]
    /\ Outdate(target[n])

\* append_ingress: replace_status is accepted.
ReplaceStatus(n) ==
    /\ pc[n] = "put" /\ current[n]
    /\ AppendIps(n)
    /\ pc' = [pc EXCEPT ![n] = "pass"]
    /\ UNCHANGED <<leader, cache, services, todo, taken, cursor, target, ips, events>>

\* The pass is over; an error of append_ingress ends it early (`?`).
Return(n) ==
    /\ pc' = [pc EXCEPT ![n] = "idle"]
    /\ Drop(n)
    /\ UNCHANGED <<leader, cache, cursor>>

\* The Service is gone, or has changed since get_status.
Refused(n) ==
    /\ \/ pc[n] = "get" /\ api[target[n]] = NoSvc
       \/ pc[n] = "put" /\ ~current[n]
    /\ Return(n)
    /\ current' = [current EXCEPT ![n] = FALSE]
    /\ UNCHANGED <<api, events>>

\* A call fails before it reaches the API server.
Failed(n) ==
    /\ Fallible /\ Event
    /\ pc[n] \in {"get", "put"}
    /\ Return(n)
    /\ current' = [current EXCEPT ![n] = FALSE]
    /\ UNCHANGED api

\* Mutant: the update is tried again with another address.
UnansweredRetries(n) ==
    /\ Fallible /\ Event
    /\ pc[n] = "put" /\ current[n]
    /\ AppendIps(n)
    /\ pc' = [pc EXCEPT ![n] = "pass"]
    /\ todo' = [todo EXCEPT ![n] = @ \cup {target[n]}]
    /\ UNCHANGED <<leader, cache, services, taken, cursor, target, ips>>

\* replace_status is applied but its response is lost.
Unanswered(n) ==
    /\ Fallible /\ Event
    /\ pc[n] = "put" /\ current[n]
    /\ AppendIps(n)
    /\ Return(n)

\* reconcile returns.
PassEnd(n) ==
    /\ pc[n] = "pass" /\ todo[n] = {}
    /\ Return(n)
    /\ UNCHANGED <<api, current, events>>

---------------------------------------------------------------------------
Init ==
    /\ Turns!Init
    /\ api = [s \in Svc |-> NoSvc]
    /\ cache = [n \in Node |-> api]
    /\ pc = [n \in Node |-> "idle"]
    /\ services = [n \in Node |-> api]
    /\ todo = [n \in Node |-> {}]
    /\ taken = [n \in Node |-> {}]
    /\ cursor = [n \in Node |-> [f \in Family |-> NewCursor(Ranges[f])]]
    /\ target = [n \in Node |-> NoSvc]
    /\ ips = [n \in Node |-> {}]
    /\ current = [n \in Node |-> FALSE]
    /\ events = 0

\* The restriction FreshCache, on when passes start.  Nothing in the code waits for
\* the store: sync_tick fires when it fires.
StoreCurrent(n) == FreshCache => cache[n] = api

User == \E s \in Svc : Delete(s) \/ \E spec \in Specs : Apply(s, spec)

Pass(n) ==
    \/ StoreCurrent(n) /\ PassStart(n)
    \/ \E s \in Svc : Plan(n, s)
    \/ GetStatus(n) \/ ReplaceStatus(n) \/ Refused(n) \/ Failed(n) \/ Unanswered(n)
    \/ PassEnd(n)

Next ==
    \/ User
    \/ \E n \in Node : CacheSync(n) \/ Elect(n) \/ StepDown(n) \/ Restart(n) \/ Pass(n)

Spec == Init /\ [][Next]_vars

\* The ticks keep firing, the watch keeps delivering and calls return.
Fairness == \A n \in Node : WF_vars(CacheSync(n)) /\ WF_vars(Elect(n)) /\ WF_vars(Pass(n))

FairSpec == Spec /\ Fairness

---------------------------------------------------------------------------
(* Properties *)

\* No address of the pool is given to two Services, across passes, leaders, lost
\* responses, restarts and changes by users, when a pass starts from a store that
\* has caught up: "IPs are never double-assigned cluster-wide"
\* (crates/lballoc/src/election.rs).
InPool(i) == InRanges(Ranges[i.fam], i.a)
NoDoubleAssign ==
    \A s, t \in Svc : (s # t /\ api[s] # NoSvc /\ api[t] # NoSvc) =>
        \A i \in api[s].ingress \cap api[t].ingress : ~InPool(i)

\* When passes start from stores that have caught up, a Service is not given a second
\* address of a family it already has, across passes, leaders, lost responses, restarts
\* and changes by users.  From a stale store it is: append_ingress appends the addresses
\* to whatever get_status returned (lballoc_wire.rs), and reconcile plans one for every
\* Service that its store shows without.
OnePerFamily ==
    \A s \in Svc : api[s] # NoSvc =>
        \A i, j \in api[s].ingress : i.fam = j.fam => i = j

\* An address that a pass hands out is not the external address of a Service that
\* the pass has seen, nor outside the ranges.
PlansClear ==
    \A n \in Node : pc[n] \in {"get", "put"} =>
        \A i \in ips[n] : /\ InPool(i)
                          /\ \A s \in Svc : services[n][s] # NoSvc => i \notin services[n][s].spec.ext

\* Wherever passes, failed plans and restarts have left a cursor, the loop of
\* next_free_ip, which has no bound of its own, ends, even when nothing is free; it
\* finds an address of the pool that is not allocated, and none only when there is
\* none ("`None` if ... all are allocated", pools.rs): a scan that starts in the middle
\* of the ranges still sees all of them.
FindsFree ==
    \A n \in Node, f \in Family : pc[n] = "pass" /\ Enabled(f) =>
        \A used \in SUBSET Pool(Ranges[f]) :
            /\ Terminates(Ranges[f], cursor[n][f], used)
            /\ LET ip == NextFreeIp(Ranges[f], cursor[n][f], used).ip
               IN  ip \in Pool(Ranges[f]) \ used \/ (ip = NoIp /\ used = Pool(Ranges[f]))

\* A Service of this allocator lacks an address although its family has one to spare.
Spare(f) == \E a \in Address : InRanges(Ranges[f], a) /\ [fam |-> f, a |-> a] \notin AllocatedIps(api)
Waits(s) ==
    /\ api[s] # NoSvc /\ api[s].spec.lb /\ CheckClass(api[s].spec.class)
    /\ \E f \in api[s].spec.want \ Have(api[s]) : Spare(f)

\* "Allocate IPs for every owned service still missing one" (controller.rs):
\* a Service does not wait for ever while its family has an address to spare,
\* whatever calls fail and however leaders change in the meantime.
EverySvcServed == \A s \in Svc : Waits(s) ~> ~Waits(s)

============================================================================
