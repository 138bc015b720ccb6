--------------------------- MODULE LeaseElection ---------------------------
(***************************************************************************)
(* Leader election of the LoadBalancer allocator: LeaderElector::tick and  *)
(* can_acquire of crates/lballoc/src/election.rs, KubeLease of             *)
(* kube-router-rs/src/lballoc_wire.rs, and the select! loop of             *)
(* run_loadbalancer, on several nodes against one Lease object.            *)
(*                                                                         *)
(* Time is counted in ticks, SubSec to the second, because the code        *)
(* compares whole seconds.  A node stamps an attempt with its own clock,   *)
(* which is Skew[n] ticks ahead of true time.  The API server refuses an   *)
(* update whose resourceVersion is not current (external).                 *)
(***************************************************************************)
EXTENDS Integers

CONSTANTS
    Node,       \* the kube-router instances, by lease identity
    NoNode,     \* the holder of a lease that does not exist yet
    Skew,       \* how far a node's clock is ahead, in ticks
    SubSec,     \* ticks in a second
    Dur,        \* LEASE_DURATION, in seconds
    Stall,      \* bound on how late an attempt concludes and a leader renews
    Fallible,   \* calls to the API server may fail
    MaxTime     \* bound of the clock

ASSUME ConstantsAssumption ==
    /\ NoNode \notin Node
    /\ Skew \in [Node -> Nat]
    /\ SubSec \in Nat \ {0} /\ Dur \in Nat \ {0}
    /\ Stall \in Nat /\ MaxTime \in Nat
    /\ Fallible \in BOOLEAN

VARIABLES
    now,        \* true time
    lease,      \* the Lease object: holder and renewTime
    pc,         \* where a node's loop is
    start,      \* true time at which its attempt read the clock
    current,    \* the resourceVersion the attempt fetched is still current
    leader,     \* LeaderElector::is_leader
    since       \* `start` of a node's last attempt that succeeded

vars == <<now, lease, pc, start, current, leader, since>>

Lease == [holder : Node \cup {NoNode}, renew : Nat]
Absent == [holder |-> NoNode, renew |-> 0]
Step == {"idle", "get", "put", "sync"}

\* Timestamp::as_second, which truncates.
Second(t) == t \div SubSec

\* The timestamp of node n's attempt.
Stamp(n) == start[n] + Skew[n]

\* Mutant: a comparison that is off by one second.
ExpiredEarly(l, t) == Second(t) - Second(l.renew) >= Dur - 1

\* renewTime + leaseDuration is no longer in the future, in whole seconds.
Expired(l, t) == Second(t) - Second(l.renew) >= Dur

\* can_acquire: free, held by the node itself, or expired.
CanAcquire(l, n, t) == l.holder = NoNode \/ l.holder = n \/ Expired(l, t)

---------------------------------------------------------------------------
(* One node *)

\* election_tick: the attempt reads the clock before it fetches the Lease.
Start(n) ==
    /\ pc[n] = "idle"
    /\ pc' = [pc EXCEPT ![n] = "get"]
    /\ start' = [start EXCEPT ![n] = now]
    /\ UNCHANGED <<now, lease, current, leader, since>>

\* The attempt is over and the node knows whether it leads.
Conclude(n, held) ==
    /\ pc' = [pc EXCEPT ![n] = "idle"]
    /\ leader' = [leader EXCEPT ![n] = held]
    /\ since' = [since EXCEPT ![n] = IF held THEN start[n] ELSE @]

\* get_opt returned a Lease held by another and fresh.
GetHeld(n) ==
    /\ pc[n] = "get" /\ ~CanAcquire(lease, n, Stamp(n))
    /\ Conclude(n, FALSE)
    /\ UNCHANGED <<now, lease, start, current>>

\* get_opt returned a Lease this node may take or renew.
Get(n) ==
    /\ pc[n] = "get" /\ CanAcquire(lease, n, Stamp(n))
    /\ current' = [current EXCEPT ![n] = TRUE]
    /\ pc' = [pc EXCEPT ![n] = "put"]
    /\ UNCHANGED <<now, lease, start, leader, since>>

\* The Lease is written, which outdates every resourceVersion fetched so far.
Write(n) ==
    /\ lease' = [holder |-> n, renew |-> Stamp(n)]
    /\ current' = [m \in Node |-> FALSE]

\* Mutant: an update that carries no resourceVersion.
PutUnchecked(n) ==
    /\ pc[n] = "put"
    /\ Write(n)
    /\ Conclude(n, TRUE)
    /\ UNCHANGED <<now, start>>

\* replace or create is accepted: nobody has written the Lease since the get.
Put(n) ==
    /\ pc[n] = "put" /\ current[n]
    /\ Write(n)
    /\ Conclude(n, TRUE)
    /\ UNCHANGED <<now, start>>

\* replace conflicts, or create finds that the Lease exists.
PutConflict(n) ==
    /\ pc[n] = "put" /\ ~current[n]
    /\ Conclude(n, FALSE)
    /\ UNCHANGED <<now, lease, start, current>>

\* A call fails; tick() counts an error as "not leader".
Failed(n) ==
    /\ Fallible /\ pc[n] \in {"get", "put"}
    /\ Conclude(n, FALSE)
    /\ UNCHANGED <<now, lease, start, current>>

\* The update is applied but its response is lost.
PutUnanswered(n) ==
    /\ Fallible /\ pc[n] = "put" /\ current[n]
    /\ Write(n)
    /\ Conclude(n, FALSE)
    /\ UNCHANGED <<now, start>>

\* Mutant: the pass does not ask is_leader.
SyncStartAnyway(n) ==
    /\ pc[n] = "idle"
    /\ pc' = [pc EXCEPT ![n] = "sync"]
    /\ UNCHANGED <<now, lease, start, current, leader, since>>

\* sync_tick on the leader: no attempt is made while reconcile runs.
SyncStart(n) ==
    /\ pc[n] = "idle" /\ leader[n]
    /\ pc' = [pc EXCEPT ![n] = "sync"]
    /\ UNCHANGED <<now, lease, start, current, leader, since>>

SyncEnd(n) ==
    /\ pc[n] = "sync"
    /\ pc' = [pc EXCEPT ![n] = "idle"]
    /\ UNCHANGED <<now, lease, start, current, leader, since>>

\* The instance is restarted.
Restart(n) ==
    /\ Fallible
    /\ pc' = [pc EXCEPT ![n] = "idle"]
    /\ leader' = [leader EXCEPT ![n] = FALSE]
    /\ UNCHANGED <<now, lease, start, current, since>>

\* The timing assumption, at time t: no attempt under way, and no success that a
\* leader still relies on, is older than Stall.  Nothing in the
\* code enforces it: RENEW_DEADLINE is never read and calls have no timeout.
Timely(t) ==
    \A n \in Node : /\ pc[n] \in {"get", "put"} => t - start[n] <= Stall
                    /\ leader[n] => t - since[n] <= Stall

\* Time passes.
Advance ==
    /\ now < MaxTime
    /\ Timely(now + 1)
    /\ now' = now + 1
    /\ UNCHANGED <<lease, pc, start, current, leader, since>>

---------------------------------------------------------------------------
Init ==
    /\ now = 0
    /\ lease = Absent
    /\ pc = [n \in Node |-> "idle"]
    /\ start = [n \in Node |-> 0]
    /\ current = [n \in Node |-> FALSE]
    /\ leader = [n \in Node |-> FALSE]
    /\ since = [n \in Node |-> 0]

Attempt(n) ==
    \/ Start(n) \/ GetHeld(n) \/ Get(n)
    \/ Put(n) \/ PutConflict(n) \/ Failed(n) \/ PutUnanswered(n)

Next ==
    \/ \E n \in Node : Attempt(n) \/ SyncStart(n) \/ SyncEnd(n) \/ Restart(n)
    \/ Advance

Spec == Init /\ [][Next]_vars

---------------------------------------------------------------------------
(* Properties *)

\* Every variable keeps its type, and a pass of the allocator is under way only on a
\* node that believes it leads: is_leader is asked before a pass (run_loadbalancer) and
\* no attempt can change it during one.
TypeOK ==
    /\ now \in Nat
    /\ lease \in Lease
    /\ pc \in [Node -> Step]
    /\ start \in [Node -> Nat]
    /\ current \in [Node -> BOOLEAN]
    /\ leader \in [Node -> BOOLEAN]
    /\ since \in [Node -> Nat]
    /\ \A n \in Node : pc[n] = "sync" => leader[n]

\* Only one instance believes it leads, provided that a leader renews in time:
\* this joins the expiry check, the stale clock reading, the resourceVersion
\* check and the "error means not leader" rule.
AtMostOneLeader ==
    \A m, n \in Node : leader[m] /\ leader[n] => m = n

\* As far as the allocator can tell, instances take turns: none begins to lead
\* while another still believes that it does.
Turns == INSTANCE Leadership WITH Node <- Node, leader <- leader
TakesTurns == Turns!Spec

\* A Lease changes hands only when the time on it has run out on the taker's
\* clock, to within the second that the comparison truncates.
NotStolenWhileFresh ==
    [][\A n \in Node :
          (lease.holder \in Node /\ lease'.holder = n /\ lease.holder # n)
             => Stamp(n) - lease.renew > (Dur - 1) * SubSec]_vars

============================================================================
