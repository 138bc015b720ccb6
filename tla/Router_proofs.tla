--------------------------- MODULE Router_proofs ---------------------------
(***************************************************************************)
(* Theorems about the two halves of the router, for any routes, Nodes,      *)
(* flags, changes and failed calls.                                         *)
(*                                                                         *)
(* Routing: type correctness; by MapInv, that a route in the injector's map *)
(* is in the kernel; by invariants over the events that are on their way,   *)
(* that paths are learned and withdrawn; by MemInv, that the kernel has no  *)
(* other routes than the writer's.                                          *)
(*                                                                         *)
(* BgpPeers: PeersInDaemon is not inductive: a peer is added or removed by  *)
(* its address, so current_peers must not hold two peers with one address.  *)
(* DerivedInv keeps that, and says where current_peers comes from.          *)
(***************************************************************************)
EXTENDS Routing, BgpPeers, FiniteSetTheorems, TLAPS

USE DEF MaybeGw, Fault, Engine

---------------------------------------------------------------------------
(* Lemmas about the operators of the model *)

\* A fault leaves the counters natural numbers and never resets one.
LEMMA SpendType ==
    ASSUME NEW f \in Fault, count \in [Fault -> Nat], Spend(f)
    PROVE  /\ count' \in [Fault -> Nat]
           /\ \A g \in Fault : count'[g] = 0 => count[g] = 0 /\ g # f
  <1>1. count' = [count EXCEPT ![f] = count[f] + 1]
    BY DEF Spend
  <1> QED
    BY <1>1

\* A closed watch and an empty channel.
LEMMA EmptyTypes ==
    FALSE \in BOOLEAN /\ <<>> \in Seq(Event) /\ Len(<<>>) <= QueueCap
  <1>1. <<>> \in Seq(Event)
    OBVIOUS
  <1>2. Len(<<>>) <= QueueCap
    BY ConstantsAssumption
  <1> QED
    BY <1>1, <1>2, Zenon

\* A new watch begins with a sequence of events.
LEMMA ReplayType ==
    ASSUME TypeOK, NEW s \in [1 .. Cardinality(Replay) -> Replay]
    PROVE  s \in Seq(Event)
  <1> DEFINE Known == {q \in Prefix : best[q] # NoGw}
             f == [p \in Known |-> Advert(p, best[p])]
  <1>1. IsFiniteSet(Known)
    BY FS_Subset, ConstantsAssumption
  <1>2. Replay = {f[p] : p \in Known}
    BY DEF Replay
  <1>3. IsFiniteSet(Replay)
    <2>1. f \in Surjection(Known, Replay)
      BY <1>2 DEF Surjection
    <2> QED BY <1>1, <2>1, FS_Surjection
  <1>4. Cardinality(Replay) \in Nat
    BY <1>3, FS_CardinalityType
  <1>5. Replay \subseteq Event
    <2> SUFFICES ASSUME NEW p \in Known PROVE Advert(p, best[p]) \in Event
      BY DEF Replay
    <2>1. p \in Prefix /\ best[p] \in Gw /\ FALSE \in BOOLEAN
      BY DEF TypeOK
    <2> QED BY <2>1, Zenon DEF Advert, Event
  <1> QED
    BY <1>4, <1>5

---------------------------------------------------------------------------
(* Type correctness *)

\* Every step preserves the types.
LEMMA TypeStep ==
    ASSUME TypeOK, [Next]_vars
    PROVE  TypeOK'
  <1> USE ConstantsAssumption
  <1>1. ASSUME NEW p \in Prefix, Drift(p) PROVE TypeOK'
    <2>1. count' \in [Fault -> Nat]
      BY <1>1, SpendType DEF Drift, TypeOK
    <2> QED BY <1>1, <2>1 DEF Drift, TypeOK, writer, daemon
  <1>2. ASSUME NEW n \in Node \ {Local}, NEW ip \in Addresses[n] \cup {NoGw},
               NodeChange(n, ip)
        PROVE TypeOK'
    BY <1>2 DEF NodeChange, TypeOK, writer, daemon
  <1>3. CASE Reconcile
    <2>1. DesiredPodRoutes \subseteq Route
      BY DEF DesiredPodRoutes
    <2> QED BY <1>3, <2>1 DEF Reconcile, TypeOK, ToAdd, ToDel, daemon
  <1>4. ASSUME NEW r \in add, PassReplace(r) PROVE TypeOK'
    BY <1>4 DEF PassReplace, RouteReplace, TypeOK, Route, daemon
  <1>5. ASSUME NEW r \in del, PassDel(r) PROVE TypeOK'
    BY <1>5 DEF PassDel, RouteDel, TypeOK, Route, daemon
  <1>6. CASE PassDone
    BY <1>6 DEF PassDone, Rest, TypeOK, daemon
  <1>7. CASE PassFail
    <2>1. count' \in [Fault -> Nat]
      BY <1>7, SpendType DEF PassFail, TypeOK
    <2> QED BY <1>7, <2>1 DEF PassFail, Rest, TypeOK, daemon
  <1>8. ASSUME NEW p \in Prefix, NEW g \in MaybeGw, BestChange(p, g)
        PROVE TypeOK'
    <2>1. stream' \in Seq(Event)
      <3>1. best[p] \in MaybeGw /\ (g = NoGw => best[p] \in Gw)
        BY <1>8 DEF BestChange, TypeOK
      <3>2. (IF g = NoGw THEN Withdrawal(p, best[p]) ELSE Advert(p, g)) \in Event
        BY <3>1 DEF Withdrawal, Advert, Event
      <3> QED BY <1>8, <3>2 DEF BestChange, TypeOK
    <2> QED BY <1>8, <2>1 DEF BestChange, TypeOK, writer
  <1>9. CASE Forward
    <2>1. /\ stream' \in Seq(Event) /\ Head(stream) \in Event
      BY <1>9 DEF Forward, TypeOK
    <2>2. queue' \in Seq(Event) /\ Len(queue') <= QueueCap
      BY <1>9, <2>1 DEF Forward, TypeOK
    <2> QED BY <1>9, <2>1, <2>2 DEF Forward, TypeOK, writer
  <1>10. CASE Cut
    <2>1. count' \in [Fault -> Nat]
      BY <1>10, SpendType DEF Cut, TypeOK
    <2>2. watching' \in BOOLEAN /\ stream' \in Seq(Event)
      BY <1>10, EmptyTypes, Zenon DEF Cut
    <2> QED BY <1>10, <2>1, <2>2 DEF Cut, TypeOK, writer
  <1>11. CASE Connect
    <2>1. PICK s \in [1 .. Cardinality(Replay) -> Replay] : stream' = s
      BY <1>11 DEF Connect
    <2>2. stream' \in Seq(Event)
      BY <2>1, ReplayType
    <2> QED BY <1>11, <2>2 DEF Connect, TypeOK, writer
  <1>12. ASSUME NEW ev, OnEvent(ev) PROVE TypeOK'
    <2>1. /\ ev \in Event /\ queue' \in Seq(Event) /\ Len(queue') <= QueueCap
          /\ UNCHANGED <<engine, reject, nodes, pc, want, add, del, daemon>>
      BY <1>12 DEF OnEvent, Receives, TypeOK
    <2>2. /\ ev.dst \in Prefix /\ ev.gateway \in Gw
          /\ [dst |-> ev.dst, gateway |-> ev.gateway] \in Route
      BY <2>1 DEF Event, Route
    <2>3. /\ mem' \subseteq Route
          /\ kroute' \in [Prefix -> MaybeGw]
          /\ count' \in [Fault -> Nat]
      <3>1. CASE UNCHANGED <<kroute, mem, count>>
        BY <3>1 DEF TypeOK
      <3>2. CASE Uninstall(ev)
        BY <3>2, <2>2, SpendType DEF Uninstall, RouteDel, TypeOK
      <3>3. CASE Install(ev)
        BY <3>3, <2>2, SpendType DEF Install, RouteReplace, TypeOK
      <3> QED BY <1>12, <3>1, <3>2, <3>3 DEF OnEvent
    <2> QED BY <2>1, <2>3 DEF TypeOK, daemon
  <1>13. CASE Sync
    BY <1>13 DEF Sync, SyncRoutes, TypeOK, daemon
  <1>14. ASSUME NEW e \in Engine, NEW rej \in SUBSET Rejectable, Restart(e, rej)
         PROVE TypeOK'
    <2>1. count' \in [Fault -> Nat]
      BY <1>14, SpendType DEF Restart, TypeOK
    <2>2. nodes' \in [Node -> MaybeGw]
      BY <1>14 DEF Restart, Stores
    <2>3. /\ watching' \in BOOLEAN
          /\ stream' \in Seq(Event) /\ queue' \in Seq(Event) /\ Len(queue') <= QueueCap
      BY <1>14, EmptyTypes, Zenon DEF Restart
    <2> QED BY <1>14, <2>1, <2>2, <2>3 DEF Restart, Rest, TypeOK
  <1>15. CASE UNCHANGED vars
    BY <1>15 DEF vars, TypeOK, writer, daemon
  <1> QED
    BY <1>1, <1>2, <1>3, <1>4, <1>5, <1>6, <1>7, <1>8, <1>9, <1>10, <1>11,
       <1>12, <1>13, <1>14, <1>15 DEF Next, PassStep, Recv

\* The types hold for any number of nodes, prefixes and faults; with them that
\* the channel never holds more events than its capacity.
THEOREM TypeCorrect == Spec => []TypeOK
  <1>1. Init => TypeOK
    <2> SUFFICES ASSUME Init PROVE TypeOK
      OBVIOUS
    <2>1. /\ watching \in BOOLEAN
          /\ stream \in Seq(Event) /\ queue \in Seq(Event) /\ Len(queue) <= QueueCap
      BY EmptyTypes, Zenon DEF Init
    <2>2. nodes \in [Node -> MaybeGw]
      BY DEF Init, Stores
    <2> QED BY <2>1, <2>2 DEF Init, TypeOK
  <1>2. TypeOK /\ [Next]_vars => TypeOK'
    BY TypeStep
  <1> QED
    BY <1>1, <1>2, PTL DEF Spec
---------------------------------------------------------------------------
(* Routes in the injector's map *)

\* Strengthening of InjectedInKernel: the map has one route per prefix, and a
\* sync only re-applies routes of the map.
MapInv ==
    engine = "gobgp" =>
        /\ \A r, s \in mem : r.dst = s.dst => r = s
        /\ add \subseteq mem /\ del = {} /\ (pc = "idle" => add = {})
        /\ count["drift"] = 0 => \A r \in mem : Installed(r)

\* Every step preserves MapInv.
LEMMA MapStep ==
    ASSUME TypeOK, MapInv, [Next]_vars
    PROVE  MapInv'
  <1> SUFFICES ASSUME engine' = "gobgp"
               PROVE  /\ \A r, s \in mem' : r.dst = s.dst => r = s
                      /\ add' \subseteq mem' /\ del' = {} /\ (pc' = "idle" => add' = {})
                      /\ count'["drift"] = 0 => \A r \in mem' : Installed(r)'
    BY DEF MapInv
  <1> USE DEF Installed
  <1>1. ASSUME NEW p \in Prefix, Drift(p) PROVE MapInv'
    <2>1. count'["drift"] # 0
      BY <1>1, SpendType DEF Drift, TypeOK
    <2> QED BY <1>1, <2>1 DEF Drift, MapInv, writer
  <1>2. ASSUME NEW n, NEW ip, NodeChange(n, ip) PROVE FALSE
    BY <1>2 DEF NodeChange
  <1>3. CASE Reconcile
    BY <1>3 DEF Reconcile
  <1>4. ASSUME NEW r \in add, PassReplace(r) PROVE MapInv'
    <2>1. /\ mem' = mem /\ count' = count /\ engine = "gobgp" /\ r \in mem
          /\ add' \subseteq mem /\ del' = {} /\ pc' = "pass"
      BY <1>4 DEF PassReplace, MapInv
    <2>2. ASSUME NEW t \in mem, count["drift"] = 0 PROVE kroute'[t.dst] = t.gateway
      <3>1. CASE t.dst = r.dst
        BY <1>4, <2>1, <3>1 DEF PassReplace, RouteReplace, MapInv, TypeOK, Route
      <3>2. CASE t.dst # r.dst
        BY <1>4, <2>1, <2>2, <3>2 DEF PassReplace, RouteReplace, MapInv, TypeOK, Route
      <3> QED BY <3>1, <3>2
    <2> QED BY <2>1, <2>2 DEF MapInv
  <1>5. ASSUME NEW r \in del, PassDel(r) PROVE FALSE
    BY <1>5 DEF PassDel, MapInv
  <1>6. CASE PassDone
    BY <1>6 DEF PassDone, Rest, MapInv
  <1>7. CASE PassFail
    <2>1. count'["drift"] = 0 => count["drift"] = 0
      BY <1>7, SpendType DEF PassFail, TypeOK
    <2> QED BY <1>7, <2>1 DEF PassFail, Rest, MapInv
  <1>8. ASSUME NEW p, NEW g, BestChange(p, g) PROVE MapInv'
    BY <1>8 DEF BestChange, MapInv, writer
  <1>9. CASE Forward
    BY <1>9 DEF Forward, MapInv, writer
  <1>10. CASE Cut
    <2>1. count'["drift"] = 0 => count["drift"] = 0
      BY <1>10, SpendType DEF Cut, TypeOK
    <2> QED BY <1>10, <2>1 DEF Cut, MapInv, writer
  <1>11. CASE Connect
    BY <1>11 DEF Connect, MapInv, writer
  <1>12. ASSUME NEW ev, OnEvent(ev) PROVE MapInv'
    <2>1. /\ ev \in Event /\ engine = "gobgp" /\ add' = {} /\ del' = {}
      BY <1>12 DEF OnEvent, Receives, TypeOK, MapInv
    <2>2. ev.dst \in Prefix
      BY <2>1 DEF Event
    <2>3. CASE UNCHANGED <<kroute, mem, count>>
      BY <2>1, <2>3 DEF MapInv
    <2>4. CASE Uninstall(ev)
      <3>1. /\ mem' = mem \ Remembered(ev.dst)
            /\ \A p \in Prefix : p # ev.dst => kroute'[p] = kroute[p]
            /\ count'["drift"] = 0 => count["drift"] = 0
        BY <2>4, <2>2, SpendType DEF Uninstall, RouteDel, TypeOK
      <3>2. \A r \in mem' : r \in mem /\ r.dst \in Prefix /\ r.dst # ev.dst
        BY <3>1 DEF Remembered, TypeOK, Route
      <3> QED BY <2>1, <3>1, <3>2 DEF MapInv
    <2>5. CASE Install(ev)
      <3> DEFINE r == [dst |-> ev.dst, gateway |-> ev.gateway]
      <3>1. CASE UNCHANGED <<kroute, mem>> /\ Spend("fail")
        BY <2>1, <3>1, SpendType DEF MapInv, TypeOK
      <3>2. CASE /\ kroute' = RouteReplace(kroute, r) /\ UNCHANGED count
                 /\ mem' = (mem \ Remembered(ev.dst)) \cup {r}
        <4>1. \A t \in mem' : t = r \/ (t \in mem /\ t.dst \in Prefix /\ t.dst # ev.dst)
          BY <3>2 DEF Remembered, TypeOK, Route
        <4>2. /\ kroute'[ev.dst] = ev.gateway
              /\ \A p \in Prefix : p # ev.dst => kroute'[p] = kroute[p]
          BY <3>2, <2>2 DEF RouteReplace, TypeOK
        <4> QED BY <2>1, <3>2, <4>1, <4>2 DEF MapInv
      <3> QED BY <2>5, <3>1, <3>2 DEF Install
    <2> QED BY <1>12, <2>3, <2>4, <2>5 DEF OnEvent
  <1>13. CASE Sync
    BY <1>13 DEF Sync, SyncRoutes, MapInv
  <1>14. ASSUME NEW e, NEW rej, Restart(e, rej) PROVE MapInv'
    BY <1>14 DEF Restart, Rest, MapInv
  <1>15. CASE UNCHANGED vars
    BY <1>15 DEF vars, MapInv, writer
  <1> QED
    BY <1>1, <1>2, <1>3, <1>4, <1>5, <1>6, <1>7, <1>8, <1>9, <1>10, <1>11,
       <1>12, <1>13, <1>14, <1>15 DEF Next, PassStep, Recv, MapInv

\* For any number of prefixes, next hops and faults: what the injector has in
\* its map is in the kernel, whichever commands failed, as long as no other
\* program deleted a route.
THEOREM InjectedStays == Spec => []InjectedInKernel
  <1>1. Init => MapInv
    BY DEF Init, MapInv
  <1>2. TypeOK /\ MapInv /\ [Next]_vars => MapInv'
    BY MapStep
  <1>3. MapInv => InjectedInKernel
    BY DEF MapInv, InjectedInKernel, Free
  <1> QED
    BY <1>1, <1>2, <1>3, TypeCorrect, PTL DEF Spec
---------------------------------------------------------------------------
(* The events between gobgpd and the injector: the channel, then the stream *)

Pending == Len(queue) + Len(stream)

Flow == [i \in 1 .. Pending |->
            IF i <= Len(queue) THEN queue[i] ELSE stream[i - Len(queue)]]

\* Every event about p among the n events of f is one of E.
AllIn(n, f, p, E) == \A j \in 1 .. n : f[j].dst = p => f[j] \in E

\* There is an event about p that is one of E, and so is every later one.
EndsWith(n, f, p, E) ==
    \E i \in 1 .. n : /\ f[i].dst = p /\ f[i] \in E
                      /\ \A j \in i + 1 .. n : f[j].dst = p => f[j] \in E

\* What an event added at the end does to both.
LEMMA EndAppend ==
    ASSUME NEW n \in Nat, NEW f, NEW g, NEW p, NEW E,
           \A i \in 1 .. n : g[i] = f[i]
    PROVE  /\ g[n + 1].dst = p /\ g[n + 1] \in E => EndsWith(n + 1, g, p, E)
           /\ g[n + 1].dst # p /\ EndsWith(n, f, p, E) => EndsWith(n + 1, g, p, E)
           /\ g[n + 1].dst # p /\ AllIn(n, f, p, E) => AllIn(n + 1, g, p, E)
  <1>1. ASSUME g[n + 1].dst = p, g[n + 1] \in E PROVE EndsWith(n + 1, g, p, E)
    BY <1>1 DEF EndsWith
  <1>2. ASSUME g[n + 1].dst # p, EndsWith(n, f, p, E) PROVE EndsWith(n + 1, g, p, E)
    <2>1. PICK i \in 1 .. n : /\ f[i].dst = p /\ f[i] \in E
                              /\ \A j \in i + 1 .. n : f[j].dst = p => f[j] \in E
      BY <1>2 DEF EndsWith
    <2>2. \A j \in i + 1 .. n + 1 : g[j].dst = p => g[j] \in E
      <3> SUFFICES ASSUME NEW j \in i + 1 .. n + 1, g[j].dst = p PROVE g[j] \in E
        OBVIOUS
      <3>1. j \in i + 1 .. n /\ j \in 1 .. n
        BY <1>2
      <3> QED BY <2>1, <3>1
    <2>3. i \in 1 .. n + 1 /\ g[i] = f[i]
      OBVIOUS
    <2> QED BY <2>1, <2>2, <2>3 DEF EndsWith
  <1>3. ASSUME g[n + 1].dst # p, AllIn(n, f, p, E) PROVE AllIn(n + 1, g, p, E)
    <2> SUFFICES ASSUME NEW j \in 1 .. n + 1, g[j].dst = p PROVE g[j] \in E
      BY DEF AllIn
    <2>1. j \in 1 .. n
      BY <1>3
    <2> QED BY <1>3, <2>1 DEF AllIn
  <1> QED BY <1>1, <1>2, <1>3

\* What taking the first event does to both.
LEMMA EndPop ==
    ASSUME NEW n \in Nat, NEW f, NEW g, NEW p, NEW E,
           \A i \in 1 .. n : g[i] = f[i + 1]
    PROVE  /\ EndsWith(n + 1, f, p, E) =>
                  \/ EndsWith(n, g, p, E)
                  \/ AllIn(n, g, p, E) /\ f[1].dst = p /\ f[1] \in E
           /\ AllIn(n + 1, f, p, E) =>
                  AllIn(n, g, p, E) /\ (f[1].dst = p => f[1] \in E)
  <1>1. ASSUME EndsWith(n + 1, f, p, E)
        PROVE  \/ EndsWith(n, g, p, E)
               \/ AllIn(n, g, p, E) /\ f[1].dst = p /\ f[1] \in E
    <2>1. PICK i \in 1 .. n + 1 :
                 /\ f[i].dst = p /\ f[i] \in E
                 /\ \A j \in i + 1 .. n + 1 : f[j].dst = p => f[j] \in E
      BY <1>1 DEF EndsWith
    <2>2. CASE i = 1
      <3>1. AllIn(n, g, p, E)
        <4> SUFFICES ASSUME NEW j \in 1 .. n, g[j].dst = p PROVE g[j] \in E
          BY DEF AllIn
        <4>1. j + 1 \in i + 1 .. n + 1
          BY <2>2
        <4> QED BY <2>1, <4>1
      <3> QED BY <2>1, <2>2, <3>1
    <2>3. CASE i # 1
      <3> DEFINE k == i - 1
      <3>1. k \in 1 .. n /\ k + 1 = i
        BY <2>3
      <3>2. g[k] = f[i]
        BY <3>1
      <3>3. \A j \in k + 1 .. n : g[j].dst = p => g[j] \in E
        <4> SUFFICES ASSUME NEW j \in k + 1 .. n, g[j].dst = p PROVE g[j] \in E
          OBVIOUS
        <4>1. j + 1 \in i + 1 .. n + 1 /\ j \in 1 .. n
          BY <3>1
        <4> QED BY <2>1, <4>1
      <3> QED BY <2>1, <3>1, <3>2, <3>3 DEF EndsWith
    <2> QED BY <2>2, <2>3
  <1>2. ASSUME AllIn(n + 1, f, p, E)
        PROVE  AllIn(n, g, p, E) /\ (f[1].dst = p => f[1] \in E)
    <2>1. ASSUME NEW j \in 1 .. n, g[j].dst = p PROVE g[j] \in E
      <3>1. j + 1 \in 1 .. n + 1
        OBVIOUS
      <3> QED BY <1>2, <2>1, <3>1 DEF AllIn
    <2>2. 1 \in 1 .. n + 1
      OBVIOUS
    <2> QED BY <1>2, <2>1, <2>2 DEF AllIn
  <1> QED BY <1>1, <1>2

\* Moving an event from the stream to the channel changes nothing in between.
LEMMA FlowForward ==
    ASSUME TypeOK, Forward
    PROVE  Pending' = Pending /\ Flow' = Flow
  <1>1. /\ Len(queue') = Len(queue) + 1
        /\ \A i \in 1 .. Len(queue) : queue'[i] = queue[i]
        /\ queue'[Len(queue) + 1] = stream[1]
        /\ Len(stream') = Len(stream) - 1
        /\ \A i \in 1 .. Len(stream) - 1 : stream'[i] = stream[i + 1]
        /\ Len(queue) \in Nat /\ Len(stream) \in Nat
    BY DEF Forward, TypeOK
  <1>2. Pending' = Pending
    BY <1>1 DEF Pending
  <1>3. ASSUME NEW i \in 1 .. Pending
        PROVE  (IF i <= Len(queue') THEN queue'[i] ELSE stream'[i - Len(queue')])
                 = (IF i <= Len(queue) THEN queue[i] ELSE stream[i - Len(queue)])
    <2>1. CASE i <= Len(queue)
      BY <1>1, <2>1
    <2>2. CASE i = Len(queue) + 1
      BY <1>1, <2>2
    <2>3. CASE i > Len(queue) + 1
      <3>1. /\ i - Len(queue') \in 1 .. Len(stream) - 1
            /\ (i - Len(queue')) + 1 = i - Len(queue)
            /\ ~(i <= Len(queue)) /\ ~(i <= Len(queue'))
        BY <1>1, <2>3 DEF Pending
      <3>2. stream'[i - Len(queue')] = stream[(i - Len(queue')) + 1]
        BY <1>1, <3>1
      <3> QED BY <3>1, <3>2
    <2> QED BY <1>1, <2>1, <2>2, <2>3 DEF Pending
  <1> QED BY <1>2, <1>3 DEF Flow

\* The daemon adds an event at the end.
LEMMA FlowAppend ==
    ASSUME TypeOK, NEW e \in Event, stream' = Append(stream, e), queue' = queue
    PROVE  /\ Pending \in Nat /\ Pending' = Pending + 1
           /\ \A i \in 1 .. Pending : Flow'[i] = Flow[i]
           /\ Flow'[Pending + 1] = e
  <1>1. /\ Len(stream') = Len(stream) + 1
        /\ \A i \in 1 .. Len(stream) : stream'[i] = stream[i]
        /\ stream'[Len(stream) + 1] = e
        /\ Len(queue) \in Nat /\ Len(stream) \in Nat
    BY DEF TypeOK
  <1>2. Pending \in Nat /\ Pending' = Pending + 1
    BY <1>1 DEF Pending
  <1>3. ASSUME NEW i \in 1 .. Pending PROVE Flow'[i] = Flow[i]
    <2>1. i \in 1 .. Pending + 1
      BY <1>2
    <2>2. i > Len(queue) => i - Len(queue) \in 1 .. Len(stream)
      BY <1>1 DEF Pending
    <2> QED BY <1>1, <1>2, <2>1, <2>2 DEF Flow
  <1>4. Flow'[Pending + 1] = e
    <2>1. /\ Pending + 1 \in 1 .. Pending + 1 /\ ~(Pending + 1 <= Len(queue))
          /\ (Pending + 1) - Len(queue) = Len(stream) + 1
      BY <1>1, <1>2 DEF Pending
    <2> QED BY <1>1, <1>2, <2>1 DEF Flow
  <1> QED BY <1>2, <1>3, <1>4

\* The injector takes the first event.
LEMMA FlowPop ==
    ASSUME TypeOK, NEW ev, Receives(ev)
    PROVE  /\ Pending - 1 \in Nat /\ Pending \in Nat /\ Pending' = Pending - 1
           /\ \A i \in 1 .. Pending - 1 : Flow'[i] = Flow[i + 1]
           /\ Flow[1] = ev /\ ev \in Event
  <1>1. /\ Len(queue') = Len(queue) - 1
        /\ \A i \in 1 .. Len(queue) - 1 : queue'[i] = queue[i + 1]
        /\ queue[1] = ev /\ ev \in Event /\ stream' = stream
        /\ Len(queue) \in Nat /\ Len(queue) >= 1 /\ Len(stream) \in Nat
    BY DEF Receives, TypeOK, daemon
  <1>2. Pending - 1 \in Nat /\ Pending \in Nat /\ Pending' = Pending - 1
    BY <1>1 DEF Pending
  <1>3. ASSUME NEW i \in 1 .. Pending - 1 PROVE Flow'[i] = Flow[i + 1]
    <2>1. i + 1 \in 1 .. Pending /\ i \in 1 .. Pending'
      BY <1>2
    <2>2. CASE i <= Len(queue) - 1
      <3>1. i + 1 <= Len(queue) /\ i <= Len(queue') /\ queue'[i] = queue[i + 1]
        BY <1>1, <1>2, <2>2
      <3> QED BY <2>1, <3>1 DEF Flow
    <2>3. CASE ~(i <= Len(queue) - 1)
      <3>1. /\ ~(i + 1 <= Len(queue)) /\ ~(i <= Len(queue'))
            /\ (i + 1) - Len(queue) = i - Len(queue')
        BY <1>1, <1>2, <2>3
      <3> QED BY <1>1, <2>1, <3>1 DEF Flow
    <2> QED BY <2>2, <2>3
  <1>4. Flow[1] = ev
    <2>1. 1 \in 1 .. Pending /\ 1 <= Len(queue)
      BY <1>1, <1>2
    <2> QED BY <1>1, <2>1 DEF Flow
  <1> QED BY <1>1, <1>2, <1>3, <1>4
---------------------------------------------------------------------------
(* Learned routes reach the map *)

Good(r) == {Advert(r.dst, r.gateway)}

\* Route r is in the map or its advertisement is on the way, and nothing that
\* is handled later contradicts it.
Due(r) == \/ EndsWith(Pending, Flow, r.dst, Good(r))
          \/ AllIn(Pending, Flow, r.dst, Good(r)) /\ r \in mem

\* Strengthening of LearnedInstalled to states with events on the way.
LearnedInv ==
    engine = "gobgp" /\ watching /\ count["fail"] = 0 => \A r \in Wanted : Due(r)

\* A step that touches neither the events nor what Due speaks of.
LEMMA LearnedSame ==
    ASSUME LearnedInv, UNCHANGED <<engine, reject, best, watching, mem>>,
           Pending' = Pending, Flow' = Flow,
           count'["fail"] = 0 => count["fail"] = 0
    PROVE  LearnedInv'
  <1> SUFFICES ASSUME engine = "gobgp", watching, count["fail"] = 0,
                      NEW r \in Route, best[r.dst] = r.gateway,
                      r.gateway # LocalIp, r.dst \notin reject
               PROVE  Due(r)'
    BY DEF LearnedInv, Wanted
  <1>1. Due(r)
    BY DEF LearnedInv, Wanted
  <1> QED BY <1>1 DEF Due, EndsWith, AllIn, Good

\* Handling an event keeps every wanted route due, unless a command fails.
LEMMA LearnedEvent ==
    ASSUME TypeOK, LearnedInv, NEW ev, OnEvent(ev)
    PROVE  LearnedInv'
  <1>1. /\ Receives(ev) /\ UNCHANGED <<engine, reject, best, watching>>
    BY DEF OnEvent, Receives, daemon
  <1>2. count'["fail"] = 0 => count["fail"] = 0 /\ ~Spend("fail")
    <2>1. count' = count \/ Spend("fail")
      BY DEF OnEvent, Uninstall, Install
    <2>2. CASE Spend("fail")
      BY <2>2, SpendType DEF TypeOK
    <2>3. CASE count' = count /\ ~Spend("fail")
      BY <2>3
    <2> QED BY <2>1, <2>2, <2>3
  <1> SUFFICES ASSUME engine = "gobgp", watching, count["fail"] = 0, ~Spend("fail"),
                      NEW r \in Route, best[r.dst] = r.gateway,
                      r.gateway # LocalIp, r.dst \notin reject
               PROVE  Due(r)'
    BY <1>1, <1>2 DEF LearnedInv, Wanted
  <1>3. Due(r)
    BY DEF LearnedInv, Wanted
  <1> DEFINE n == Pending - 1
  <1>4. /\ n \in Nat /\ n + 1 = Pending /\ Pending' = n
        /\ \A i \in 1 .. n : Flow'[i] = Flow[i + 1]
        /\ Flow[1] = ev /\ ev \in Event
    BY <1>1, FlowPop
  <1> HIDE DEF n
  <1>5. /\ EndsWith(Pending, Flow, r.dst, Good(r)) =>
               \/ EndsWith(n, Flow', r.dst, Good(r))
               \/ AllIn(n, Flow', r.dst, Good(r)) /\ ev.dst = r.dst /\ ev \in Good(r)
        /\ AllIn(Pending, Flow, r.dst, Good(r)) =>
               AllIn(n, Flow', r.dst, Good(r)) /\ (ev.dst = r.dst => ev \in Good(r))
    BY <1>4, EndPop
  <1>6. ASSUME ev.dst # r.dst, r \in mem PROVE r \in mem'
    BY <1>6 DEF OnEvent, Uninstall, Install, Remembered
  <1>7. ASSUME ev \in Good(r) PROVE r \in mem'
    <2>1. ev = Advert(r.dst, r.gateway)
      BY <1>7 DEF Good
    <2>2. ev.dst = r.dst /\ ev.gateway = r.gateway /\ ~ev.withdrawal
      BY <2>1 DEF Advert
    <2>3. Install(ev)
      BY <2>2 DEF OnEvent, IsOwn, IsRejected
    <2>4. [dst |-> ev.dst, gateway |-> ev.gateway] = r
      BY <2>2 DEF Route
    <2> QED BY <2>3, <2>4 DEF Install
  <1>8. EndsWith(n, Flow', r.dst, Good(r)) \/ (AllIn(n, Flow', r.dst, Good(r)) /\ r \in mem')
    BY <1>3, <1>5, <1>6, <1>7 DEF Due
  <1> QED
    BY <1>4, <1>8 DEF Due, Good, EndsWith, AllIn

\* A change of a best path is reported behind everything else.
LEMMA LearnedChange ==
    ASSUME TypeOK, LearnedInv, NEW p \in Prefix, NEW g \in MaybeGw, BestChange(p, g)
    PROVE  LearnedInv'
  <1>1. UNCHANGED <<engine, reject, mem, watching, queue, count>>
    BY DEF BestChange, writer
  <1> SUFFICES ASSUME engine = "gobgp", watching, count["fail"] = 0,
                      NEW r \in Route, best'[r.dst] = r.gateway,
                      r.gateway # LocalIp, r.dst \notin reject
               PROVE  Due(r)'
    BY <1>1 DEF LearnedInv, Wanted
  <1> DEFINE e == IF g = NoGw THEN Withdrawal(p, best[p]) ELSE Advert(p, g)
  <1>2. e \in Event /\ e.dst = p /\ (g # NoGw => e = Advert(p, g))
    <2>1. best[p] \in MaybeGw /\ (g = NoGw => best[p] \in Gw)
      BY DEF BestChange, TypeOK
    <2>2. g = NoGw => Withdrawal(p, best[p]) \in Event /\ Withdrawal(p, best[p]).dst = p
      BY <2>1 DEF Withdrawal, Event
    <2>3. g # NoGw => Advert(p, g) \in Event /\ Advert(p, g).dst = p
      BY <2>1 DEF Advert, Event
    <2> QED BY <2>2, <2>3
  <1>3. stream' = Append(stream, e)
    BY DEF BestChange
  <1> HIDE DEF e
  <1>4. /\ Pending \in Nat /\ Pending' = Pending + 1
        /\ \A i \in 1 .. Pending : Flow'[i] = Flow[i]
        /\ Flow'[Pending + 1] = e
    BY <1>1, <1>2, <1>3, FlowAppend
  <1>5. /\ e.dst = r.dst /\ e \in Good(r) => EndsWith(Pending + 1, Flow', r.dst, Good(r))
        /\ e.dst # r.dst /\ EndsWith(Pending, Flow, r.dst, Good(r))
              => EndsWith(Pending + 1, Flow', r.dst, Good(r))
        /\ e.dst # r.dst /\ AllIn(Pending, Flow, r.dst, Good(r))
              => AllIn(Pending + 1, Flow', r.dst, Good(r))
    BY <1>4, EndAppend
  <1>6. CASE r.dst = p
    <2>1. g = r.gateway /\ g # NoGw
      BY <1>6, ConstantsAssumption DEF BestChange, TypeOK, Route
    <2>2. e \in Good(r)
      BY <1>2, <1>6, <2>1 DEF Good
    <2> QED BY <1>2, <1>4, <1>5, <1>6, <2>2 DEF Due, EndsWith, AllIn, Good
  <1>7. CASE r.dst # p
    <2>1. best[r.dst] = r.gateway
      BY <1>7 DEF BestChange, TypeOK, Route
    <2>2. Due(r)
      BY <2>1 DEF LearnedInv, Wanted
    <2>3. \/ EndsWith(Pending + 1, Flow', r.dst, Good(r))
          \/ AllIn(Pending + 1, Flow', r.dst, Good(r)) /\ r \in mem'
      BY <1>1, <1>2, <1>5, <1>7, <2>2 DEF Due
    <2> QED BY <1>4, <2>3 DEF Due, EndsWith, AllIn, Good
  <1> QED BY <1>6, <1>7

\* A new watch replays every best path.
LEMMA LearnedConnect ==
    ASSUME TypeOK, Connect
    PROVE  LearnedInv'
  <1>1. UNCHANGED <<engine, reject, mem, best, queue, count>>
    BY DEF Connect, writer
  <1> SUFFICES ASSUME NEW r \in Route, best[r.dst] = r.gateway
               PROVE  Due(r)'
    BY <1>1 DEF LearnedInv, Wanted
  <1>2. PICK s \in [1 .. Cardinality(Replay) -> Replay] :
               {s[i] : i \in DOMAIN s} = Replay /\ stream' = s
    BY DEF Connect
  <1>3. s \in Seq(Event) /\ Len(s) \in Nat /\ DOMAIN s = 1 .. Len(s) /\ Len(queue) \in Nat
    BY ReplayType DEF TypeOK
  <1>4. Advert(r.dst, r.gateway) \in Replay
    BY ConstantsAssumption DEF Replay, Route
  <1>5. PICK k \in 1 .. Len(s) : s[k] = Advert(r.dst, r.gateway)
    BY <1>2, <1>3, <1>4
  <1>6. \A j \in 1 .. Len(s) : s[j].dst = r.dst => s[j] \in Good(r)
    <2> SUFFICES ASSUME NEW j \in 1 .. Len(s), s[j].dst = r.dst PROVE s[j] \in Good(r)
      OBVIOUS
    <2>1. PICK q \in Prefix : s[j] = Advert(q, best[q])
      BY <1>3 DEF Replay
    <2>2. q = r.dst
      BY <2>1 DEF Advert
    <2> QED BY <2>1, <2>2 DEF Good
  <1> DEFINE n == Len(queue) + Len(s)
  <1>7. Pending' = n /\ n \in Nat
    BY <1>1, <1>2, <1>3 DEF Pending
  <1>8. ASSUME NEW j \in 1 .. Len(s)
        PROVE  Len(queue) + j \in 1 .. n /\ Flow'[Len(queue) + j] = s[j]
    <2>1. /\ Len(queue) + j \in 1 .. n /\ ~(Len(queue) + j <= Len(queue))
          /\ (Len(queue) + j) - Len(queue) = j
      BY <1>3
    <2> QED BY <1>1, <1>2, <1>7, <2>1 DEF Flow
  <1> DEFINE i == Len(queue) + k
  <1>9. i \in 1 .. n /\ Flow'[i] = Advert(r.dst, r.gateway)
    BY <1>5, <1>8
  <1>10. ASSUME NEW j \in i + 1 .. n, Flow'[j].dst = r.dst PROVE Flow'[j] \in Good(r)
    <2>1. j - Len(queue) \in 1 .. Len(s) /\ Len(queue) + (j - Len(queue)) = j
      BY <1>3, <1>5
    <2>2. Flow'[j] = s[j - Len(queue)]
      BY <1>8, <2>1
    <2> QED BY <1>6, <1>10, <2>1, <2>2
  <1>11. Advert(r.dst, r.gateway) \in Good(r) /\ Advert(r.dst, r.gateway).dst = r.dst
    BY DEF Good, Advert
  <1>12. EndsWith(n, Flow', r.dst, Good(r))
    BY <1>9, <1>10, <1>11 DEF EndsWith
  <1> HIDE DEF n
  <1> QED BY <1>7, <1>12 DEF Due, EndsWith, Good
\* Every step preserves LearnedInv.
LEMMA LearnedStep ==
    ASSUME TypeOK, LearnedInv, [Next]_vars
    PROVE  LearnedInv'
  <1>1. ASSUME UNCHANGED <<queue, stream>> PROVE Pending' = Pending /\ Flow' = Flow
    BY <1>1 DEF Pending, Flow
  <1>2. ASSUME NEW f \in Fault, Spend(f) PROVE count'["fail"] = 0 => count["fail"] = 0
    BY <1>2, SpendType DEF TypeOK
  <1>3. ASSUME NEW p \in Prefix, Drift(p) PROVE LearnedInv'
    BY <1>1, <1>2, <1>3, LearnedSame DEF Drift, writer, daemon
  <1>4. CASE engine = "logging" /\ engine' = engine
    BY <1>4 DEF LearnedInv
  <1>5. ASSUME NEW r, PassReplace(r) \/ PassDel(r) PROVE LearnedInv'
    BY <1>1, <1>5, LearnedSame DEF PassReplace, PassDel, daemon
  <1>6. CASE engine = "gobgp" /\ PassDone
    BY <1>1, <1>6, LearnedSame DEF PassDone, Rest, daemon
  <1>7. CASE PassFail
    BY <1>1, <1>2, <1>7, LearnedSame DEF PassFail, Rest, daemon
  <1>8. ASSUME NEW p \in Prefix, NEW g \in MaybeGw, BestChange(p, g)
        PROVE  LearnedInv'
    BY <1>8, LearnedChange
  <1>9. CASE Forward
    BY <1>9, FlowForward, LearnedSame DEF Forward, writer
  <1>10. ASSUME watching' = FALSE PROVE LearnedInv'
    BY <1>10 DEF LearnedInv
  <1>11. CASE Connect
    BY <1>11, LearnedConnect
  <1>12. ASSUME NEW ev, OnEvent(ev) PROVE LearnedInv'
    BY <1>12, LearnedEvent
  <1>13. CASE Sync
    BY <1>1, <1>13, LearnedSame DEF Sync, daemon
  <1>14. CASE UNCHANGED vars
    BY <1>1, <1>14, LearnedSame DEF vars, writer, daemon
  <1>15. CASE PassDone
    BY <1>4, <1>6, <1>15 DEF PassDone, TypeOK
  <1>16. ASSUME NEW n, NEW ip, NodeChange(n, ip) PROVE LearnedInv'
    BY <1>4, <1>16 DEF NodeChange
  <1>17. CASE Reconcile
    BY <1>4, <1>17 DEF Reconcile
  <1>18. CASE Cut
    BY <1>10, <1>18 DEF Cut
  <1>19. ASSUME NEW e, NEW rej, Restart(e, rej) PROVE LearnedInv'
    BY <1>10, <1>19 DEF Restart
  <1> QED
    BY <1>3, <1>5, <1>7, <1>8, <1>9, <1>11, <1>12, <1>13, <1>14, <1>15, <1>16,
       <1>17, <1>18, <1>19 DEF Next, PassStep, Recv

\* For any number of prefixes, next hops, breaks of the watch and restarts and
\* any capacity of the channel: when the watch is open and nothing is on its
\* way, every route learned from a peer is in the injector's map.
THEOREM LearnedStays == Spec => []LearnedInstalled
  <1>1. Init => LearnedInv
    BY DEF Init, LearnedInv
  <1>2. TypeOK /\ LearnedInv /\ [Next]_vars => LearnedInv'
    BY LearnedStep
  <1>3. TypeOK /\ LearnedInv => LearnedInstalled
    <2> SUFFICES ASSUME TypeOK, LearnedInv, engine = "gobgp", Quiet, count["fail"] = 0,
                        NEW r \in Wanted
                 PROVE  r \in mem
      BY DEF LearnedInstalled, Free
    <2>1. Due(r)
      BY DEF LearnedInv, Quiet
    <2>2. Pending = 0
      BY DEF Pending, Quiet
    <2> QED BY <2>1, <2>2 DEF Due, EndsWith
  <1> QED
    BY <1>1, <1>2, <1>3, TypeCorrect, PTL DEF Spec

---------------------------------------------------------------------------
(* Withdrawn routes leave the map *)

Withdrawals(p) == {e \in Event : e.dst = p /\ e.withdrawal}

\* Prefix p is not in the map, or it is going to be withdrawn from it.
Leaving(p) == \/ EndsWith(Pending, Flow, p, Withdrawals(p))
              \/ AllIn(Pending, Flow, p, Withdrawals(p)) /\ Remembered(p) = {}

\* Only events about this node's own prefixes are skipped.
OwnInv ==
    engine = "gobgp" =>
        /\ \A p \in Prefix \ Own : best[p] # NoGw => best[p] # LocalIp
        /\ \A i \in 1 .. Pending : Flow[i].dst \notin Own => Flow[i].gateway # LocalIp

\* Strengthening of WithdrawnRemoved to states with events on the way.
WithdrawnInv ==
    engine = "gobgp" /\ count["cut"] = 0 =>
        /\ ~watching => mem = {} /\ Pending = 0
        /\ watching => \A p \in Prefix \ Own : best[p] = NoGw => Leaving(p)
\* Every step preserves OwnInv.
LEMMA OwnStep ==
    ASSUME TypeOK, OwnInv, [Next]_vars
    PROVE  OwnInv'
  <1>1. ASSUME UNCHANGED <<engine, best>>, Pending' = Pending, Flow' = Flow
        PROVE  OwnInv'
    BY <1>1 DEF OwnInv
  <1>2. ASSUME UNCHANGED <<engine, best, queue, stream>> PROVE OwnInv'
    <2>1. Pending' = Pending /\ Flow' = Flow
      BY <1>2 DEF Pending, Flow
    <2> QED BY <1>1, <1>2, <2>1
  <1>3. ASSUME NEW p \in Prefix, NEW g \in MaybeGw, BestChange(p, g)
        PROVE  OwnInv'
    <2> SUFFICES ASSUME engine = "gobgp"
                 PROVE  /\ \A q \in Prefix \ Own : best'[q] # NoGw => best'[q] # LocalIp
                        /\ \A i \in 1 .. Pending' :
                               Flow'[i].dst \notin Own => Flow'[i].gateway # LocalIp
      BY <1>3 DEF OwnInv, BestChange
    <2>1. \A q \in Prefix \ Own : best'[q] # NoGw => best'[q] # LocalIp
      BY <1>3 DEF BestChange, OwnInv, TypeOK
    <2>2. CASE ~watching
      <3>1. Pending' = Pending /\ Flow' = Flow
        BY <1>3, <2>2 DEF BestChange, Pending, Flow
      <3> QED BY <2>1, <3>1 DEF OwnInv
    <2>3. CASE watching
      <3> DEFINE e == IF g = NoGw THEN Withdrawal(p, best[p]) ELSE Advert(p, g)
      <3>1. /\ best[p] \in MaybeGw /\ (g = NoGw => best[p] \in Gw)
            /\ p \notin Own /\ g = NoGw => best[p] # LocalIp
            /\ p \notin Own /\ g # NoGw => g # LocalIp
        BY <1>3 DEF BestChange, TypeOK, OwnInv
      <3>2. e \in Event /\ e.dst = p /\ e.gateway = (IF g = NoGw THEN best[p] ELSE g)
        <4>1. g = NoGw => /\ Withdrawal(p, best[p]) \in Event
                          /\ Withdrawal(p, best[p]).dst = p
                          /\ Withdrawal(p, best[p]).gateway = best[p]
          BY <3>1 DEF Withdrawal, Event
        <4>2. g # NoGw => /\ Advert(p, g) \in Event
                          /\ Advert(p, g).dst = p /\ Advert(p, g).gateway = g
          BY <3>1 DEF Advert, Event
        <4> QED BY <4>1, <4>2
      <3>3. stream' = Append(stream, e) /\ queue' = queue
        BY <1>3, <2>3 DEF BestChange
      <3> HIDE DEF e
      <3>4. /\ Pending \in Nat /\ Pending' = Pending + 1
            /\ \A i \in 1 .. Pending : Flow'[i] = Flow[i]
            /\ Flow'[Pending + 1] = e
        BY <3>2, <3>3, FlowAppend
      <3>5. \A i \in 1 .. Pending + 1 : Flow'[i].dst \notin Own => Flow'[i].gateway # LocalIp
        <4> SUFFICES ASSUME NEW i \in 1 .. Pending + 1, Flow'[i].dst \notin Own
                     PROVE  Flow'[i].gateway # LocalIp
          OBVIOUS
        <4>1. CASE i = Pending + 1
          BY <3>1, <3>2, <3>4, <4>1
        <4>2. CASE i # Pending + 1
          <5>1. i \in 1 .. Pending
            BY <3>4, <4>2
          <5> QED BY <3>4, <5>1 DEF OwnInv
        <4> QED BY <4>1, <4>2
      <3> QED BY <2>1, <3>4, <3>5
    <2> QED BY <2>2, <2>3
  <1>4. CASE Cut
    <2> SUFFICES ASSUME engine = "gobgp"
                 PROVE  \A i \in 1 .. Pending' :
                           Flow'[i].dst \notin Own => Flow'[i].gateway # LocalIp
      BY <1>4 DEF Cut, OwnInv
    <2>1. /\ stream' = <<>> /\ queue' = queue /\ Len(queue) \in Nat /\ Len(stream) \in Nat
          /\ Pending' = Len(queue)
      BY <1>4 DEF Cut, TypeOK, Pending
    <2>2. ASSUME NEW i \in 1 .. Len(queue) PROVE i \in 1 .. Pending /\ Flow'[i] = Flow[i]
      <3>1. i \in 1 .. Pending /\ i <= Len(queue)
        BY <2>1 DEF Pending
      <3> QED BY <2>1, <3>1 DEF Flow
    <2> QED BY <2>1, <2>2 DEF OwnInv
  <1>5. CASE Connect
    <2> SUFFICES ASSUME engine = "gobgp"
                 PROVE  \A i \in 1 .. Pending' :
                           Flow'[i].dst \notin Own => Flow'[i].gateway # LocalIp
      BY <1>5 DEF Connect, OwnInv
    <2>1. PICK s \in [1 .. Cardinality(Replay) -> Replay] : stream' = s
      BY <1>5 DEF Connect
    <2>2. /\ s \in Seq(Event) /\ Len(s) \in Nat /\ DOMAIN s = 1 .. Len(s)
          /\ Len(queue) \in Nat /\ Len(stream) \in Nat /\ queue' = queue
          /\ Pending' = Len(queue) + Len(s)
      BY <1>5, <2>1, ReplayType DEF TypeOK, Connect, Pending
    <2> SUFFICES ASSUME NEW i \in 1 .. Len(queue) + Len(s), Flow'[i].dst \notin Own
                 PROVE  Flow'[i].gateway # LocalIp
      BY <2>2
    <2>3. CASE i <= Len(queue)
      <3>1. i \in 1 .. Pending
        BY <2>2, <2>3 DEF Pending
      <3>2. Flow'[i] = Flow[i]
        BY <2>2, <2>3, <3>1 DEF Flow
      <3> QED BY <3>1, <3>2 DEF OwnInv
    <2>4. CASE ~(i <= Len(queue))
      <3>1. i - Len(queue) \in 1 .. Len(s) /\ i \in 1 .. Pending'
        BY <2>2, <2>4
      <3>2. Flow'[i] = s[i - Len(queue)]
        BY <2>1, <2>2, <2>4, <3>1 DEF Flow
      <3>3. PICK q \in Prefix : best[q] # NoGw /\ Flow'[i] = Advert(q, best[q])
        BY <2>2, <3>1, <3>2 DEF Replay
      <3> QED BY <3>3 DEF Advert, OwnInv
    <2> QED BY <2>3, <2>4
  <1>6. ASSUME NEW ev, OnEvent(ev) PROVE OwnInv'
    <2>1. Receives(ev) /\ UNCHANGED <<engine, best>>
      BY <1>6 DEF OnEvent, Receives, daemon
    <2>2. /\ Pending - 1 \in Nat /\ Pending \in Nat /\ Pending' = Pending - 1
          /\ \A i \in 1 .. Pending - 1 : Flow'[i] = Flow[i + 1]
      BY <2>1, FlowPop
    <2>3. \A i \in 1 .. Pending - 1 : i + 1 \in 1 .. Pending
      BY <2>2
    <2> QED BY <2>1, <2>2, <2>3 DEF OwnInv
  <1>7. ASSUME NEW e, NEW rej, Restart(e, rej) PROVE OwnInv'
    <2>1. Pending' = 0 /\ best' = [p \in Prefix |-> NoGw]
      BY <1>7 DEF Restart, Pending
    <2> QED BY <2>1 DEF OwnInv
  <1>8. CASE Forward
    BY <1>1, <1>8, FlowForward DEF Forward
  <1>9. ASSUME NEW p, Drift(p) PROVE OwnInv'
    BY <1>2, <1>9 DEF Drift, daemon
  <1>10. ASSUME NEW n, NEW ip, NodeChange(n, ip) PROVE OwnInv'
    BY <1>2, <1>10 DEF NodeChange, daemon
  <1>11. CASE Reconcile \/ Sync \/ PassDone \/ PassFail
    BY <1>2, <1>11 DEF Reconcile, Sync, PassDone, PassFail, daemon
  <1>12. ASSUME NEW r, PassReplace(r) \/ PassDel(r) PROVE OwnInv'
    BY <1>2, <1>12 DEF PassReplace, PassDel, daemon
  <1>13. CASE UNCHANGED vars
    BY <1>2, <1>13 DEF vars, daemon
  <1> QED
    BY <1>3, <1>4, <1>5, <1>6, <1>7, <1>8, <1>9, <1>10, <1>11, <1>12, <1>13
    DEF Next, PassStep, Recv
\* A step that touches neither the events nor what Leaving speaks of.
LEMMA WithdrawnSame ==
    ASSUME WithdrawnInv, UNCHANGED <<engine, best, watching, mem>>,
           Pending' = Pending, Flow' = Flow,
           count'["cut"] = 0 => count["cut"] = 0
    PROVE  WithdrawnInv'
  <1>1. ASSUME NEW p, Leaving(p) PROVE Leaving(p)'
    BY <1>1 DEF Leaving, EndsWith, AllIn, Withdrawals, Remembered
  <1> QED BY <1>1 DEF WithdrawnInv

\* Handling an event leaves every withdrawn prefix leaving, even if `ip` fails.
LEMMA WithdrawnEvent ==
    ASSUME TypeOK, OwnInv, WithdrawnInv, NEW ev, OnEvent(ev)
    PROVE  WithdrawnInv'
  <1>1. Receives(ev) /\ UNCHANGED <<engine, best, watching>>
    BY DEF OnEvent, Receives, daemon
  <1>2. count'["cut"] = 0 => count["cut"] = 0
    <2>1. count' = count \/ Spend("fail")
      BY DEF OnEvent, Uninstall, Install
    <2> QED BY <2>1, SpendType DEF TypeOK
  <1> DEFINE n == Pending - 1
  <1>3. /\ n \in Nat /\ n + 1 = Pending /\ Pending' = n
        /\ \A i \in 1 .. n : Flow'[i] = Flow[i + 1]
        /\ Flow[1] = ev /\ ev \in Event
    BY <1>1, FlowPop
  <1> HIDE DEF n
  <1>4. ASSUME engine = "gobgp", count["cut"] = 0, ~watching PROVE FALSE
    BY <1>3, <1>4 DEF WithdrawnInv
  <1> SUFFICES ASSUME engine = "gobgp", count["cut"] = 0, watching,
                      NEW p \in Prefix \ Own, best[p] = NoGw
               PROVE  Leaving(p)'
    BY <1>1, <1>2, <1>4 DEF WithdrawnInv
  <1>5. Leaving(p)
    BY DEF WithdrawnInv
  <1>6. /\ EndsWith(Pending, Flow, p, Withdrawals(p)) =>
               \/ EndsWith(n, Flow', p, Withdrawals(p))
               \/ AllIn(n, Flow', p, Withdrawals(p)) /\ ev.dst = p /\ ev \in Withdrawals(p)
        /\ AllIn(Pending, Flow, p, Withdrawals(p)) =>
               AllIn(n, Flow', p, Withdrawals(p)) /\ (ev.dst = p => ev \in Withdrawals(p))
    BY <1>3, EndPop
  <1>7. ASSUME ev.dst = p, ev \in Withdrawals(p) PROVE Remembered(p)' = {}
    <2>1. ev.gateway # LocalIp
      <3>1. 1 \in 1 .. Pending
        BY <1>3
      <3> QED BY <1>3, <1>7, <3>1 DEF OwnInv
    <2>2. Uninstall(ev)
      BY <1>7, <2>1 DEF OnEvent, IsOwn, Withdrawals
    <2> QED BY <1>7, <2>2 DEF Uninstall, Remembered
  <1>8. ASSUME ev.dst # p, Remembered(p) = {} PROVE Remembered(p)' = {}
    <2>1. mem' = mem \/ Uninstall(ev) \/ Install(ev)
      BY DEF OnEvent
    <2> QED BY <1>8, <2>1 DEF Uninstall, Install, Remembered
  <1>9. \/ EndsWith(n, Flow', p, Withdrawals(p))
        \/ AllIn(n, Flow', p, Withdrawals(p)) /\ Remembered(p)' = {}
    BY <1>5, <1>6, <1>7, <1>8 DEF Leaving
  <1> QED
    BY <1>3, <1>9 DEF Leaving, Withdrawals, EndsWith, AllIn

\* The loss of a best path is reported behind everything else.
LEMMA WithdrawnChange ==
    ASSUME TypeOK, WithdrawnInv, NEW q \in Prefix, NEW g \in MaybeGw, BestChange(q, g)
    PROVE  WithdrawnInv'
  <1>1. UNCHANGED <<engine, mem, watching, queue, count>>
    BY DEF BestChange, writer
  <1>2. CASE ~watching
    <2>1. Pending' = Pending
      BY <1>1, <1>2 DEF BestChange, Pending
    <2> QED BY <1>1, <1>2, <2>1 DEF WithdrawnInv
  <1>3. CASE watching
    <2> SUFFICES ASSUME engine = "gobgp", count["cut"] = 0,
                        NEW p \in Prefix \ Own, best'[p] = NoGw
                 PROVE  Leaving(p)'
      BY <1>1, <1>3 DEF WithdrawnInv
    <2> DEFINE e == IF g = NoGw THEN Withdrawal(q, best[q]) ELSE Advert(q, g)
    <2>1. e \in Event /\ e.dst = q /\ (g = NoGw => e \in Withdrawals(q))
      <3>1. best[q] \in MaybeGw /\ (g = NoGw => best[q] \in Gw)
        BY DEF BestChange, TypeOK
      <3>2. g = NoGw => /\ Withdrawal(q, best[q]) \in Event
                        /\ Withdrawal(q, best[q]).dst = q
                        /\ Withdrawal(q, best[q]).withdrawal
        BY <3>1 DEF Withdrawal, Event
      <3>3. g # NoGw => Advert(q, g) \in Event /\ Advert(q, g).dst = q
        BY <3>1 DEF Advert, Event
      <3> QED BY <3>2, <3>3 DEF Withdrawals
    <2>2. stream' = Append(stream, e)
      BY <1>3 DEF BestChange
    <2> HIDE DEF e
    <2>3. /\ Pending \in Nat /\ Pending' = Pending + 1
          /\ \A i \in 1 .. Pending : Flow'[i] = Flow[i]
          /\ Flow'[Pending + 1] = e
      BY <1>1, <2>1, <2>2, FlowAppend
    <2>4. /\ e.dst = p /\ e \in Withdrawals(p)
                => EndsWith(Pending + 1, Flow', p, Withdrawals(p))
          /\ e.dst # p /\ EndsWith(Pending, Flow, p, Withdrawals(p))
                => EndsWith(Pending + 1, Flow', p, Withdrawals(p))
          /\ e.dst # p /\ AllIn(Pending, Flow, p, Withdrawals(p))
                => AllIn(Pending + 1, Flow', p, Withdrawals(p))
      BY <2>3, EndAppend
    <2>5. CASE p = q
      <3>1. g = NoGw
        BY <2>5 DEF BestChange, TypeOK
      <3> QED BY <2>1, <2>3, <2>4, <2>5, <3>1
              DEF Leaving, EndsWith, AllIn, Withdrawals
    <2>6. CASE p # q
      <3>1. best[p] = NoGw
        BY <2>6 DEF BestChange, TypeOK
      <3>2. Leaving(p)
        BY <1>3, <3>1 DEF WithdrawnInv
      <3>3. \/ EndsWith(Pending + 1, Flow', p, Withdrawals(p))
            \/ AllIn(Pending + 1, Flow', p, Withdrawals(p)) /\ Remembered(p)' = {}
        BY <1>1, <2>1, <2>4, <2>6, <3>2 DEF Leaving, Remembered
      <3> QED BY <2>3, <3>3 DEF Leaving, EndsWith, AllIn, Withdrawals
    <2> QED BY <2>5, <2>6
  <1> QED BY <1>2, <1>3

\* The first watch begins with an empty map and an empty channel.
LEMMA WithdrawnConnect ==
    ASSUME TypeOK, WithdrawnInv, Connect
    PROVE  WithdrawnInv'
  <1>1. /\ UNCHANGED <<engine, mem, best, queue, count>> /\ ~watching /\ watching' = TRUE
    BY DEF Connect, writer
  <1> SUFFICES ASSUME engine = "gobgp", count["cut"] = 0,
                      NEW p \in Prefix \ Own, best[p] = NoGw
               PROVE  Leaving(p)'
    BY <1>1 DEF WithdrawnInv
  <1>2. mem = {} /\ Pending = 0
    BY <1>1 DEF WithdrawnInv
  <1>3. Len(queue) = 0
    BY <1>2 DEF Pending, TypeOK
  <1>4. PICK s \in [1 .. Cardinality(Replay) -> Replay] : stream' = s
    BY DEF Connect
  <1>5. s \in Seq(Event) /\ Len(s) \in Nat /\ DOMAIN s = 1 .. Len(s)
    BY ReplayType
  <1>6. Pending' = Len(s)
    BY <1>1, <1>3, <1>4, <1>5 DEF Pending
  <1>7. ASSUME NEW j \in 1 .. Len(s) PROVE Flow'[j].dst # p
    <2>1. /\ j \in 1 .. Pending' /\ ~(j <= Len(queue')) /\ j - Len(queue') = j
      BY <1>1, <1>3, <1>5, <1>6
    <2>2. Flow'[j] = s[j]
      BY <1>4, <2>1 DEF Flow
    <2>3. PICK q \in Prefix : best[q] # NoGw /\ s[j] = Advert(q, best[q])
      BY <1>5 DEF Replay
    <2> QED BY <2>2, <2>3 DEF Advert
  <1>8. AllIn(Len(s), Flow', p, Withdrawals(p)) /\ Remembered(p)' = {}
    BY <1>1, <1>2, <1>7 DEF AllIn, Remembered
  <1> QED BY <1>6, <1>8 DEF Leaving, AllIn, Withdrawals

\* Every step preserves WithdrawnInv.
LEMMA WithdrawnStep ==
    ASSUME TypeOK, OwnInv, WithdrawnInv, [Next]_vars
    PROVE  WithdrawnInv'
  <1>1. ASSUME UNCHANGED <<queue, stream>> PROVE Pending' = Pending /\ Flow' = Flow
    BY <1>1 DEF Pending, Flow
  <1>2. ASSUME NEW f \in Fault, Spend(f) PROVE count'["cut"] = 0 => count["cut"] = 0 /\ f # "cut"
    BY <1>2, SpendType DEF TypeOK
  <1>3. ASSUME NEW p \in Prefix, Drift(p) PROVE WithdrawnInv'
    BY <1>1, <1>2, <1>3, WithdrawnSame DEF Drift, writer, daemon
  <1>4. CASE engine = "logging" /\ engine' = engine
    BY <1>4 DEF WithdrawnInv
  <1>5. ASSUME NEW r, PassReplace(r) \/ PassDel(r) PROVE WithdrawnInv'
    BY <1>1, <1>5, WithdrawnSame DEF PassReplace, PassDel, daemon
  <1>6. CASE engine = "gobgp" /\ PassDone
    BY <1>1, <1>6, WithdrawnSame DEF PassDone, Rest, daemon
  <1>7. CASE PassFail
    BY <1>1, <1>2, <1>7, WithdrawnSame DEF PassFail, Rest, daemon
  <1>8. ASSUME NEW p \in Prefix, NEW g \in MaybeGw, BestChange(p, g)
        PROVE  WithdrawnInv'
    BY <1>8, WithdrawnChange
  <1>9. CASE Forward
    BY <1>9, FlowForward, WithdrawnSame DEF Forward, writer
  <1>10. CASE Cut
    BY <1>2, <1>10 DEF Cut, WithdrawnInv
  <1>11. CASE Connect
    BY <1>11, WithdrawnConnect
  <1>12. ASSUME NEW ev, OnEvent(ev) PROVE WithdrawnInv'
    BY <1>12, WithdrawnEvent
  <1>13. CASE Sync
    BY <1>1, <1>13, WithdrawnSame DEF Sync, daemon
  <1>14. CASE UNCHANGED vars
    BY <1>1, <1>14, WithdrawnSame DEF vars, writer, daemon
  <1>15. CASE PassDone
    BY <1>4, <1>6, <1>15 DEF PassDone, TypeOK
  <1>16. ASSUME NEW n, NEW ip, NodeChange(n, ip) PROVE WithdrawnInv'
    BY <1>4, <1>16 DEF NodeChange
  <1>17. CASE Reconcile
    BY <1>4, <1>17 DEF Reconcile
  <1>18. ASSUME NEW e, NEW rej, Restart(e, rej) PROVE WithdrawnInv'
    <2>1. Pending' = 0 /\ mem' = {} /\ watching' = FALSE
      BY <1>18 DEF Restart, Rest, Pending
    <2> QED BY <2>1 DEF WithdrawnInv
  <1> QED
    BY <1>3, <1>5, <1>7, <1>8, <1>9, <1>10, <1>11, <1>12, <1>13, <1>14, <1>15,
       <1>16, <1>17, <1>18 DEF Next, PassStep, Recv

\* For any number of prefixes, next hops, failed commands and restarts: a
\* prefix that has lost its best path is out of the injector's map once nothing
\* is on its way, if the watch never broke and this node never advertised it.
THEOREM WithdrawnStays == Spec => []WithdrawnRemoved
  <1>1. Init => OwnInv /\ WithdrawnInv
    <2> SUFFICES ASSUME Init PROVE OwnInv /\ WithdrawnInv
      OBVIOUS
    <2>1. Pending = 0
      BY DEF Init, Pending
    <2> QED BY <2>1 DEF Init, OwnInv, WithdrawnInv
  <1>2. TypeOK /\ OwnInv /\ WithdrawnInv /\ [Next]_vars => OwnInv' /\ WithdrawnInv'
    BY OwnStep, WithdrawnStep
  <1>3. WithdrawnInv => WithdrawnRemoved
    <2> SUFFICES ASSUME WithdrawnInv, engine = "gobgp", Quiet, count["cut"] = 0,
                        NEW p \in Prefix \ Own, best[p] = NoGw
                 PROVE  Remembered(p) = {}
      BY DEF WithdrawnRemoved, Free
    <2>1. Leaving(p)
      BY DEF WithdrawnInv, Quiet
    <2>2. Pending = 0
      BY DEF Pending, Quiet
    <2> QED BY <2>1, <2>2 DEF Leaving, EndsWith
  <1> QED
    BY <1>1, <1>2, <1>3, TypeCorrect, PTL DEF Spec
---------------------------------------------------------------------------
(* The kernel has the routes of the running writer and no others *)

\* A pod CIDR belongs to one node, and the node keeps its address.
Stationary ==
    \A m, n \in Node \ {Local} : \A g \in Addresses[m], h \in Addresses[n] :
        PodCidrs[m] \cap PodCidrs[n] # {} => g = h

\* The routes PodNetController may ever want.
Home == {r \in Route : \E n \in Node \ {Local} : r.gateway \in Addresses[n] /\ r.dst \in PodCidrs[n]}

Calm == Free({"fail", "drift", "boot"})

HomeInv ==
    engine = "logging" =>
        /\ \A n \in Node \ {Local} : nodes[n] \in Addresses[n] \cup {NoGw}
        /\ mem \subseteq Home /\ want \subseteq Home /\ add \subseteq Home /\ del \subseteq Home

MemInv ==
    Calm =>
        /\ engine = "logging" /\ pc = "idle" => \A r \in Route : Installed(r) <=> r \in mem
        /\ engine = "logging" /\ pc = "pass" =>
               /\ add \subseteq want /\ del \cap want = {}
               /\ \A r \in Route : Installed(r) <=> r \in (want \ add) \cup del
        /\ engine = "gobgp" => \A r \in Route : Installed(r) => r \in mem

LEMMA OneHome ==
    ASSUME Stationary, NEW r \in Home, NEW s \in Home, r.dst = s.dst PROVE r = s
<1>1. PICK m \in Node \ {Local} : r.gateway \in Addresses[m] /\ r.dst \in PodCidrs[m]
  BY DEF Home
<1>2. PICK n \in Node \ {Local} : s.gateway \in Addresses[n] /\ s.dst \in PodCidrs[n]
  BY DEF Home
<1>3. r.gateway = s.gateway
  BY <1>1, <1>2 DEF Stationary
<1> QED BY <1>3 DEF Home, Route

LEMMA HomeStep == ASSUME TypeOK, HomeInv, [Next]_vars PROVE HomeInv'
<1> SUFFICES ASSUME engine' = "logging"
             PROVE  /\ \A n \in Node \ {Local} : nodes'[n] \in Addresses[n] \cup {NoGw}
                    /\ mem' \subseteq Home /\ want' \subseteq Home /\ add' \subseteq Home /\ del' \subseteq Home
  BY DEF HomeInv, Home
<1>1. CASE \E e \in Engine, rej \in SUBSET Rejectable : Restart(e, rej)
  BY <1>1 DEF Restart, Rest, Stores
<1>2. ASSUME engine = "logging", Reconcile PROVE HomeInv'
  <2>1. DesiredPodRoutes \subseteq Home
    <3> SUFFICES ASSUME NEW r \in DesiredPodRoutes PROVE r \in Home
      OBVIOUS
    <3>1. PICK n \in Node \ {Local} : nodes[n] = r.gateway /\ r.dst \in PodCidrs[n] /\ r \in Route
      BY DEF DesiredPodRoutes
    <3>2. r.gateway # NoGw
      BY <3>1, ConstantsAssumption DEF Route
    <3> QED BY <1>2, <3>1, <3>2 DEF HomeInv, Home
  <2> QED BY <1>2, <2>1 DEF Reconcile, HomeInv, Home, ToAdd, ToDel
<1>3. ASSUME engine = "logging", NEW n \in Node \ {Local}, NEW ip \in Addresses[n] \cup {NoGw}, NodeChange(n, ip) PROVE HomeInv'
  BY <1>3 DEF NodeChange, HomeInv, Home, TypeOK, writer
<1>4. ASSUME engine = "logging", PassStep \/ PassFail PROVE HomeInv'
  BY <1>4 DEF PassStep, PassReplace, PassDel, PassDone, PassFail, Rest, HomeInv, Home
<1>5. CASE UNCHANGED <<engine, nodes, writer>>
  BY <1>5 DEF HomeInv, Home, writer
<1>6. engine = "logging" \/ \E e \in Engine, rej \in SUBSET Rejectable : Restart(e, rej)
  <2>1. CASE engine' = engine
    BY <2>1
  <2>2. CASE \E e \in Engine, rej \in SUBSET Rejectable : Restart(e, rej)
    BY <2>2
  <2> QED BY <2>1, <2>2 DEF Next, Drift, NodeChange, Reconcile, PassStep, PassReplace, PassDel, PassDone, PassFail,
             BestChange, Forward, Cut, Connect, Recv, OnEvent, Receives, Sync, vars
<1>7. CASE \E p \in Prefix : Drift(p)
  BY <1>5, <1>7 DEF Drift
<1>8. CASE Recv \/ Sync
  BY <1>6, <1>8 DEF Recv, OnEvent, Receives, Sync, HomeInv, Restart
<1>9. CASE Forward \/ Cut \/ Connect \/ \E p \in Prefix, g \in MaybeGw : BestChange(p, g)
  BY <1>5, <1>9 DEF Forward, Cut, Connect, BestChange
<1>10. CASE UNCHANGED vars
  BY <1>5, <1>10 DEF vars
<1> QED BY <1>1, <1>2, <1>3, <1>4, <1>6, <1>7, <1>8, <1>9, <1>10 DEF Next, HomeInv, Home

\* No fault that matters here has happened, so the step is none either.
LEMMA CalmStays ==
    ASSUME TypeOK, [Next]_vars, Calm'
    PROVE  /\ Calm /\ ~PassFail /\ ~Spend("fail")
           /\ \A p \in Prefix : ~Drift(p)
           /\ \A e \in Engine, rej \in SUBSET Rejectable : ~Restart(e, rej)
<1> USE DEF Calm, Free
<1>1. count \in [Fault -> Nat] /\ \A f \in {"fail", "drift", "boot"} : count'[f] = 0
  BY DEF TypeOK
<1>2. ~Spend("fail") /\ ~Spend("drift") /\ ~Spend("boot")
  BY <1>1, SpendType
<1>3. count' = count \/ Spend("cut") => Calm
  BY <1>1, SpendType
<1>4. \/ count' = count \/ Spend("cut") \/ Spend("fail") \/ Spend("drift") \/ Spend("boot")
  BY DEF Next, Drift, NodeChange, Reconcile, PassStep, PassReplace, PassDel, PassDone, PassFail, BestChange, Forward,
         Cut, Connect, Recv, OnEvent, Uninstall, Install, Sync, Restart, vars
<1> QED BY <1>2, <1>3, <1>4 DEF PassFail, Drift, Restart

\* One command: what it leaves of the other routes.
LEMMA ReplaceOne ==
    ASSUME TypeOK, NEW r \in Route, kroute' = RouteReplace(kroute, r), NEW s \in Route
    PROVE  Installed(s)' <=> IF s.dst = r.dst THEN s = r ELSE Installed(s)
<1>1. s.dst \in Prefix /\ r.dst \in Prefix /\ kroute \in [Prefix -> MaybeGw]
  BY DEF TypeOK, Route
<1>2. kroute'[s.dst] = IF s.dst = r.dst THEN r.gateway ELSE kroute[s.dst]
  BY <1>1 DEF RouteReplace
<1>3. s.dst = r.dst /\ s.gateway = r.gateway <=> s = r
  BY DEF Route
<1> QED BY <1>2, <1>3 DEF Installed

LEMMA DelOne ==
    ASSUME TypeOK, NEW r, r.dst \in Prefix, kroute' = RouteDel(kroute, r), NEW s \in Route
    PROVE  Installed(s)' <=> s.dst # r.dst /\ Installed(s)
<1>1. s.dst \in Prefix /\ kroute \in [Prefix -> MaybeGw] /\ s.gateway # NoGw
  BY ConstantsAssumption DEF TypeOK, Route
<1>2. kroute'[s.dst] = IF s.dst = r.dst THEN NoGw ELSE kroute[s.dst]
  BY <1>1 DEF RouteDel
<1> QED BY <1>1, <1>2 DEF Installed

LEMMA MemStep ==
    ASSUME Stationary, TypeOK, HomeInv, MapInv, MemInv, [Next]_vars PROVE MemInv'
<1> SUFFICES ASSUME Calm' PROVE MemInv'
  BY DEF MemInv
<1>0. /\ Calm /\ ~PassFail /\ ~Spend("fail")
      /\ \A p \in Prefix : ~Drift(p)
      /\ \A e \in Engine, rej \in SUBSET Rejectable : ~Restart(e, rej)
  BY CalmStays
<1>1. mem \subseteq Route /\ add \subseteq Route /\ del \subseteq Route /\ engine \in Engine /\ pc \in {"idle", "pass"}
  BY DEF TypeOK
<1>2. UNCHANGED kroute => \A r \in Route : Installed(r)' = Installed(r)
  BY DEF Installed
<1>3. CASE UNCHANGED <<engine, kroute, writer>>
  BY <1>0, <1>2, <1>3 DEF MemInv, writer
<1>4. CASE Reconcile
  BY <1>0, <1>2, <1>4 DEF Reconcile, MemInv, ToAdd, ToDel
<1>5. ASSUME NEW r \in add, PassReplace(r) PROVE MemInv'
  <2>1. /\ pc = "pass" /\ kroute' = RouteReplace(kroute, r) /\ add' = add \ {r} /\ r \in Route
        /\ UNCHANGED <<engine, mem, pc, want, del>>
    BY <1>1, <1>5 DEF PassReplace
  <2>2. \A s \in Route : Installed(s)' <=> IF s.dst = r.dst THEN s = r ELSE Installed(s)
    BY <2>1, ReplaceOne
  <2>3. CASE engine = "gobgp"
    <3>1. r \in mem
      BY <2>3 DEF MapInv
    <3>2. \A s \in Route : Installed(s) => s \in mem
      BY <1>0, <2>3 DEF MemInv
    <3> QED BY <2>1, <2>2, <2>3, <3>1, <3>2 DEF MemInv
  <2>4. CASE engine = "logging"
    <3>1. /\ add \subseteq want /\ del \cap want = {}
          /\ \A s \in Route : Installed(s) <=> s \in (want \ add) \cup del
      BY <1>0, <2>1, <2>4 DEF MemInv
    <3>2. want \subseteq Home /\ del \subseteq Home
      BY <2>4 DEF HomeInv
    <3>3. ASSUME NEW s \in Route PROVE Installed(s)' <=> s \in (want \ add') \cup del
      <4>1. CASE s.dst = r.dst
        <5>1. s \in (want \ add') \cup del => s = r
          BY <3>1, <3>2, <4>1, OneHome
        <5> QED BY <2>1, <2>2, <3>1, <4>1, <5>1
      <4>2. CASE s.dst # r.dst
        BY <2>1, <2>2, <3>1, <4>2
      <4> QED BY <4>1, <4>2
    <3> QED BY <2>1, <2>4, <3>1, <3>3 DEF MemInv
  <2> QED BY <1>1, <2>3, <2>4 DEF Engine
<1>6. ASSUME NEW r \in del, PassDel(r) PROVE MemInv'
  <2>1. /\ pc = "pass" /\ add = {} /\ kroute' = RouteDel(kroute, r) /\ del' = del \ {r} /\ r \in Route
        /\ UNCHANGED <<engine, mem, pc, want, add>> /\ r.dst \in Prefix
    BY <1>1, <1>6 DEF PassDel, Route
  <2>2. engine = "logging"
    BY <1>1 DEF MapInv
  <2>3. \A s \in Route : Installed(s)' <=> s.dst # r.dst /\ Installed(s)
    BY <2>1, DelOne
  <2>4. /\ del \cap want = {} /\ \A s \in Route : Installed(s) <=> s \in want \cup del
    BY <1>0, <2>1, <2>2 DEF MemInv
  <2>5. want \subseteq Home /\ del \subseteq Home
    BY <2>2 DEF HomeInv
  <2>6. \A s \in want \cup del : s.dst = r.dst => s = r
    BY <2>5, OneHome
  <2>7. \A s \in Route : Installed(s)' <=> s \in want \cup del'
    BY <2>1, <2>3, <2>4, <2>6
  <2> QED BY <2>1, <2>2, <2>4, <2>7 DEF MemInv
<1>7. CASE PassDone
  BY <1>0, <1>2, <1>7 DEF PassDone, Rest, MemInv
<1>8. CASE Sync
  BY <1>0, <1>2, <1>8 DEF Sync, MemInv
<1>9. ASSUME NEW ev, OnEvent(ev) PROVE MemInv'
  <2>1. ev \in Event /\ engine = "gobgp" /\ engine' = engine
    BY <1>9 DEF OnEvent, Receives, TypeOK
  <2>2. ev.dst \in Prefix /\ [dst |-> ev.dst, gateway |-> ev.gateway] \in Route
    BY <2>1 DEF Event, Route
  <2>3. \A s \in Route : Installed(s) => s \in mem
    BY <1>0, <2>1 DEF MemInv
  <2>4. CASE UNCHANGED <<kroute, mem>>
    BY <1>2, <2>1, <2>3, <2>4 DEF MemInv
  <2>5. CASE Uninstall(ev)
    <3>1. /\ mem' = mem \ Remembered(ev.dst)
          /\ kroute' = IF Remembered(ev.dst) = {} THEN kroute ELSE RouteDel(kroute, ev)
      BY <1>0, <2>5 DEF Uninstall
    <3>2. CASE Remembered(ev.dst) = {}
      BY <1>2, <2>1, <2>3, <3>1, <3>2 DEF MemInv
    <3>3. CASE Remembered(ev.dst) # {}
      <4>1. \A s \in Route : Installed(s)' <=> s.dst # ev.dst /\ Installed(s)
        BY <2>2, <3>1, <3>3, DelOne
      <4> QED BY <2>1, <2>3, <3>1, <4>1 DEF MemInv, Remembered
    <3> QED BY <3>2, <3>3
  <2>6. CASE Install(ev)
    <3> DEFINE r == [dst |-> ev.dst, gateway |-> ev.gateway]
    <3>1. kroute' = RouteReplace(kroute, r) /\ mem' = (mem \ Remembered(ev.dst)) \cup {r} /\ r.dst = ev.dst
      BY <1>0, <2>6 DEF Install
    <3>2. r \in Route
      BY <2>2
    <3> HIDE DEF r
    <3>3. \A s \in Route : Installed(s)' <=> IF s.dst = r.dst THEN s = r ELSE Installed(s)
      BY <3>1, <3>2, ReplaceOne
    <3> QED BY <2>1, <2>3, <3>1, <3>3 DEF MemInv, Remembered
  <2> QED BY <1>9, <2>4, <2>5, <2>6 DEF OnEvent
<1>10. CASE \/ \E n \in Node \ {Local} : \E ip \in Addresses[n] \cup {NoGw} : NodeChange(n, ip)
            \/ \E p \in Prefix, g \in MaybeGw : BestChange(p, g)
            \/ Forward \/ Cut \/ Connect \/ UNCHANGED vars
  BY <1>3, <1>10 DEF NodeChange, BestChange, Forward, Cut, Connect, vars
<1> QED
  BY <1>0, <1>4, <1>5, <1>6, <1>7, <1>8, <1>9, <1>10 DEF Next, PassStep, Recv

\* While no command fails and nobody else writes routes, the kernel has between two
\* passes exactly the routes that the running writer remembers (podnet.rs:83-117,
\* inject.rs:60-136): for every number of nodes that keep their address and of
\* prefixes, with either engine, and however the watch breaks.
THEOREM MemoryIsKernel == ASSUME Stationary PROVE Spec => []KernelIsMemory
<1>1. Init => HomeInv /\ MapInv /\ MemInv
  <2> SUFFICES ASSUME Init PROVE HomeInv /\ MapInv /\ MemInv
    OBVIOUS
  <2>1. \A r \in Route : ~Installed(r)
    BY ConstantsAssumption DEF Init, Installed, Route
  <2> QED BY <2>1 DEF Init, HomeInv, MapInv, MemInv, Stores
<1>2. TypeOK /\ HomeInv /\ MapInv /\ MemInv /\ [Next]_vars => HomeInv' /\ MapInv' /\ MemInv'
  BY HomeStep, MapStep, MemStep
<1>3. TypeOK /\ MapInv /\ MemInv => KernelIsMemory
  <2> SUFFICES ASSUME TypeOK, MapInv, MemInv, pc = "idle", Calm, NEW p \in Prefix
               PROVE  {r.gateway : r \in Remembered(p)} = {kroute[p]} \ {NoGw}
    BY DEF KernelIsMemory, Calm
  <2>1. \A r \in Route : Installed(r) <=> r \in mem
    BY DEF MemInv, MapInv, Calm, Free, TypeOK
  <2>2. \A r \in Remembered(p) : r \in Route /\ r.gateway = kroute[p] /\ r.gateway # NoGw
    BY <2>1, ConstantsAssumption DEF Remembered, Installed, TypeOK, Route
  <2>3. ASSUME kroute[p] # NoGw PROVE \E r \in Remembered(p) : r.gateway = kroute[p]
    <3> DEFINE r == [dst |-> p, gateway |-> kroute[p]]
    <3>1. r \in Route /\ r.dst = p /\ r.gateway = kroute[p]
      BY <2>3 DEF TypeOK, Route
    <3> HIDE DEF r
    <3> QED BY <2>1, <3>1 DEF Remembered, Installed
  <2> QED BY <2>2, <2>3
<1> QED BY <1>1, <1>2, <1>3, TypeCorrect, PTL DEF Spec

---------------------------------------------------------------------------
(* The peers *)

BgTypeOK ==
    /\ bgCfg \in BgConfigs /\ bgStore \in DOMAIN BgWorlds
    /\ bgUp \in [BgNames -> {"down", "up", "idle"}]
    /\ DOMAIN bgLocal = BgNames /\ DOMAIN bgCurrent = BgNames /\ DOMAIN bgDaemon = BgNames
    /\ bgSeen \in [BgNames -> {0} \cup DOMAIN BgWorlds]
    /\ bgFailed \in [BgNames -> BOOLEAN]

\* What a controller remembers is what it derived from the store that it read.
DerivedInv ==
    \A n \in BgNames :
        /\ bgSeen[n] = 0 => bgCurrent[n] = {}
        /\ bgSeen[n] # 0 => bgUp[n] = "up"
        /\ bgSeen[n] # 0 => bgCurrent[n] = DeriveIbgpPeers(bgLocal[n], BgNodesAt[bgSeen[n]], bgCfg)

BgInv == BgTypeOK /\ DerivedInv /\ PeersInDaemon

---------------------------------------------------------------------------
(* The operators *)

OneByAddress(peers) == \A p, q \in peers : p.ip = q.ip => p = q
Ibgp(peers) == {p \in peers : ~p.external}

LEMMA NotZero == 0 \notin DOMAIN BgWorlds
BY BgLists DEF BgLists

\* derive_ibgp_peers gives iBGP peers, one for each address.
LEMMA Derived ==
    ASSUME NEW w \in DOMAIN BgWorlds, NEW local, NEW cfg
    PROVE  /\ OneByAddress(DeriveIbgpPeers(local, BgNodesAt[w], cfg))
           /\ Ibgp(DeriveIbgpPeers(local, BgNodesAt[w], cfg)) = DeriveIbgpPeers(local, BgNodesAt[w], cfg)
<1> DEFINE desired == DeriveIbgpPeers(local, BgNodesAt[w], cfg)
           client(o) == local.rrServer # NoNum /\ o.rrServer = NoNum
           peer(o) == Neighbor(o.ip, o.asn, client(o), IF client(o) THEN local.rrServer ELSE NoNum,
                               DefaultBgpPort, FALSE)
<1>1. \A p \in desired : \E o \in BgNodesAt[w] : p = peer(o)
  BY DEF DeriveIbgpPeers
<1>2. \A o : peer(o).ip = o.ip /\ ~peer(o).external
  BY DEF Neighbor
<1>3. OneByAddress(desired)
  <2> SUFFICES ASSUME NEW p \in desired, NEW q \in desired, p.ip = q.ip PROVE p = q
    BY DEF OneByAddress
  <2>1. PICK o \in BgNodesAt[w] : p = peer(o)
    BY <1>1
  <2>2. PICK r \in BgNodesAt[w] : q = peer(r)
    BY <1>1
  <2> HIDE DEF peer
  <2>3. o = r
    BY <2>1, <2>2, <1>2, BgDistinct DEF BgDistinct
  <2> QED BY <2>1, <2>2, <2>3
<1>4. Ibgp(desired) = desired
  <2> HIDE DEF peer, desired
  <2> QED BY <1>1, <1>2 DEF Ibgp
<1> QED BY <1>3, <1>4

\* Adding and removing the differences by address turns the current peers into
\* the desired ones, whatever external peers there are.
LEMMA DiffApplies ==
    ASSUME NEW current, NEW desired, NEW held,
           OneByAddress(current), OneByAddress(desired),
           Ibgp(desired) = desired, Ibgp(held) = current
    PROVE  Ibgp(DeletePeers(AddPeers(held, PeersToAdd(current, desired)),
                            PeersToRemove(current, desired))) = desired
<1> DEFINE missing == PeersToAdd(current, desired)
           remove == PeersToRemove(current, desired)
           after == DeletePeers(AddPeers(held, missing), remove)
<1>1. ASSUME NEW p \in Ibgp(after) PROVE p \in desired
  BY <1>1 DEF Ibgp, DeletePeers, AddPeers, PeersToAdd, PeersToRemove, OneByAddress
<1>2. ASSUME NEW p \in desired PROVE p \in Ibgp(after)
  BY <1>2 DEF Ibgp, DeletePeers, AddPeers, PeersToAdd, PeersToRemove, OneByAddress
<1> QED BY <1>1, <1>2

LEMMA ListOf == ASSUME NEW S, NEW n \in Nat, NEW f \in [1..n -> S] PROVE f \in Seq(S)
OBVIOUS

\* The peers of the flags and of the annotation are external.
LEMMA AllExternal ==
    ASSUME NEW cfg \in BgConfigs, NEW node, node.peers \in Seq(Range(node.peers)),
           NEW k \in 0..Len(ExternalPeers(cfg, node))
    PROVE  Ibgp(ApplyExternalPeers(ExternalPeers(cfg, node), k)) = {}
<1> DEFINE zip == ZipPeers(cfg.flags)
           ann == PeersAnnotation(node.peers)
           X == {p \in Range(zip) \cup Range(ann) : p.external}
<1>1. zip \in Seq(X)
  <2> DEFINE n == Len(cfg.flags.ips)
  <2>1. n \in Nat
    BY BgLists DEF BgLists
  <2>2. \/ zip = <<>>
        \/ DOMAIN zip = 1..n /\ zip = [i \in 1..n |-> zip[i]] /\ \A i \in 1..n : zip[i].external
    BY DEF ZipPeers, Neighbor
  <2>3. CASE zip = <<>>
    BY <2>3
  <2>4. CASE zip # <<>>
    <3>1. zip \in [1..n -> X]
      BY <2>2, <2>4 DEF Range
    <3> QED BY <2>1, <3>1, ListOf
  <2> QED BY <2>3, <2>4
<1>2. ann \in Seq(X)
  <2> DEFINE n == Len(node.peers)
  <2>1. n \in Nat /\ DOMAIN node.peers = 1..n
    OBVIOUS
  <2>2. \/ ann = <<>>
        \/ DOMAIN ann = 1..n /\ ann = [i \in 1..n |-> ann[i]] /\ \A i \in 1..n : ann[i].external
    BY <2>1 DEF PeersAnnotation, Neighbor
  <2>3. CASE ann = <<>>
    BY <2>3
  <2>4. CASE ann # <<>>
    <3>1. ann \in [1..n -> X]
      BY <2>2, <2>4 DEF Range
    <3> QED BY <2>1, <3>1, ListOf
  <2> QED BY <2>3, <2>4
<1>3. zip \o ann \in Seq(X)
  BY <1>1, <1>2
<1>4. \A i \in 1..Len(zip \o ann) : (zip \o ann)[i] \in X
  BY <1>3
<1> QED BY <1>4 DEF Ibgp, ApplyExternalPeers, ExternalPeers
---------------------------------------------------------------------------
(* The inductive invariant *)

LEMMA BgInitially == BgInit => BgInv
BY NotZero DEF BgInit, BgInv, BgTypeOK, DerivedInv, PeersInDaemon

LEMMA StoreChangeKeeps == BgInv /\ BgStoreChange => BgInv'
BY DEF BgInv, BgTypeOK, DerivedInv, PeersInDaemon, BgStoreChange, bgNode

LEMMA StartKeeps == ASSUME NEW n \in BgNames, BgInv, BgStart(n) PROVE BgInv'
<1> DEFINE store == BgWorlds[bgStore]
           local == LocalNode(store, n)
           node == FindNode(store, n)
           external == ExternalPeers(bgCfg, node)
<1>1. CASE local.ip = None
  BY <1>1 DEF BgInv, BgTypeOK, DerivedInv, PeersInDaemon, BgStart
<1>2. CASE local.ip # None
  <2>1. node \in Range(store)
    <3>1. NoNode.ip = None
      BY DEF NoNode
    <3>2. \E x \in Range(store) : x.name = n
      BY <1>2, <3>1 DEF LocalNode
    <3> QED BY <3>2 DEF FindNode
  <2>2. node.peers \in Seq(Range(node.peers))
    <3>1. store \in Range(BgWorlds)
      BY DEF BgInv, BgTypeOK, Range
    <3> HIDE DEF store, node
    <3> QED BY <2>1, <3>1, BgLists DEF BgLists
  <2>3. PICK k \in 0..Len(external) :
            /\ bgDaemon' = [bgDaemon EXCEPT ![n] = ApplyExternalPeers(external, k)]
            /\ bgFailed' = [bgFailed EXCEPT ![n] = k < Len(external)]
    BY <1>2 DEF BgStart
  <2>4. Ibgp(ApplyExternalPeers(external, k)) = {}
    BY <2>2, AllExternal DEF BgInv, BgTypeOK
  <2>5. /\ bgUp' = [bgUp EXCEPT ![n] = "up"] /\ bgLocal' = [bgLocal EXCEPT ![n] = local]
        /\ UNCHANGED <<bgCfg, bgStore, bgCurrent, bgSeen>>
        /\ bgUp[n] = "down"
    BY <1>2 DEF BgStart
  <2>6. (k < Len(external)) \in BOOLEAN
    OBVIOUS
  <2> HIDE DEF external, local
  <2>7. BgTypeOK'
    BY <2>3, <2>5, <2>6 DEF BgInv, BgTypeOK
  <2>8. bgSeen[n] = 0 /\ bgCurrent[n] = {}
    BY <2>5 DEF BgInv, BgTypeOK, DerivedInv
  <2>9. DerivedInv'
    BY <2>5, <2>8 DEF BgInv, BgTypeOK, DerivedInv
  <2>10. PeersInDaemon'
    BY <2>3, <2>4, <2>5, <2>8 DEF BgInv, BgTypeOK, PeersInDaemon, Ibgp
  <2> QED BY <2>7, <2>9, <2>10 DEF BgInv
<1> QED BY <1>1, <1>2

LEMMA ReconcileKeeps == ASSUME NEW n \in BgNames, BgInv, BgReconcile(n) PROVE BgInv'
<1> DEFINE desired == DeriveIbgpPeers(bgLocal[n], BgNodesAt[bgStore], bgCfg)
           current == bgCurrent[n]
           missing == PeersToAdd(current, desired)
           remove == PeersToRemove(current, desired)
<1>1. PICK added \in SUBSET missing, removed \in SUBSET remove :
          /\ IF added = missing /\ removed = remove THEN UNCHANGED <<bgFailed, bgFaults>>
             ELSE bgFailed' = [bgFailed EXCEPT ![n] = TRUE]
          /\ bgDaemon' = [bgDaemon EXCEPT ![n] = DeletePeers(AddPeers(@, added), removed)]
  BY DEF BgReconcile
<1>2. /\ bgUp[n] = "up" /\ bgCurrent' = [bgCurrent EXCEPT ![n] = desired]
      /\ bgSeen' = [bgSeen EXCEPT ![n] = bgStore] /\ UNCHANGED <<bgCfg, bgStore, bgUp, bgLocal>>
  BY DEF BgReconcile
<1>3. BgTypeOK'
  <2> HIDE DEF desired, missing, remove
  <2> QED BY <1>1, <1>2 DEF BgInv, BgTypeOK
<1>4. DerivedInv'
  BY <1>2, NotZero DEF BgInv, BgTypeOK, DerivedInv
<1>5. ~bgFailed'[n] => Ibgp(bgDaemon'[n]) = desired
  <2> SUFFICES ASSUME ~bgFailed'[n] PROVE Ibgp(bgDaemon'[n]) = desired
    OBVIOUS
  <2>1. added = missing /\ removed = remove /\ ~bgFailed[n]
    <3> HIDE DEF missing, remove
    <3> QED BY <1>1 DEF BgInv, BgTypeOK
  <2>2. Ibgp(bgDaemon[n]) = current
    BY <1>2, <2>1 DEF BgInv, PeersInDaemon, Ibgp
  <2>3. OneByAddress(desired) /\ Ibgp(desired) = desired
    BY Derived DEF BgInv, BgTypeOK
  <2>4. OneByAddress(current)
    <3>1. CASE bgSeen[n] = 0
      BY <3>1 DEF BgInv, DerivedInv, OneByAddress
    <3>2. CASE bgSeen[n] # 0
      BY <3>2, Derived DEF BgInv, BgTypeOK, DerivedInv
    <3> QED BY <3>1, <3>2
  <2>5. Ibgp(DeletePeers(AddPeers(bgDaemon[n], missing), remove)) = desired
    BY <2>2, <2>3, <2>4, DiffApplies
  <2>6. bgDaemon'[n] = DeletePeers(AddPeers(bgDaemon[n], missing), remove)
    BY <1>1, <2>1 DEF BgInv, BgTypeOK
  <2> QED BY <2>5, <2>6
<1>6. PeersInDaemon'
  <2> HIDE DEF desired, missing, remove
  <2> QED BY <1>1, <1>2, <1>5 DEF BgInv, BgTypeOK, PeersInDaemon, Ibgp
<1> QED BY <1>3, <1>4, <1>6 DEF BgInv

LEMMA RestartKeeps == ASSUME NEW n \in BgNames, BgInv, BgRestart(n) PROVE BgInv'
BY DEF BgInv, BgTypeOK, DerivedInv, PeersInDaemon, BgRestart

LEMMA BgInvariance == BgSpec => []BgInv
<1>1. BgInv /\ [BgNext]_bgVars => BgInv'
  <2> SUFFICES ASSUME BgInv, [BgNext]_bgVars PROVE BgInv'
    OBVIOUS
  <2>1. CASE BgNext
    BY <2>1, StoreChangeKeeps, StartKeeps, ReconcileKeeps, RestartKeeps DEF BgNext
  <2>2. CASE UNCHANGED bgVars
    BY <2>2 DEF bgVars, bgNode, BgInv, BgTypeOK, DerivedInv, PeersInDaemon
  <2> QED BY <2>1, <2>2
<1> QED BY BgInitially, <1>1, PTL DEF BgSpec

\* current_peers, which is never compared with gobgpd, equals its iBGP neighbours
\* as long as no call has failed (controller.rs:111-137).
THEOREM PeersTracked == BgSpec => []PeersInDaemon
<1>1. BgInv => PeersInDaemon
  BY DEF BgInv
<1> QED BY BgInvariance, <1>1, PTL

---------------------------------------------------------------------------
(* Every node learns every other node's prefixes *)

\* The peers that a settled node derives are neighbours of its gobgpd.
LEMMA SettledHas ==
    ASSUME BgInv, BgSettled, NEW o \in BgNodesAt[bgStore],
           NEW x \in DeriveIbgpPeers(o, BgNodesAt[bgStore], bgCfg)
    PROVE  x \in bgDaemon[o.name]
<1>1. o.name \in BgNames
  BY DEF BgInv, BgTypeOK, BgNodesAt, BgNodes, NodeToBgp, BgNames, Range
<1>2. /\ bgUp[o.name] = "up" /\ ~bgFailed[o.name]
      /\ bgLocal[o.name] = o /\ bgSeen[o.name] = bgStore
  BY DEF BgSettled
<1>3. bgCurrent[o.name] = DeriveIbgpPeers(o, BgNodesAt[bgStore], bgCfg)
  BY <1>1, <1>2, NotZero DEF BgInv, BgTypeOK, DerivedInv
<1> QED BY <1>1, <1>2, <1>3 DEF BgInv, PeersInDaemon

\* Which nodes a settled node peers with, and for whom it reflects.
LEMMA SettledPeers ==
    ASSUME BgInv, BgSettled, NEW o \in BgNodesAt[bgStore], NEW p \in BgNodesAt[bgStore],
           o # p, o.rrServer # NoNum \/ p.rrServer # NoNum \/ o.rrClient = NoNum
    PROVE  /\ PeerOf(o.name, p.name) # {}
           /\ o.rrServer # NoNum /\ p.rrServer = NoNum => ReflectsFor(o.name, p.name)
<1> DEFINE client == o.rrServer # NoNum /\ p.rrServer = NoNum
           x == Neighbor(p.ip, p.asn, client, IF client THEN o.rrServer ELSE NoNum, DefaultBgpPort, FALSE)
<1>1. /\ bgCfg.ibgp /\ o.asn = BgClusterAsn /\ p.asn = BgClusterAsn
      /\ bgLocal[o.name] = o /\ bgLocal[p.name] = p
  BY DEF BgSettled
<1>2. p.name # o.name
  BY <1>1
<1>3. x \in DeriveIbgpPeers(o, BgNodesAt[bgStore], bgCfg)
  BY <1>1, <1>2 DEF DeriveIbgpPeers
<1>4. x \in bgDaemon[o.name]
  BY <1>3, SettledHas
<1>5. x.ip = p.ip /\ x.asn = p.asn /\ x.rrClient = client
  BY DEF Neighbor
<1>6. x \in PeerOf(o.name, p.name)
  <2> HIDE DEF x
  <2> QED BY <1>1, <1>4, <1>5 DEF PeerOf
<1> QED BY <1>5, <1>6 DEF ReflectsFor

\* Two nodes of which one reflects, or neither is a client, have a session.
LEMMA SettledSession ==
    ASSUME BgInv, BgSettled, NEW o \in BgNodesAt[bgStore], NEW p \in BgNodesAt[bgStore], o # p,
           \/ o.rrServer # NoNum \/ p.rrServer # NoNum
           \/ o.rrClient = NoNum /\ p.rrClient = NoNum
    PROVE  Session(o.name, p.name) /\ p.name \in BgNames /\ bgUp[p.name] = "up"
<1>1. bgLocal[o.name] = o /\ bgLocal[p.name] = p /\ bgUp[p.name] = "up"
  BY DEF BgSettled
<1>2. p.name \in BgNames
  BY DEF BgInv, BgTypeOK, BgNodesAt, BgNodes, NodeToBgp, BgNames, Range
<1> QED BY <1>1, <1>2, SettledPeers DEF Session

LEMMA SettledLearn ==
    ASSUME BgInv, BgSettled, NEW o \in BgNodesAt[bgStore], NEW p \in BgNodesAt[bgStore], o # p
    PROVE  p.name \in Learn(o.name)
<1>1. CASE o.rrServer # NoNum \/ p.rrServer # NoNum \/ (o.rrClient = NoNum /\ p.rrClient = NoNum)
  BY <1>1, SettledSession DEF Learn
<1>2. CASE o.rrServer = NoNum /\ p.rrServer = NoNum /\ (o.rrClient # NoNum \/ p.rrClient # NoNum)
  <2>1. PICK s \in BgNodesAt[bgStore] : s.rrServer # NoNum
    BY <1>2 DEF BgSettled
  <2>2. s # o /\ s # p
    BY <1>2, <2>1
  <2>3. Session(o.name, s.name) /\ s.name \in BgNames /\ bgUp[s.name] = "up"
    BY <2>1, <2>2, SettledSession
  <2>4. Session(s.name, p.name) /\ p.name \in BgNames /\ bgUp[p.name] = "up"
    BY <2>1, <2>2, SettledSession
  <2>5. ReflectsFor(s.name, o.name)
    BY <1>2, <2>1, <2>2, SettledPeers
  <2> QED BY <2>3, <2>4, <2>5 DEF Learn
<1> QED BY <1>1, <1>2

\* The peer rules of peers.rs:42-94 connect the cluster: each node's prefixes reach
\* every other settled node, by a session or by one reflector.
THEOREM ClusterLearns == BgSpec => []AllNodesLearn
<1>1. BgInv => AllNodesLearn
  BY SettledLearn DEF AllNodesLearn
<1> QED BY BgInvariance, <1>1, PTL
=============================================================================
