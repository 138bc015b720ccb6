---------------------------- MODULE Agent_proofs ----------------------------
(***************************************************************************)
(* Theorems about Agent, for all configurations, periods and lengths of a   *)
(* pass.                                                                    *)
(*                                                                         *)
(* LiveIsHealthy compares the age of a heartbeat with the window of         *)
(* /healthz.  Paced bounds that age by the clock of the loop itself: while  *)
(* it is idle, the age and the time to the next tick fit in one interval,   *)
(* a pass adds no more than its own length, and an election call no more    *)
(* than the time for which it has kept a due tick waiting.                  *)
(***************************************************************************)
EXTENDS Agent, TLAPS

Tasks == [at : {"off", "starting", "failed", "hung", "running", "ended"}, spent : Nat]
LoopStates == [at : {"none", "idle", "pass", "elect", "hung", "left"}, due : Int, spent : Nat, waited : Nat]
Beats == [period : Nat, age : Nat, ttl : Nat \cup {-1}]

AgTypeOK ==
    /\ agCfg \in AgConfigs
    /\ agPhase \in {"boot", "up", "stopping", "ended"}
    /\ agTask \in [Controllers -> Tasks]
    /\ agLoop \in [Loops -> LoopStates]
    /\ agBeat \in [DOMAIN agBeat -> Beats]
    /\ agDaemon \in {"absent", "up", "told", "killed", "orphan"}

\* A loop that has not begun has not beaten.
Unstarted(c) ==
    agTask[Owner(c)].at \in {"off", "starting"} =>
        agLoop[c].at = "none" /\ (c \in DOMAIN agBeat => agBeat[c].ttl = -1)

Beaten(c) == c \in DOMAIN agBeat /\ agBeat[c].ttl # -1

Working == {"idle", "pass", "elect"}

Paced(c) ==
    /\ agLoop[c].at \in Working => agLoop[c].due <= TickPeriod(c)
    /\ agLoop[c].at \in Working /\ c # "LoadBalancer" => agLoop[c].waited = 0 /\ agLoop[c].at # "elect"
    /\ Beaten(c) /\ agLoop[c].at \in {"idle", "elect"} =>
           /\ agBeat[c].age <= TickPeriod(c) + agLoop[c].waited
           /\ agBeat[c].age + agLoop[c].due <= TickPeriod(c)
    /\ Beaten(c) /\ agLoop[c].at = "pass" =>
           agBeat[c].age <= TickPeriod(c) + agLoop[c].waited + agLoop[c].spent

AgInv ==
    /\ AgTypeOK
    /\ agPhase = "boot" => \A ctl \in Controllers : agTask[ctl].at = "off"
    /\ \A c \in Loops : Unstarted(c) /\ Paced(c)

---------------------------------------------------------------------------
LEMMA Owners == \A ctl \in Controllers : \A c \in LoopsOf(ctl) : c \in Loops /\ Owner(c) = ctl
<1> USE DEF Controllers, LoopsOf, Router, Firewall, Proxy, LoadBalancer
<1>1. \A ctl \in Controllers : \A c \in LoopsOf(ctl) : c \in Loops
  BY DEF Loops
<1>2. ASSUME NEW a \in Controllers, NEW b \in Controllers, NEW c \in LoopsOf(a), c \in LoopsOf(b)
      PROVE  a = b
  BY <1>2
<1> QED BY <1>1, <1>2 DEF Owner

LEMMA OwnerOf == \A c \in Loops : Owner(c) \in Controllers /\ c \in LoopsOf(Owner(c))
<1> SUFFICES ASSUME NEW c \in Loops PROVE Owner(c) \in Controllers /\ c \in LoopsOf(Owner(c))
  OBVIOUS
<1>1. PICK ctl \in Controllers : c \in LoopsOf(ctl)
  BY DEF Loops
<1> QED BY <1>1, Owners

LEMMA RouterOwns == "RouteSync" \in LoopsOf(Router) /\ Router \in Controllers
BY DEF LoopsOf, Controllers, Router, Firewall, Proxy, LoadBalancer

LEMMA TickNat == AgTypeOK => \A c \in Loops : TickPeriod(c) \in Nat
BY OwnerOf, AgDurations DEF AgDurations, AgTypeOK, TickPeriod

\* A step that leaves a loop and its heartbeat alone leaves what is said of them.
LEMMA LoopUntouched ==
    ASSUME NEW c \in Loops, Unstarted(c), Paced(c),
           agLoop'[c] = agLoop[c], agBeat' = agBeat, TickPeriod(c)' = TickPeriod(c),
           agTask'[Owner(c)].at \in {"off", "starting"} => agTask[Owner(c)].at \in {"off", "starting"}
    PROVE  Unstarted(c)' /\ Paced(c)'
BY DEF Unstarted, Paced, Working, Beaten

---------------------------------------------------------------------------
LEMMA AgInitially == AgInit => AgInv
BY OwnerOf DEF AgInit, AgInv, AgTypeOK, NoLoop, Unstarted, Paced, Working, Beaten, Tasks, LoopStates, Beats

LEMMA BootKeeps == ASSUME AgInv, AgBoot PROVE AgInv'
<1>1. UNCHANGED <<agCfg, agLoop, agDaemon>> /\ agPhase = "boot"
  BY DEF AgBoot
<1>2. \A c \in Loops : agLoop[c].at = "none"
  BY <1>1, OwnerOf DEF AgInv, Unstarted
<1>3. CASE UNCHANGED <<agTask, agBeat>> /\ agPhase' = "ended"
  BY <1>1, <1>3 DEF AgInv, AgTypeOK, Unstarted, Paced, Working, Beaten, TickPeriod
<1>4. CASE agPhase' = "up"
  <2> DEFINE C == {r.loop : r \in ComponentsFor(agCfg)}
             P(c) == (CHOOSE r \in ComponentsFor(agCfg) : r.loop = c).period
  <2>1. /\ Valid(agCfg)
        /\ agBeat' = [c \in C |-> [period |-> P(c), age |-> 0, ttl |-> -1]]
        /\ agTask' = [ctl \in Controllers |->
              [at |-> IF ctl \in agCfg.run THEN "starting" ELSE "off", spent |-> 0]]
    BY <1>4 DEF AgBoot
  <2>2. \A c \in C : P(c) \in Nat
    <3>1. \A r \in ComponentsFor(agCfg) : r.period \in Nat
      BY <2>1, AgDurations DEF AgDurations, ComponentsFor, Valid, AgInv, AgTypeOK
    <3> QED BY <3>1
  <2> HIDE DEF C, P
  <2>3. AgTypeOK'
    BY <1>1, <1>4, <2>1, <2>2 DEF AgInv, AgTypeOK, Tasks, LoopStates, Beats
  <2>4. \A c \in Loops : Unstarted(c)' /\ Paced(c)'
    BY <1>1, <1>2, <2>1 DEF Unstarted, Paced, Working, Beaten
  <2> QED BY <1>4, <2>3, <2>4 DEF AgInv
<1> QED BY <1>3, <1>4 DEF AgBoot

LEMMA StartFailsKeeps == ASSUME NEW ctl \in Controllers, AgInv, AgStartFails(ctl) PROVE AgInv'
<1>1. /\ agTask' = [agTask EXCEPT ![ctl] = [at |-> "failed", spent |-> 0]]
      /\ agTask[ctl].at = "starting"
      /\ UNCHANGED <<agCfg, agPhase, agLoop, agBeat, agDaemon>>
  BY DEF AgStartFails
<1>2. AgTypeOK'
  BY <1>1 DEF AgInv, AgTypeOK, Tasks, LoopStates, Beats
<1>3. ASSUME NEW c \in Loops PROVE Unstarted(c)' /\ Paced(c)'
  BY <1>1, LoopUntouched, OwnerOf DEF AgInv, AgTypeOK, TickPeriod
<1> QED BY <1>1, <1>2, <1>3 DEF AgInv, AgTypeOK

\* A start that hangs leaves loops that never began.
LEMMA StartHangsKeeps == ASSUME NEW ctl \in Controllers, AgInv, AgStartHangs(ctl) PROVE AgInv'
<1>1. /\ agTask[ctl].at = "starting" /\ agDaemon' \in BuildEngine(ctl)
      /\ agTask' = [agTask EXCEPT ![ctl] = [at |-> "hung", spent |-> 0]]
      /\ UNCHANGED <<agCfg, agPhase, agLoop, agBeat>>
  BY DEF AgStartHangs
<1>2. AgTypeOK'
  <2>1. agDaemon' \in {"absent", "up", "told", "killed", "orphan"}
    BY <1>1 DEF BuildEngine, AgInv, AgTypeOK
  <2> QED BY <1>1, <2>1 DEF AgInv, AgTypeOK, Tasks, LoopStates, Beats
<1>3. ASSUME NEW c \in Loops PROVE Unstarted(c)' /\ Paced(c)'
  <2>1. CASE c \in LoopsOf(ctl)
    <3>1. Owner(c) = ctl /\ agTask'[ctl].at = "hung"
      BY <1>1, <2>1, Owners DEF AgInv, AgTypeOK
    <3>2. agLoop[c].at = "none"
      BY <1>1, <3>1 DEF AgInv, Unstarted
    <3> QED BY <1>1, <3>1, <3>2 DEF Unstarted, Paced, Working
  <2>2. CASE c \notin LoopsOf(ctl)
    <3>1. TickPeriod(c)' = TickPeriod(c)
      <4>1. CASE ctl = Router
        BY <1>1, <2>2, <4>1, RouterOwns DEF TickPeriod
      <4>2. CASE ctl # Router
        BY <1>1, <4>2 DEF TickPeriod, BuildEngine
      <4> QED BY <4>1, <4>2
    <3>2. agTask'[Owner(c)] = agTask[Owner(c)]
      BY <1>1, <2>2, OwnerOf DEF AgInv, AgTypeOK
    <3> QED BY <1>1, <3>1, <3>2, LoopUntouched DEF AgInv
  <2> QED BY <2>1, <2>2
<1> QED BY <1>1, <1>2, <1>3 DEF AgInv

LEMMA StartedKeeps == ASSUME NEW ctl \in Controllers, AgInv, AgStarted(ctl) PROVE AgInv'
<1> DEFINE begins(c) == c \in LoopsOf(ctl) /\ (c = "NetworkRoutes" => agCfg.nodeKnown)
<1>1. /\ agTask[ctl].at = "starting" /\ agDaemon' \in BuildEngine(ctl)
      /\ agTask' = [agTask EXCEPT ![ctl] = [at |-> "running", spent |-> 0]]
      /\ agLoop' = [c \in Loops |-> IF begins(c) THEN [NoLoop EXCEPT !.at = "idle"] ELSE agLoop[c]]
      /\ UNCHANGED <<agCfg, agPhase, agBeat>>
  BY DEF AgStarted
<1>2. [NoLoop EXCEPT !.at = "idle"] = [at |-> "idle", due |-> 0, spent |-> 0, waited |-> 0]
  BY DEF NoLoop
<1>3. AgTypeOK'
  <2>1. agDaemon' \in {"absent", "up", "told", "killed", "orphan"}
    BY <1>1 DEF BuildEngine, AgInv, AgTypeOK
  <2>2. agLoop' \in [Loops -> LoopStates]
    BY <1>1, <1>2 DEF AgInv, AgTypeOK, Tasks, LoopStates, Beats
  <2> QED BY <1>1, <2>1, <2>2 DEF AgInv, AgTypeOK, Tasks, LoopStates, Beats
<1>4. agPhase' # "boot"
  BY <1>1 DEF AgInv
<1>5. ASSUME NEW c \in Loops PROVE Unstarted(c)' /\ Paced(c)'
  <2>1. CASE c \in LoopsOf(ctl)
    <3>1. Owner(c) = ctl /\ agTask'[ctl].at = "running"
      BY <1>1, <2>1, Owners DEF AgInv, AgTypeOK
    <3>2. agLoop[c].at = "none" /\ (c \in DOMAIN agBeat => agBeat[c].ttl = -1)
      BY <1>1, <3>1 DEF AgInv, Unstarted
    <3>3. agLoop'[c].at = "none" \/ (agLoop'[c].at = "idle" /\ agLoop'[c].due = 0 /\ agLoop'[c].waited = 0)
      BY <1>1, <1>2, <3>2
    <3>4. TickPeriod(c)' \in Nat
      BY <1>3, OwnerOf, AgDurations DEF AgDurations, AgTypeOK, TickPeriod
    <3> QED BY <1>1, <3>1, <3>2, <3>3, <3>4 DEF Unstarted, Paced, Working, Beaten
  <2>2. CASE c \notin LoopsOf(ctl)
    <3>1. agLoop'[c] = agLoop[c]
      BY <1>1, <2>2
    <3>2. TickPeriod(c)' = TickPeriod(c)
      <4>1. CASE ctl = Router
        BY <1>1, <2>2, <4>1, RouterOwns DEF TickPeriod
      <4>2. CASE ctl # Router
        BY <1>1, <4>2 DEF TickPeriod, BuildEngine
      <4> QED BY <4>1, <4>2
    <3>3. agTask'[Owner(c)] = agTask[Owner(c)]
      BY <1>1, <2>2, OwnerOf DEF AgInv, AgTypeOK
    <3> QED BY <1>1, <3>1, <3>2, <3>3, LoopUntouched DEF AgInv
  <2> QED BY <2>1, <2>2
<1> QED BY <1>3, <1>4, <1>5 DEF AgInv

LEMMA TickKeeps == ASSUME NEW c \in Loops, AgInv, AgTick(c) PROVE AgInv'
<1> DEFINE new == [at |-> "pass", due |-> agLoop[c].due + TickPeriod(c), spent |-> 0, waited |-> agLoop[c].waited]
<1>1. /\ agLoop[c].at = "idle" /\ agLoop[c].due <= 0
      /\ agLoop' = [agLoop EXCEPT ![c] = new]
      /\ UNCHANGED <<agCfg, agPhase, agTask, agBeat, agDaemon>>
  BY DEF AgTick
<1>2. TickPeriod(c) \in Nat /\ agLoop[c].due \in Int
  BY TickNat DEF AgInv, AgTypeOK, Tasks, LoopStates, Beats
<1>2a. /\ new \in LoopStates
       /\ new.at = "pass" /\ new.due = agLoop[c].due + TickPeriod(c) /\ new.spent = 0
       /\ new.waited = agLoop[c].waited /\ new.waited \in Nat
  <2>1. agLoop[c] \in LoopStates
    BY DEF AgInv, AgTypeOK
  <2>2. agLoop[c].due + TickPeriod(c) \in Int /\ agLoop[c].waited \in Nat
    BY <1>2, <2>1 DEF LoopStates
  <2> QED BY <2>2 DEF LoopStates
<1> HIDE DEF new
<1>3. AgTypeOK'
  BY <1>1, <1>2a DEF AgInv, AgTypeOK
<1>4. ASSUME NEW d \in Loops PROVE Unstarted(d)' /\ Paced(d)'
  <2>0. TickPeriod(d)' = TickPeriod(d)
    BY <1>1 DEF TickPeriod
  <2>1. CASE d = c
    <3>1. agLoop'[c] = new
      BY <1>1 DEF AgInv, AgTypeOK
    <3> QED BY <1>1, <1>2, <1>2a, <2>0, <2>1, <3>1 DEF AgInv, AgTypeOK, Unstarted, Paced, Working, Beaten
  <2>2. CASE d # c
    <3>1. agLoop'[d] = agLoop[d]
      BY <1>1, <2>2 DEF AgInv, AgTypeOK
    <3> QED BY <1>1, <2>0, <3>1, LoopUntouched DEF AgInv
  <2> QED BY <2>1, <2>2
<1> QED BY <1>1, <1>3, <1>4 DEF AgInv

LEMMA EventKeeps == ASSUME NEW c \in Loops, AgInv, AgEvent(c) PROVE AgInv'
<1> DEFINE new == [agLoop[c] EXCEPT !.at = "pass", !.spent = 0]
<1>1. /\ agLoop[c].at = "idle"
      /\ agLoop' = [agLoop EXCEPT ![c] = new]
      /\ UNCHANGED <<agCfg, agPhase, agTask, agBeat, agDaemon>>
  BY DEF AgEvent
<1>2. TickPeriod(c) \in Nat /\ agLoop[c].due \in Int
  BY TickNat DEF AgInv, AgTypeOK, Tasks, LoopStates, Beats
<1>3. /\ new \in LoopStates
      /\ new.at = "pass" /\ new.due = agLoop[c].due /\ new.spent = 0
      /\ new.waited = agLoop[c].waited /\ new.waited \in Nat
  BY DEF AgInv, AgTypeOK, Tasks, LoopStates, Beats
<1> HIDE DEF new
<1>4. AgTypeOK'
  BY <1>1, <1>3 DEF AgInv, AgTypeOK
<1>5. ASSUME NEW d \in Loops PROVE Unstarted(d)' /\ Paced(d)'
  <2>0. TickPeriod(d)' = TickPeriod(d)
    BY <1>1 DEF TickPeriod
  <2>1. CASE d = c
    <3>1. agLoop'[c] = new
      BY <1>1 DEF AgInv, AgTypeOK
    <3> QED BY <1>1, <1>2, <1>3, <2>0, <2>1, <3>1 DEF AgInv, AgTypeOK, Unstarted, Paced, Working, Beaten
  <2>2. CASE d # c
    <3>1. agLoop'[d] = agLoop[d]
      BY <1>1, <2>2 DEF AgInv, AgTypeOK
    <3> QED BY <1>1, <2>0, <3>1, LoopUntouched DEF AgInv
  <2> QED BY <2>1, <2>2
<1> QED BY <1>1, <1>4, <1>5 DEF AgInv

\* The calls of the election, with the LoadBalancer's tick due or not.
LEMMA ElectKeeps == ASSUME NEW c \in Loops, AgInv, AgElect(c) \/ AgElectEnds(c) PROVE AgInv'
<1>1. PICK at \in {"idle", "elect"} :
         /\ agLoop' = [agLoop EXCEPT ![c] = [agLoop[c] EXCEPT !.at = at, !.spent = 0]]
         /\ agLoop[c].at \in {"idle", "elect"} /\ (c # "LoadBalancer" => agLoop[c].at = "elect")
  BY DEF AgElect, AgElectEnds
<1> DEFINE new == [agLoop[c] EXCEPT !.at = at, !.spent = 0]
<1>2. UNCHANGED <<agCfg, agPhase, agTask, agBeat, agDaemon>>
  BY DEF AgElect, AgElectEnds
<1>3. /\ new \in LoopStates
      /\ new.at = at /\ new.due = agLoop[c].due /\ new.waited = agLoop[c].waited
  BY DEF AgInv, AgTypeOK, LoopStates
<1>4. agLoop' = [agLoop EXCEPT ![c] = new]
  BY <1>1
<1> HIDE DEF new
<1>5. AgTypeOK'
  BY <1>2, <1>3, <1>4 DEF AgInv, AgTypeOK
<1>6. ASSUME NEW d \in Loops PROVE Unstarted(d)' /\ Paced(d)'
  <2>0. TickPeriod(d)' = TickPeriod(d)
    BY <1>2 DEF TickPeriod
  <2>1. CASE d = c
    <3>1. agLoop'[c] = new
      BY <1>4 DEF AgInv, AgTypeOK
    <3> QED BY <1>1, <1>2, <1>3, <2>0, <2>1, <3>1 DEF AgInv, Unstarted, Paced, Working, Beaten
  <2>2. CASE d # c
    <3>1. agLoop'[d] = agLoop[d]
      BY <1>4, <2>2 DEF AgInv, AgTypeOK
    <3> QED BY <1>2, <2>0, <3>1, LoopUntouched DEF AgInv
  <2> QED BY <2>1, <2>2
<1> QED BY <1>2, <1>5, <1>6 DEF AgInv

\* The first beat fixes the TTL, every beat starts a new age.
LEMMA Beat ==
    ASSUME AgTypeOK, NEW c, Heartbeat(c)
    PROVE  /\ agBeat' \in [DOMAIN agBeat -> Beats]
           /\ DOMAIN agBeat' = DOMAIN agBeat
           /\ c \in DOMAIN agBeat => agBeat'[c].age = 0 /\ agBeat'[c].ttl # -1
           /\ \A d \in DOMAIN agBeat : d # c => agBeat'[d] = agBeat[d]
<1>1. CASE c \notin DOMAIN agBeat
  BY <1>1 DEF Heartbeat, AgTypeOK
<1>2. CASE c \in DOMAIN agBeat
  <2> DEFINE new == [period |-> agBeat[c].period, age |-> 0,
                     ttl |-> IF agBeat[c].ttl = -1 THEN agBeat[c].age ELSE agBeat[c].ttl]
  <2>1. agBeat' = [agBeat EXCEPT ![c] = new]
    BY <1>2 DEF Heartbeat, AgTypeOK
  <2>2. new \in Beats /\ new.age = 0 /\ new.ttl # -1
    <3>1. agBeat[c] \in Beats
      BY <1>2 DEF AgTypeOK
    <3> QED BY <3>1 DEF Beats
  <2> HIDE DEF new
  <2> QED BY <1>2, <2>1, <2>2 DEF AgTypeOK
<1> QED BY <1>1, <1>2

LEMMA PassEndsKeeps == ASSUME NEW c \in Loops, AgInv, AgPassEnds(c) PROVE AgInv'
<1> DEFINE new == [agLoop[c] EXCEPT !.at = "idle", !.spent = 0, !.waited = 0]
<1>1. /\ agLoop[c].at = "pass" /\ Heartbeat(c)
      /\ agLoop' = [agLoop EXCEPT ![c] = new]
      /\ UNCHANGED <<agCfg, agPhase, agTask, agDaemon>>
  BY DEF AgPassEnds
<1>2. TickPeriod(c) \in Nat /\ agLoop[c].due \in Int
  BY TickNat DEF AgInv, AgTypeOK, Tasks, LoopStates, Beats
<1>3. /\ new \in LoopStates
      /\ new.at = "idle" /\ new.due = agLoop[c].due /\ new.spent = 0 /\ new.waited = 0
  BY DEF AgInv, AgTypeOK, Tasks, LoopStates, Beats
<1>4. /\ agBeat' \in [DOMAIN agBeat -> Beats]
      /\ DOMAIN agBeat' = DOMAIN agBeat
      /\ c \in DOMAIN agBeat => agBeat'[c].age = 0 /\ agBeat'[c].ttl # -1
      /\ \A d \in DOMAIN agBeat : d # c => agBeat'[d] = agBeat[d]
  BY <1>1, Beat DEF AgInv
<1> HIDE DEF new
<1>5. AgTypeOK'
  BY <1>1, <1>3, <1>4 DEF AgInv, AgTypeOK
<1>6. ASSUME NEW d \in Loops PROVE Unstarted(d)' /\ Paced(d)'
  <2>0. TickPeriod(d)' = TickPeriod(d)
    BY <1>1 DEF TickPeriod
  <2>1. CASE d = c
    <3>1. agLoop'[c] = new
      BY <1>1 DEF AgInv, AgTypeOK
    <3>2. Unstarted(c)'
      BY <1>1 DEF AgInv, Unstarted
    <3>3. agLoop[c].due <= TickPeriod(c)
      BY <1>1 DEF AgInv, Paced, Working
    <3>4. Paced(c)'
      BY <1>2, <1>3, <1>4, <2>0, <2>1, <3>1, <3>3 DEF Paced, Working, Beaten
    <3> QED BY <2>1, <3>2, <3>4
  <2>2. CASE d # c
    <3>1. agLoop'[d] = agLoop[d]
      BY <1>1, <2>2 DEF AgInv, AgTypeOK
    <3> QED BY <1>1, <1>4, <2>0, <2>2, <3>1 DEF AgInv, Unstarted, Paced, Working, Beaten
  <2> QED BY <2>1, <2>2
<1> QED BY <1>1, <1>5, <1>6 DEF AgInv

\* Loops that end, hang or leave, and steps of tasks and of gobgpd.
LEMMA LoopEnds ==
    ASSUME AgInv, NEW c \in Loops, NEW where \in {"hung", "left"},
           agLoop[c].at # "none" \/ agTask'[Owner(c)].at \notin {"off", "starting"},
           agLoop' = [agLoop EXCEPT ![c] = [NoLoop EXCEPT !.at = where]],
           UNCHANGED <<agCfg, agPhase, agBeat>>,
           agTask' \in [Controllers -> Tasks],
           \A ctl \in Controllers : agTask'[ctl].at \in {"off", "starting"} <=> agTask[ctl].at \in {"off", "starting"},
           agPhase = "boot" => agTask' = agTask,
           agDaemon' \in {"absent", "up", "told", "killed", "orphan"},
           agDaemon' \in {"absent", "orphan"} <=> agDaemon \in {"absent", "orphan"}
    PROVE  AgInv'
<1>1. [NoLoop EXCEPT !.at = where] = [at |-> where, due |-> 0, spent |-> 0, waited |-> 0]
  BY DEF NoLoop
<1>2. AgTypeOK'
  BY <1>1 DEF AgInv, AgTypeOK, Tasks, LoopStates, Beats
<1>3. ASSUME NEW d \in Loops PROVE Unstarted(d)' /\ Paced(d)'
  <2>0. TickPeriod(d)' = TickPeriod(d)
    BY DEF TickPeriod
  <2>1. Owner(d) \in Controllers /\ Owner(c) \in Controllers
    BY OwnerOf
  <2>2. CASE d = c
    <3>1. agLoop'[c].at = where
      BY <1>1 DEF AgInv, AgTypeOK
    <3> QED BY <2>1, <2>2, <3>1 DEF AgInv, Unstarted, Paced, Working
  <2>3. CASE d # c
    <3>1. agLoop'[d] = agLoop[d]
      BY <2>3 DEF AgInv, AgTypeOK
    <3> QED BY <2>0, <2>1, <3>1, LoopUntouched DEF AgInv
  <2> QED BY <2>2, <2>3
<1> QED BY <1>2, <1>3 DEF AgInv

LEMMA Later ==
    ASSUME NEW l \in LoopStates
    PROVE  /\ LoopLater(l) \in LoopStates
           /\ LoopLater(l).at = l.at
           /\ l.at \in Working => LoopLater(l).due = l.due - 1
           /\ l.at = "pass" => LoopLater(l).spent = l.spent + 1
           /\ LoopLater(l).waited = IF l.at = "elect" /\ l.due <= 0 THEN l.waited + 1 ELSE l.waited
<1> USE DEF LoopLater, LoopStates, Working
<1>1. CASE l.at = "idle"
  BY <1>1
<1>2. CASE l.at = "pass"
  <2>1. LoopLater(l) = [at |-> l.at, due |-> l.due - 1, spent |-> l.spent + 1, waited |-> l.waited]
    BY <1>2
  <2> QED BY <1>2, <2>1
<1>3. CASE l.at = "elect"
  <2> DEFINE w == IF l.due <= 0 THEN l.waited + 1 ELSE l.waited
  <2>1. LoopLater(l) = [l EXCEPT !.due = @ - 1, !.spent = @ + 1, !.waited = w]
    BY <1>3
  <2>2. w \in Nat /\ w = IF l.at = "elect" /\ l.due <= 0 THEN l.waited + 1 ELSE l.waited
    BY <1>3
  <2> HIDE DEF w
  <2>3. LoopLater(l) = [at |-> l.at, due |-> l.due - 1, spent |-> l.spent + 1, waited |-> w]
    BY <2>1
  <2> QED BY <1>3, <2>2, <2>3
<1>4. CASE l.at \notin {"idle", "pass", "elect"}
  BY <1>4
<1> QED BY <1>1, <1>2, <1>3, <1>4

LEMMA TimeKeeps == ASSUME AgInv, AgTime PROVE AgInv'
<1>1. /\ \A c \in Loops : ~(agLoop[c].at = "idle" /\ agLoop[c].due <= 0)
      /\ agBeat' = [c \in DOMAIN agBeat |-> [agBeat[c] EXCEPT !.age = Older(@)]]
      /\ agLoop' = [c \in Loops |-> LoopLater(agLoop[c])]
      /\ agTask' = [ctl \in Controllers |->
            IF agTask[ctl].at = "starting" THEN [agTask[ctl] EXCEPT !.spent = @ + 1] ELSE agTask[ctl]]
      /\ UNCHANGED <<agCfg, agPhase, agDaemon>>
  BY DEF AgTime
<1>2. \A n \in Nat : Older(n) \in {n, n + 1}
  BY DEF Older
<1>3. ASSUME NEW c \in DOMAIN agBeat
      PROVE  /\ agBeat'[c] \in Beats
             /\ agBeat'[c].age <= agBeat[c].age + 1 /\ agBeat'[c].ttl = agBeat[c].ttl
  <2>1. agBeat[c] \in Beats
    BY DEF AgInv, AgTypeOK
  <2>2. agBeat'[c] = [agBeat[c] EXCEPT !.age = Older(@)]
    BY <1>1, <1>3
  <2> QED BY <1>2, <2>1, <2>2 DEF Beats
<1>4. ASSUME NEW c \in Loops
      PROVE  /\ agLoop'[c] \in LoopStates
             /\ agLoop'[c].at = agLoop[c].at
             /\ agLoop[c].at \in Working => agLoop'[c].due = agLoop[c].due - 1
             /\ agLoop[c].at = "pass" => agLoop'[c].spent = agLoop[c].spent + 1
             /\ agLoop'[c].waited = IF agLoop[c].at = "elect" /\ agLoop[c].due <= 0
                                    THEN agLoop[c].waited + 1 ELSE agLoop[c].waited
  BY <1>1, Later DEF AgInv, AgTypeOK
<1>5. ASSUME NEW ctl \in Controllers
      PROVE  /\ agTask'[ctl] \in Tasks
             /\ agTask'[ctl].at = agTask[ctl].at
  <2>1. agTask[ctl] \in Tasks
    BY DEF AgInv, AgTypeOK
  <2>2. agTask'[ctl] = IF agTask[ctl].at = "starting" THEN [agTask[ctl] EXCEPT !.spent = @ + 1] ELSE agTask[ctl]
    BY <1>1
  <2> QED BY <2>1, <2>2 DEF Tasks
<1>6. DOMAIN agBeat' = DOMAIN agBeat
  BY <1>1
<1>7. AgTypeOK'
  BY <1>1, <1>3, <1>4, <1>5, <1>6 DEF AgInv, AgTypeOK
<1>8. ASSUME NEW c \in Loops PROVE Unstarted(c)' /\ Paced(c)'
  <2>1. TickPeriod(c)' = TickPeriod(c) /\ TickPeriod(c) \in Nat
    BY <1>1, TickNat DEF TickPeriod, AgInv
  <2>2. Owner(c) \in Controllers
    BY OwnerOf
  <2>3. Unstarted(c)'
    BY <1>3, <1>4, <1>5, <1>6, <2>2 DEF AgInv, Unstarted
  <2>4. agLoop[c] \in LoopStates
    BY DEF AgInv, AgTypeOK
  <2>5. Beaten(c)' => /\ Beaten(c) /\ agBeat[c].age \in Nat /\ agBeat'[c].age \in Nat
                      /\ agBeat'[c].age <= agBeat[c].age + 1
    BY <1>3, <1>6 DEF Beaten, AgInv, AgTypeOK, Tasks, LoopStates, Beats
  <2>6. Paced(c)'
    <3>1. Paced(c) /\ ~(agLoop[c].at = "idle" /\ agLoop[c].due <= 0)
      BY <1>1 DEF AgInv
    <3>2. agLoop[c].due \in Int /\ agLoop[c].spent \in Nat /\ agLoop[c].waited \in Nat
      BY <2>4 DEF LoopStates
    <3>3. CASE agLoop[c].at = "idle"
      BY <1>4, <2>1, <2>5, <3>1, <3>2, <3>3 DEF Paced, Working
    <3>4. CASE agLoop[c].at = "pass"
      BY <1>4, <2>1, <2>5, <3>1, <3>2, <3>4 DEF Paced, Working
    <3>5. CASE agLoop[c].at = "elect"
      BY <1>4, <2>1, <2>5, <3>1, <3>2, <3>5 DEF Paced, Working
    <3>6. CASE agLoop[c].at \notin Working
      BY <1>4, <3>6 DEF Paced, Working
    <3> QED BY <3>3, <3>4, <3>5, <3>6 DEF Working
  <2> QED BY <2>3, <2>6
<1> QED BY <1>1, <1>5, <1>7, <1>8 DEF AgInv

---------------------------------------------------------------------------
LEMMA HangsKeeps == ASSUME NEW c \in Loops, AgInv, AgHangs(c) PROVE AgInv'
BY LoopEnds DEF AgHangs, AgInv, AgTypeOK

LEMMA LoopStopsKeeps == ASSUME NEW c \in Loops, AgInv, AgLoopStops(c) PROVE AgInv'
BY LoopEnds DEF AgLoopStops, Leaves, AgInv, AgTypeOK

LEMMA KillKeeps == ASSUME AgInv, AgKill PROVE AgInv'
<1>1. "RouteSync" \in Loops /\ Owner("RouteSync") = Router /\ Router \in Controllers
  BY RouterOwns, Owners
<1>2. agTask' = [agTask EXCEPT ![Router].at = "ended"] /\ agTask[Router].at = "running"
  BY DEF AgKill
<1>3. /\ agTask' \in [Controllers -> Tasks] /\ agTask'[Router].at = "ended"
      /\ \A ctl \in Controllers : agTask'[ctl].at \in {"off", "starting"} <=> agTask[ctl].at \in {"off", "starting"}
  BY <1>1, <1>2 DEF AgInv, AgTypeOK, Tasks
<1> QED BY <1>1, <1>3, LoopEnds DEF AgKill

\* Steps after which every loop is as it was.
LEMMA LoopsUntouched ==
    ASSUME AgInv, UNCHANGED <<agCfg, agLoop>>, agPhase' # "boot", AgTypeOK',
           agBeat' = agBeat \/ DOMAIN agBeat' = {},
           agDaemon' \in {"absent", "orphan"} <=> agDaemon \in {"absent", "orphan"},
           \A ctl \in Controllers : agTask'[ctl].at \in {"off", "starting"} => agTask[ctl].at \in {"off", "starting"}
    PROVE  AgInv'
<1>1. ASSUME NEW c \in Loops PROVE Unstarted(c)' /\ Paced(c)'
  <2>1. TickPeriod(c)' = TickPeriod(c) /\ Owner(c) \in Controllers
    BY OwnerOf DEF TickPeriod
  <2> QED BY <2>1 DEF AgInv, Unstarted, Paced, Working, Beaten
<1> QED BY <1>1 DEF AgInv

LEMMA AgInvariance == AgInit /\ [][AgNext]_agVars => []AgInv
<1>1. AgInv /\ [AgNext]_agVars => AgInv'
  <2> SUFFICES ASSUME AgInv, [AgNext]_agVars PROVE AgInv'
    OBVIOUS
  <2>1. CASE AgSignal
    <3>1. AgTypeOK' /\ DOMAIN agBeat' = {}
      BY <2>1 DEF AgSignal, AgInv, AgTypeOK
    <3> QED BY <2>1, <3>1, LoopsUntouched DEF AgSignal
  <2>2. CASE AgStopBgp
    <3>1. AgTypeOK'
      BY <2>2 DEF AgStopBgp, AgInv, AgTypeOK
    <3> QED BY <2>2, <3>1, LoopsUntouched DEF AgStopBgp, StopsBgp
  <2>2a. CASE AgStopHangs
    <3>1. /\ agTask' = [agTask EXCEPT ![Router].at = "hung"] /\ Router \in Controllers
          /\ UNCHANGED <<agCfg, agPhase, agLoop, agBeat, agDaemon>>
      BY <2>2a, RouterOwns DEF AgStopHangs
    <3>2. /\ agTask' \in [Controllers -> Tasks]
          /\ \A x \in Controllers : agTask'[x].at \in {"off", "starting"} => agTask[x].at \in {"off", "starting"}
      BY <3>1 DEF AgInv, AgTypeOK, Tasks
    <3>3. AgTypeOK'
      BY <3>1, <3>2 DEF AgInv, AgTypeOK
    <3> QED BY <2>2a, <3>1, <3>2, <3>3, LoopsUntouched DEF AgStopHangs, StopsBgp
  <2>3. CASE AgEnds
    <3>1. AgTypeOK'
      BY <2>3 DEF AgEnds, AgInv, AgTypeOK
    <3> QED BY <2>3, <3>1, LoopsUntouched DEF AgEnds
  <2>4. ASSUME NEW ctl \in Controllers, AgTaskEnds(ctl) PROVE AgInv'
    <3>1. agTask' = [agTask EXCEPT ![ctl].at = "ended"] /\ UNCHANGED <<agCfg, agPhase, agLoop, agBeat, agDaemon>>
      BY <2>4 DEF AgTaskEnds
    <3>2. /\ agTask' \in [Controllers -> Tasks]
          /\ \A x \in Controllers : agTask'[x].at \in {"off", "starting"} => agTask[x].at \in {"off", "starting"}
      BY <3>1 DEF AgInv, AgTypeOK, Tasks
    <3>3. AgTypeOK'
      BY <3>1, <3>2 DEF AgInv, AgTypeOK
    <3> QED BY <2>4, <3>1, <3>2, <3>3, LoopsUntouched DEF AgTaskEnds
  <2>5. CASE UNCHANGED agVars
    BY <2>5 DEF agVars, AgInv, AgTypeOK, Unstarted, Paced, Working, Beaten, TickPeriod
  <2> QED BY <2>1, <2>2, <2>2a, <2>3, <2>4, <2>5, BootKeeps, TimeKeeps, KillKeeps, StartFailsKeeps, StartedKeeps,
             StartHangsKeeps, ElectKeeps, TickKeeps, EventKeeps, PassEndsKeeps, HangsKeeps, LoopStopsKeeps DEF AgNext
<1> QED BY AgInitially, <1>1, PTL

\* Loops leave only once main has been told to stop.
NoneLeft == agPhase \in {"boot", "up"} => \A c \in Loops : agLoop[c].at # "left"

LEMMA NoneLeftStep == ASSUME AgTypeOK, NoneLeft, [AgNext]_agVars PROVE NoneLeft'
<1> USE DEF NoneLeft
<1>1. agLoop \in [Loops -> LoopStates]
  BY DEF AgTypeOK
<1>2. CASE AgTime
  <2>1. ASSUME NEW c \in Loops PROVE agLoop'[c].at = agLoop[c].at
    BY <1>1, <1>2, Later DEF AgTime
  <2> QED BY <1>2, <2>1 DEF AgTime
<1>3. ASSUME NEW ctl \in Controllers, AgStarted(ctl) PROVE NoneLeft'
  <2>1. [NoLoop EXCEPT !.at = "idle"].at = "idle"
    BY DEF NoLoop
  <2> QED BY <1>3, <2>1 DEF AgStarted
<1>4. ASSUME NEW c \in Loops, AgTick(c) \/ AgEvent(c) \/ AgPassEnds(c) \/ AgHangs(c) \/ AgElect(c) \/ AgElectEnds(c) PROVE NoneLeft'
  <2>1. /\ agPhase' = agPhase /\ agLoop'[c].at # "left"
        /\ \A d \in Loops : d # c => agLoop'[d] = agLoop[d]
    <3>1. CASE AgTick(c)
      BY <1>1, <3>1 DEF AgTick, LoopStates
    <3>2. CASE AgEvent(c)
      BY <1>1, <3>2 DEF AgEvent, LoopStates
    <3>3. CASE AgPassEnds(c)
      BY <1>1, <3>3 DEF AgPassEnds, LoopStates
    <3>4. CASE AgHangs(c)
      BY <1>1, <3>4 DEF AgHangs, NoLoop
    <3>5. CASE AgElect(c)
      BY <1>1, <3>5 DEF AgElect, LoopStates
    <3>6. CASE AgElectEnds(c)
      BY <1>1, <3>6 DEF AgElectEnds, LoopStates
    <3> QED BY <1>4, <3>1, <3>2, <3>3, <3>4, <3>5, <3>6
  <2> QED BY <2>1
<1>5. CASE AgBoot \/ AgSignal \/ AgStopBgp \/ AgStopHangs \/ AgKill \/ AgEnds
  BY <1>5 DEF AgBoot, AgSignal, AgStopBgp, AgStopHangs, StopsBgp, AgKill, AgEnds
<1>6. ASSUME NEW ctl \in Controllers, AgStartFails(ctl) \/ AgStartHangs(ctl) \/ AgTaskEnds(ctl) PROVE NoneLeft'
  BY <1>6 DEF AgStartFails, AgStartHangs, AgTaskEnds
<1>7. ASSUME NEW c \in Loops, AgLoopStops(c) PROVE NoneLeft'
  BY <1>7 DEF AgLoopStops
<1>8. CASE UNCHANGED agVars
  BY <1>8 DEF agVars
<1> QED BY <1>2, <1>3, <1>4, <1>5, <1>6, <1>7, <1>8 DEF AgNext

\* A loop that works is found stale by /healthz only in a pass that is longer than its
\* first cycle and the grace or, for the LoadBalancer, that an election call has kept
\* waiting for the rest of that time, for every interval and length of a pass or call
\* (health.rs:52-55, 99-108; main.rs:812-833).
THEOREM LiveStaysHealthy == AgSpec => []LiveIsHealthy
<1>1. AgInv /\ NoneLeft => LiveIsHealthy
  <2> SUFFICES ASSUME AgInv, NoneLeft, NEW c \in Loops, agPhase = "up", Stale(c),
                      agTask[Owner(c)].at \notin {"failed", "hung"},
                      agLoop[c].at \notin {"none", "hung"}, agBeat[c].ttl # -1, TickPeriod(c) <= agBeat[c].period
               PROVE  \/ agLoop[c].at = "pass" /\ agLoop[c].spent > agBeat[c].ttl + AgGrace
                      \/ c = "LoadBalancer" /\ Delay(c) > agBeat[c].ttl + AgGrace
    BY TickNat DEF LiveIsHealthy, AgInv, AgTypeOK, Stale, Beats
  <2>1. agLoop[c].at \in Working /\ agLoop[c] \in LoopStates
    BY DEF NoneLeft, AgInv, AgTypeOK, LoopStates, Working
  <2>2. agBeat[c] \in Beats /\ Beaten(c) /\ Paced(c)
    BY DEF AgInv, AgTypeOK, Stale, Beaten
  <2> QED BY <2>1, <2>2, TickNat, AgDurations DEF AgDurations, AgInv, Stale, Window, Delay, Paced, Working, Beats, LoopStates
<1>2. AgInit => NoneLeft
  BY DEF AgInit, NoneLeft, NoLoop
<1>3. AgInv => AgTypeOK
  BY DEF AgInv
<1> QED BY AgInvariance, NoneLeftStep, <1>1, <1>2, <1>3, PTL DEF AgSpec
=============================================================================
