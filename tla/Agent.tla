------------------------------- MODULE Agent -------------------------------
(***************************************************************************)
(* The agent as a process (kube-router-rs/src/main.rs): it starts a         *)
(* controller for every enabled subsystem, each a loop over ticks of a tokio*)
(* interval that beats a heart after every pass, serves /healthz from those *)
(* heartbeats, supervises gobgpd and ends on a signal.  The loop of the     *)
(* LoadBalancer also awaits the calls of the election, without a heartbeat. *)
(* Calls to the API server and to gobgpd have no deadline: any may hang.    *)
(* Time is discrete; ages replace instants.                                 *)
(***************************************************************************)
EXTENDS Integers, Sequences, FiniteSets, FiniteSetsExt

CONSTANTS
    AgConfigs,    \* configurations (see Valid)
    AgGrace,      \* GRACE
    AgMaxStart,   \* bound on the length of a start that ends
    AgMaxPass,    \* bound on the length of a pass or an election call that ends
    AgMaxEvents   \* bound on passes that an event triggers and on election calls

Router == "router"
Firewall == "firewall"
Proxy == "proxy"
LoadBalancer == "loadbalancer"

\* The loops of each controller, named by the component whose heart they beat.
LoopsOf(ctl) ==
    CASE ctl = Router -> {"NetworkRoutes", "RouteSync"}
      [] ctl = Firewall -> {"NetworkPolicy"}
      [] ctl = Proxy -> {"NetworkServices"}
      [] ctl = LoadBalancer -> {"LoadBalancer"}

\* KubeRouterConfig::validate: tokio panics on an interval of zero.  wellFormed stands for
\* the checks of flags that the model has no other use for: CIDR lists and how many there
\* are, overlay values, the lists of peers, the cache time-out and the graceful period.
Valid(cfg) ==
    /\ cfg.families # {} /\ cfg.wellFormed
    /\ \A c \in DOMAIN cfg.period : cfg.period[c] > 0
    /\ cfg.injected > 0
    /\ Router \in cfg.run /\ cfg.families = {6} => cfg.routerId

\* Mutant: the LoadBalancer is not registered.
ComponentsForThree(cfg) ==
    UNION {{[loop |-> c, period |-> cfg.period[ctl]] : c \in LoopsOf(ctl)} : ctl \in cfg.run \ {LoadBalancer}}

\* The components to register: both of the router with routes_sync_period.
ComponentsFor(cfg) == UNION {{[loop |-> c, period |-> cfg.period[ctl]] : c \in LoopsOf(ctl)} : ctl \in cfg.run}

----------------------------------------------------------------------------
VARIABLES
    agCfg,
    agPhase,    \* main: "boot", "up", "stopping", "ended"
    agTask,     \* each controller's task, and for how long it has been starting
    agLoop,     \* each loop: where it is, time to its next tick, length of its pass or
                \* call, and since its last beat, for how long a tick was due and not taken
    agBeat,     \* HealthState: period, age of the last beat, TTL (-1: none yet)
    agDaemon,   \* gobgpd: "absent", "up", "told" (StopBgp was sent), "killed", "orphan"
    agEvents

agVars == <<agCfg, agPhase, agTask, agLoop, agBeat, agDaemon, agEvents>>

Controllers == {Router, Firewall, Proxy, LoadBalancer}
Loops == UNION {LoopsOf(ctl) : ctl \in Controllers}
Owner(c) == CHOOSE ctl \in Controllers : c \in LoopsOf(ctl)
NoLoop == [at |-> "none", due |-> 0, spent |-> 0, waited |-> 0]

\* The flags name controllers, and their intervals are durations.
ASSUME AgDurations ==
    /\ AgGrace \in Nat
    /\ \A cfg \in AgConfigs : /\ cfg.run \subseteq Controllers /\ cfg.injected \in Nat
                               /\ \A ctl \in Controllers : cfg.period[ctl] \in Nat

\* The interval of a loop; route injection from BGP has its own.
TickPeriod(c) == IF c = "RouteSync" /\ agDaemon # "absent" /\ agDaemon # "orphan" THEN agCfg.injected
                 ELSE agCfg.period[Owner(c)]

\* Ages beyond every window need not be told apart.
MaxAge == Max({cfg.period[ctl] : cfg \in AgConfigs, ctl \in Controllers}) 
          + AgMaxStart + (AgMaxEvents + 1) * AgMaxPass + AgGrace + 1
Older(n) == IF n < MaxAge THEN n + 1 ELSE n

AgInit ==
    /\ agCfg \in AgConfigs /\ agPhase = "boot"
    /\ agTask = [ctl \in Controllers |-> [at |-> "off", spent |-> 0]]
    /\ agLoop = [c \in Loops |-> NoLoop] /\ agBeat = << >>
    /\ agDaemon = "absent" /\ agEvents = 0

\* main: an invalid configuration, missing privileges or a port that cannot be
\* bound end the agent; --cleanup-config ends it too, after NetPol's NpCleanup.
AgBoot ==
    /\ agPhase = "boot"
    /\ \/ agPhase' = "ended" /\ UNCHANGED <<agTask, agBeat>>
       \/ /\ Valid(agCfg) /\ ~agCfg.cleanup
          /\ agPhase' = "up"
          /\ agBeat' = [c \in {r.loop : r \in ComponentsFor(agCfg)} |->
                [period |-> (CHOOSE r \in ComponentsFor(agCfg) : r.loop = c).period, age |-> 0, ttl |-> -1]]
          /\ agTask' = [ctl \in Controllers |->
                [at |-> IF ctl \in agCfg.run THEN "starting" ELSE "off", spent |-> 0]]
    /\ UNCHANGED <<agCfg, agLoop, agDaemon, agEvents>>

\* The client cannot be built, the caches do not fill in time, or the node has no
\* name: the task ends and main does not notice.
AgStartFails(ctl) ==
    /\ agTask[ctl].at = "starting"
    /\ agTask' = [agTask EXCEPT ![ctl] = [at |-> "failed", spent |-> 0]]
    /\ UNCHANGED <<agCfg, agPhase, agLoop, agBeat, agDaemon, agEvents>>

\* build_engine: gobgpd is spawned if it is installed; when it does not answer in
\* time or refuses StartBgp, the logging engine is used and the daemon forgotten.
BuildEngine(ctl) ==
    IF ctl = Router /\ agCfg.gobgpd THEN {"absent", "orphan", "up"} ELSE {agDaemon}

\* The caches are filled and the loops begin, their first tick at once.  Without
\* this node in the store there is no BGP controller.
AgStarted(ctl) ==
    /\ agTask[ctl].at = "starting"
    /\ agDaemon' \in BuildEngine(ctl)
    /\ agTask' = [agTask EXCEPT ![ctl] = [at |-> "running", spent |-> 0]]
    /\ agLoop' = [c \in Loops |-> IF c \in LoopsOf(ctl) /\ (c = "NetworkRoutes" => agCfg.nodeKnown)
                                  THEN [NoLoop EXCEPT !.at = "idle"] ELSE agLoop[c]]
    /\ UNCHANGED <<agCfg, agPhase, agBeat, agEvents>>

\* A call of the start never returns: of build_client, of StartBgp or of the
\* announcement of the pod CIDRs, with gobgpd running or not.
AgStartHangs(ctl) ==
    /\ agTask[ctl].at = "starting"
    /\ agDaemon' \in BuildEngine(ctl)
    /\ agTask' = [agTask EXCEPT ![ctl] = [at |-> "hung", spent |-> 0]]
    /\ UNCHANGED <<agCfg, agPhase, agLoop, agBeat, agEvents>>

\* A tick that is due: the next one is counted from when this one was due.
AgTick(c) ==
    /\ agLoop[c].at = "idle" /\ agLoop[c].due <= 0
    /\ agLoop' = [agLoop EXCEPT ![c] =
          [at |-> "pass", due |-> agLoop[c].due + TickPeriod(c), spent |-> 0, waited |-> agLoop[c].waited]]
    /\ UNCHANGED <<agCfg, agPhase, agTask, agBeat, agDaemon, agEvents>>

\* The election's own interval, RETRY_PERIOD, is abstracted to whenever the loop of
\* the LoadBalancer is idle; select! may take it before a sync tick that is due.
AgElect(c) ==
    /\ c = "LoadBalancer" /\ agLoop[c].at = "idle" /\ agEvents < AgMaxEvents
    /\ agEvents' = agEvents + 1
    /\ agLoop' = [agLoop EXCEPT ![c].at = "elect", ![c].spent = 0]
    /\ UNCHANGED <<agCfg, agPhase, agTask, agBeat, agDaemon>>

\* LeaderElector::tick returns; no heart beats.
AgElectEnds(c) ==
    /\ agLoop[c].at = "elect"
    /\ agLoop' = [agLoop EXCEPT ![c].at = "idle", ![c].spent = 0]
    /\ UNCHANGED <<agCfg, agPhase, agTask, agBeat, agDaemon, agEvents>>

\* A change of the stores, or a BGP path, starts a pass between ticks.
AgEvent(c) ==
    /\ agLoop[c].at = "idle" /\ agEvents < AgMaxEvents
    /\ c = "NetworkServices" \/ (c = "RouteSync" /\ agDaemon \in {"up", "told"})
    /\ agEvents' = agEvents + 1
    /\ agLoop' = [agLoop EXCEPT ![c].at = "pass", ![c].spent = 0]
    /\ UNCHANGED <<agCfg, agPhase, agTask, agBeat, agDaemon>>

\* HealthState::heartbeat: the first beat fixes the TTL; others are not registered.
Heartbeat(c) ==
    agBeat' = IF c \notin DOMAIN agBeat THEN agBeat
              ELSE [agBeat EXCEPT ![c] =
                        [period |-> @.period, age |-> 0, ttl |-> IF @.ttl = -1 THEN @.age ELSE @.ttl]]

\* A pass ends, well or with an error that is logged, and the heart beats.
AgPassEnds(c) ==
    /\ agLoop[c].at = "pass"
    /\ Heartbeat(c)
    /\ agLoop' = [agLoop EXCEPT ![c].at = "idle", ![c].spent = 0, ![c].waited = 0]
    /\ UNCHANGED <<agCfg, agPhase, agTask, agDaemon, agEvents>>

\* A command or a call never returns.
AgHangs(c) ==
    /\ agLoop[c].at \in {"pass", "elect"}
    /\ agLoop' = [agLoop EXCEPT ![c] = [NoLoop EXCEPT !.at = "hung"]]
    /\ UNCHANGED <<agCfg, agPhase, agTask, agBeat, agDaemon, agEvents>>

\* Mutant: the period and the grace only.
WindowNoTtl(b) == b.period + AgGrace

\* ComponentHealth::window.
Window(b) == b.period + (IF b.ttl = -1 THEN 0 ELSE b.ttl) + AgGrace
Stale(c) == c \in DOMAIN agBeat /\ agBeat[c].age > Window(agBeat[c])
Healthz == IF \E c \in Loops : Stale(c) THEN 500 ELSE 200

\* One unit of time in the life of a loop.
LoopLater(l) ==
    CASE l.at = "idle" -> [l EXCEPT !.due = @ - 1]
      [] l.at = "pass" -> [l EXCEPT !.due = @ - 1, !.spent = @ + 1]
      [] l.at = "elect" -> [l EXCEPT !.due = @ - 1, !.spent = @ + 1, !.waited = IF l.due <= 0 THEN @ + 1 ELSE @]
      [] OTHER -> l

\* Time passes, but not over a tick that is due to an idle loop, nor over the end of
\* a pass, of an election call or of a start that may take no longer.
AgTime ==
    /\ agPhase \in {"up", "stopping"}
    /\ \A c \in Loops : /\ ~(agLoop[c].at = "idle" /\ agLoop[c].due <= 0)
                        /\ ~(agLoop[c].at \in {"pass", "elect"} /\ agLoop[c].spent = AgMaxPass)
    /\ \A ctl \in Controllers : ~(agTask[ctl].at = "starting" /\ agTask[ctl].spent = AgMaxStart)
    /\ agBeat' = [c \in DOMAIN agBeat |-> [agBeat[c] EXCEPT !.age = Older(@)]]
    /\ agLoop' = [c \in Loops |-> LoopLater(agLoop[c])]
    /\ agTask' = [ctl \in Controllers |->
            IF agTask[ctl].at = "starting" THEN [agTask[ctl] EXCEPT !.spent = @ + 1] ELSE agTask[ctl]]
    /\ UNCHANGED <<agCfg, agPhase, agDaemon, agEvents>>

----------------------------------------------------------------------------
\* SIGTERM or SIGINT: every loop is told.  The heartbeats are forgotten, to keep the
\* model small: nothing is claimed of /healthz while the agent stops.
AgSignal ==
    /\ agPhase = "up" /\ agPhase' = "stopping" /\ agBeat' = << >>
    /\ UNCHANGED <<agCfg, agTask, agLoop, agDaemon, agEvents>>

\* Mutant: a tick that is due is preferred.
LeavesOnTime(c) == agLoop[c].at = "idle" /\ agLoop[c].due > 0

\* A loop leaves between passes, whether or not a tick is due.
Leaves(c) == agLoop[c].at = "idle"

AgLoopStops(c) ==
    /\ agPhase = "stopping" /\ Leaves(c)
    /\ agLoop' = [agLoop EXCEPT ![c] = [NoLoop EXCEPT !.at = "left"]]
    /\ UNCHANGED <<agCfg, agPhase, agTask, agBeat, agDaemon, agEvents>>

Stopped(c) == agLoop[c].at \in {"none", "left"}

\* run_routing once the BGP controller has left: StopBgp, which may fail, then
\* the other tasks are aborted wherever they are, then gobgpd is killed.
StopsBgp ==
    agPhase = "stopping" /\ agTask[Router].at = "running" /\ agDaemon = "up" /\ Stopped("NetworkRoutes")

AgStopBgp ==
    /\ StopsBgp
    /\ agDaemon' = "told"
    /\ UNCHANGED <<agCfg, agPhase, agTask, agLoop, agBeat, agEvents>>

\* gobgpd does not answer StopBgp, which has no deadline: nothing after it happens.
AgStopHangs ==
    /\ StopsBgp
    /\ agTask' = [agTask EXCEPT ![Router].at = "hung"]
    /\ UNCHANGED <<agCfg, agPhase, agLoop, agBeat, agDaemon, agEvents>>

AgKill ==
    /\ agPhase = "stopping" /\ agTask[Router].at = "running" /\ agDaemon = "told"
    /\ agLoop' = [agLoop EXCEPT !["RouteSync"] = [NoLoop EXCEPT !.at = "left"]]
    /\ agDaemon' = "killed"
    /\ agTask' = [agTask EXCEPT ![Router].at = "ended"]
    /\ UNCHANGED <<agCfg, agPhase, agBeat, agEvents>>

\* Any other controller, and the router without gobgpd: its loops have left.
AgTaskEnds(ctl) ==
    /\ agPhase = "stopping" /\ agTask[ctl].at = "running"
    /\ ctl = Router => agDaemon \in {"absent", "orphan"}
    /\ \A c \in LoopsOf(ctl) : Stopped(c)
    /\ agTask' = [agTask EXCEPT ![ctl].at = "ended"]
    /\ UNCHANGED <<agCfg, agPhase, agLoop, agBeat, agDaemon, agEvents>>

\* main has waited for every task.
TasksEnded == \A ctl \in Controllers : agTask[ctl].at \in {"off", "failed", "ended"}

AgEnds ==
    /\ agPhase = "stopping" /\ TasksEnded
    /\ agPhase' = "ended"
    /\ UNCHANGED <<agCfg, agTask, agLoop, agBeat, agDaemon, agEvents>>

AgNext ==
    \/ AgBoot \/ AgTime \/ AgSignal \/ AgStopBgp \/ AgStopHangs \/ AgKill \/ AgEnds
    \/ \E ctl \in Controllers : AgStartFails(ctl) \/ AgStarted(ctl) \/ AgStartHangs(ctl) \/ AgTaskEnds(ctl)
    \/ \E c \in Loops : \/ AgTick(c) \/ AgEvent(c) \/ AgPassEnds(c) \/ AgHangs(c)
                        \/ AgElect(c) \/ AgElectEnds(c) \/ AgLoopStops(c)

\* What a task does next: every call it awaits returns or hangs for good.
LoopMoves == \E c \in Loops : AgTick(c) \/ AgPassEnds(c) \/ AgElectEnds(c) \/ AgHangs(c)
StartMoves == \E ctl \in Controllers : AgStartFails(ctl) \/ AgStarted(ctl) \/ AgStartHangs(ctl)
EndMoves == AgStopBgp \/ AgStopHangs \/ AgKill \/ AgEnds \/ \E ctl \in Controllers : AgTaskEnds(ctl)

\* Time passes, ticks fire, and what main and the tasks await happens unless it
\* hangs.  tokio's select takes one of the ready branches at random: a loop that is
\* always late for its next tick still leaves some day.
AgFairness ==
    /\ WF_agVars(AgTime)
    /\ WF_agVars(LoopMoves \/ StartMoves)
    /\ WF_agVars(EndMoves)
    /\ SF_agVars(\E c \in Loops : AgLoopStops(c))

AgSpec == AgInit /\ [][AgNext]_agVars /\ AgFairness

----------------------------------------------------------------------------
\* How long the loop has been kept from its next beat, once its tick was due.
Delay(c) == agLoop[c].waited + (IF agLoop[c].at = "pass" THEN agLoop[c].spent ELSE 0)

\* /healthz (health.rs:52-55, 99-108) answers 500 only for a reason: whatever the
\* ticks, the events and the lengths of earlier passes, a loop that runs and has
\* beaten once is found stale only in a pass that has already lasted longer than
\* its first cycle and the grace.  For the LoadBalancer, whose loop awaits the
\* election calls too (main.rs:815-819), the time for which such a call has kept a
\* tick that was due from being taken counts as well.  The route injection loop has
\* to tick as often as it is registered for (orchestrate.rs:31-42).
LiveIsHealthy ==
    \A c \in Loops :
        agPhase = "up" /\ Stale(c) =>
            \/ agTask[Owner(c)].at \in {"failed", "hung"} \/ agLoop[c].at \in {"none", "hung"}
            \/ agBeat[c].ttl = -1
            \/ agLoop[c].at = "pass" /\ agLoop[c].spent > agBeat[c].ttl + AgGrace
            \/ c = "LoadBalancer" /\ Delay(c) > agBeat[c].ttl + AgGrace
            \/ TickPeriod(c) > agBeat[c].period

\* The reason for /healthz: a controller whose task has failed (main.rs:87-126 only
\* logs it) or whose start hangs, that never got a loop, or whose loop hangs in a
\* pass or in an election call, is found out.
Dead(c) == agTask[Owner(c)].at \in {"failed", "hung"} \/ agLoop[c].at = "hung"
           \/ (agTask[Owner(c)].at = "running" /\ agLoop[c].at = "none")
DeadIsNoticed == (\E c \in Loops : Dead(c)) ~> (Healthz = 500 \/ agPhase # "up")

\* A signal ends the agent, unless a loop or a task hangs in a call (main.rs:129-139
\* waits for every task without a limit, and main.rs:269 for the answer to StopBgp).
SignalEnds ==
    (agPhase = "stopping") ~> \/ agPhase = "ended"
                             \/ \E c \in Loops : agLoop[c].at = "hung"
                             \/ \E ctl \in Controllers : agTask[ctl].at = "hung"
============================================================================
