SPECIFICATION NodeSpec
CONSTANTS
    ThisNode = "here"
    NodeIps <- Node4
    PodCidr <- PodCidrs4
    ServiceRange <- Services4
    NodePortArg <- NodePorts4
    World <- PassWorlds
    NoWorld = "none"
    Flow <- Flows4
    MaxChanges = 1
    MaxNpFaults = 1
    BgWorlds <- BgWorldSet
    BgConfigs <- BgCfgs
    BgClusterAsn = 5
    BgMaxChanges = 1
    BgMaxFaults = 1
    AdNode = "here"
    AdNextHop <- NH
    AdPodCidrs <- PodC
    AdWorlds <- AdWorldSet
    AdConfigs <- AdCfgs
    AdMaxChanges = 2
    AdMaxFaults = 1
    PtNode = "here"
    PtPrimary <- NH
    PtLocalIps <- Locals
    PtPodCidrs <- PodC4
    PtWorlds <- PtWorldSet
    PtConfigs <- PtCfgs
    PtHash <- Hash4
    PtMaxInc = 2
    PtPackets <- Packets4
    PtMaxChanges = 1
    PtMaxFaults = 2
    AgConfigs <- AgCfgSet
    AgGrace = 1
    AgMaxStart = 1
    AgMaxPass = 2
    AgMaxEvents = 1
INVARIANTS
    EnforcesPolicy NoHole FreshPodsWait
    PeersInDaemon AllNodesLearn
    RibIsKnown AdvertisedIsServed
    FirewallFailsOpen FirewallCloses DsrSeparate TailFollows
    LiveIsHealthy
PROPERTIES Converges CleanupOpens DeadIsNoticed SignalEnds
CHECK_DEADLOCK FALSE
