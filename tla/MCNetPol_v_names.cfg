SPECIFICATION NpSpec
CONSTANTS
    ThisNode = "here"
    NodeIps <- Node4
    PodCidr <- PodCidrs4
    ServiceRange <- Services4
    NodePortArg <- NodePorts4
    World <- NamesWorlds
    NoWorld = "none"
    Flow <- NameFlows
    MaxChanges = 0
    MaxNpFaults = 0
INVARIANTS NamedPortsExact
