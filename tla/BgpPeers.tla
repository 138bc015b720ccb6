------------------------------ MODULE BgpPeers ------------------------------
(***************************************************************************)
(* The BGP neighbours of every node: what a Node object says about BGP,     *)
(* derive_ibgp_peers and peer_diff, the external peers of the flags and of  *)
(* the annotation, and NetworkRoutesController against gobgpd, which keeps  *)
(* its own list of neighbours.  A reconcile reads the Node store first and  *)
(* then only calls gobgpd, so it is one step that may fail part of the way. *)
(***************************************************************************)
EXTENDS Integers, Sequences, FiniteSets, SequencesExt

CONSTANTS
    BgWorlds,       \* contents of the Node store, numbered from 1: sequences of Node objects
    BgConfigs,      \* flags of the agents
    BgClusterAsn,   \* --cluster-asn
    BgMaxChanges,   \* bound on changes of the Node store
    BgMaxFaults     \* bound on calls that gobgpd does not answer

None == "none"     \* no address, no node
NoNum == -1        \* no annotation
NotNum == -2       \* an annotation that is not a number
DefaultBgpPort == 179
MaxPort == 65535

----------------------------------------------------------------------------
\* The first address of a family with the best kind; hostnames do not count.
SelectNodeIp(node, fam) ==
    LET of(kind) == SelectSeq(node.addresses, LAMBDA a : a.kind = kind /\ a.fam = fam)
        ranked == of("InternalIP") \o of("ExternalIP")
    IN  IF ranked = <<>> THEN None ELSE Head(ranked).ip

\* A cluster id that is not a number counts as no annotation.
ClusterId(text) == IF text = NotNum THEN NoNum ELSE text

\* node_to_bgp: a node whose ip is None is not used.
NodeToBgp(node) ==
    LET v4 == SelectNodeIp(node, 4)
        ip == IF v4 # None THEN v4 ELSE SelectNodeIp(node, 6)
    IN  [name |-> node.name, ip |-> ip,
         asn |-> IF node.asn >= 0 THEN node.asn ELSE BgClusterAsn,
         rrServer |-> ClusterId(node.rrServer), rrClient |-> ClusterId(node.rrClient)]

NoNode == [name |-> None, ip |-> None, asn |-> NoNum, rrServer |-> NoNum, rrClient |-> NoNum]

BgNodes(store) == {n \in {NodeToBgp(store[i]) : i \in DOMAIN store} : n.ip # None}
\* The Node object with a name: the store has at most one.
FindNode(store, n) == CHOOSE node \in Range(store) : node.name = n
LocalNode(store, n) ==
    IF \E node \in Range(store) : node.name = n THEN NodeToBgp(FindNode(store, n)) ELSE NoNode

----------------------------------------------------------------------------
\* to_peer_config of an iBGP peer; the options of external peers are unset.
Neighbor(ip, asn, client, cluster, port, external) ==
    [ip |-> ip, asn |-> asn, rrClient |-> client, cluster |-> cluster, port |-> port, external |-> external]

\* Mutant: a reflector reflects only for the clients of its own cluster.
DeriveOwnClusterOnly(local, others, cfg) ==
    LET client(o) == local.rrServer # NoNum /\ o.rrClient = local.rrServer
    IN  IF ~cfg.ibgp THEN {}
        ELSE {Neighbor(o.ip, o.asn, client(o), IF client(o) THEN local.rrServer ELSE NoNum,
                       DefaultBgpPort, FALSE) :
                 o \in {x \in others : x.name # local.name
                                       /\ (local.rrClient # NoNum => x.rrServer # NoNum)}}

\* A reflector peers with everyone and reflects for all but other reflectors, a
\* client peers with the reflectors, any other node with everyone or its own AS.
DeriveIbgpPeers(local, others, cfg) ==
    LET shouldPeer(o) ==
            \/ local.rrServer # NoNum
            \/ local.rrServer = NoNum /\ local.rrClient # NoNum /\ o.rrServer # NoNum
            \/ local.rrServer = NoNum /\ local.rrClient = NoNum /\ (cfg.mesh \/ o.asn = local.asn)
        client(o) == local.rrServer # NoNum /\ o.rrServer = NoNum
    IN  IF ~cfg.ibgp THEN {}
        ELSE {Neighbor(o.ip, o.asn, client(o), IF client(o) THEN local.rrServer ELSE NoNum,
                       DefaultBgpPort, FALSE) :
                 o \in {x \in others : x.name # local.name /\ shouldPeer(x)}}

PeersToAdd(current, desired) == desired \ current

\* Mutant: the old form of a changed peer counts as gone.
ChangedToRemove(current, desired) == {p.ip : p \in current \ desired}

\* Only addresses that are no longer desired are removed.
PeersToRemove(current, desired) == {p.ip : p \in current} \ {p.ip : p \in desired}

----------------------------------------------------------------------------
\* --peer-router-*: ports out of range are dropped before lengths are compared,
\* and any mismatch drops all of the peers.
ZipPeers(flags) ==
    LET ports == SelectSeq(flags.ports, LAMBDA p : p <= MaxPort)
        n == Len(flags.ips)
    IN  IF \/ Len(flags.asns) # n
           \/ ports # <<>> /\ Len(ports) # n
           \/ flags.passwords # 0 /\ flags.passwords # n
        THEN <<>>
        ELSE [i \in 1..n |-> Neighbor(flags.ips[i], flags.asns[i], FALSE, NoNum,
                IF i <= Len(ports) /\ ports[i] # 0 THEN ports[i] ELSE DefaultBgpPort, TRUE)]

\* One entry without a valid address drops the whole annotation.
PeersAnnotation(entries) ==
    IF \E i \in DOMAIN entries : entries[i].ip = None THEN <<>>
    ELSE [i \in DOMAIN entries |-> Neighbor(entries[i].ip, entries[i].asn, FALSE, NoNum,
            IF entries[i].port \in 1..MaxPort THEN entries[i].port ELSE DefaultBgpPort, TRUE)]

ExternalPeers(cfg, node) == ZipPeers(cfg.flags) \o PeersAnnotation(node.peers)

----------------------------------------------------------------------------
VARIABLES
    bgCfg, bgStore,
    bgUp,         \* "down", "up", or "idle": the agent runs without a controller
    bgLocal,      \* cfg.local, read once when the agent starts
    bgCurrent,    \* current_peers of each controller
    bgDaemon,     \* neighbours of each gobgpd
    bgSeen,       \* the store that the last reconcile read, 0 before the first
    bgFailed,     \* a call has failed since the start
    bgChanges, bgFaults

bgNode == <<bgUp, bgLocal, bgCurrent, bgDaemon, bgSeen, bgFailed>>
bgVars == <<bgCfg, bgStore, bgNode, bgChanges, bgFaults>>

BgNodesAt == [w \in DOMAIN BgWorlds |-> BgNodes(BgWorlds[w])]
BgNames == UNION {{w[i].name : i \in DOMAIN w} : w \in Range(BgWorlds)}

\* Stores, annotations and flags are lists.
ASSUME BgLists ==
    /\ BgWorlds \in Seq(Range(BgWorlds))
    /\ \A w \in Range(BgWorlds) : \A node \in Range(w) : node.peers \in Seq(Range(node.peers))
    /\ \A cfg \in BgConfigs : cfg.flags.ips \in Seq(Range(cfg.flags.ips))

\* No two nodes of the cluster have the same address: it is the key of a peer.
ASSUME BgDistinct == \A w \in DOMAIN BgWorlds : \A a, b \in BgNodesAt[w] : a.ip = b.ip => a = b

BgInit ==
    /\ bgCfg \in BgConfigs /\ bgStore \in DOMAIN BgWorlds
    /\ bgUp = [n \in BgNames |-> "down"] /\ bgLocal = [n \in BgNames |-> NoNode]
    /\ bgCurrent = [n \in BgNames |-> {}] /\ bgDaemon = [n \in BgNames |-> {}]
    /\ bgSeen = [n \in BgNames |-> 0] /\ bgFailed = [n \in BgNames |-> FALSE]
    /\ bgChanges = 0 /\ bgFaults = 0

\* Nodes join, leave or are annotated.
BgStoreChange ==
    /\ bgChanges < BgMaxChanges
    /\ bgStore' \in DOMAIN BgWorlds \ {bgStore}
    /\ bgChanges' = bgChanges + 1
    /\ UNCHANGED <<bgCfg, bgNode, bgFaults>>

\* gobgpd's neighbours after AddPeer, which takes the place of one with that address.
AddPeers(daemon, peers) ==
    {p \in daemon : \A q \in peers : q.ip # p.ip} \cup peers
DeletePeers(daemon, ips) == {p \in daemon : p.ip \notin ips}

\* Why a call may fail: it was lost, or gobgpd refuses to overwrite a neighbour.
Unanswered == bgFaults < BgMaxFaults /\ bgFaults' = bgFaults + 1
Overwrites(daemon, peers) ==
    (\E p \in peers, q \in daemon : p.ip = q.ip) /\ bgFaults' = bgFaults

\* The neighbours of a new gobgpd after the first k external peers: of those with
\* one address, the last.
ApplyExternalPeers(external, k) ==
    {external[i] : i \in {j \in 1..k : \A l \in j + 1..k : external[l].ip # external[j].ip}}

\* The agent starts: a new gobgpd, the node's own attributes, then the external
\* peers in order, up to the first that fails.
BgStart(n) ==
    /\ bgUp[n] = "down"
    /\ LET local == LocalNode(BgWorlds[bgStore], n)
           external == ExternalPeers(bgCfg, FindNode(BgWorlds[bgStore], n))
       IN  IF local.ip = None
           THEN /\ bgUp' = [bgUp EXCEPT ![n] = "idle"]
                /\ UNCHANGED <<bgLocal, bgDaemon, bgFailed, bgFaults>>
           ELSE /\ bgUp' = [bgUp EXCEPT ![n] = "up"]
                /\ bgLocal' = [bgLocal EXCEPT ![n] = local]
                /\ \E k \in 0..Len(external) :
                      LET done == {external[i] : i \in 1..k}
                      IN  /\ IF k = Len(external) THEN UNCHANGED bgFaults
                             ELSE Unanswered \/ Overwrites(done, {external[k + 1]})
                          /\ bgDaemon' = [bgDaemon EXCEPT ![n] = ApplyExternalPeers(external, k)]
                          /\ bgFailed' = [bgFailed EXCEPT ![n] = k < Len(external)]
    /\ UNCHANGED <<bgCfg, bgStore, bgCurrent, bgSeen, bgChanges>>

\* A tick: the desired peers are remembered first, then added and removed in
\* gobgpd until a call fails.
BgReconcile(n) ==
    /\ bgUp[n] = "up"
    /\ LET desired == DeriveIbgpPeers(bgLocal[n], BgNodesAt[bgStore], bgCfg)
           add == PeersToAdd(bgCurrent[n], desired)
           remove == PeersToRemove(bgCurrent[n], desired)
       IN  /\ bgCurrent' = [bgCurrent EXCEPT ![n] = desired]
           /\ \E added \in SUBSET add, removed \in SUBSET remove :
                 /\ removed # {} => added = add
                 /\ IF added = add /\ removed = remove THEN UNCHANGED <<bgFailed, bgFaults>>
                    ELSE /\ bgFailed' = [bgFailed EXCEPT ![n] = TRUE]
                         /\ Unanswered \/ Overwrites(bgDaemon[n], add \ added)
                 /\ bgDaemon' = [bgDaemon EXCEPT ![n] = DeletePeers(AddPeers(@, added), removed)]
    /\ bgSeen' = [bgSeen EXCEPT ![n] = bgStore]
    /\ UNCHANGED <<bgCfg, bgStore, bgUp, bgLocal, bgChanges>>

\* The container is replaced, and gobgpd with it.
BgRestart(n) ==
    /\ bgUp[n] # "down" /\ bgFaults < BgMaxFaults
    /\ bgUp' = [bgUp EXCEPT ![n] = "down"] /\ bgLocal' = [bgLocal EXCEPT ![n] = NoNode]
    /\ bgCurrent' = [bgCurrent EXCEPT ![n] = {}] /\ bgDaemon' = [bgDaemon EXCEPT ![n] = {}]
    /\ bgSeen' = [bgSeen EXCEPT ![n] = 0] /\ bgFailed' = [bgFailed EXCEPT ![n] = FALSE]
    /\ bgFaults' = bgFaults + 1
    /\ UNCHANGED <<bgCfg, bgStore, bgChanges>>

BgNext == BgStoreChange \/ \E n \in BgNames : BgStart(n) \/ BgReconcile(n) \/ BgRestart(n)
BgSpec == BgInit /\ [][BgNext]_bgVars

----------------------------------------------------------------------------
\* current_peers is never compared with gobgpd (controller.rs:111-137), so it has
\* to stay equal to gobgpd's own list by itself: whatever nodes joined, left or
\* changed, while no call has failed, the neighbours are the remembered peers and
\* the external ones.
PeersInDaemon ==
    \A n \in BgNames : bgUp[n] = "up" /\ ~bgFailed[n] =>
        {p \in bgDaemon[n] : ~p.external} = bgCurrent[n]

\* Two daemons talk when each has the other as a neighbour, with the AS number
\* that gobgpd was started with: build_engine passes --cluster-asn.
PeerOf(n, m) ==
    {p \in bgDaemon[n] : p.ip = bgLocal[m].ip /\ p.asn = BgClusterAsn}
Session(n, m) == n # m /\ PeerOf(n, m) # {} /\ PeerOf(m, n) # {}
ReflectsFor(n, m) == \E p \in PeerOf(n, m) : p.rrClient

\* Who learns a prefix of n: its neighbours, and those a reflector tells.
Learn(n) ==
    LET up == {m \in BgNames : bgUp[m] = "up"}
        direct == {m \in up : Session(n, m)}
    IN  direct \cup {k \in up : \E m \in direct :
                        Session(m, k) /\ (ReflectsFor(m, n) \/ ReflectsFor(m, k))}

\* Every node has started with, and reconciled against, the present Node objects.
BgSettled ==
    LET present == BgNodesAt[bgStore]
    IN  /\ bgCfg.ibgp /\ \A o \in present : o.asn = BgClusterAsn
        /\ (\E o \in present : o.rrClient # NoNum) => \E o \in present : o.rrServer # NoNum
        /\ \A o \in present : /\ bgUp[o.name] = "up" /\ ~bgFailed[o.name]
                              /\ bgLocal[o.name] = o /\ bgSeen[o.name] = bgStore

\* The point of the peer rules (peers.rs:42-94): with or without reflectors, once
\* the nodes have settled, each node's prefixes reach every other node, by a
\* session or by one reflector.
AllNodesLearn ==
    BgSettled => \A o, p \in BgNodesAt[bgStore] : p.name \in Learn(o.name) \cup {o.name}
============================================================================
