---------------------------- MODULE VipAdvertise ----------------------------
(***************************************************************************)
(* Which addresses a node announces over BGP, and whether it serves them:   *)
(* map_svc_vips and advertised_service_vips, the Advertiser and the task    *)
(* that drives it, the pod CIDRs announced once at the start, and the       *)
(* export policy of the node's annotations.  The service proxy is the other *)
(* reader of the same Services: its passes are those of ServiceSync, here   *)
(* one step that leaves the IPVS services of SvcModel.                      *)
(***************************************************************************)
EXTENDS SvcModel

CONSTANTS
    AdNode,        \* this node
    AdNextHop,     \* its address, IPv4 if it has one
    AdPodCidrs,    \* its pod CIDRs
    AdWorlds,      \* function: name -> contents of the Service and EndpointSlice stores
    AdConfigs,     \* flags, and the BGP policy annotations of the node
    AdMaxChanges,  \* bound on changes of the stores
    AdMaxFaults    \* bound on failed calls and restarts

----------------------------------------------------------------------------
\* Mutant: endpoints that are not ready count.
AnyLocalEndpoint(svc, slices) ==
    \E sl \in SlicesOf(svc, slices) : \E ep \in Range(sl.endpoints) : ep.node = AdNode

HasLocalEndpoints(svc, slices) ==
    \E sl \in SlicesOf(svc, slices) : \E ep \in Range(sl.endpoints) : ep.node = AdNode /\ IsReady(ep)

\* A per-service annotation overrides the flag; Local needs a local endpoint.
ShouldAdvertise(default, ann, localPolicy, hasLocal) ==
    (IF ann = "unset" THEN default ELSE ann = "true") /\ (localPolicy => hasLocal)

\* The host routes of one Service.  service.local counts for the external policy only.
AdvertisedVips(svc, slices, defaults) ==
    LET hasLocal == HasLocalEndpoints(svc, slices)
        externalLocal == svc.localAnn \/ svc.externalPolicy = "Local"
        when(cond, ips) == IF cond THEN Range(ips) ELSE {}
    IN  IF svc.type = "ExternalName" THEN {}
        ELSE when(ShouldAdvertise(defaults.cluster, svc.advCluster, svc.internalPolicy = "Local", hasLocal),
                  ClusterIps(svc))
             \cup when(ShouldAdvertise(defaults.external, svc.advExternal, externalLocal, hasLocal),
                       svc.externalIps)
             \cup when(~svc.skipLbIps
                       /\ ShouldAdvertise(defaults.loadbalancer, svc.advLb, externalLocal, hasLocal),
                       svc.lbIps)

AdvertisedServiceVips(world, defaults) ==
    UNION {AdvertisedVips(svc, world.slices, defaults) : svc \in Range(world.services)}

\* VIPs are announced as host routes and pod CIDRs as networks: no prefix is both.
ASSUME AdPrefixes ==
    \A w \in DOMAIN AdWorlds, cfg \in AdConfigs :
        AdvertisedServiceVips(AdWorlds[w], cfg.defaults) \cap AdPodCidrs = {}

\* The API server's lists are finite, a slice names each of its ports once, an
\* endpoint has an address.
ASSUME AdLists ==
    /\ \A cfg \in AdConfigs : IsList(cfg.nodeIps)
    /\ \A w \in DOMAIN AdWorlds :
        /\ IsList(AdWorlds[w].services)
        /\ \A svc \in Range(AdWorlds[w].services) :
              \A list \in {svc.ports, svc.clusterIps, svc.clusterIp, svc.externalIps, svc.lbIps} : IsList(list)
ASSUME AdSlices ==
    \A w \in DOMAIN AdWorlds : \A sl \in Range(AdWorlds[w].slices) :
        /\ IsList(sl.ports) /\ \A i, j \in DOMAIN sl.ports : sl.ports[i].name = sl.ports[j].name => i = j
        /\ \A ep \in Range(sl.endpoints) : ep.addresses # {}

\* An address and port belongs to one Service, and is not both its ClusterIP and an
\* external address: the later insertion would replace the earlier.
ASSUME AdAddresses ==
    \A w \in DOMAIN AdWorlds :
        /\ \A svc \in Range(AdWorlds[w].services) :
              Range(ClusterIps(svc)) \cap (Range(svc.externalIps) \cup Range(svc.lbIps)) = {}
        /\ \A cfg \in AdConfigs :
              LET all == Insertions(MapServices(AdWorlds[w], AdNode), cfg)
              IN  \A i, j \in DOMAIN all : all[i].key = all[j].key => all[i] = all[j]

----------------------------------------------------------------------------
Invalid == -2
\* asn:value as one number; each half has 16 bits.
ParseCommunity(c) ==
    IF c.hi = NoPort THEN c.lo
    ELSE IF ParseU16(c.hi) = NoPort \/ ParseU16(c.lo) = NoPort THEN Invalid
    ELSE c.hi * 65536 + c.lo

NoPolicy == [communities |-> {}, prepend |-> <<>>, reject |-> {}]

\* One value that does not parse drops the whole policy, import filter included.
PolicyFromAnnotations(ann) ==
    LET communities == {ParseCommunity(c) : c \in ann.communities}
        repeat == IF ann.repeat = NoPort THEN 1 ELSE ann.repeat
    IN  IF Invalid \in communities \/ ann.asn = Invalid \/ (ann.asn # NoPort /\ repeat = Invalid) THEN NoPolicy
        ELSE [communities |-> communities,
              prepend |-> IF ann.asn # NoPort /\ repeat > 0 THEN <<ann.asn, repeat>> ELSE <<>>,
              reject |-> ann.reject]

\* A path: the next hop travels in the attribute of the prefix's family.
BuildPath(prefix, policy) ==
    [prefix |-> prefix, afi |-> prefix[1], nextHop |-> AdNextHop,
     communities |-> policy.communities, prepend |-> policy.prepend]

----------------------------------------------------------------------------
VARIABLES
    adCfg, adStore,
    adPolicy,      \* BGP policy, read at the start
    adAdvertised,  \* Advertiser::advertised of the VIP task
    adRib,         \* paths that gobgpd holds from this node
    adIpvs,        \* IPVS services of the node
    adPodsDone,    \* the start announced every pod CIDR
    adPending,     \* what a failed sync wanted, or <<>>
    adFlapped,     \* a failed sync was followed by one that wanted something else
    adSeen,        \* whether the VIP task and the proxy have seen the present store
    adChanges, adFaults

adVars == <<adCfg, adStore, adPolicy, adAdvertised, adRib, adIpvs, adPodsDone, adPending,
            adFlapped, adSeen, adChanges, adFaults>>

AddPaths(rib, prefixes, policy) ==
    {p \in rib : p.prefix \notin prefixes} \cup {BuildPath(x, policy) : x \in prefixes}
DeletePaths(rib, prefixes) == {p \in rib : p.prefix \notin prefixes}

\* The pod CIDRs that the flags let the node announce.
PodPrefixes(cfg) == IF cfg.advertisePods THEN AdPodCidrs ELSE {}

\* The agent starts with a new gobgpd: the pod CIDRs are announced, without the
\* policy's attributes, up to the first call that fails, and never again.
AdStarted(cfg, pods) ==
    /\ adPolicy' = PolicyFromAnnotations(cfg.policy)
    /\ adRib' = AddPaths({}, pods, NoPolicy)
    /\ adPodsDone' = (pods = PodPrefixes(cfg))
    /\ adAdvertised' = {} /\ adPending' = <<>> /\ adFlapped' = FALSE /\ adSeen' = {}

AdInit ==
    /\ adCfg \in AdConfigs /\ adStore \in DOMAIN AdWorlds
    /\ adPolicy = PolicyFromAnnotations(adCfg.policy)
    /\ adPodsDone = TRUE
    /\ adRib = AddPaths({}, PodPrefixes(adCfg), NoPolicy)
    /\ adAdvertised = {} /\ adIpvs = << >> /\ adPending = <<>> /\ adFlapped = FALSE /\ adSeen = {}
    /\ adChanges = 0 /\ adFaults = 0

AdRestart ==
    /\ adFaults < AdMaxFaults /\ adFaults' = adFaults + 1
    /\ \E pods \in SUBSET PodPrefixes(adCfg) : AdStarted(adCfg, pods)
    /\ UNCHANGED <<adCfg, adStore, adIpvs, adChanges>>

AdStoreChange ==
    /\ adChanges < AdMaxChanges /\ adChanges' = adChanges + 1
    /\ adStore' \in DOMAIN AdWorlds \ {adStore}
    /\ adSeen' = {}
    /\ UNCHANGED <<adCfg, adPolicy, adAdvertised, adRib, adIpvs, adPodsDone, adPending, adFlapped, adFaults>>

\* A pass of the service proxy without failures.
AdProxyPass ==
    /\ adIpvs' = Desired(MapServices(AdWorlds[adStore], AdNode), adCfg)
    /\ adSeen' = adSeen \cup {"proxy"}
    /\ UNCHANGED <<adCfg, adStore, adPolicy, adAdvertised, adRib, adPodsDone, adPending, adFlapped,
                   adChanges, adFaults>>

\* Mutant: what is wanted is remembered before the calls.
RememberFirst(desired, complete) == adAdvertised' = desired

\* What has been announced is remembered only when every call has succeeded.
RememberLast(desired, complete) == adAdvertised' = IF complete THEN desired ELSE adAdvertised

\* A tick of the VIP task: announce, then withdraw, up to the first call that fails.
AdSync ==
    /\ adCfg.defaults.cluster \/ adCfg.defaults.external \/ adCfg.defaults.loadbalancer
    /\ LET desired == AdvertisedServiceVips(AdWorlds[adStore], adCfg.defaults)
           add == desired \ adAdvertised
           withdraw == adAdvertised \ desired
       IN  \E added \in SUBSET add, withdrawn \in SUBSET withdraw :
              /\ withdrawn # {} => added = add
              /\ LET complete == added = add /\ withdrawn = withdraw
                 IN  /\ complete \/ adFaults < AdMaxFaults
                     /\ adFaults' = IF complete THEN adFaults ELSE adFaults + 1
                     /\ RememberLast(desired, complete)
                     /\ adPending' = IF complete THEN <<>> ELSE <<desired>>
                     /\ adFlapped' = (adFlapped \/ (adPending # <<>> /\ adPending # <<desired>>))
                     /\ adSeen' = IF complete THEN adSeen \cup {"vips"} ELSE adSeen \ {"vips"}
              /\ adRib' = DeletePaths(AddPaths(adRib, added, adPolicy), withdrawn)
    /\ UNCHANGED <<adCfg, adStore, adPolicy, adIpvs, adPodsDone, adChanges>>

AdNext == AdRestart \/ AdStoreChange \/ AdProxyPass \/ AdSync
AdSpec == AdInit /\ [][AdNext]_adVars

----------------------------------------------------------------------------
\* Advertiser::advertised is all that the node knows of gobgpd's table
\* (advertise.rs:46-76).  Whatever calls failed, a retry that wants the same makes
\* the table exact again: the remembered VIPs and the pod CIDRs, each with the
\* attributes of its advertiser, and no path that nobody would withdraw.
RibIsKnown ==
    adPending = <<>> /\ ~adFlapped /\ adPodsDone =>
        adRib = {BuildPath(x, adPolicy) : x \in adAdvertised}
                \cup {BuildPath(x, NoPolicy) : x \in PodPrefixes(adCfg)}

\* Services whose addresses the two readers of the stores judge alike: not
\* headless, without service.local on a ClusterIP, with endpoints behind each port.
JudgedAlike(svc) ==
    /\ ClusterIps(svc) # <<>> /\ ~svc.localAnn /\ ~adCfg.strict
    /\ \A i \in DOMAIN svc.ports : ParseU16(svc.ports[i].port) # NoPort
    /\ \A sl \in SlicesOf(svc, AdWorlds[adStore].slices) : \A i \in DOMAIN svc.ports :
          \E j \in DOMAIN sl.ports : sl.ports[j].name = svc.ports[i].name /\ ParseU16(sl.ports[j].port) # NoPort

\* Traffic that a peer sends here for an announced address is answered here: once
\* both readers (svc_vip_wire.rs:45-114 and proxy_wire.rs:89-211) have seen the
\* present stores, each announced VIP has an IPVS service, with a destination when
\* the Local policy forbids to forward to other nodes.
AdvertisedIsServed ==
    adSeen = {"vips", "proxy"} /\ ~adFlapped =>
        \A svc \in Range(AdWorlds[adStore].services) : JudgedAlike(svc) =>
            \A ip \in AdvertisedVips(svc, AdWorlds[adStore].slices, adCfg.defaults) :
                \/ adCfg.dsr /\ svc.dsr /\ ip \notin Range(ClusterIps(svc))
                \/ \A i \in DOMAIN svc.ports :
                      LET key == <<ip, ParseProtocol(svc.ports[i].proto), svc.ports[i].port>>
                          isLocal == IF ip \in Range(ClusterIps(svc)) THEN svc.internalPolicy = "Local"
                                     ELSE svc.externalPolicy = "Local"
                      IN  /\ BuildPath(ip, adPolicy) \in adRib
                          /\ key \in DOMAIN adIpvs
                          /\ isLocal => adIpvs[key].dests # {}
============================================================================
