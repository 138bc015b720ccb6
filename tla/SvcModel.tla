------------------------------ MODULE SvcModel ------------------------------
(***************************************************************************)
(* What the agent makes of Services and EndpointSlices: map_services of     *)
(* proxy_wire.rs and the part of ServiceSync::reconcile_inner that computes *)
(* the desired IPVS services and the DSR jobs.                              *)
(*                                                                          *)
(* An address is <<family, number>>, a range a set of addresses.  A Service *)
(* and an EndpointSlice are records with the fields that the code reads;    *)
(* NoPort stands for an optional number that is not there.                  *)
(***************************************************************************)
EXTENDS Integers, Lists

NoPort == -1
MaxU16 == 65535
DefaultAffinity == 10800

ParseU16(n) == IF n \in 0..MaxU16 THEN n ELSE NoPort

\* Unknown schedulers are round robin; only Maglev takes flags.
ParseScheduler(text) == IF text \in {"lc", "sh", "dh", "mh"} THEN text ELSE "rr"
ParseSchedFlags(sched, flags) == IF sched = "mh" THEN flags \cap {"flag-1", "flag-2", "flag-3"} ELSE {}
ParseProtocol(text) == IF text \in {"UDP", "SCTP"} THEN text ELSE "TCP"

SlicesOf(svc, slices) ==
    {sl \in Range(slices) : sl.ns = svc.ns /\ sl.service = svc.name}

\* An endpoint without the condition counts as ready.
IsReady(ep) == ep.ready # "no"

\* endpoints_for: the port of the slice with the Service port's name.
EndpointsFor(svc, portName, slices, node) ==
    UNION {LET named == Filter(sl.ports, LAMBDA p : p.name = portName)
               port == IF named = <<>> THEN NoPort ELSE ParseU16(named[1].port)
           IN  IF port = NoPort THEN {}
               ELSE UNION {{[ip |-> ip, port |-> port, local |-> ep.node = node, ready |-> IsReady(ep)] :
                               ip \in ep.addresses} : ep \in Range(sl.endpoints)}
           : sl \in SlicesOf(svc, slices)}

\* clusterIPs, or else clusterIP, without "None" (an empty sequence is headless).
ClusterIps(svc) == IF svc.clusterIps # <<>> THEN svc.clusterIps ELSE svc.clusterIp

ServiceInfo(svc, sp) ==
    LET sched == ParseScheduler(svc.sched)
    IN  [ns |-> svc.ns, name |-> svc.name, portName |-> sp.name,
         proto |-> ParseProtocol(sp.proto), port |-> sp.port, nodePort |-> ParseU16(sp.nodePort),
         clusterIps |-> ClusterIps(svc), externalIps |-> svc.externalIps, lbIps |-> svc.lbIps,
         conf |-> [sched |-> sched, flags |-> ParseSchedFlags(sched, svc.schedFlags),
                   persistent |-> IF ~svc.clientIp THEN NoPort
                                  ELSE IF svc.timeout = NoPort THEN DefaultAffinity ELSE svc.timeout],
         dsr |-> svc.dsr, hairpin |-> svc.hairpin, hairpinExternal |-> svc.hairpinExternal,
         internalLocal |-> svc.localAnn \/ svc.internalPolicy = "Local",
         externalLocal |-> svc.localAnn \/ svc.externalPolicy = "Local",
         hcPort |-> ParseU16(svc.hcPort)]

\* map_services: one entry per Service port with a valid number, none for
\* ExternalName and headless Services.
MapServices(world, node) ==
    LET entries(svc) ==
            LET ports == Filter(svc.ports, LAMBDA sp : ParseU16(sp.port) # NoPort)
            IN  [i \in DOMAIN ports |->
                    [info |-> ServiceInfo(svc, ports[i]),
                     eps |-> EndpointsFor(svc, ports[i].name, world.slices, node)]]
        mapped(svc) == svc.type # "ExternalName" /\ ClusterIps(svc) # <<>>
    IN  FlattenSeq([i \in DOMAIN world.services |->
            IF mapped(world.services[i]) THEN entries(world.services[i]) ELSE <<>>])

----------------------------------------------------------------------------
\* Only strict validation looks at the ranges.
ValidateExternalIp(ip, allowed, cluster, strict) == strict => ip \notin cluster /\ ip \in allowed

\* Ready endpoints, and under a Local policy only those of this node.
Dests(entry, localOnly) ==
    {[ip |-> e.ip, port |-> e.port, tunnel |-> entry.info.dsr] :
        e \in {x \in entry.eps : x.ready /\ (localOnly => x.local)}}

\* External and LoadBalancer addresses that pass validation.
ExternalVips(entry, cfg) ==
    Filter(entry.info.externalIps, LAMBDA ip : ValidateExternalIp(ip, cfg.external, cfg.cluster, cfg.strict))
    \o Filter(entry.info.lbIps, LAMBDA ip : ValidateExternalIp(ip, cfg.loadbalancer, cfg.cluster, cfg.strict))

\* Those of a DSR service go to the FWMARK path, if there is one.
TakesFwmark(entry, cfg) == cfg.dsr /\ entry.info.dsr

\* The IPVS services of one entry, in the order of their insertion.
IpvsServices(entry, cfg) ==
    LET info == entry.info
        at(ip, port, localOnly) ==
            [key |-> <<ip, info.proto, port>>, conf |-> info.conf, of |-> <<info.ns, info.name>>,
             dests |-> Dests(entry, localOnly)]
        vips(ips, localOnly) == [i \in DOMAIN ips |-> at(ips[i], info.port, localOnly)]
        nodePort == /\ info.nodePort # NoPort
                    /\ cfg.nodePorts = {} \/ info.nodePort \in cfg.nodePorts
                    /\ ~(info.externalLocal /\ Dests(entry, TRUE) = {})
    IN  vips(info.clusterIps, info.internalLocal)
        \o (IF TakesFwmark(entry, cfg) THEN <<>> ELSE vips(ExternalVips(entry, cfg), info.externalLocal))
        \o (IF nodePort
            THEN [i \in DOMAIN cfg.nodeIps |-> at(cfg.nodeIps[i], info.nodePort, info.externalLocal)]
            ELSE <<>>)

\* The insertions of a pass.
Insertions(entries, cfg) == FlattenSeq([i \in DOMAIN entries |-> IpvsServices(entries[i], cfg)])

\* Of two with one key the later stays.
Desired(entries, cfg) ==
    LET all == Insertions(entries, cfg)
        last(k) == CHOOSE i \in DOMAIN all :
                      all[i].key = k /\ \A j \in DOMAIN all : all[j].key = k => j <= i
    IN  [k \in {all[i].key : i \in DOMAIN all} |-> all[last(k)]]

\* The DSR jobs of a pass: one per entry with addresses on the FWMARK path.  All
\* of the endpoints go along, whatever the traffic policy.
DsrJobs(entries, cfg) ==
    LET jobs == [i \in DOMAIN entries |->
            [vips |-> ExternalVips(entries[i], cfg), proto |-> entries[i].info.proto,
             port |-> entries[i].info.port, eps |-> entries[i].eps, conf |-> entries[i].info.conf,
             on |-> TakesFwmark(entries[i], cfg)]]
    IN  Filter(jobs, LAMBDA j : j.on /\ j.vips # <<>>)
============================================================================
