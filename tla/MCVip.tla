------------------------------- MODULE MCVip -------------------------------
EXTENDS VipAdvertise
Ip(n) == <<4, n>>
NodePortOf == [web |-> 30000, dns |-> 30001, dsr |-> 30002, ext |-> 30003]
Svc(name, cluster, external, lb) ==
    [ns |-> "n", name |-> name, type |-> "ClusterIP", clusterIps |-> cluster, clusterIp |-> <<>>,
     externalIps |-> external, lbIps |-> lb, sched |-> "none", schedFlags |-> {}, clientIp |-> FALSE,
     timeout |-> NoPort, dsr |-> FALSE, hairpin |-> FALSE, hairpinExternal |-> FALSE, localAnn |-> FALSE,
     internalPolicy |-> "Cluster", externalPolicy |-> "Cluster", hcPort |-> NoPort,
     advCluster |-> "unset", advExternal |-> "unset", advLb |-> "unset", skipLbIps |-> FALSE,
     ports |-> <<[name |-> "http", proto |-> "TCP", port |-> 80, nodePort |-> NodePortOf[name]]>>]
Slice(svc, eps) == [ns |-> "n", service |-> svc, ports |-> <<[name |-> "http", port |-> 8080]>>, endpoints |-> eps]
Ep(n, node, ready) == [addresses |-> {Ip(n)}, node |-> node, ready |-> ready]
Web == [Svc("web", <<Ip(1)>>, <<Ip(21)>>, <<Ip(31)>>) EXCEPT !.externalPolicy = "Local", !.clientIp = TRUE]
Dns == [Svc("dns", <<Ip(2), <<6, 2>>>>, <<>>, <<Ip(32)>>) EXCEPT
            !.internalPolicy = "Local", !.advCluster = "true", !.sched = "mh", !.schedFlags = {"flag-1", "x"}]
Dsr == [Svc("dsr", <<>>, <<Ip(23)>>, <<>>) EXCEPT !.clusterIp = <<Ip(3)>>, !.dsr = TRUE, !.advCluster = "false"]
Ext == [Svc("ext", <<>>, <<>>, <<>>) EXCEPT !.type = "ExternalName"]
Here(svc, n) == Slice(svc, <<Ep(n, "here", "unset"), Ep(n + 1, "there", "yes")>>)
There(svc, n) == Slice(svc, <<Ep(n, "here", "no"), Ep(n + 1, "there", "yes")>>)
AdWorldSet == <<
    [services |-> <<Web, Dns, Ext>>, slices |-> <<Here("web", 50), There("dns", 60)>>],
    [services |-> <<Web, Dns, Dsr>>, slices |-> <<There("web", 50), Here("dns", 60), Here("dsr", 70)>>],
    [services |-> <<Dns>>, slices |-> <<Slice("dns", <<>>)>>] >>
AdCfg(cluster, external, lb, strict, dsr, pods, pol) ==
    [defaults |-> [cluster |-> cluster, external |-> external, loadbalancer |-> lb],
     cluster |-> {Ip(1), Ip(2), Ip(3)}, external |-> {Ip(21)}, loadbalancer |-> {}, strict |-> strict, dsr |-> dsr,
     nodePorts |-> {30000, 30001}, nodeIps |-> <<Ip(100)>>, advertisePods |-> pods, policy |-> pol]
Pol(cs, asn, rep) == [communities |-> cs, asn |-> asn, repeat |-> rep, reject |-> {Ip(77)}]
AdCfgs == {
    AdCfg(TRUE, TRUE, TRUE, FALSE, TRUE, TRUE, Pol({[hi |-> 1, lo |-> 2]}, 7, NoPort)),
    AdCfg(FALSE, TRUE, FALSE, TRUE, FALSE, TRUE, Pol({[hi |-> 70000, lo |-> 2]}, NoPort, NoPort)),
    AdCfg(FALSE, FALSE, FALSE, FALSE, FALSE, FALSE, Pol({}, NoPort, NoPort)) }
PodC == {Ip(200), <<6, 200>>}
NH == Ip(100)
============================================================================
