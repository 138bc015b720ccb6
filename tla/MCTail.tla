------------------------------- MODULE MCTail -------------------------------
EXTENDS ProxyTail, MCVip
WebT == [Web EXCEPT !.hcPort = 32000, !.hairpin = TRUE, !.externalIps = <<>>]
DsrT == [Dsr EXCEPT !.hcPort = 32001, !.hairpinExternal = TRUE]
Dsr2 == [DsrT EXCEPT !.name = "dsr2", !.clusterIp = <<Ip(4)>>, !.externalIps = <<Ip(24)>>, !.lbIps = <<<<6, 24>>>>, !.hcPort = NoPort]
PtWorldSet == [
    one |-> [services |-> <<WebT, DsrT>>, slices |-> <<Here("web", 50), Here("dsr", 70)>>],
    two |-> [services |-> <<Dsr2, DsrT, WebT>>, slices |-> <<There("web", 50), Here("dsr", 72), Here("dsr2", 74)>>] ]
PtCfg(all, permit, hairpin) ==
    [cluster |-> {}, external |-> {}, loadbalancer |-> {}, strict |-> FALSE, dsr |-> TRUE,
     nodePorts |-> {}, nodeIps |-> <<Ip(100)>>, hairpin |-> hairpin, masqueradeAll |-> all, permitAll |-> permit]
PtCfgs == {PtCfg(TRUE, FALSE, FALSE), PtCfg(FALSE, TRUE, TRUE)}
Locals == {Ip(100)}
Keys4 == {<<Ip(23), "TCP", 80>>, <<Ip(24), "TCP", 80>>, <<<<6, 24>>, "TCP", 80>>}
Hash4 == [p \in Keys4 \X (0..2) |-> IF p[2] = 0 THEN 1 ELSE p[2] + 1]
Packets4 == {<<Ip(1), "TCP", 80>>, <<Ip(1), "TCP", 81>>, <<Ip(100), "TCP", 22>>, <<Ip(100), "TCP", 30000>>, <<Ip(31), "UDP", 80>>}
PodC4 == {Ip(200), <<6, 200>>}
============================================================================
