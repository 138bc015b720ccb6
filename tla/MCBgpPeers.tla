----------------------------- MODULE MCBgpPeers -----------------------------
EXTENDS BgpPeers
In(ip) == <<[kind |-> "Hostname", fam |-> 4, ip |-> "h"], [kind |-> "ExternalIP", fam |-> 4, ip |-> "x"],
            [kind |-> "InternalIP", fam |-> 4, ip |-> ip]>>
Out6(ip) == <<[kind |-> "ExternalIP", fam |-> 6, ip |-> ip]>>
Node(name, addrs, asn, server, client, peers) ==
    [name |-> name, addresses |-> addrs, asn |-> asn, rrServer |-> server, rrClient |-> client, peers |-> peers]
Plain(name) == Node(name, In(name), NoNum, NoNum, NoNum, <<>>)
Server(name, id) == Node(name, In(name), BgClusterAsn, id, NoNum, <<>>)
Client(name, id) == Node(name, Out6(name), NotNum, NoNum, id, <<>>)
Mixed(name, peers) == Node(name, In(name), NoNum, NotNum, NoNum, peers)
Entry(ip, port) == [ip |-> ip, asn |-> 9, port |-> port]

BgWorldSet == <<
    <<Plain("a"), Plain("b"), Mixed("c", <<Entry("r", 70000)>>)>>,
    <<Server("a", 1), Client("b", 2), Plain("c")>>,
    <<Server("a", 1), Server("b", 1), Client("c", 1)>>,
    <<Client("a", 1), Plain("b"), Node("c", <<>>, NoNum, NoNum, NoNum, <<>>)>>,
    <<Plain("a"), Node("b", In("b"), 7, NoNum, NoNum, <<Entry(None, 0)>>)>> >>

Flags(ips, asns, ports) == [ips |-> ips, asns |-> asns, ports |-> ports, passwords |-> 0]
BgCfgs == {
    [mesh |-> TRUE, ibgp |-> TRUE, flags |-> Flags(<<"r">>, <<9>>, <<1179>>)],
    [mesh |-> FALSE, ibgp |-> TRUE, flags |-> Flags(<<"r", "s">>, <<9, 9>>, <<0, 70000>>)] }
=============================================================================
