------------------------------ MODULE MCNetPol ------------------------------
(***************************************************************************)
(* Worlds and flows for NetPol: three pods in two namespaces, two of them   *)
(* on this node.                                                            *)
(***************************************************************************)
EXTENDS NetPol

A(n) == <<4, n>>
Node4 == {<<4, 1>>, <<6, 1>>}
PodCidrs4 == {A(n) : n \in 10..13} \cup {<<6, 10>>, <<6, 11>>}
Services4 == {A(40)}

Lab(k, v) == [x \in {k} |-> v]
NoLabels == << >>
Sel(labels) == [labels |-> labels, exprs |-> <<>>]
Expr(key, op, values) == [labels |-> NoLabels, exprs |-> <<[key |-> key, op |-> op, values |-> values]>>]
Everything == Sel(NoLabels)
PodPeer(sel) == [kind |-> "sel", nsSel |-> <<>>, podSel |-> <<sel>>]
NsPeer(ns, sel) == [kind |-> "sel", nsSel |-> <<ns>>, podSel |-> <<sel>>]
Cidr(ips) == [ok |-> TRUE, whole |-> FALSE, fam |-> 4, ips |-> ips]
Block(c, except) == [kind |-> "block", cidr |-> c, except |-> except]
Port(kind, v) == [proto |-> "", port |-> [kind |-> kind, v |-> v]]
Rule(peers, ports) == [peers |-> peers, ports |-> ports]
Policy(name, sel, types, ingress, egress) ==
    [ns |-> <<"n">>, name |-> name, podSel |-> sel, types |-> types, ingress |-> ingress, egress |-> egress]
Pod(ns, name, labels, ips, node, ports) ==
    [ns |-> ns, name |-> name, labels |-> labels, ips |-> ips, node |-> node, hostNet |-> FALSE, ports |-> ports]
Exposes(name, n) == <<[name |-> name, proto |-> "", port |-> n]>>

Spaces == <<[name |-> <<"n">>, labels |-> NoLabels], [name |-> <<"m">>, labels |-> Lab("team", "y")]>>

\* a and b are on this node, c is elsewhere.
PodsWith(la, lb, lc) ==
    <<Pod(<<"n">>, <<"a">>, la, <<A(10), <<6, 10>>>>, "here", <<>>),
      Pod(<<"n">>, <<"b">>, lb, <<A(11)>>, "here", Exposes("web", 80)),
      Pod(<<"m">>, <<"c">>, lc, <<A(20)>>, "there", Exposes("web", 81))>>
App(v) == Lab("app", v)

\* Named and numbered ports, blocks with exceptions, one direction each.
NamedWorld ==
    [policies |-> <<
        Policy(<<"p">>, Expr("app", "In", {"b"}), {},
               <<Rule(<<NsPeer(Expr("team", "Exists", {}), Everything), PodPeer(Expr("app", "NotIn", {"b"}))>>,
                      <<Port("name", "web")>>)>>, <<>>),
        Policy(<<"q">>, Sel(App("a")), {"Egress"}, <<>>,
               <<Rule(<<Block(Cidr({A(30), A(31)}), <<Cidr({A(31)})>>)>>, <<>>),
                 Rule(<<PodPeer(Everything)>>, <<Port("number", 80)>>),
                 Rule(<<NsPeer(Everything, Everything)>>, <<Port("name", "web")>>)>>)>>,
     pods |-> PodsWith(App("a"), App("b"), App("c")),
     namespaces |-> Spaces]

\* b is closed; a policy opens pods labelled s to pods labelled p, and another,
\* for both directions, governs a alone.
ClosedWorld(lb, lc) ==
    [policies |-> <<
        Policy(<<"r">>, Sel(App("b")), {"Ingress"}, <<>>, <<>>),
        Policy(<<"s">>, Sel(Lab("role", "s")), {"Ingress"},
               <<Rule(<<NsPeer(Everything, Sel(Lab("role", "p")))>>, <<>>)>>, <<>>),
        Policy(<<"t">>, Sel(App("a")), {}, <<Rule(<<Block(Cidr({A(12), A(30)}), <<>>)>>, <<Port("all", 0)>>)>>,
               <<Rule(<<>>, <<Port("number", 81)>>)>>)>>,
     pods |-> PodsWith([app |-> "a", role |-> "p"], [app |-> "b", role |-> lb], Lab("role", lc)),
     namespaces |-> Spaces]

\* An ipBlock that is the whole address space, in a policy for one pod.
WholeWorld ==
    [policies |-> <<Policy(<<"r">>, Sel(App("b")), {"Ingress"},
        <<Rule(<<Block([Cidr({A(n) : n \in 1..40}) EXCEPT !.whole = TRUE], <<>>)>>, <<>>)>>, <<>>)>>,
     pods |-> PodsWith(App("a"), App("b"), App("c")), namespaces |-> Spaces]

\* Two named ports in one rule, exposed by different pods.
TwoNamesWorld ==
    [policies |-> <<Policy(<<"r">>, Everything, {"Ingress"},
        <<Rule(<<>>, <<Port("name", "web"), Port("name", "adm")>>)>>, <<>>)>>,
     pods |-> <<Pod(<<"n">>, <<"a">>, App("a"), <<A(10)>>, "here", Exposes("web", 80)),
                Pod(<<"n">>, <<"b">>, App("b"), <<A(11)>>, "here", Exposes("adm", 81))>>,
     namespaces |-> Spaces]

PassWorlds == [named |-> NamedWorld, before |-> ClosedWorld("s", "x"), after |-> ClosedWorld("x", "p"),
               whole |-> WholeWorld]
NamesWorlds == [two |-> TwoNamesWorld]

Packet(src, dst, dport) ==
    [src |-> src, dst |-> dst, proto |-> "tcp", dport |-> dport, ct |-> "new", bridged |-> FALSE]
Direct(hook, p) == [packet |-> p, hops |-> <<[hook |-> hook, dst |-> p.dst, dport |-> p.dport]>>]
ViaService(vip, port, p) ==
    [packet |-> p, hops |-> <<[hook |-> Input, dst |-> vip, dport |-> port],
                              [hook |-> Output, dst |-> p.dst, dport |-> p.dport]>>]

NewFlows ==
    {Direct(Forward, Packet(s, A(11), 80)) : s \in {A(10), A(20), A(30)}}
    \cup {Direct(Forward, Packet(A(10), d, 81)) : d \in {A(20), A(30), A(31)}}
    \cup {Direct(Forward, [Packet(A(10), A(11), 81) EXCEPT !.bridged = TRUE]),
          Direct(Output, Packet(A(1), A(11), 82)),
          Direct(Forward, Packet(A(30), A(13), 80)), Direct(Forward, Packet(A(12), A(10), 80)),
          Direct(Forward, Packet(<<6, 30>>, <<6, 10>>, 80)), Direct(Forward, Packet(<<6, 30>>, <<6, 11>>, 80)),
          ViaService(A(40), 80, Packet(A(10), A(11), 80)),
          ViaService(A(1), 3, Packet(A(30), A(11), 80))}
    \cup {Direct(Input, Packet(A(12), A(1), p)) : p \in {3, 80}}
OtherFlows ==
    {Direct(Forward, [Packet(A(30), A(11), 82) EXCEPT !.ct = "est"]),
     Direct(Forward, [Packet(A(20), A(11), 80) EXCEPT !.ct = "invalid"]),
     Direct(Forward, [Packet(A(30), A(11), 82) EXCEPT !.proto = "icmp"])}
Flows4 == NewFlows \cup OtherFlows
NameFlows == {Direct(Forward, Packet(A(30), d, p)) : d \in {A(10), A(11)}, p \in {80, 81}}
NodePorts4 == <<2, 9>>

\* The hypotheses of the theorems about NetPol, for these worlds and flows.
ASSUME TranslationExact
ASSUME OrderTight
=============================================================================
