------------------------------ MODULE MCAgent ------------------------------
EXTENDS Agent
AgCfg(run, p, inj, gobgpd, known) ==
    [run |-> run, families |-> {4, 6}, wellFormed |-> TRUE, routerId |-> FALSE, cleanup |-> FALSE,
     period |-> [ctl \in Controllers |-> p], injected |-> inj, gobgpd |-> gobgpd, nodeKnown |-> known]
AgCfgSet == {
    AgCfg({Router}, 2, 2, TRUE, TRUE), AgCfg({Router}, 2, 3, TRUE, FALSE),
    AgCfg({Firewall}, 2, 1, FALSE, TRUE), AgCfg({LoadBalancer}, 2, 1, FALSE, TRUE),
    AgCfg({Proxy}, 2, 1, FALSE, TRUE),
    [AgCfg({Proxy}, 3, 2, FALSE, TRUE) EXCEPT !.families = {}] }
============================================================================
