SPECIFICATION Spec
CONSTANTS
    k1 = k1  k2 = k2  e1 = e1  e2 = e2  v1 = v1  v2 = v2
    Key = {k1}
    Udp = {}
    Ep = {e1}
    Vip = {v1, v2}
    NoVip = NoVip
    VipOf <- NodePortVip
    Sched = {"rr"}
    Mh = {}
    Config <- EndpointConfigs
    NoSvc = NoSvc
    NoDst = NoDst
    Reports <- Permanent
    Graceful = TRUE
    Fallible = FALSE
    Restarts = FALSE
    MaxDrift = 0
PROPERTIES FullSyncHeals
