SPECIFICATION Spec
CONSTANTS
    k1 = k1  k2 = k2  e1 = e1  e2 = e2  v1 = v1  v2 = v2
    Key = {k1, k2}
    Udp = {k1}
    Ep = {e1}
    Vip = {v1, v2}
    NoVip = NoVip
    VipOf <- SharedVip
    Sched = {"rr", "mh"}
    Mh = {"mh"}
    Config <- DsrConfigs
    NoSvc = NoSvc
    NoDst = NoDst
    Reports <- Removable
    Graceful = FALSE
    Fallible = FALSE
    Restarts = FALSE
    MaxDrift = 0
INVARIANTS KernelMatches
