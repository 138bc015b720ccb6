SPECIFICATION Spec
CONSTANTS
    p1 = p1  p2 = p2  g0 = g0  g1 = g1  g2 = g2  n0 = n0  n1 = n1  n2 = n2
    Prefix = {p1, p2}
    Gw = {g0, g1, g2}
    NoGw = NoGw
    LocalIp = g0
    Node = {n0, n1}
    Local = n0
    PodCidrs <- Cidrs
    Addresses <- Moving
    Own = {}
    Rejectable = {}
    MaxStream = 1
    QueueCap = 1
    MaxFaults = 0
INVARIANT PodRoutesInstalled
