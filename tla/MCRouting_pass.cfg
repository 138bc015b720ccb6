SPECIFICATION FairSpec
CONSTANTS
    p1 = p1  p2 = p2  g0 = g0  g1 = g1  g2 = g2  n0 = n0  n1 = n1  n2 = n2
    Prefix = {p1, p2}
    Gw = {g0, g1, g2}
    NoGw = NoGw
    LocalIp = g0
    Node = {n0, n1, n2}
    Local = n0
    PodCidrs <- Cidrs
    Addresses <- Fixed
    Own = {p2}
    Rejectable = {p1}
    MaxStream = 1
    QueueCap = 1
    MaxFaults = 2
INVARIANTS TypeOK InjectedInKernel KernelIsMemory LearnedInstalled WithdrawnRemoved
PROPERTIES Delivered
