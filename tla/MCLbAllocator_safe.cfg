SPECIFICATION Spec
CHECK_DEADLOCK FALSE
SYMMETRY Symmetry
CONSTANTS
    n1 = n1  n2 = n2  s1 = s1  s2 = s2  s3 = s3
    Space = 8
    NoIp = NoIp
    Node = {n1, n2}
    Svc = {s1, s2, s3}
    NoSvc = NoSvc
    Ranges <- Pools
    Specs <- Mixed
    IsDefault = TRUE
    FreshCache = TRUE
    Fallible = TRUE
    MaxEvents = 4
INVARIANTS NoDoubleAssign OnePerFamily PlansClear FindsFree
