SPECIFICATION FairSpec
CHECK_DEADLOCK FALSE
CONSTANTS
    n1 = n1  n2 = n2  s1 = s1  s2 = s2  s3 = s3
    Space = 8
    NoIp = NoIp
    Node = {n1}
    Svc = {s1, s2}
    NoSvc = NoSvc
    Ranges <- Both
    Specs <- Optional
    IsDefault = TRUE
    FreshCache = FALSE
    Fallible = TRUE
    MaxEvents = 3
PROPERTIES EverySvcServed
