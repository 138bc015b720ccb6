SPECIFICATION Spec
CONSTANTS
    n1 = n1  n2 = n2
    Node = {n1, n2}
    NoNode = NoNode
    Skew <- Ahead
    SubSec = 2
    Dur = 3
    Stall = 3
    Fallible = TRUE
    MaxTime = 9
INVARIANTS TypeOK AtMostOneLeader
PROPERTIES NotStolenWhileFresh TakesTurns
