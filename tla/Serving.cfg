CONSTANTS
    Req = {r1, r2, r3}
    Prefix = {none, p1, p2}
    NoPrefix = none
    Holding = TRUE
    Window = 2
    MaxWarm = 1
    Conn = {c1, c2}
    MayWantMetrics = {TRUE, FALSE}
    Proc = {q1, q2, q3}
SPECIFICATION ServingSpec
INVARIANTS
    GateIsSound
    StopIsOrderly
    SocketIsServed
PROPERTY NobodyWaitsForEver
CHECK_DEADLOCK FALSE
