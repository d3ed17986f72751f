CONSTANTS
    Session = {s1, s2}
    Req = {r1, r2}
    Treated = {s1, s2}
    RevertAfter = 2
    Overlap = FALSE
    MaxFail = 1
    MayForget = TRUE
    MaxClock = 2
SPECIFICATION Spec
SYMMETRY Interchangeable
INVARIANTS
    OneDecision
    RevertEarned
PROPERTY RevertHolds
