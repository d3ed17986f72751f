CONSTANTS
    Session = {s1}
    Req = {r1, r2}
    Treated = {s1}
    RevertAfter = 1
    Overlap = TRUE
    MaxFail = 0
    MayForget = FALSE
    MaxClock = 1
SPECIFICATION Spec
INVARIANT OneDecision
