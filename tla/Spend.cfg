CONSTANTS
    Tenant = {t1}
    Session = {s1, s2, s3, s4}
    Req = {r1, r2}
    Units <- BothUnits
    Costs <- MCCosts
    StandIns <- MCStandIns
    SessionCap <- DollarSessionCap
    DayCap <- TokenDayCap
    MaxLive = 2
    MaxRetired = 1
    MayOverride = {TRUE, FALSE}
    MayCrash = TRUE
    MaxRecords = 4
    MaxDaySpend = 4
    MaxDay = 2
SPECIFICATION Spec
SYMMETRY MCSymmetry
INVARIANTS
    AccountingDurable
    OvershootBounded
    
CHECK_DEADLOCK FALSE
