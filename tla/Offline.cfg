CONSTANTS
    Path <- MCPath
    Log <- MCLog
    Begun <- MCBegun
    SessionOf <- MCSessionOf
    Build = {1, 2}
    Document = {3}
    Price <- MCPrice
    Proc = {p1, p2}
    MaxRuns = 3
    MaxEvents = 2
    TTLShort = 1
    TTLLong = 2
    MinPrefix = 2
    MaxPrompt = 3
    MaxGap = 3
    MaxTurns = 3
    Machine = {m1, m2}
    Rules = {1, 2}
    MaxHour = 1
    MaxSpent = 1
    MaxFiles = 3
    MaxSecrets = 2
    Recorder = {p1, p2}
    Size = 2
    MaxEdits = 2
    Kind <- MCKind
    Candidate <- MCCandidate
    EditRank = 2
    Floor = 2
    Scale = 100
    MinSessions = 2
    MaxSessions = 4
    MaxRules = 2
    MaxLines = 6
    MaxBlocks = 2
    MaxNoise = 1
    Parallel = TRUE
    Usage <- MCUsage
    WarmShare = 50
    ColdShare = 10
    MinColdRead = 5
    MaxWritten = 5
SPECIFICATION Spec
SYMMETRY Symmetry
INVARIANTS
    ReportIsTrue
    LifetimesReplayed
    
    RecordingIsSound
    SelectionIsEarned
    SessionIsTrue
    BilledOnce
CHECK_DEADLOCK FALSE
