CONSTANTS
    Parts = {"ledger", "search", "update", "apply", "surface"}
    r1 = r1
    r2 = r2
    r3 = r3
    o1 = o1
    Rec = {r1, r2, r3}
    Old = {o1}
    SessionOf <- MCSessionOf
    MaxInodes = 3
    MinSize = 0
    MaxSize = 12
    Resolution = 1
    Percent = 0
    Candidates <- MCCandidates
    Priors = {0, 5}
    Confirm = 2
    Budgets = {3, 8}
    Blocks = {1, 3}
    Noise = {0}
    StepLimit = 64
    Cmd = {u1, u2}
    Builds = {1, 2, 3}
    Foreign = {2}
    Runnable = {1, 2}
    Values = {"5m", "1h"}
    MaxEdits = 1
    MaxSecond = 1
    Tasks <- MCTasks
    Openable = {"t1"}
    Start = {"c"}
    Rankings <- MCRankings
    MaxAdvise = 1
    MaxKeys = 3
SPECIFICATION CommandsSpec
INVARIANTS
    LedgerKeepsItsWord
    SearchIsSound
    InstalledIsProven
    UserKeepsTheirs
    ScreenIsTrue
PROPERTY IsALog
CHECK_DEADLOCK FALSE
