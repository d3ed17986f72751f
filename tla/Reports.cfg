CONSTANTS
    Site = {1, 2, 3, 4, 5, 6}
    File <- MCFile
    Pkg <- MCPkg
    Identity <- MCIdentity
    Address <- MCAddress
    Where <- MCWhere
    Refusal = {1, 3, 5}
    Unmutable = {3}
    Committed = {1, 2, 5, 6}
    Edited = {1, 3, 4}
    Manifests <- MCManifests
    MaxCands = 2
    Times = {0, 100, 700}
    MaxRuns = 2
    MaxDepth = 2
    MaxMembers = 3
    MaxMatches = 2
    MaxLength = 11
    Results <- MCResults
    OutTokens = 2
    OutBytes = 4
    PrefixTokens = 5
    PrefixBytes = 6
    MinFit = 3
    TTL = 1
    MaxRequests = 4
    MaxOdd = 2
    Value = {"k", "h"}
    Form <- MCForm
    Entropy = TRUE
    CueWindow = 2
    Scope <- MCScope
    Said <- MCSaid
    Written <- MCWritten
    MaxBlocks = 3
    Proc = {p1, p2}
    Model = {"a"}
    Served = {"s1", "s2"}
    Floors = {2, 4}
    Ranges <- MCRanges
    Allowances = {0, 1}
    Miss = 0
    Width = 2
    Method = {1, 2}
    Bias <- MCBias
    VarySize = 3
    MaxAge = 1
    MaxClock = 1
    MaxMoves = 1
    MaxLines = 2
    MaxSent = 2
    Invocation = {p1, p2}
    Name = {"opus-4", "opus-4-8", "opus-4-9", "gpt-5", "gpt-6-astra"}
    Match = {"opus-4", "opus-4-8", "gpt-5"}
    OccursIn <- MCOccursIn
    OtherVersion <- MCOtherVersion
    Foreign = {"gpt-5", "gpt-6-astra"}
    Astra = {"gpt-6-astra"}
    Release = {1, 2}
    ModelTable <- MCModelTable
    Standard = 10
    StandardPrefix = 2
    Host = {"a", "b", "c"}
    Label = {"v"}
    Feeds <- MCFeeds
    MaxHops = 2
    HandMade <- MCHandMade
    Databases <- MCDatabases
    LedgerSession = {"l1"}
    Prompt = {1, 2, 3}
    RealFloor <- MCRealFloor
    StaleAfter = 1
    MaxDay = 2
    MaxServed = 2
SPECIFICATION ReportsSpec
INVARIANTS
    
    EvidenceHolds
    AttributionIsTrue
    
    
    
SYMMETRY Commands
CHECK_DEADLOCK FALSE
