CONSTANTS
    Secret = {s1, s2}
    TTL = 2
    MaxClock = 6
    b1 = b1
    b2 = b2
    Block = {b1, b2}
    Index = {0, 1}
    Kind <- MCKind
    Texts <- MCTexts
    Prefix <- MCPrefix
    Digit = {"0", "1"}
    CodeLength = 2
    Behind <- MCBehind
    MaxHeld = 5
    Bodies <- MCBodies
    MaxChunk = 2
    MaxPending = 4
    MaxBody = 8
    MaxReq = 3
    Client = {a1, a2}
    Tokens <- MCTokens
    Conversations <- MCConversations
    ShareNum = 2
    ShareDen = 3
    MinPrompt = 2
    LoopBlock = 2
    Ceiling = 22
    OptIn = TRUE
    Turns <- MCTurns
    Req = {"q1", "q2", "q3"}
    Agent = {"main", "sub"}
    Session = {"s1", "s2"}
    MaxSessions = 1
    c1 = c1
    c2 = c2
    Call = {c1, c2}
    Asks <- MCAsks
    Flags <- MCFlags
    MaxToday = 2
SPECIFICATION PathSpec
SYMMETRY PathSymmetry
INVARIANTS
    
    ResponseIsFaithful
    RefusedForCause
    SerialIsTrue
    NothingLeftBehind
    RecordIsTrue
    FiguresAddUp
CHECK_DEADLOCK FALSE
