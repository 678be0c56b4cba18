SPECIFICATION Spec
CONSTANTS
    Pollers = {p1, p2}
    ReplyPlans <- MCPlans
    MaxAttempts = 2
    MaxRetries = 1
    MaxDeaths = 1
    MaxLedgerErrors = 1
    ChunkSize = 2
    MaxLength = 4
    Loops = {w1, w2}
    BatchSize = 2
    MaxStreak = 2
    MaxPerOwner = 1
    MaxJobs = 2
    MaxClaims = 2
    Names = {"n1", "n2"}
    MaxAliases = 1
    MinScore = 70
    Setups <- MCSetups
SYMMETRY MCSymmetry
INVARIANTS
    UpdatesAreAccounted
    NoPartLost
    ReplyReachesChat
    RunsAreExact
    OnlyAdminsManage
PROPERTIES
    ClosedStaysClosed
    QuietAfterReply
CHECK_DEADLOCK FALSE
