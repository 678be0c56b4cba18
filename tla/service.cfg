SPECIFICATION Spec
CONSTANTS
    MaxDepth = 2
    MaxAgents = 4
    MaxParallel = 3
    MaxChildren = 2
    Requests = {r1, r2}
    Chain = 2
    Failures = 2
    Retries = 1
    Saves = {s1, s2}
    Plugins = 2
    MaxFaults = 2
    MaxChunks = 3
    Batch = 2
    Poison = {1}
    TextOf <- MCTextOf
    OwnerOf <- MCOwnerOf
    MaxSnippets = 1
    MaxOutages = 2
    Window = 90
    Reserved = 10
    MemoryRatio = 60
    MinRecent = 1
    HeadCount = 1
    TailCount = 1
    RetainedTail = 2
    Threshold = 3
    MaxHistory = 4
    MaxMemories = 2
    Lengths = {8, 300}
    Turns = {t1, t2}
    Modes <- MCModes
    MaxIterations = 2
    MaxCalls = 2
    WarnPercent = 100
    StreakLimit = 2
    ProbeEvery = 2
    ToolCalls = {c1}
    ToolLists = {l1}
    MaxProcesses = 2
INVARIANTS
    
    RunTellsTheTruth
    FailoverIsSound
    
    OutboxCovers
    
    
    ToolCallIsHonest
PROPERTIES
    
    EventuallyRecovers
CHECK_DEADLOCK FALSE
