SPECIFICATION Spec
CONSTANTS
    w1 = w1
    w2 = w2
    a = a
    b = b
    Worker = {w1, w2}
    Step = {a, b}
    DependsOn <- Chain
    Dynamic = {}
    ExternalWrite = {b}
    ReplayUnsafe = {a}
    Required = {}
    MaxAttempts = 2
    MaxNodes = 2
    MaxContinues = 1
    MaxRevs = 1
    MaxClaims = 2
    Registry <- FullRegistry
    ExternalEnabled = {w1}
    Mismatched <- Misdeployed
    Phased = {a}
    UsesProvider = {}
INVARIANTS
    RequeuedIsClaimable
PROPERTIES
    ProgressSurvives
