SPECIFICATION Spec
CONSTANTS
    w1 = w1
    w2 = w2
    a = a
    b = b
    Worker = {w1}
    Step = {a, b}
    DependsOn <- Chain
    Dynamic = {b}
    ExternalWrite = {b}
    ReplayUnsafe = {b}
    Required = {a}
    MaxAttempts = 1
    MaxNodes = 4
    MaxContinues = 1
    MaxRevs = 2
    MaxClaims = 1
    Registry <- FullRegistry
    ExternalEnabled = {w1}
    Mismatched = {}
    Phased = {}
    UsesProvider = {a}
INVARIANTS
    LedgerInvariant
    VerdictHasEvidence
    OnlyReviewedWork
PROPERTIES
    VerdictIsFinal
