SPECIFICATION Spec
CONSTANTS
    w1 = w1
    w2 = w2
    a = a
    b = b
    Worker = {w1, w2}
    Step = {a, b}
    DependsOn <- Chain
    Dynamic = {}
    ExternalWrite = {b}
    ReplayUnsafe = {b}
    Required = {a}
    MaxAttempts = 2
    MaxNodes = 2
    MaxContinues = 1
    MaxRevs = 1
    MaxClaims = 2
    Registry <- RollingDeploy
    ExternalEnabled = {w1, w2}
    Mismatched = {}
    Phased = {}
    UsesProvider = {}
INVARIANTS
    OneLiveAttempt
    CommittedIsNeverReplayed
    ParkedIsResolvable
    DependenciesFirst
    NoUnaskedResend
PROPERTIES
    LedgerIsAppendOnly
