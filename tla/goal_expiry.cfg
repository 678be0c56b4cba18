SPECIFICATION Spec
CONSTANTS
    w1 = w1
    w2 = w2
    a = a
    b = b
    Worker = {w1}
    Step = {a, b}
    DependsOn <- Chain
    Dynamic = {}
    ExternalWrite = {b}
    ReplayUnsafe = {b}
    Required = {a}
    MaxAttempts = 1
    MaxNodes = 2
    MaxContinues = 1
    MaxRevs = 1
    MaxClaims = 1
    Registry <- FullRegistry
    ExternalEnabled = {w1}
    Mismatched = {}
    Phased = {}
    UsesProvider = {a}
PROPERTIES
    ExpiryIsTerminal
