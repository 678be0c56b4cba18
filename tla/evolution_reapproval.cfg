SPECIFICATION Spec
CONSTANTS
    o1 = o1
    o2 = o2
    Candidate = {c1}
    Operator = {o1, o2}
    NoCandidate = none
    CaseCount = 2
    MaxEvaluations = 3
    MaxDeployments = 3
SYMMETRY Requests
PROPERTIES
    StaleIsReapproved
