SPECIFICATION Spec
CONSTANTS
    MaxFaults = 1
INVARIANTS
    DelegationIsNotAnAnswer
CHECK_DEADLOCK FALSE
