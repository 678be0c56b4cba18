SPECIFICATION Spec
CONSTANTS
    o1 = o1
    o2 = o2
    Report = {r1}
    Gate = {i1}
    Caller = {o1, o2}
    MaxAnnouncers = 2
SYMMETRY Callers
INVARIANTS
    OneGoalPerSignal
    
PROPERTIES
    HandledIsNeverNew
