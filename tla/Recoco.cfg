SPECIFICATION FairSpec
CONSTANTS
    w1 = w1
    x1 = x1
    x2 = x2
    Workers = {w1}
    Callers = {x1, x2}
    MaxCalls = 2
CHECK_DEADLOCK FALSE
INVARIANTS TypeOK OnePlace
PROPERTIES CallsExecuted Wakes Quits
