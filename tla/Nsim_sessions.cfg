SPECIFICATION Spec
CONSTANTS
    c1 = c1 c2 = c2
    Clients = {c1, c2}
    Plans <- MCPlans
    Queue <- MCQueue
    none = none
INVARIANTS IndexBound OwnConnection OwnAnswer
PROPERTIES SessionEnds
CHECK_DEADLOCK FALSE
