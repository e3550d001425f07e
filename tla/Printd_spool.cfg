SPECIFICATION Spec
CONSTANTS
    c1 = c1 c2 = c2
    Clients = {c1, c2}
    Parts = 1
    MaxDown = 1
    NULL = NULL
INVARIANTS NoJobLost PrintedRight
PROPERTIES ReusedOnlyUnsaved AckedPrinted
CHECK_DEADLOCK FALSE
