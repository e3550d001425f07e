SPECIFICATION Spec
CONSTANTS
    c1 = c1 c2 = c2 c3 = c3 c4 = c4
    Clients = {c1, c2, c3, c4}
    Bad = {c4}
    main = main none = none pipe = pipe
    N = 2
    MAXNCLI = 3
    MsgLen = 2
INVARIANTS ServedOnce NavailBound RingRight
PROPERTIES GoodAnswered NobodyLeft
CHECK_DEADLOCK FALSE
