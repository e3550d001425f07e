SPECIFICATION Spec
CONSTANTS
    Conns = {c1, c2}
    Logins = {l1, l2, l3, l4}
    Hosts = {h1}
    NoRow = NoRow
    NoReq = NoReq
    ToolLock = ToolLock
    NoDir = NoDir
    OpFiles = {}
    MayStop = FALSE
    MaxConn = 2
    TransactMax = 1
    ExportMax = 1
    ConnectMax = 0
SYMMETRY Symmetry
INVARIANTS
    TableBound
