SPECIFICATION PoliteSpec
CONSTANTS
    Conns = {c1, c2}
    Logins = {l1}
    Hosts = {h1}
    NoRow = NoRow
    NoReq = NoReq
    ToolLock = ToolLock
    NoDir = NoDir
    OpFiles = {}
    MayStop = TRUE
    MaxConn = 2
    TransactMax = 1
    ExportMax = 1
    ConnectMax = 1
PROPERTIES
    ServerStops
    AbandonedRowStays
CHECK_DEADLOCK FALSE
