SPECIFICATION Spec
CONSTANTS
    Conns = {c1, c2, c3}
    Logins = {l1}
    Hosts = {h1}
    NoRow = NoRow
    NoReq = NoReq
    ToolLock = ToolLock
    NoDir = NoDir
    OpFiles = {ToolLock, NoDir, h1}
    MayStop = TRUE
    MaxConn = 2
    TransactMax = 1
    ExportMax = 1
    ConnectMax = 1
SYMMETRY Symmetry
INVARIANTS
    ConnCountExact
    NoForgottenChild
    CleanStop
    OneWorkerPerLogin
    MaintenanceHonoured
CHECK_DEADLOCK FALSE
