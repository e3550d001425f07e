SPECIFICATION Spec
CONSTANTS
    Conns = {c1}
    Procs = {p1, p2}
    Logins = {l1, l2}
    Hosts = {h1}
    Mails = {m1}
    NoLogin = NoLogin
    NoRow = NoRow
    NoReq = NoReq
    ToolLock = ToolLock
    NoDir = NoDir
    OpFiles = {}
    MayStop = FALSE
    MaxConn = 1
    TransactMax = 2
    ExportMax = 0
    ConnectMax = 1
INVARIANTS
    ExportLoadBounded
PROPERTIES
    StatusStepwise
    StoresChangeUnderRow
    ImplementsReception
