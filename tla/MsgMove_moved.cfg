SPECIFICATION Spec
CONSTANTS
    Conns = {c1}
    Procs = {p1}
    Logins = {l1}
    Hosts = {h1}
    Mails = {m1, m2}
    NoLogin = NoLogin
    NoRow = NoRow
    NoReq = NoReq
    ToolLock = ToolLock
    NoDir = NoDir
    OpFiles = {}
    MayStop = FALSE
    MaxConn = 2
    TransactMax = 1
    ExportMax = 1
    ConnectMax = 1
PROPERTIES
    DeletedOnlyWhenMoved
