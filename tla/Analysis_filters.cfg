SPECIFICATION Spec
CONSTANTS
    Pool <- PoolFilters
    Always = {3}
    MailIds = {1, 2, 3}
    Dates = {1, 2}
    DefaultIds = {2, 4, 5, 6}
    CustomId = 257
    BackupId = 255
    BackupName = "000"
    StoreMax = 2
    Utf7 <- ModifiedUtf7
    Unencodable = {"bad"}
    MaxDepth = 3
INVARIANTS TargetsComplete DiesOnlyForRemovedFolder
CHECK_DEADLOCK FALSE
