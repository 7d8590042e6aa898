SPECIFICATION AllSpec
CONSTANTS
    f = f
    Items <- MCItems
    Types <- MCTypes
    KeepLocal = FALSE
    MaxBackups = 1
    MaxRestores = 0
    MaxEdits = 1
    MaxBackupFaults = 1
    MaxRules = 2
    MaxIncidents = 3
    MaxRequests = 3
    MaxFlips = 2
    MaxCerts = 1
    MaxSerials = 3
    MaxCertFaults = 1
PROPERTIES
    GhostEnds
    OutageRaises
    ClearedResolves
    DueIsRenewed
CHECK_DEADLOCK FALSE
