SPECIFICATION ServicesSpec
CONSTANTS
    f = f
    Items <- MCItems
    Types <- MCTypes
    KeepLocal = FALSE
    MaxBackups = 2
    MaxRestores = 1
    MaxEdits = 2
    MaxBackupFaults = 1
    MaxCerts = 2
    MaxSerials = 2
    MaxCertFaults = 1
    MaxUploads = 1
    MaxOps = 6
    MaxFaults = 2
    PlanSteps = 3
    MaxLost = 1
    Interval = 2
    MaxTicks = 4
    MaxPolicies = 2
    MaxStops = 1
    Users = {"ann", "bob"}
    MaxTokens = 1
    MaxRequestsMade = 4
    MaxSessions = 2
    MaxLinks = 1
    MaxPasswords = 3
    MaxAgentRequests = 2
    MaxVisits = 2
    Addresses = {1, 2}
    Cnames = {3}
    MaxRecords = 2
    MaxDnsRequests = 3
    MaxDnsFaults = 1
INVARIANTS
    SafetyKept
    TamperedRefused
    ActiveIsWhole
    UndoneIsRestored
    DeletedLeavesNothing
    LiveHasKey
    PlanFollowed
    OncePerPeriod
    ResetOnce
    ActsAsConfigured
    LoneRequestHolds
PROPERTIES
    RolledBackRestores
    UnmanagedStays
    RetirementSettles
CHECK_DEADLOCK FALSE
