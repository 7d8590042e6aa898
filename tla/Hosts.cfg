\* An operation and a two-attempt job through timeouts, cancellation, one end of
\* the process and one retry; or three deployments or rollbacks of two files in
\* two environments, two crashes or failures; or two commands for one agent, one
\* crash or loss.
SPECIFICATION HostsSpec
CONSTANTS
    Jobs = {1, 2}
    OpJobs = {1}
    Priority <- MCPriority
    MaxAttempts <- MCMaxAttempts
    NSteps = 3
    Undoable <- MCUndoable
    MaxRows = 1
    MaxRetries = 1
    MaxExits = 1
    MaxTimeouts = 2
    index = index
    style = style
    staging = staging
    production = production
    Files = {index, style}
    Envs = {staging, production}
    Keep = 2
    MaxDeployments = 3
    MaxFaults = 2
    a1 = a1
    t1 = t1
    Agents = {a1}
    Tokens = {t1}
    Commands = {1, 2}
    PollLimit = 2
    MaxLosses = 1
SYMMETRY MCSymmetry
INVARIANTS
    SucceededIsComplete
    LeftoversListed
    RolledBackIsClean
    LiveIsNewest
    ActiveRowOwned
    NewestRestorable
    ExecutedOnce
    ResultToldTruth
PROPERTIES
    UndoInReverse
    ImplementsJobQueue
    
\* When the last row is used, or everything has ended, nothing is left to do.
CHECK_DEADLOCK FALSE
