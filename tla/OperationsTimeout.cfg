\* An operation whose time runs out.
SPECIFICATION Spec
CONSTANTS
    Jobs = {1, 2}
    OpJobs = {1}
    Priority <- MCPriority
    MaxAttempts <- MCMaxAttempts
    NSteps = 3
    Undoable <- MCUndoable
    MaxRows = 1
    MaxRetries = 1
    MaxExits = 0
    MaxTimeouts = 1
INVARIANT FailureAlwaysNotified
CHECK_DEADLOCK FALSE
