\* An operation cancelled in one run and retried.
SPECIFICATION Spec
CONSTANTS
    Jobs = {1, 2}
    OpJobs = {1}
    Priority <- MCPriority
    MaxAttempts <- MCMaxAttempts
    NSteps = 3
    Undoable <- MCUndoable
    MaxRows = 1
    MaxRetries = 1
    MaxExits = 0
    MaxTimeouts = 0
INVARIANT CancelledOnlyIfAsked
CHECK_DEADLOCK FALSE
