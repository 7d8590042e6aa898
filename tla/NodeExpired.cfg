\* A command whose agent is revoked after it was handed out.
SPECIFICATION AgentSpec
CONSTANTS
    a1 = a1
    a2 = a2
    t1 = t1
    t2 = t2
    Agents = {a1}
    Tokens = {t1}
    Commands = {1}
    PollLimit = 1
    MaxLosses = 0
INVARIANT ExpiredWasNotExecuted
CHECK_DEADLOCK FALSE
