\* An agent revoked while one of its heartbeats is being served.
SPECIFICATION AgentSpec
CONSTANTS
    a1 = a1
    a2 = a2
    t1 = t1
    t2 = t2
    Agents = {a1}
    Tokens = {t1}
    Commands = {1}
    PollLimit = 1
    MaxLosses = 0
INVARIANT RevokedStaysOut
CHECK_DEADLOCK FALSE
