\* One or two API processes sharing the jobs table; two decision calls racing on
\* one gated and one direct request; two enrolments of a node, or one and a loss,
\* and one command.
SPECIFICATION ControlSpec
CONSTANTS
    i1 = i1
    i2 = i2
    Instances = {i1, i2}
    Jobs <- MCJobs
    Priority <- MCPriority
    MaxAttempts <- MCMaxAttempts
    Unhandled <- MCUnhandled
    MaxRetries = 1
    MaxExits = 2
    MaxRestarts = 2
    MaxFaults = 1
    alice = alice
    bob = bob
    robot = robot
    restart = restart
    list = list
    c1 = c1
    c2 = c2
    Actors <- MCActors
    Humans = {alice, bob}
    Deciders = {bob}
    Requests = {restart, list}
    Gated = {restart}
    Runnable = {restart}
    Allowed <- MCAllowed
    Calls = {c1, c2}
    NoActor = NoActor
    NoRequest = NoRequest
    MinTTL = 1
    MaxTTL = 2
    DefaultTTL = 1
    MaxTime = 3
    a1 = a1
    a2 = a2
    t1 = t1
    t2 = t2
    Agents = {a1, a2}
    Tokens = {t1, t2}
    Commands = {1}
    PollLimit = 1
    MaxLosses = 1
INVARIANTS
    OneAgent
    OneRunner
    AttemptsBounded
    AtMostOnce
    OnlyApprovedRuns
    NoLateDecision
PROPERTIES
    CommandsEnd
    FinalStaysFinal
    EveryJobFinishes
    DecisionStands
    PendingEnds
\* When everything has ended and no bound is left there is nothing to do.
CHECK_DEADLOCK FALSE
