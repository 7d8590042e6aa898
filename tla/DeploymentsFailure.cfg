\* A deployment whose live tree cannot be copied.
SPECIFICATION DeploySpec
CONSTANTS
    index = index
    style = style
    staging = staging
    production = production
    Files = {index, style}
    Envs = {staging, production}
    Keep = 2
    MaxDeployments = 3
    MaxFaults = 1
SYMMETRY MCSymmetry
INVARIANT FailureKeepsLive
\* When the last row is used no operation begins.
CHECK_DEADLOCK FALSE
