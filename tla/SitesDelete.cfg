\* A deletion that fails half-way.
SPECIFICATION SitesSpec
CONSTANTS
    MaxUploads = 1
    MaxOps = 2
    MaxFaults = 1
INVARIANT FailedDeletionIsRetryable
CHECK_DEADLOCK FALSE
