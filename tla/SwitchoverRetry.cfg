CONSTANTS
    Sites = {north, south}
    Settled = {south}
    Attempts = 1
    LockLooks = 1
    Channels = {"rest"}
    MaxBackups = 1
    MaxRequests = 2
    MaxFaults = 1
    Wishes <- TwoModes
SPECIFICATION HistorySpec
INVARIANTS
    StandbyIsSaved
CHECK_DEADLOCK FALSE
