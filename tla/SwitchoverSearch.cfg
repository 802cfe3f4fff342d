CONSTANTS
    Sites = {north, south}
    Settled = {south}
    Attempts = 2
    LockLooks = 2
    Channels = {"rest", "helm"}
    MaxBackups = 2
    MaxRequests = 1
    MaxFaults = 0
    Wishes <- NoWaitModes
SPECIFICATION Spec
INVARIANTS
    RestoresNewestComplete
    OnlyForeignCompleteRestored
    ActiveMeansRestored
CHECK_DEADLOCK FALSE
