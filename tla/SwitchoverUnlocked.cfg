CONSTANTS
    Sites = {north, south}
    Settled = {south}
    Attempts = 1
    LockLooks = 2
    Channels = {"rest"}
    MaxBackups = 2
    MaxRequests = 1
    MaxFaults = 0
    Wishes <- TwoModes
SPECIFICATION Spec
INVARIANTS
    UnlockedIsRestored
CHECK_DEADLOCK FALSE
