CONSTANTS
    Sites = {north, south}
    Settled = {south}
    Attempts = 1
    LockLooks = 1
    Channels = {"rest"}
    MaxBackups = 1
    MaxRequests = 2
    MaxFaults = 1
    Wishes <- TwoModesOrNone
SPECIFICATION Spec
INVARIANTS
    TypeOK
    BackupBeforeScaleDown
    DoneMeansReplicas
PROPERTIES
    ImplementsContract
    RequestsAnswered
CHECK_DEADLOCK FALSE
