\* The cluster monitor alone needs few constants; two ticks outlast a threshold of one.
CONSTANTS
    a = a
    b = b
    Node = {n1, n2}
    Replicas = 2
    Item = {i1, i2}
    Shovel = {s1, s2}
    VHost = {a, b}
    Object = {x}
    None = None
    MaxChanges = 2
    MaxFaults = 2
    Joins = {"queues"}
    Singles = {"overview"}
    Retries = 1
    Error = Error
    Lost = Lost
    All = All
    Torn = Torn
    Lists <- FewLists
    Attempts = 2
    Threshold = 1
    MaxTicks = 2
SPECIFICATION Spec
INVARIANTS
    OutageEndsInRestart
CHECK_DEADLOCK FALSE
