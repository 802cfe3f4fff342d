CONSTANTS
    MaxPods = 2
    Shapes <- Scaling
    Users = {admin}
    Timer = FALSE
    MaxUpdates = 2
    MaxFaults = 0
SPECIFICATION Spec
INVARIANT RollsOneByOne
CHECK_DEADLOCK FALSE
