CONSTANTS
    MaxPods = 2
    Shapes <- Rolling
    Users = {admin}
    Timer = FALSE
    MaxUpdates = 1
    MaxFaults = 1
SPECIFICATION Spec
INVARIANT UpdateReachesPods
CHECK_DEADLOCK FALSE
