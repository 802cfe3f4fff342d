CONSTANTS
    MaxPods = 2
    Shapes <- Rolling
    Users = {admin}
    Timer = FALSE
    MaxUpdates = 2
    MaxFaults = 0
SPECIFICATION Spec
INVARIANT OnePodDown
CHECK_DEADLOCK FALSE
