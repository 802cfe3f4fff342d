\* Two changes, without faults: a reboot of three pods may meet one that ends with two.
CONSTANTS
    MaxPods = 3
    Shapes <- ScalingOfThree
    Users = {admin}
    Timer = FALSE
    MaxUpdates = 2
    MaxFaults = 0
SPECIFICATION Spec
INVARIANTS
    SteadyRolls
    CountedPodsUpdated
    SecretTakesEffect
CHECK_DEADLOCK FALSE
