\* A first change of the CR, one more and one fault, on every way through its handler.
CONSTANTS
    MaxPods = 2
    Shapes <- AllPaths
    Users = {admin, other}
    Timer = TRUE
    MaxUpdates = 2
    MaxFaults = 1
SPECIFICATION ChangedSpec
INVARIANTS
    TypeOK
    ProgressIsOwned
    SteadyRolls
    CountedPodsUpdated
    SecretTakesEffect
PROPERTIES
    StatusSettles
CHECK_DEADLOCK FALSE
