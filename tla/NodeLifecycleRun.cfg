\* Two nodes in each layout, one of each fault.
CONSTANTS
    N = 2
    Layouts = {"storageclass", "hostpath"}
    MaxDeletes = 1
    MaxKills = 1
    MaxCleans = 1
SPECIFICATION FairSpec
INVARIANTS
    TypeOK
    MarkerEarned
    CleanupDeletes
PROPERTIES
    ClusterForms
CHECK_DEADLOCK FALSE
