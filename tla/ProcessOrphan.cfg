CONSTANTS
    Threads = {main, p, q}
    main = main
    Nodes = {n1, n2}
    Codes = {7}
    MaxTid = 3
    Preemptible = {}
    WaitsForAll = FALSE
    PowersOff = TRUE
    NULL = NULL
SPECIFICATION Spec
SYMMETRY Recycled
CHECK_DEADLOCK FALSE
INVARIANT OrphansAreTold
