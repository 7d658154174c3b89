CONSTANTS
    Threads = {main, p, q}
    main = main
    Nodes = {n1, n2}
    Codes = {7}
    MaxTid = 4
    Preemptible = {"wait"}
    WaitsForAll = TRUE
    PowersOff = TRUE
    NULL = NULL
SPECIFICATION Spec
SYMMETRY Recycled
CHECK_DEADLOCK FALSE
INVARIANT ChildNotRefused
