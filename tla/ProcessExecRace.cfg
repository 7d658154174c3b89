CONSTANTS
    Threads = {main, p}
    main = main
    Nodes = {n1}
    Codes = {7}
    MaxTid = 2
    Preemptible = {"exec"}
    WaitsForAll = TRUE
    PowersOff = TRUE
    NULL = NULL
SPECIFICATION Spec
SYMMETRY Recycled
CHECK_DEADLOCK FALSE
INVARIANT ExecReportsChild
