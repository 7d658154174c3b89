CONSTANTS
    Threads = {main, p, q, r}
    main = main
    Nodes = {n1, n2}
    Codes <- SomeCodes
    MaxTid = 4
    Preemptible = {"exec", "load", "wait"}
    WaitsForAll = FALSE
    PowersOff = FALSE
    NULL = NULL
SPECIFICATION Spec
SYMMETRY Recycled
CHECK_DEADLOCK FALSE
INVARIANTS ChildListsOwned
 
