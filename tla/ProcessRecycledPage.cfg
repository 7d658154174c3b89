CONSTANTS
    Threads = {main, p, q}
    main = main
    Nodes = {n1, n2, n3}
    Codes = {7}
    MaxTid = 4
    Preemptible = {"load"}
    WaitsForAll = TRUE
    PowersOff = TRUE
    NULL = NULL
SPECIFICATION FairSpec
CHECK_DEADLOCK FALSE
PROPERTY ExecReturns
