CONSTANTS
    Threads = {main, p, q}
    main = main
    Nodes = {n1, n2}
    Codes = {7}
    MaxTid = 4
    Preemptible = {}
    WaitsForAll = TRUE
    PowersOff = TRUE
    NULL = NULL
SPECIFICATION FairSpec
 
PROPERTIES CallsReturn
