CONSTANTS
    Threads = {main, p, r}
    main = main
    INTQ_BUFSIZE = 3
    MaxOut = 0
    MaxIn = 2
    NULL = NULL
SPECIFICATION Spec
\* with the bounds on bytes reached, or after a panic, everybody may be asleep
CHECK_DEADLOCK FALSE
INVARIANT StillMustWait
