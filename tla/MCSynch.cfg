CONSTANTS
    Threads = {main, idle_t, a, b}
    idle_thread = idle_t
    initial_thread = main
    TIME_SLICE = 1
    lock = lock
    cond = cond
    Semas = {sema}
    Locks <- MCLocks
    Conds <- MCConds
    CondLock <- MCCondLock
    NULL = NULL
    MaxValue = 2
SPECIFICATION FairSpec
INVARIANTS RunQueueConsistent ElemExclusive MutualExclusion AssertionsHold NoLostWakeup CondWaiterSafe
PROPERTIES NoOvertaking ImplementsMonitor ReadyThreadRuns
