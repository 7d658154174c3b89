------------------------------- MODULE Monitor -------------------------------
(***************************************************************************)
(* What threads/synch.c promises to its callers, with no semaphores, run    *)
(* queue or interrupts: a lock has at most one owner, cond_wait () releases *)
(* the lock and joins the waiters in one step, and a waiter takes the lock  *)
(* again only after it was signalled, in the order of waiting.              *)
(***************************************************************************)
EXTENDS Sequences, Naturals

CONSTANTS Threads, Locks, Conds, CondLock, NULL

VARIABLES owner,      \* owner[l]: the thread that holds l, or NULL
          queue       \* queue[c]: threads waiting for c, not yet signalled

Init ==
    /\ owner = [l \in Locks |-> NULL]
    /\ queue = [c \in Conds |-> <<>>]

Waiting(t) == \E c \in Conds : \E i \in 1 .. Len(queue[c]) : queue[c][i] = t

Acquire(t, l) ==
    /\ owner[l] = NULL
    /\ ~ Waiting(t)
    /\ owner' = [owner EXCEPT ![l] = t]
    /\ UNCHANGED queue

Release(t, l) ==
    /\ owner[l] = t
    /\ owner' = [owner EXCEPT ![l] = NULL]
    /\ UNCHANGED queue

Wait(t, c) ==
    /\ owner[CondLock[c]] = t
    /\ owner' = [owner EXCEPT ![CondLock[c]] = NULL]
    /\ queue' = [queue EXCEPT ![c] = Append(@, t)]

Signal(t, c) ==
    /\ owner[CondLock[c]] = t
    /\ queue[c] # <<>>
    /\ queue' = [queue EXCEPT ![c] = Tail(@)]
    /\ UNCHANGED owner

Next ==
    \E t \in Threads :
       \/ \E l \in Locks : Acquire(t, l) \/ Release(t, l)
       \/ \E c \in Conds : Wait(t, c) \/ Signal(t, c)

Spec == Init /\ [][Next]_<<owner, queue>>
==============================================================================
