------------------------------- MODULE MCSynch -------------------------------
(***************************************************************************)
(* Small instances of Synch: two threads besides main and idle, one lock    *)
(* with one condition variable, one semaphore.                              *)
(***************************************************************************)
EXTENDS Synch

CONSTANTS lock, cond

MCLocks == {lock}
MCConds == {cond}
MCCondLock == [c \in MCConds |-> lock]

==============================================================================
