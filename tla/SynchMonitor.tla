---------------------------- MODULE SynchMonitor -----------------------------
(***************************************************************************)
(* What the callers of threads/synch.c rely on: the run queue is first in,  *)
(* first out, no signal of a condition variable is lost or given twice, and *)
(* the locks and condition variables implement the abstract monitor.        *)
(***************************************************************************)
EXTENDS SynchProofs

------------------------------------------------------------------------------
(* Round robin.                                                             *)

LEMMA StartsWithItself ==
    ASSUME NEW S, NEW q \in Seq(S)
    PROVE  StartsWith(q, q)
  BY DEF StartsWith

LEMMA StartsWithFront ==
    ASSUME NEW S, NEW q \in Seq(S), NEW x \in S
    PROVE  /\ StartsWith(Append(q, x), q)
           /\ q # <<>> => /\ Head(Append(q, x)) = Head(q)
                          /\ Tail(Append(q, x)) = Append(Tail(q), x)
<1>1. StartsWith(Append(q, x), q)
  BY DEF StartsWith
<1>2. ASSUME q # <<>> PROVE /\ Head(Append(q, x)) = Head(q)
                            /\ Tail(Append(q, x)) = Append(Tail(q), x)
  BY <1>2
<1>3. QED
  BY <1>1, <1>2, Zenon

(* A step at the run queue: it grows at its end, or its head leaves to run. *)
InOrder ==
    \/ StartsWith(ready_list', ready_list)
    \/ /\ ready_list # <<>> /\ current' = Head(ready_list)
       /\ StartsWith(ready_list', Tail(ready_list))

LEMMA SchedInOrder == SchedInv /\ [SchedNext]_sched => InOrder
<1> SUFFICES ASSUME SchedInv, [SchedNext]_sched PROVE InOrder
  BY Zenon
<1>1. ready_list \in Seq(Threads) /\ current \in Threads
  BY Zenon DEF SchedInv, SchedTypeOK
<1>2. ASSUME ready_list' = ready_list PROVE InOrder
  BY <1>1, <1>2, StartsWithItself, Zenon DEF InOrder
<1>3. ASSUME NEW st, schedule(st, ready_list) PROVE InOrder
  <2>1. CASE ready_list = <<>>
    BY <1>2, <1>3, <2>1, Zenon DEF schedule
  <2>2. CASE ready_list # <<>>
    <3>1. Tail(ready_list) \in Seq(Threads)
      BY <1>1, <2>2
    <3>2. QED
      BY <1>3, <2>2, <3>1, StartsWithItself, Zenon DEF schedule, next_thread_to_run, InOrder
  <2>3. QED
    BY <2>1, <2>2, Zenon
<1>4. ASSUME NEW st, schedule(st, Append(ready_list, current)) PROVE InOrder
  <2>1. Append(ready_list, current) # <<>>
    <3>1. Len(Append(ready_list, current)) = Len(ready_list) + 1 /\ Len(ready_list) \in Nat
      BY <1>1
    <3>2. QED
      BY <3>1
  <2>2. /\ current' = Head(Append(ready_list, current))
        /\ ready_list' = Tail(Append(ready_list, current))
    BY <1>4, <2>1, Zenon DEF schedule, next_thread_to_run
  <2>3. CASE ready_list = <<>>
    <3>1. ready_list' = ready_list
      BY <1>1, <2>2, <2>3
    <3>2. QED
      BY <1>2, <3>1, Zenon
  <2>4. CASE ready_list # <<>>
    <3>1. Tail(ready_list) \in Seq(Threads)
      BY <1>1, <2>4
    <3>2. current' = Head(ready_list) /\ ready_list' = Append(Tail(ready_list), current)
      BY <1>1, <2>2, <2>4, StartsWithFront, Zenon
    <3>3. StartsWith(ready_list', Tail(ready_list))
      BY <1>1, <3>1, <3>2, StartsWithFront, Zenon
    <3>4. QED
      BY <2>4, <3>2, <3>3, Zenon DEF InOrder
  <2>5. QED
    BY <2>3, <2>4, Zenon
<1>5. ASSUME NEW t \in Threads, thread_unblock(t) PROVE InOrder
  BY <1>1, <1>5, StartsWithFront, Zenon DEF thread_unblock, InOrder
<1>6. CASE thread_yield
  BY <1>3, <1>4, <1>6, Zenon DEF thread_yield
<1>7. CASE thread_block \/ thread_die
  BY <1>3, <1>7, Zenon DEF thread_block, thread_die
<1>8. CASE thread_tick
  BY <1>2, <1>6, <1>8, Zenon DEF thread_tick
<1>9. CASE (\E t \in Threads : init_thread(t)) \/ UNCHANGED sched
  BY <1>2, <1>9, Zenon DEF init_thread, sched
<1>10. QED
  BY <1>5, <1>6, <1>7, <1>8, <1>9, Zenon DEF SchedNext

(* Threads leave the run queue only at its head, to run, and join it only   *)
(* behind all the threads that were ready already, whatever synchronisation *)
(* calls and interrupts make them ready.                                    *)
THEOREM RoundRobin == Spec => NoOvertaking
<1>1. IInv /\ [Next]_vars => InOrder
  BY NextSched, SchedInOrder, Zenon DEF IInv
<1>2. QED
  BY <1>1, SynchInvariant, PTL DEF Spec, NoOvertaking, InOrder
------------------------------------------------------------------------------
(* Condition variables.                                                     *)

(* t has joined the waiters and still owns the lock.                        *)
AtRelease(t) == pc[t] = "cond_release" \/ (pc[t] = "up" /\ ret[t] = "cond_sleep")

(* Until it gives up the lock a waiter is the last on the list, for nobody  *)
(* else can join or signal; afterwards it does not hold the lock.           *)
ReleaseOK(t, c) ==
    InCondWait(t, c) =>
       IF AtRelease(t)
       THEN /\ cond_waiters[c] # <<>> /\ cond_waiters[c][Len(cond_waiters[c])] = t
            /\ pc[t] = "up" => arg[t] = CondLock[c]
       ELSE holder[CondLock[c]] # t

(* Exactly one of three: on the list, about to be upped, upped.             *)
Told(t, c) ==
    \/ InSeq(t, cond_waiters[c]) /\ Signalling(t) = {} /\ value[t] = 0
    \/ /\ ~ InSeq(t, cond_waiters[c]) /\ value[t] = 0
       /\ \E u \in Threads : Signalling(t) = {u}
    \/ ~ InSeq(t, cond_waiters[c]) /\ Signalling(t) = {} /\ value[t] = 1

CondInv ==
    /\ IInv /\ CondWaiterSafe
    /\ \A t \in Threads, c \in Conds : ReleaseOK(t, c)

(* Only m moves.                                                            *)
OthersStay(m) ==
    \A u \in Threads \ {m} :
       pc'[u] = pc[u] /\ arg'[u] = arg[u] /\ ret'[u] = ret[u] /\ cnd'[u] = cnd[u]

Ups(m, t) == pc[m] = "up" /\ arg[m] = t

LEMMA SignallingIs ==
    \A t \in Threads : \A u : u \in Signalling(t) <=> u \in Threads /\ Ups(u, t)
  BY Zenon DEF Signalling, Ups

(* A step that neither joins, leaves nor signals keeps the waiters safe.    *)
LEMMA WaitersKept ==
    ASSUME CondInv, NEW m \in Threads, OthersStay(m), cond_waiters' = cond_waiters,
           \A c \in Conds : InCondWait(m, c)' <=> InCondWait(m, c),
           \A t \in Threads : Ups(m, t)' <=> Ups(m, t),
           \A t \in Threads, c \in Conds : InCondWait(t, c) => value'[t] = value[t]
    PROVE  CondWaiterSafe'
<1>1. \A t \in Threads, c \in Conds : InCondWait(t, c)' <=> InCondWait(t, c)
  BY ZenonT(40) DEF OthersStay, InCondWait
<1>2. \A t \in Threads : Signalling(t)' = Signalling(t)
  <2> SUFFICES ASSUME NEW t \in Threads PROVE Signalling(t)' = Signalling(t)
    BY Zenon
  <2>1. \A u \in Threads : (pc'[u] = "up" /\ arg'[u] = t) <=> (pc[u] = "up" /\ arg[u] = t)
    BY Zenon DEF OthersStay, Ups
  <2>2. QED
    BY <2>1, Zenon DEF Signalling
<1>3. CondWaiterSafe
  BY Zenon DEF CondInv
<1>4. QED
  BY <1>1, <1>2, <1>3 DEF CondWaiterSafe

(* An owner of the lock of c is the only thread that can be at its release. *)
LEMMA AtReleaseOwns ==
    ASSUME CondInv, NEW t \in Threads, NEW c \in Conds, InCondWait(t, c), AtRelease(t)
    PROVE  Owns(t, CondLock[c])
<1>1. CASE pc[t] = "cond_release"
  BY <1>1, Zenon DEF CondInv, IInv, StillHolds, HoldsAt, InCondWait, Owns
<1>2. CASE pc[t] = "up" /\ ret[t] = "cond_sleep"
  BY <1>2, Zenon DEF CondInv, ReleaseOK, AtRelease, Owns, InWindow
<1>3. QED
  BY <1>1, <1>2, Zenon DEF AtRelease

(* What m does, the others stay as ReleaseOK says: they gain no lock, and   *)
(* the list of a condition changes only under its lock.                     *)
LEMMA ReleaseKept ==
    ASSUME CondInv, NEW m \in Threads, OthersStay(m),
           \A l \in Locks, u \in Threads \ {m} : holder'[l] = u => holder[l] = u,
           \A c \in Conds : cond_waiters'[c] = cond_waiters[c] \/ Owns(m, CondLock[c])
    PROVE  \A u \in Threads \ {m}, c \in Conds : ReleaseOK(u, c)'
<1> SUFFICES ASSUME NEW u \in Threads \ {m}, NEW c \in Conds PROVE ReleaseOK(u, c)'
  BY Zenon
<1>1. /\ pc'[u] = pc[u] /\ arg'[u] = arg[u] /\ ret'[u] = ret[u] /\ cnd'[u] = cnd[u]
      /\ ReleaseOK(u, c) /\ CondLock[c] \in Locks
  BY SynchAssumption, Zenon DEF OthersStay, CondInv
<1>2. (InCondWait(u, c)' <=> InCondWait(u, c)) /\ (AtRelease(u)' <=> AtRelease(u))
  BY <1>1, Zenon DEF InCondWait, AtRelease
<1>3. CASE ~ InCondWait(u, c)
  BY <1>2, <1>3, Zenon DEF ReleaseOK
<1>4. CASE InCondWait(u, c) /\ AtRelease(u)
  <2>1. Owns(u, CondLock[c])
    BY <1>4, AtReleaseOwns, Zenon
  <2>2. cond_waiters'[c] = cond_waiters[c]
    BY <1>1, <2>1, Zenon DEF CondInv, IInv, MutualExclusion
  <2>3. QED
    BY <1>1, <1>2, <1>4, <2>2, Zenon DEF ReleaseOK
<1>5. CASE InCondWait(u, c) /\ ~ AtRelease(u)
  BY <1>1, <1>2, <1>5, Zenon DEF ReleaseOK
<1>6. QED
  BY <1>3, <1>4, <1>5, Zenon
(* list_push_back () puts x last and leaves the rest as it was.             *)
LEMMA AppendEnd ==
    ASSUME NEW S, NEW q \in Seq(S), NEW x \in S
    PROVE  /\ Append(q, x) # <<>> /\ Append(q, x)[Len(Append(q, x))] = x
           /\ SubSeq(Append(q, x), 1, Len(Append(q, x)) - 1) = q
<1>1. Len(Append(q, x)) = Len(q) + 1 /\ Len(q) \in Nat /\ Append(q, x) \in Seq(S)
  OBVIOUS
<1>2. Append(q, x) # <<>>
  BY <1>1
<1>3. Append(q, x)[Len(Append(q, x))] = x
  BY <1>1
<1>4. SubSeq(Append(q, x), 1, Len(q)) = q
  OBVIOUS
<1>5. Len(Append(q, x)) - 1 = Len(q)
  BY <1>1
<1>6. QED
  BY <1>2, <1>3, <1>4, <1>5, Zenon
------------------------------------------------------------------------------
(* The mapping to the monitor.                                              *)

(* The owner of a lock in the monitor is the thread that owns it here.      *)
OwnerOK ==
    \A l \in Locks :
       /\ \A t \in Threads : Owns(t, l) => MonitorOwner[l] = t
       /\ (\A t \in Threads : ~ Owns(t, l)) => MonitorOwner[l] = NULL

LEMMA OwnerIs == CondInv => OwnerOK
<1> SUFFICES ASSUME CondInv, NEW l \in Locks
             PROVE  /\ \A t \in Threads : Owns(t, l) => MonitorOwner[l] = t
                    /\ (\A t \in Threads : ~ Owns(t, l)) => MonitorOwner[l] = NULL
  BY Zenon DEF OwnerOK
<1>1. \A t, u \in Threads : Owns(t, l) /\ Owns(u, l) => t = u
  BY Zenon DEF CondInv, IInv, MutualExclusion
<1>2. ASSUME NEW t \in Threads, Owns(t, l) PROVE MonitorOwner[l] = t
  <2> DEFINE o == CHOOSE u \in Threads : Owns(u, l)
  <2>1. MonitorOwner[l] = o
    BY <1>2, Zenon DEF MonitorOwner
  <2>2. o \in Threads /\ Owns(o, l)
    BY <1>2, Zenon
  <2>3. QED
    BY <1>1, <1>2, <2>1, <2>2, Zenon
<1>3. ASSUME \A t \in Threads : ~ Owns(t, l) PROVE MonitorOwner[l] = NULL
  BY <1>3, Zenon DEF MonitorOwner
<1>4. QED
  BY <1>2, <1>3, Zenon

(* A waiter on a list is inside cond_wait () and, but for the last, does    *)
(* not own the lock.                                                        *)
LEMMA ListedWaits ==
    ASSUME CondInv, NEW c \in Conds, cond_waiters[c] # <<>>
    PROVE  /\ cond_waiters[c] \in Seq(Threads)
           /\ cond_waiters[c][Len(cond_waiters[c])] \in Threads
           /\ InCondWait(cond_waiters[c][Len(cond_waiters[c])], c)
<1>1. cond_waiters[c] \in Seq(Threads)
  BY Zenon DEF CondInv, IInv, TypeOK
<1>2. /\ Len(cond_waiters[c]) \in 1 .. Len(cond_waiters[c])
      /\ cond_waiters[c][Len(cond_waiters[c])] \in Threads
  BY <1>1
<1>3. QED
  BY <1>1, <1>2, Zenon DEF CondInv, CondWaiterSafe, InSeq

(* What every step does to the waiters and to the monitor.                  *)
Refines ==
    /\ CondWaiterSafe' /\ (\A t \in Threads, c \in Conds : ReleaseOK(t, c)')
    /\ [M!Next]_<<MonitorOwner, MonitorQueue>>

(* A step that changes no ownership and no list is invisible.               *)
SameOwning ==
    \A t \in Threads, l \in Locks : Owns(t, l)' <=> Owns(t, l)

LEMMA OwnerStays ==
    ASSUME CondInv, CondInv', SameOwning
    PROVE  MonitorOwner' = MonitorOwner
<1>1. OwnerOK /\ OwnerOK'
  BY OwnerIs, PTL
<1>2. ASSUME NEW l \in Locks PROVE MonitorOwner'[l] = MonitorOwner[l]
  <2>1. CASE \E t \in Threads : Owns(t, l)
    <3>1. PICK t \in Threads : Owns(t, l)
      BY <2>1, Zenon
    <3>2. Owns(t, l)'
      BY <3>1, Zenon DEF SameOwning
    <3>3. MonitorOwner[l] = t
      BY <1>1, <3>1, Zenon DEF OwnerOK
    <3>4. MonitorOwner'[l] = t
      BY <1>1, <3>2, Zenon DEF OwnerOK
    <3>5. QED
      BY <3>3, <3>4, Zenon
  <2>2. CASE \A t \in Threads : ~ Owns(t, l)
    BY <2>2, Zenon DEF SameOwning, MonitorOwner
  <2>3. QED
    BY <2>1, <2>2, Zenon
<1>3. QED
  BY <1>2, Zenon DEF MonitorOwner

(* The monitor's queue of c stays when its list does and the last on it     *)
(* owns as much as before.                                                  *)
LEMMA QueueStays ==
    ASSUME CondInv, NEW c \in Conds, cond_waiters'[c] = cond_waiters[c],
           \A u \in Threads, k \in Locks : InCondWait(u, c) => (Owns(u, k)' <=> Owns(u, k))
    PROVE  MonitorQueue'[c] = MonitorQueue[c]
<1>1. CASE cond_waiters[c] = <<>>
  BY <1>1, Zenon DEF MonitorQueue
<1>2. CASE cond_waiters[c] # <<>>
  <2>1. PICK t \in Threads : t = cond_waiters[c][Len(cond_waiters[c])] /\ InCondWait(t, c)
    BY <1>2, ListedWaits, Zenon
  <2>2. CondLock[c] \in Locks
    BY SynchAssumption, Zenon
  <2>3. Owns(t, CondLock[c])' <=> Owns(t, CondLock[c])
    BY <2>1, <2>2, Zenon
  <2>4. QED
    BY <1>2, <2>1, <2>3, Zenon DEF MonitorQueue, Owns, InWindow
<1>3. QED
  BY <1>1, <1>2, Zenon

LEMMA MonitorStutters ==
    ASSUME CondInv, CondInv', SameOwning, cond_waiters' = cond_waiters
    PROVE  UNCHANGED <<MonitorOwner, MonitorQueue>>
<1>1. \A c \in Conds : MonitorQueue'[c] = MonitorQueue[c]
  BY QueueStays, Zenon DEF SameOwning
<1>2. MonitorQueue' = MonitorQueue
  BY <1>1, Zenon DEF MonitorQueue
<1>3. QED
  BY <1>2, OwnerStays, Zenon

(* m's step changes no list, no ownership and no wait.                      *)
Quiet(m) ==
    /\ OthersStay(m) /\ cond_waiters' = cond_waiters
    /\ \A c \in Conds : (InCondWait(m, c)' <=> InCondWait(m, c)) /\ ReleaseOK(m, c)'
    /\ \A t \in Threads : Ups(m, t)' <=> Ups(m, t)
    /\ \A t \in Threads, c \in Conds : InCondWait(t, c) => value'[t] = value[t]
    /\ \A l \in Locks : Owns(m, l)' <=> Owns(m, l)
    /\ \A l \in Locks, u \in Threads \ {m} : holder'[l] = u <=> holder[l] = u

LEMMA QuietStep ==
    ASSUME CondInv, IInv', NEW m \in Threads, Quiet(m)
    PROVE  Refines
<1>1. CondWaiterSafe'
  BY WaitersKept, Zenon DEF Quiet
<1>2. \A u \in Threads, c \in Conds : ReleaseOK(u, c)'
  <2>1. \A u \in Threads \ {m}, c \in Conds : ReleaseOK(u, c)'
    BY ReleaseKept, Zenon DEF Quiet
  <2>2. QED
    BY <2>1, Zenon DEF Quiet
<1>3. CondInv'
  BY <1>1, <1>2, Zenon DEF CondInv
<1>4. SameOwning
  BY DEF Quiet, SameOwning, OthersStay, Owns, InWindow
<1>5. UNCHANGED <<MonitorOwner, MonitorQueue>>
  BY <1>3, <1>4, MonitorStutters, Zenon DEF Quiet
<1>6. QED
  BY <1>1, <1>2, <1>5, Zenon DEF Refines

(* m, outside cond_wait (), takes the free lock l: it acquires it.          *)
Takes(m, l) ==
    /\ OthersStay(m) /\ cond_waiters' = cond_waiters /\ holder' = holder
    /\ \A c \in Conds : ~ InCondWait(m, c) /\ ~ InCondWait(m, c)'
    /\ \A t \in Threads : ~ Ups(m, t) /\ ~ Ups(m, t)'
    /\ \A t \in Threads : value'[t] = value[t]
    /\ \A u \in Threads : ~ Owns(u, l)
    /\ \A k \in Locks : Owns(m, k)' <=> Owns(m, k) \/ k = l

LEMMA AcquireStep ==
    ASSUME CondInv, IInv', NEW m \in Threads, NEW l \in Locks, Takes(m, l)
    PROVE  Refines
<1>1. CondWaiterSafe'
  BY WaitersKept, Zenon DEF Takes
<1>2. \A u \in Threads, c \in Conds : ReleaseOK(u, c)'
  <2>1. \A u \in Threads \ {m}, c \in Conds : ReleaseOK(u, c)'
    BY ReleaseKept, Zenon DEF Takes
  <2>2. \A c \in Conds : ReleaseOK(m, c)'
    BY Zenon DEF Takes, ReleaseOK
  <2>3. QED
    BY <2>1, <2>2, Zenon
<1>3. CondInv' /\ OwnerOK /\ OwnerOK'
  <2>1. CondInv'
    BY <1>1, <1>2, Zenon DEF CondInv
  <2>2. QED
    BY <2>1, OwnerIs, PTL
<1>4. \A u \in Threads, k \in Locks :
         Owns(u, k)' <=> Owns(u, k) \/ (u = m /\ k = l)
  BY Zenon DEF Takes, OthersStay, Owns, InWindow
<1>5. MonitorOwner' = [MonitorOwner EXCEPT ![l] = m] /\ MonitorOwner[l] = NULL
  <2>1. ASSUME NEW k \in Locks, k # l PROVE MonitorOwner'[k] = MonitorOwner[k]
    <3>1. CASE \E u \in Threads : Owns(u, k)
      BY <1>3, <1>4, <2>1, <3>1, Zenon DEF OwnerOK
    <3>2. CASE \A u \in Threads : ~ Owns(u, k)
      BY <1>3, <1>4, <2>1, <3>2, Zenon DEF OwnerOK
    <3>3. QED
      BY <3>1, <3>2, Zenon
  <2>2. MonitorOwner'[l] = m /\ MonitorOwner[l] = NULL
    BY <1>3, <1>4, Zenon DEF OwnerOK, Takes
  <2>3. QED
    BY <2>1, <2>2, Zenon DEF MonitorOwner
<1>6. MonitorQueue' = MonitorQueue
  <2>1. \A c \in Conds : MonitorQueue'[c] = MonitorQueue[c]
    BY <1>4, QueueStays, Zenon DEF Takes
  <2>2. QED
    BY <2>1, Zenon DEF MonitorQueue
<1>7. ~ M!Waiting(m)
  <2> SUFFICES ASSUME NEW c \in Conds, NEW i \in 1 .. Len(MonitorQueue[c]),
                      MonitorQueue[c][i] = m
               PROVE  FALSE
    BY Zenon DEF M!Waiting
  <2>1. cond_waiters[c] \in Seq(Threads)
    BY Zenon DEF CondInv, IInv, TypeOK
  <2>2. i \in 1 .. Len(cond_waiters[c]) /\ cond_waiters[c][i] = m
    BY <2>1 DEF MonitorQueue
  <2>3. QED
    BY <2>2 DEF CondInv, CondWaiterSafe, InSeq, Takes
<1>8. M!Acquire(m, l)
  BY <1>5, <1>6, <1>7, Zenon DEF M!Acquire
<1>9. QED
  BY <1>1, <1>2, <1>8, Zenon DEF Refines, M!Next
(* m ups the semaphore of the lock l it owns.                               *)
Gives(m, l) ==
    /\ OthersStay(m) /\ cond_waiters' = cond_waiters /\ holder' = holder
    /\ \A t \in Threads : ~ Ups(m, t) /\ ~ Ups(m, t)'
    /\ \A t \in Threads : value'[t] = value[t]
    /\ Owns(m, l)
    /\ \A k \in Locks : Owns(m, k)' <=> Owns(m, k) /\ k # l
    /\ \A c \in Conds : (InCondWait(m, c)' <=> InCondWait(m, c)) /\ ReleaseOK(m, c)'

LEMMA GiveFacts ==
    ASSUME CondInv, IInv', NEW m \in Threads, NEW l \in Locks, Gives(m, l)
    PROVE  /\ CondWaiterSafe' /\ (\A t \in Threads, c \in Conds : ReleaseOK(t, c)')
           /\ MonitorOwner' = [MonitorOwner EXCEPT ![l] = NULL] /\ MonitorOwner[l] = m
           /\ \A u \in Threads, k \in Locks :
                 Owns(u, k)' <=> Owns(u, k) /\ ~ (u = m /\ k = l)
<1>1. CondWaiterSafe'
  BY WaitersKept, Zenon DEF Gives
<1>2. \A u \in Threads, c \in Conds : ReleaseOK(u, c)'
  <2>1. \A u \in Threads \ {m}, c \in Conds : ReleaseOK(u, c)'
    BY ReleaseKept, Zenon DEF Gives
  <2>2. QED
    BY <2>1, Zenon DEF Gives
<1>3. CondInv' /\ OwnerOK /\ OwnerOK'
  <2>1. CondInv'
    BY <1>1, <1>2, Zenon DEF CondInv
  <2>2. QED
    BY <2>1, OwnerIs, PTL
<1>4. \A u \in Threads, k \in Locks :
         Owns(u, k)' <=> Owns(u, k) /\ ~ (u = m /\ k = l)
  BY Zenon DEF Gives, OthersStay, Owns, InWindow
<1>5. \A u \in Threads : ~ Owns(u, l)'
  BY <1>4, Zenon DEF CondInv, IInv, MutualExclusion, Gives
<1>6. ASSUME NEW k \in Locks, k # l PROVE MonitorOwner'[k] = MonitorOwner[k]
  <2>1. CASE \E u \in Threads : Owns(u, k)
    BY <1>3, <1>4, <1>6, <2>1, Zenon DEF OwnerOK
  <2>2. CASE \A u \in Threads : ~ Owns(u, k)
    BY <1>3, <1>4, <1>6, <2>2, Zenon DEF OwnerOK
  <2>3. QED
    BY <2>1, <2>2, Zenon
<1>7. MonitorOwner'[l] = NULL /\ MonitorOwner[l] = m
  BY <1>3, <1>5, Zenon DEF OwnerOK, Gives
<1>8. MonitorOwner' = [MonitorOwner EXCEPT ![l] = NULL]
  BY <1>6, <1>7, Zenon DEF MonitorOwner
<1>9. QED
  BY <1>1, <1>2, <1>4, <1>7, <1>8, Zenon

LEMMA ReleaseStep ==
    ASSUME CondInv, IInv', NEW m \in Threads, NEW l \in Locks, Gives(m, l),
           \A c \in Conds : ~ InCondWait(m, c)
    PROVE  Refines
<1>1. \A c \in Conds : MonitorQueue'[c] = MonitorQueue[c]
  BY GiveFacts, QueueStays DEF Gives
<1>2. MonitorQueue' = MonitorQueue
  BY <1>1, Zenon DEF MonitorQueue
<1>3. M!Release(m, l)
  BY <1>2, GiveFacts, Zenon DEF M!Release
<1>4. QED
  BY <1>3, GiveFacts, Zenon DEF Refines, M!Next

(* The last step of the lock_release () in cond_wait (): with one step of   *)
(* the monitor the lock is free and m waits.                                *)
LEMMA WaitStep ==
    ASSUME CondInv, IInv', NEW m \in Threads, NEW c \in Conds, Gives(m, CondLock[c]),
           InCondWait(m, c), AtRelease(m)
    PROVE  Refines
<1> DEFINE w == cond_waiters[c]
<1>0. CondLock[c] \in Locks /\ w \in Seq(Threads)
  BY SynchAssumption, Zenon DEF CondInv, IInv, TypeOK
<1>1. w # <<>> /\ w[Len(w)] = m /\ Len(w) \in 1 .. Len(w)
  BY <1>0 DEF CondInv, ReleaseOK
<1>2. ASSUME NEW d \in Conds, d # c PROVE MonitorQueue'[d] = MonitorQueue[d]
  <2>1. ~ InCondWait(m, d)
    BY <1>2, Zenon DEF InCondWait
  <2>2. QED
    BY <1>0, <2>1, GiveFacts, QueueStays DEF Gives
<1>3. MonitorQueue[c] = SubSeq(w, 1, Len(w) - 1)
  BY <1>1, Zenon DEF MonitorQueue, Gives
<1>4. MonitorQueue'[c] = w
  <2>1. ~ Owns(m, CondLock[c])'
    BY <1>0, GiveFacts, Zenon
  <2>2. ~ Owns(w[Len(w)], CondLock[c])'
    BY <1>1, <2>1, Zenon DEF Gives, Owns, InWindow
  <2>3. QED
    BY <2>2, Zenon DEF MonitorQueue, Gives
<1>5. w = Append(SubSeq(w, 1, Len(w) - 1), m)
  BY <1>0, <1>1
<1>6. MonitorQueue' = [MonitorQueue EXCEPT ![c] = Append(MonitorQueue[c], m)]
  BY <1>2, <1>3, <1>4, <1>5, Zenon DEF MonitorQueue
<1>7. M!Wait(m, c)
  BY <1>0, <1>6, GiveFacts, Zenon DEF M!Wait
<1>8. QED
  BY <1>0, <1>7, GiveFacts, Zenon DEF Refines, M!Next
------------------------------------------------------------------------------
(* The steps of the code.                                                   *)

(* cond_wait () joins the waiters, unseen by the monitor.                   *)
LEMMA cond_waitRefines ==
    ASSUME CondInv, IInv', NEW t \in Threads, NEW c \in Conds, cond_wait(t, c)
    PROVE  Refines
<1> DEFINE w == cond_waiters[c]
<1>1. /\ pc[t] = "run" /\ holder[CondLock[c]] = t /\ CondLock[c] \in Locks
      /\ value' = [value EXCEPT ![t] = 0]
      /\ cond_waiters' = [cond_waiters EXCEPT ![c] = Append(w, t)]
      /\ cnd' = [cnd EXCEPT ![t] = c] /\ pc' = [pc EXCEPT ![t] = "cond_release"]
      /\ holder' = holder /\ arg' = arg /\ ret' = ret
  BY SynchAssumption, Zenon DEF cond_wait, At, Goto, sema_init
<1>2. /\ value \in [AllSemas -> Nat] /\ cond_waiters \in [Conds -> Seq(Threads)]
      /\ pc \in [Threads -> Pcs] /\ cnd \in [Threads -> Conds \cup {NULL}]
      /\ w \in Seq(Threads) /\ t \in AllSemas
  BY Zenon DEF CondInv, IInv, TypeOK, AllSemas
<1>3. OthersStay(t) /\ pc'[t] = "cond_release" /\ cnd'[t] = c
  BY <1>1, <1>2, Zenon DEF OthersStay
<1>4. /\ \A d \in Conds : ~ InCondWait(t, d) /\ ~ InSeq(t, cond_waiters[d])
      /\ Signalling(t) = {}
  <2>1. \A d \in Conds : ~ InCondWait(t, d)
    BY <1>1, Zenon DEF InCondWait
  <2>2. QED
    BY <2>1, Zenon DEF CondInv, CondWaiterSafe
<1>5. /\ cond_waiters'[c] = Append(w, t) /\ Append(w, t) \in Seq(Threads)
      /\ \A d \in Conds : d # c => cond_waiters'[d] = cond_waiters[d]
      /\ \A y : InSeq(y, Append(w, t)) <=> InSeq(y, w) \/ y = t
      /\ NoDuplicates(Append(w, t))
  <2>1. NoDuplicates(w)
    BY Zenon DEF CondInv, CondWaiterSafe
  <2>2. QED
    BY <1>1, <1>2, <1>4, <2>1, AppendFresh
<1>6. \A u \in Threads : Signalling(u)' = Signalling(u)
  <2> SUFFICES ASSUME NEW u \in Threads PROVE Signalling(u)' = Signalling(u)
    BY Zenon
  <2>1. \A x \in Threads : (pc'[x] = "up" /\ arg'[x] = u) <=> (pc[x] = "up" /\ arg[x] = u)
    BY <1>1, <1>3, Zenon DEF OthersStay
  <2>2. QED
    BY <2>1, Zenon DEF Signalling
<1>7. \A u \in Threads, d \in Conds :
         InCondWait(u, d)' <=> InCondWait(u, d) \/ (u = t /\ d = c)
  BY <1>1, <1>3, <1>4, Zenon DEF OthersStay, InCondWait
<1>8. CondWaiterSafe'
  <2>1. \A d \in Conds : NoDuplicates(cond_waiters'[d])
    BY <1>5, Zenon DEF CondInv, CondWaiterSafe
  <2>2. ASSUME NEW u \in Threads, NEW d \in Conds, InSeq(u, cond_waiters'[d])
        PROVE  InCondWait(u, d)'
    <3>1. InSeq(u, cond_waiters[d]) \/ (u = t /\ d = c)
      BY <1>5, <2>2, Zenon
    <3>2. InSeq(u, cond_waiters[d]) => InCondWait(u, d)
      BY Zenon DEF CondInv, CondWaiterSafe
    <3>3. QED
      BY <1>7, <3>1, <3>2, Zenon
  <2>3. \A u \in Threads : Signalling(u)' # {} => \E d \in Conds : InCondWait(u, d)'
    BY <1>6, <1>7, Zenon DEF CondInv, CondWaiterSafe
  <2>4. \A u \in Threads, d \in Conds : u # t =>
           (InSeq(u, cond_waiters'[d]) <=> InSeq(u, cond_waiters[d])) /\ value'[u] = value[u]
    BY <1>1, <1>2, <1>5
  <2>5. InSeq(t, cond_waiters'[c]) /\ Signalling(t)' = {} /\ value'[t] = 0
    BY <1>1, <1>2, <1>4, <1>5, <1>6, Zenon
  <2>6. \A u \in Threads, d \in Conds : InCondWait(u, d)' => Told(u, d)'
    <3> SUFFICES ASSUME NEW u \in Threads, NEW d \in Conds, InCondWait(u, d)'
                 PROVE  Told(u, d)'
      BY Zenon
    <3>1. CASE u = t
      BY <1>4, <1>7, <2>5, <3>1, Zenon DEF Told, InSeq
    <3>2. CASE u # t
      BY <1>6, <1>7, <2>4, <3>2 DEF CondInv, CondWaiterSafe, Told, InSeq
    <3>3. QED
      BY <3>1, <3>2, Zenon
  <2>7. QED
    BY <2>1, <2>2, <2>3, <2>6, Zenon DEF CondWaiterSafe, Told, InSeq, NoDuplicates
<1>9. \A u \in Threads, d \in Conds : ReleaseOK(u, d)'
  <2>1. Owns(t, CondLock[c])
    BY <1>1, Zenon DEF Owns
  <2>2. \A u \in Threads \ {t}, d \in Conds : ReleaseOK(u, d)'
    BY <1>1, <1>3, <1>5, <2>1, ReleaseKept, Zenon
  <2>3. ReleaseOK(t, c)'
    BY <1>1, <1>2, <1>3, <1>5 DEF ReleaseOK, AtRelease
  <2>4. \A d \in Conds : d # c => ReleaseOK(t, d)'
    BY <1>4, <1>7, Zenon DEF ReleaseOK
  <2>5. QED
    BY <2>2, <2>3, <2>4, Zenon
<1>10. SameOwning
  BY <1>1, <1>3, Zenon DEF SameOwning, OthersStay, Owns, InWindow
<1>11. MonitorOwner' = MonitorOwner
  <2>1. CondInv'
    BY <1>8, <1>9, Zenon DEF CondInv
  <2>2. QED
    BY <1>10, <2>1, OwnerStays, Zenon
<1>12. MonitorQueue' = MonitorQueue
  <2>1. \A d \in Conds : d # c => MonitorQueue'[d] = MonitorQueue[d]
    BY <1>5, <1>10, QueueStays, Zenon DEF SameOwning
  <2>2. MonitorQueue[c] = w
    <3>1. CASE w = <<>>
      BY <3>1, Zenon DEF MonitorQueue
    <3>2. CASE w # <<>>
      <4>1. w[Len(w)] \in Threads /\ InCondWait(w[Len(w)], c)
        BY <3>2, ListedWaits, Zenon
      <4>2. w[Len(w)] # t
        BY <1>4, <4>1, Zenon
      <4>3. ~ Owns(w[Len(w)], CondLock[c])
        BY <1>1, <4>1, <4>2, Zenon DEF CondInv, IInv, MutualExclusion, Owns
      <4>4. QED
        BY <4>3, Zenon DEF MonitorQueue
    <3>3. QED
      BY <3>1, <3>2, Zenon
  <2>3. MonitorQueue'[c] = w
    <3>1. /\ Append(w, t) # <<>> /\ Append(w, t)[Len(Append(w, t))] = t
          /\ SubSeq(Append(w, t), 1, Len(Append(w, t)) - 1) = w
      BY <1>2, AppendEnd, Zenon
    <3>2. holder'[CondLock[c]] = t
      BY <1>1, Zenon
    <3>3. QED
      BY <1>5, <3>1, <3>2, Zenon DEF MonitorQueue, Owns
  <2>4. QED
    BY <2>1, <2>2, <2>3, ZenonT(40) DEF MonitorQueue
<1>13. QED
  BY <1>8, <1>9, <1>11, <1>12, Zenon DEF Refines
(* The list of c as the owner of its lock sees it is the monitor's queue.   *)
LEMMA OwnerSeesQueue ==
    ASSUME CondInv, NEW t \in Threads, NEW c \in Conds, holder[CondLock[c]] = t,
           ~ InCondWait(t, c)
    PROVE  MonitorQueue[c] = cond_waiters[c]
<1> DEFINE w == cond_waiters[c]
<1>1. CASE w = <<>>
  BY <1>1, Zenon DEF MonitorQueue
<1>2. CASE w # <<>>
  <2>1. w[Len(w)] \in Threads /\ InCondWait(w[Len(w)], c) /\ CondLock[c] \in Locks
    BY <1>2, ListedWaits, SynchAssumption, Zenon
  <2>2. ~ Owns(w[Len(w)], CondLock[c])
    BY <2>1, Zenon DEF CondInv, IInv, MutualExclusion, Owns
  <2>3. QED
    BY <2>2, Zenon DEF MonitorQueue
<1>3. QED
  BY <1>1, <1>2, Zenon

(* What cond_signal () does to the waiters: the first is no longer listed,  *)
(* and t is about to up its semaphore.                                      *)
LEMMA SignalWaiters ==
    ASSUME CondInv, NEW t \in Threads, NEW c \in Conds, OthersStay(t),
           value' = value, cond_waiters[c] # <<>>,
           cond_waiters' = [cond_waiters EXCEPT ![c] = Tail(cond_waiters[c])],
           pc[t] # "up", pc'[t] = "up", arg'[t] = Head(cond_waiters[c]),
           \A d \in Conds : ~ InCondWait(t, d) /\ ~ InCondWait(t, d)'
    PROVE  CondWaiterSafe'
<1> DEFINE w == cond_waiters[c]
<1>1. /\ cond_waiters \in [Conds -> Seq(Threads)] /\ w \in Seq(Threads)
      /\ CondWaiterSafe
  BY Zenon DEF CondInv, IInv, TypeOK
<1>2. PICK h \in Threads :
         /\ h = Head(w) /\ InSeq(h, w) /\ NoDuplicates(Tail(w)) /\ Tail(w) \in Seq(Threads)
         /\ \A y : InSeq(y, Tail(w)) <=> InSeq(y, w) /\ y # h
  BY <1>1, TailOfList DEF CondWaiterSafe
<1>3. /\ cond_waiters'[c] = Tail(w)
      /\ \A d \in Conds : d # c => cond_waiters'[d] = cond_waiters[d]
  BY <1>1, Zenon
<1>4. InCondWait(h, c) /\ h # t
  BY <1>1, <1>2, Zenon DEF CondWaiterSafe
<1>5. Signalling(h) = {} /\ value[h] = 0
  BY <1>1, <1>2, <1>4, Zenon DEF CondWaiterSafe
<1>6. \A u \in Threads, d \in Conds : InCondWait(u, d)' <=> InCondWait(u, d)
  BY Zenon DEF OthersStay, InCondWait
<1>7. \A u, x \in Threads : x \in Signalling(u)' <=> x \in Signalling(u) \/ (x = t /\ u = h)
  BY <1>2, Zenon DEF OthersStay, Signalling
<1>8. /\ Signalling(h)' = {t}
      /\ \A u \in Threads : u # h => Signalling(u)' = Signalling(u)
  <2>1. \A u \in Threads : Signalling(u) \subseteq Threads /\ Signalling(u)' \subseteq Threads
    BY Zenon DEF Signalling
  <2>2. \A x : x \in Signalling(h)' <=> x = t
    BY <1>5, <1>7, <2>1, Zenon
  <2>3. ASSUME NEW u \in Threads, u # h PROVE Signalling(u)' = Signalling(u)
    <3>1. \A x : x \in Signalling(u)' <=> x \in Signalling(u)
      BY <1>7, <2>1, <2>3, Zenon
    <3>2. QED
      BY <3>1, Zenon
  <2>4. Signalling(h)' = {t}
    BY <2>2, Zenon
  <2>5. QED
    BY <2>3, <2>4, Zenon
<1>9. \A d \in Conds : InCondWait(h, d) => d = c
  BY <1>4, Zenon DEF InCondWait
<1>10. \A d \in Conds : NoDuplicates(cond_waiters'[d])
  BY <1>1, <1>2, <1>3, Zenon DEF CondWaiterSafe
<1>11. \A u \in Threads, d \in Conds : InSeq(u, cond_waiters'[d]) => InSeq(u, cond_waiters[d])
  BY <1>2, <1>3, Zenon
<1>12. \A u \in Threads, d \in Conds :
          u # h => (InSeq(u, cond_waiters'[d]) <=> InSeq(u, cond_waiters[d]))
  BY <1>2, <1>3, Zenon
<1>13. \A u \in Threads, d \in Conds : InSeq(u, cond_waiters'[d]) => InCondWait(u, d)'
  BY <1>1, <1>6, <1>11, Zenon DEF CondWaiterSafe
<1>14. \A u \in Threads : Signalling(u)' # {} => \E d \in Conds : InCondWait(u, d)'
  BY <1>1, <1>4, <1>6, <1>8, Zenon DEF CondWaiterSafe
<1>15. ASSUME NEW u \in Threads, NEW d \in Conds, InCondWait(u, d)'
       PROVE  Told(u, d)'
  <2>1. CASE u = h
    <3>1. d = c /\ ~ InSeq(h, cond_waiters'[d])
      BY <1>2, <1>3, <1>6, <1>9, <1>15, <2>1, Zenon
    <3>2. QED
      BY <1>5, <1>8, <2>1, <3>1, Zenon DEF Told, InSeq
  <2>2. CASE u # h
    <3>1. Told(u, d)
      BY <1>1, <1>6, <1>15, Zenon DEF CondWaiterSafe, Told
    <3>2. /\ Signalling(u)' = Signalling(u) /\ value'[u] = value[u]
          /\ InSeq(u, cond_waiters'[d]) <=> InSeq(u, cond_waiters[d])
      BY <1>8, <1>12, <2>2, Zenon
    <3>3. QED
      BY <3>1, <3>2, Zenon DEF Told, InSeq
  <2>3. QED
    BY <2>1, <2>2, Zenon
<1>16. QED
  BY <1>10, <1>13, <1>14, <1>15, Zenon DEF CondWaiterSafe, Told, InSeq, NoDuplicates
LEMMA SignalRefines ==
    ASSUME CondInv, IInv', NEW t \in Threads, NEW c \in Conds, NEW after,
           Signal(t, c, after), UNCHANGED <<value, holder, cnd>>,
           holder[CondLock[c]] = t,
           \/ pc[t] = "run" /\ after = "run"
           \/ pc[t] = "broadcast" /\ after = "broadcast" /\ c = cnd[t]
    PROVE  Refines
<1> DEFINE w == cond_waiters[c]
<1>1. /\ pc' = [pc EXCEPT ![t] = "up"] /\ arg' = [arg EXCEPT ![t] = Head(w)]
      /\ ret' = [ret EXCEPT ![t] = after] /\ w # <<>>
      /\ cond_waiters' = [cond_waiters EXCEPT ![c] = Tail(w)]
  BY Zenon DEF Signal, Call
<1>2. /\ pc \in [Threads -> Pcs] /\ arg \in [Threads -> AllSemas \cup {NULL}]
      /\ ret \in [Threads -> Rets] /\ cond_waiters \in [Conds -> Seq(Threads)]
      /\ w \in Seq(Threads) /\ CondLock[c] \in Locks
  BY SynchAssumption, Zenon DEF CondInv, IInv, TypeOK
<1>3. /\ OthersStay(t) /\ pc'[t] = "up" /\ ret'[t] = after /\ pc[t] # "up"
      /\ arg'[t] = Head(w) /\ Head(w) \in Threads
  BY <1>1, <1>2, TailOfList, Zenon DEF OthersStay
<1>4. /\ \A d \in Conds : ~ InCondWait(t, d) /\ ~ InCondWait(t, d)'
      /\ \A d \in Conds : ReleaseOK(t, d)'
  BY <1>3, Zenon DEF InCondWait, ReleaseOK
<1>5. CondWaiterSafe'
  BY <1>1, <1>3, <1>4, SignalWaiters, Zenon
<1>6. Owns(t, CondLock[c])
  BY Zenon DEF Owns
<1>7. \A u \in Threads, d \in Conds : ReleaseOK(u, d)'
  <2>1. \A u \in Threads \ {t}, d \in Conds : ReleaseOK(u, d)'
    BY <1>1, <1>2, <1>3, <1>6, ReleaseKept, Zenon
  <2>2. QED
    BY <1>4, <2>1, Zenon
<1>8. SameOwning
  <2>1. \A l \in Locks : ~ InWindow(t, l) /\ ~ InWindow(t, l)'
    BY <1>3, SynchAssumption, Zenon DEF InWindow
  <2>2. QED
    BY <1>3, <2>1, Zenon DEF SameOwning, OthersStay, Owns, InWindow
<1>9. MonitorOwner' = MonitorOwner /\ MonitorOwner[CondLock[c]] = t
  <2>1. CondInv' /\ OwnerOK
    BY <1>5, <1>7, OwnerIs, Zenon DEF CondInv
  <2>2. QED
    BY <1>2, <1>6, <1>8, <2>1, OwnerStays, Zenon DEF OwnerOK
<1>10. MonitorQueue[c] = w
  BY <1>4, OwnerSeesQueue, Zenon
<1>11. MonitorQueue'[c] = Tail(w)
  <2>1. cond_waiters'[c] = Tail(w)
    BY <1>1, <1>2, Zenon
  <2>2. CASE Tail(w) = <<>>
    BY <2>1, <2>2, Zenon DEF MonitorQueue
  <2>3. CASE Tail(w) # <<>>
    <3>1. PICK u \in Threads : u = w[Len(w)] /\ InCondWait(u, c)
      BY <1>1, ListedWaits, Zenon
    <3>2. Tail(w)[Len(Tail(w))] = u
      <4>1. Len(Tail(w)) = Len(w) - 1 /\ Len(Tail(w)) \in 1 .. Len(Tail(w))
        BY <1>1, <1>2, <2>3
      <4>2. QED
        BY <1>1, <1>2, <3>1, <4>1
    <3>3. ~ Owns(u, CondLock[c])'
      <4>1. ~ Owns(u, CondLock[c])
        BY <1>2, <1>4, <1>6, <3>1, Zenon DEF CondInv, IInv, MutualExclusion
      <4>2. QED
        BY <1>2, <1>8, <4>1, Zenon DEF SameOwning
    <3>4. QED
      BY <2>1, <3>2, <3>3, Zenon DEF MonitorQueue, Owns, InWindow
  <2>4. QED
    BY <2>2, <2>3, Zenon
<1>12. \A d \in Conds : d # c => MonitorQueue'[d] = MonitorQueue[d]
  BY <1>1, <1>2, <1>8, QueueStays, Zenon DEF SameOwning
<1>13. MonitorQueue' = [MonitorQueue EXCEPT ![c] = Tail(MonitorQueue[c])]
  BY <1>10, <1>11, <1>12, Zenon DEF MonitorQueue
<1>14. M!Signal(t, c)
  BY <1>1, <1>9, <1>10, <1>13, Zenon DEF M!Signal
<1>15. QED
  BY <1>5, <1>7, <1>14, Zenon DEF Refines, M!Next

(* The sema_up () of a signal: the waiter's semaphore becomes 1.            *)
LEMMA SignalledRefines ==
    ASSUME CondInv, IInv', NEW m \in Threads, NEW t \in Threads, Ups(m, t),
           OthersStay(m), pc'[m] # "up", pc'[m] # "hold",
           cond_waiters' = cond_waiters, holder' = holder,
           value' = [value EXCEPT ![t] = value[t] + 1],
           \A c \in Conds : ~ InCondWait(m, c) /\ ~ InCondWait(m, c)'
    PROVE  Refines
<1>1. CondWaiterSafe /\ value \in [AllSemas -> Nat] /\ t \in AllSemas
  BY Zenon DEF CondInv, IInv, TypeOK, AllSemas
<1>2. m \in Signalling(t) /\ ~ Ups(m, t)'
  BY Zenon DEF Ups, Signalling
<1>3. \A u \in Threads, c \in Conds : InCondWait(u, c)' <=> InCondWait(u, c)
  BY Zenon DEF OthersStay, InCondWait
<1>4. PICK c \in Conds : InCondWait(t, c)
  BY <1>1, <1>2, Zenon DEF CondWaiterSafe
<1>5. /\ Signalling(t) = {m} /\ value[t] = 0
      /\ \A d \in Conds : InCondWait(t, d) => ~ InSeq(t, cond_waiters[d])
  <2>1. \A d \in Conds : InCondWait(t, d) => Told(t, d)
    BY <1>1, Zenon DEF CondWaiterSafe, Told
  <2>2. QED
    BY <1>2, <1>4, <2>1, Zenon DEF Told
<1>6. Signalling(t)' = {} /\ value'[t] = 1
  <2>1. \A u \in Threads : ~ (pc'[u] = "up" /\ arg'[u] = t)
    BY <1>5, Zenon DEF OthersStay, Signalling
  <2>2. Signalling(t)' = {}
    BY <2>1, Zenon DEF Signalling
  <2>3. QED
    BY <1>1, <1>5, <2>2
<1>7. ASSUME NEW u \in Threads, u # t
      PROVE  Signalling(u)' = Signalling(u) /\ value'[u] = value[u]
  <2>1. \A x \in Threads : (pc'[x] = "up" /\ arg'[x] = u) <=> (pc[x] = "up" /\ arg[x] = u)
    BY <1>7, Zenon DEF OthersStay, Ups
  <2>2. QED
    BY <1>1, <1>7, <2>1, Zenon DEF Signalling, AllSemas
<1>8. CondWaiterSafe'
  <2>1. \A u \in Threads : Signalling(u)' # {} => \E d \in Conds : InCondWait(u, d)'
    BY <1>1, <1>3, <1>6, <1>7, Zenon DEF CondWaiterSafe
  <2>2. ASSUME NEW u \in Threads, NEW d \in Conds, InCondWait(u, d)' PROVE Told(u, d)'
    <3>1. CASE u = t
      BY <1>3, <1>5, <1>6, <2>2, <3>1, Zenon DEF Told, InSeq
    <3>2. CASE u # t
      <4>1. Told(u, d)
        BY <1>1, <1>3, <2>2, Zenon DEF CondWaiterSafe, Told
      <4>2. Signalling(u)' = Signalling(u) /\ value'[u] = value[u]
        BY <1>7, <3>2, Zenon
      <4>3. QED
        BY <4>1, <4>2, Zenon DEF Told
    <3>3. QED
      BY <3>1, <3>2, Zenon
  <2>3. QED
    BY <1>1, <1>3, <2>1, <2>2, Zenon DEF CondWaiterSafe, Told
<1>9. \A u \in Threads, d \in Conds : ReleaseOK(u, d)'
  <2>1. \A u \in Threads \ {m}, d \in Conds : ReleaseOK(u, d)'
    BY ReleaseKept, Zenon
  <2>2. QED
    BY <2>1, Zenon DEF ReleaseOK
<1>10. SameOwning
  <2>1. \A l \in Locks : ~ InWindow(m, l) /\ ~ InWindow(m, l)'
    BY SynchAssumption, Zenon DEF InWindow, Ups
  <2>2. QED
    BY <2>1, Zenon DEF SameOwning, OthersStay, Owns, InWindow
<1>11. UNCHANGED <<MonitorOwner, MonitorQueue>>
  <2>1. CondInv'
    BY <1>8, <1>9, Zenon DEF CondInv
  <2>2. QED
    BY <1>10, <2>1, MonitorStutters, Zenon
<1>12. QED
  BY <1>8, <1>9, <1>11, Zenon DEF Refines
(* A signalled waiter comes out of sema_down () on its own semaphore.       *)
LEMMA WokenRefines ==
    ASSUME CondInv, IInv', NEW t \in Threads, NEW c \in Conds, InCondWait(t, c),
           pc[t] \in {"down", "waiting"}, arg[t] = t, value[t] # 0,
           pc'[t] = "cond_reacquire", OthersStay(t),
           cond_waiters' = cond_waiters, holder' = holder,
           value' = [value EXCEPT ![t] = value[t] - 1]
    PROVE  Refines
<1>1. CondWaiterSafe /\ value \in [AllSemas -> Nat] /\ t \in AllSemas
  BY Zenon DEF CondInv, IInv, TypeOK, AllSemas
<1>2. Signalling(t) = {} /\ \A d \in Conds : ~ InSeq(t, cond_waiters[d])
  <2>1. Told(t, c)
    BY <1>1, Zenon DEF CondWaiterSafe, Told
  <2>2. \A d \in Conds : InSeq(t, cond_waiters[d]) => d = c
    BY <1>1, Zenon DEF CondWaiterSafe, InCondWait
  <2>3. QED
    BY <2>1, <2>2, Zenon DEF Told
<1>3. \A d \in Conds : ~ InCondWait(t, d)'
  BY Zenon DEF InCondWait
<1>4. \A u \in Threads, d \in Conds : InCondWait(u, d)' <=> InCondWait(u, d) /\ u # t
  BY <1>3, Zenon DEF OthersStay, InCondWait
<1>5. \A u \in Threads : Signalling(u)' = Signalling(u)
  <2> SUFFICES ASSUME NEW u \in Threads PROVE Signalling(u)' = Signalling(u)
    BY Zenon
  <2>1. \A x \in Threads : (pc'[x] = "up" /\ arg'[x] = u) <=> (pc[x] = "up" /\ arg[x] = u)
    BY Zenon DEF OthersStay
  <2>2. QED
    BY <2>1, Zenon DEF Signalling
<1>6. CondWaiterSafe'
  <2>1. \A u \in Threads, d \in Conds : InSeq(u, cond_waiters'[d]) => InCondWait(u, d)'
    BY <1>1, <1>2, <1>4, Zenon DEF CondWaiterSafe
  <2>2. \A u \in Threads : Signalling(u)' # {} => \E d \in Conds : InCondWait(u, d)'
    BY <1>1, <1>2, <1>4, <1>5, Zenon DEF CondWaiterSafe
  <2>3. ASSUME NEW u \in Threads, NEW d \in Conds, InCondWait(u, d)' PROVE Told(u, d)'
    <3>1. Told(u, d) /\ u # t
      BY <1>1, <1>4, <2>3, Zenon DEF CondWaiterSafe, Told
    <3>2. Signalling(u)' = Signalling(u) /\ value'[u] = value[u]
      BY <1>1, <1>5, <3>1
    <3>3. QED
      BY <3>1, <3>2, Zenon DEF Told
  <2>4. QED
    BY <1>1, <2>1, <2>2, <2>3, Zenon DEF CondWaiterSafe, Told, InSeq
<1>7. \A u \in Threads, d \in Conds : ReleaseOK(u, d)'
  <2>1. \A u \in Threads \ {t}, d \in Conds : ReleaseOK(u, d)'
    BY ReleaseKept, Zenon
  <2>2. QED
    BY <1>3, <2>1, Zenon DEF ReleaseOK
<1>8. SameOwning
  BY Zenon DEF SameOwning, OthersStay, Owns, InWindow
<1>9. UNCHANGED <<MonitorOwner, MonitorQueue>>
  <2>1. CondInv'
    BY <1>6, <1>7, Zenon DEF CondInv
  <2>2. QED
    BY <1>8, <2>1, MonitorStutters, Zenon
<1>10. QED
  BY <1>6, <1>7, <1>9, Zenon DEF Refines

(* A thread that is neither in cond_wait () nor upping a waiter's semaphore *)
(* before or after its step.                                                *)
Aside(m) ==
    /\ \A c \in Conds : ~ InCondWait(m, c)
    /\ \A t \in Threads : ~ Ups(m, t)

LEMMA AsideStep ==
    ASSUME CondInv, IInv', NEW m \in Threads, OthersStay(m), Aside(m), Aside(m)',
           cond_waiters' = cond_waiters,
           \A t \in Threads : value'[t] = value[t],
           \A l \in Locks : Owns(m, l)' <=> Owns(m, l),
           \A l \in Locks, u \in Threads \ {m} : holder'[l] = u <=> holder[l] = u
    PROVE  Refines
  BY QuietStep, Zenon DEF Quiet, Aside, ReleaseOK

(* In its own code, or at these places of a call, a thread is aside.        *)
Places == {"run", "hold", "cond_reacquire", "broadcast", "create", "hlt", "loop"}

LEMMA AsideAt ==
    \A t \in Threads : /\ pc[t] \in Places => Aside(t)
                       /\ pc'[t] \in Places => Aside(t)'
  BY Zenon DEF Places, Aside, InCondWait, Ups

(* One turn of sema_down ().                                                *)
LEMMA sema_downRefines ==
    ASSUME CondInv, IInv', NEW t \in Threads, sema_down(t)
    PROVE  Refines
<1>1. /\ pc[t] \in {"down", "waiting"} /\ FrameOK(t) /\ arg[t] \in AllSemas
      /\ holder' = holder /\ cond_waiters' = cond_waiters
  BY SynchAssumption DEF sema_down, At, CondInv, IInv, PcOK, FrameOK, AllSemas
<1>2. /\ value \in [AllSemas -> Nat] /\ pc \in [Threads -> Pcs]
      /\ arg \in [Threads -> AllSemas \cup {NULL}] /\ ret \in [Threads -> Rets]
      /\ cnd \in [Threads -> Conds \cup {NULL}]
  BY Zenon DEF CondInv, IInv, TypeOK
<1>3. CASE value[arg[t]] = 0
  <2>1. pc' = [pc EXCEPT ![t] = "waiting"] /\ UNCHANGED <<arg, ret, cnd, value>>
    BY <1>3, Zenon DEF sema_down, Return
  <2>2. OthersStay(t) /\ pc'[t] = "waiting"
    BY <1>2, <2>1, Zenon DEF OthersStay
  <2>3. \A c \in Conds : (InCondWait(t, c)' <=> InCondWait(t, c)) /\ ReleaseOK(t, c)'
    <3>1. \A c \in Conds : InCondWait(t, c)' <=> InCondWait(t, c)
      BY <1>1, <2>1, <2>2, Zenon DEF InCondWait
    <3>2. ~ AtRelease(t) /\ ~ AtRelease(t)'
      BY <1>1, <2>2, Zenon DEF AtRelease
    <3>3. QED
      BY <1>1, <3>1, <3>2, Zenon DEF CondInv, ReleaseOK
  <2>4. /\ \A u \in Threads : Ups(t, u)' <=> Ups(t, u)
        /\ \A l \in Locks : Owns(t, l)' <=> Owns(t, l)
    BY <1>1, <2>2, Zenon DEF Ups, Owns, InWindow
  <2>5. QED
    BY <1>1, <2>1, <2>2, <2>3, <2>4, QuietStep, Zenon DEF Quiet
<1>4. CASE value[arg[t]] # 0
  <2>1. value' = [value EXCEPT ![arg[t]] = value[arg[t]] - 1] /\ Return(t, ret[t])
    BY <1>4, Zenon DEF sema_down
  <2>2. OthersStay(t) /\ pc'[t] = ret[t]
    BY <1>2, <2>1, Zenon DEF OthersStay, Return
  <2>3. CASE ret[t] = "run" /\ arg[t] \in Semas
    <3>1. Aside(t) /\ Aside(t)'
      <4>1. Aside(t)
        BY <1>1, <2>3, SynchAssumption, Zenon DEF Aside, InCondWait, Ups
      <4>2. QED
        BY <2>2, <2>3, <4>1, AsideAt, Zenon DEF Places
    <3>2. \A u \in Threads : value'[u] = value[u]
      BY <1>2, <2>1, <2>3, SynchAssumption, Zenon DEF AllSemas
    <3>3. \A l \in Locks : Owns(t, l)' <=> Owns(t, l)
      BY <1>1, <2>2, <2>3, Zenon DEF Owns, InWindow
    <3>4. QED
      BY <1>1, <2>2, <3>1, <3>2, <3>3, AsideStep, Zenon
  <2>4. CASE ret[t] = "hold" /\ arg[t] \in Locks
    <3>1. PICK l \in Locks : l = arg[t]
      BY <2>4, Zenon
    <3>2. arg'[t] = l
      BY <2>1, <2>4, <3>1, Zenon DEF Return
    <3>3. Aside(t) /\ Aside(t)'
      <4>1. Aside(t)
        BY <1>1, <2>4, SynchAssumption, Zenon DEF Aside, InCondWait, Ups
      <4>2. QED
        BY <2>2, <2>4, <4>1, AsideAt, Zenon DEF Places
    <3>4. \A u \in Threads : value'[u] = value[u]
      BY <1>2, <2>1, <2>4, SynchAssumption, Zenon DEF AllSemas
    <3>5. \A u \in Threads : ~ Owns(u, l)
      BY <1>4, <3>1, Zenon DEF CondInv, IInv, MutualExclusion
    <3>6. \A k \in Locks : Owns(t, k)' <=> Owns(t, k) \/ k = l
      BY <1>1, <2>2, <2>4, <3>2, Zenon DEF Owns, InWindow
    <3>7. Takes(t, l)
      BY <1>1, <2>2, <3>3, <3>4, <3>5, <3>6, Zenon DEF Takes, Aside
    <3>8. QED
      BY <3>7, AcquireStep, Zenon
  <2>5. CASE ret[t] = "cond_reacquire" /\ arg[t] = t /\ cnd[t] \in Conds
    <3>1. InCondWait(t, cnd[t])
      BY <1>1, <2>5, Zenon DEF InCondWait
    <3>2. QED
      BY <1>1, <1>4, <2>1, <2>2, <2>5, <3>1, WokenRefines, Zenon
  <2>6. QED
    BY <1>1, <2>3, <2>4, <2>5, Zenon DEF FrameOK
<1>5. QED
  BY <1>3, <1>4, Zenon

(* The body of sema_up ().                                                  *)
LEMMA sema_upRefines ==
    ASSUME CondInv, IInv', NEW t \in Threads, sema_up(t)
    PROVE  Refines
<1>1. /\ pc[t] = "up" /\ FrameOK(t) /\ arg[t] \in AllSemas
      /\ holder' = holder /\ cond_waiters' = cond_waiters /\ Return(t, ret[t])
      /\ value' = [value EXCEPT ![arg[t]] = value[arg[t]] + 1]
  BY SynchAssumption, Zenon DEF sema_up, Up, At, CondInv, IInv, PcOK, FrameOK, AllSemas
<1>2. /\ value \in [AllSemas -> Nat] /\ pc \in [Threads -> Pcs]
      /\ arg \in [Threads -> AllSemas \cup {NULL}] /\ ret \in [Threads -> Rets]
      /\ cnd \in [Threads -> Conds \cup {NULL}]
  BY Zenon DEF CondInv, IInv, TypeOK
<1>3. OthersStay(t) /\ pc'[t] = ret[t]
  BY <1>1, <1>2, Zenon DEF OthersStay, Return
<1>4. ret[t] \in {"run", "broadcast"} =>
         (\A c \in Conds : ~ InCondWait(t, c)) /\ Aside(t)'
  <2>1. ret[t] \in {"run", "broadcast"} => \A c \in Conds : ~ InCondWait(t, c)
    BY <1>1, Zenon DEF InCondWait
  <2>2. QED
    BY <1>3, <2>1, AsideAt, Zenon DEF Places
<1>5. CASE ret[t] = "run" /\ arg[t] \in Semas
  <2>1. Aside(t)
    BY <1>1, <1>4, <1>5, SynchAssumption, Zenon DEF Aside, Ups
  <2>2. \A u \in Threads : value'[u] = value[u]
    BY <1>1, <1>2, <1>5, SynchAssumption, Zenon DEF AllSemas
  <2>3. \A l \in Locks : Owns(t, l)' <=> Owns(t, l)
    BY <1>1, <1>3, <1>5, SynchAssumption, Zenon DEF Owns, InWindow
  <2>4. QED
    BY <1>1, <1>3, <1>4, <1>5, <2>1, <2>2, <2>3, AsideStep, Zenon
<1>6. ASSUME NEW l \in Locks, l = arg[t]
      PROVE  /\ \A u \in Threads : ~ Ups(t, u) /\ value'[u] = value[u]
             /\ Owns(t, l)
             /\ ret[t] \in {"run", "cond_sleep"} =>
                   \A k \in Locks : Owns(t, k)' <=> Owns(t, k) /\ k # l
  <2>1. \A u \in Threads : ~ Ups(t, u) /\ value'[u] = value[u]
    BY <1>1, <1>2, <1>6, SynchAssumption, Zenon DEF AllSemas, Ups
  <2>2. Owns(t, l) /\ holder[l] # t
    BY <1>1, <1>6, Zenon DEF Owns, InWindow, CondInv, IInv, MutualExclusion
  <2>3. ret[t] \in {"run", "cond_sleep"} =>
           \A k \in Locks : Owns(t, k)' <=> Owns(t, k) /\ k # l
    BY <1>1, <1>3, <1>6, <2>2, Zenon DEF Owns, InWindow
  <2>4. QED
    BY <2>1, <2>2, <2>3, Zenon
<1>7. CASE ret[t] = "run" /\ arg[t] \in Locks
  <2>1. PICK l \in Locks : l = arg[t]
    BY <1>7, Zenon
  <2>2. \A c \in Conds : ~ InCondWait(t, c) /\ ~ InCondWait(t, c)' /\ ReleaseOK(t, c)'
    BY <1>4, <1>7, Zenon DEF Aside, ReleaseOK
  <2>3. Gives(t, l)
    BY <1>1, <1>3, <1>4, <1>6, <1>7, <2>1, <2>2, Zenon DEF Gives, Aside
  <2>4. QED
    BY <2>2, <2>3, ReleaseStep, Zenon
<1>8. CASE ret[t] \in {"run", "broadcast"} /\ arg[t] \in Threads
  <2>1. PICK u \in Threads : u = arg[t]
    BY <1>8, Zenon
  <2>2. Ups(t, u) /\ pc'[t] # "up" /\ pc'[t] # "hold"
    BY <1>1, <1>3, <1>8, <2>1, Zenon DEF Ups
  <2>3. \A c \in Conds : ~ InCondWait(t, c) /\ ~ InCondWait(t, c)'
    BY <1>4, <1>8, Zenon DEF Aside
  <2>4. QED
    BY <1>1, <1>3, <2>1, <2>2, <2>3, SignalledRefines, Zenon
<1>9. CASE ret[t] = "cond_sleep" /\ cnd[t] \in Conds
  <2>1. PICK c \in Conds : c = cnd[t]
    BY <1>9, Zenon
  <2>2. InCondWait(t, c) /\ AtRelease(t) /\ CondLock[c] \in Locks
    BY <1>1, <1>9, <2>1, SynchAssumption, Zenon DEF InCondWait, AtRelease
  <2>3. arg[t] = CondLock[c]
    BY <1>1, <2>2, Zenon DEF CondInv, ReleaseOK
  <2>4. pc'[t] = "cond_sleep" /\ cnd'[t] = c /\ ~ AtRelease(t)'
    BY <1>1, <1>3, <1>9, <2>1, Zenon DEF Return, AtRelease
  <2>5. holder[CondLock[c]] # t
    BY <1>1, <2>2, <2>3, Zenon DEF InWindow, CondInv, IInv, MutualExclusion
  <2>6. \A d \in Conds : (InCondWait(t, d)' <=> InCondWait(t, d)) /\ ReleaseOK(t, d)'
    BY <1>1, <1>9, <2>1, <2>4, <2>5, Zenon DEF InCondWait, ReleaseOK
  <2>7. \A u \in Threads : ~ Ups(t, u)'
    BY <2>4, Zenon DEF Ups
  <2>8. Gives(t, CondLock[c])
    BY <1>1, <1>3, <1>6, <1>9, <2>2, <2>3, <2>6, <2>7, Zenon DEF Gives
  <2>9. QED
    BY <2>2, <2>8, WaitStep, Zenon
<1>10. QED
  BY <1>1, <1>5, <1>7, <1>8, <1>9, Zenon DEF FrameOK, AllSemas

(* The two steps inside cond_wait () that change neither list nor owner.    *)
LEMMA CondReleaseRefines ==
    ASSUME CondInv, IInv', NEW t \in Threads, CondRelease(t)
    PROVE  Refines
<1>1. PICK c \in Conds : c = cnd[t] /\ CondLock[c] \in Locks
  BY SynchAssumption DEF CondRelease, At, CondInv, IInv, PcOK, FrameOK
<1>2. /\ pc[t] = "cond_release" /\ holder[CondLock[c]] = t
      /\ holder' = [holder EXCEPT ![CondLock[c]] = NULL]
      /\ pc' = [pc EXCEPT ![t] = "up"] /\ arg' = [arg EXCEPT ![t] = CondLock[c]]
      /\ ret' = [ret EXCEPT ![t] = "cond_sleep"]
      /\ UNCHANGED <<value, cond_waiters, cnd>>
  BY <1>1, Zenon DEF CondRelease, At, Release, Call
<1>3. /\ pc \in [Threads -> Pcs] /\ arg \in [Threads -> AllSemas \cup {NULL}]
      /\ ret \in [Threads -> Rets] /\ holder \in [Locks -> Threads \cup {NULL}]
  BY Zenon DEF CondInv, IInv, TypeOK
<1>4. /\ OthersStay(t) /\ pc'[t] = "up" /\ arg'[t] = CondLock[c] /\ ret'[t] = "cond_sleep"
      /\ cnd'[t] = c
  BY <1>1, <1>2, <1>3, Zenon DEF OthersStay
<1>5. \A d \in Conds : (InCondWait(t, d)' <=> InCondWait(t, d)) /\ ReleaseOK(t, d)'
  <2>1. \A d \in Conds : InCondWait(t, d)' <=> InCondWait(t, d)
    BY <1>1, <1>2, <1>4, Zenon DEF InCondWait
  <2>2. \A d \in Conds : InCondWait(t, d) => d = c
    BY <1>1, Zenon DEF InCondWait
  <2>3. ReleaseOK(t, c) /\ AtRelease(t) /\ AtRelease(t)'
    BY <1>2, <1>4, Zenon DEF AtRelease, CondInv
  <2>4. ReleaseOK(t, c)'
    BY <1>2, <1>4, <2>1, <2>3, Zenon DEF ReleaseOK
  <2>5. \A d \in Conds : d # c => ReleaseOK(t, d)'
    BY <2>1, <2>2, Zenon DEF ReleaseOK
  <2>6. QED
    BY <2>1, <2>4, <2>5, Zenon
<1>6. \A u \in Threads : ~ Ups(t, u) /\ ~ Ups(t, u)'
  BY <1>1, <1>2, <1>4, SynchAssumption, Zenon DEF Ups
<1>7. \A l \in Locks : Owns(t, l)' <=> Owns(t, l)
  BY <1>1, <1>2, <1>3, <1>4, SynchAssumption, Zenon DEF Owns, InWindow
<1>8. \A l \in Locks, u \in Threads \ {t} : holder'[l] = u <=> holder[l] = u
  BY <1>1, <1>2, <1>3, SynchAssumption, Zenon
<1>9. QED
  BY <1>2, <1>4, <1>5, <1>6, <1>7, <1>8, QuietStep, Zenon DEF Quiet

LEMMA CondSleepRefines ==
    ASSUME CondInv, IInv', NEW t \in Threads, CondSleep(t)
    PROVE  Refines
<1>1. /\ pc[t] = "cond_sleep" /\ UNCHANGED <<value, holder, cond_waiters, cnd>>
      /\ pc' = [pc EXCEPT ![t] = "down"] /\ arg' = [arg EXCEPT ![t] = t]
      /\ ret' = [ret EXCEPT ![t] = "cond_reacquire"]
  BY Zenon DEF CondSleep, At, Call
<1>2. /\ pc \in [Threads -> Pcs] /\ arg \in [Threads -> AllSemas \cup {NULL}]
      /\ ret \in [Threads -> Rets]
  BY Zenon DEF CondInv, IInv, TypeOK
<1>3. OthersStay(t) /\ pc'[t] = "down" /\ arg'[t] = t
  BY <1>1, <1>2, Zenon DEF OthersStay
<1>4. \A d \in Conds : (InCondWait(t, d)' <=> InCondWait(t, d)) /\ ReleaseOK(t, d)'
  <2>1. \A d \in Conds : InCondWait(t, d)' <=> InCondWait(t, d)
    BY <1>1, <1>3, Zenon DEF InCondWait
  <2>2. ~ AtRelease(t) /\ ~ AtRelease(t)'
    BY <1>1, <1>3, Zenon DEF AtRelease
  <2>3. QED
    BY <1>1, <2>1, <2>2, Zenon DEF CondInv, ReleaseOK
<1>5. /\ \A u \in Threads : ~ Ups(t, u) /\ ~ Ups(t, u)'
      /\ \A l \in Locks : Owns(t, l)' <=> Owns(t, l)
  BY <1>1, <1>3, Zenon DEF Ups, Owns, InWindow
<1>6. QED
  BY <1>1, <1>3, <1>4, <1>5, QuietStep, Zenon DEF Quiet

(* The other steps inside a call.                                           *)
LEMMA InCallRefines ==
    ASSUME CondInv, IInv', NEW t \in Threads, InCall(t)
    PROVE  Refines
<1>1. /\ pc \in [Threads -> Pcs] /\ arg \in [Threads -> AllSemas \cup {NULL}]
      /\ ret \in [Threads -> Rets] /\ cnd \in [Threads -> Conds \cup {NULL}]
      /\ holder \in [Locks -> Threads \cup {NULL}] /\ FrameOK(t)
  BY Zenon DEF CondInv, IInv, TypeOK, PcOK
<1>2. CASE SetHolder(t)
  <2>1. PICK l \in Locks : l = arg[t]
    BY <1>1, <1>2, Zenon DEF SetHolder, At, FrameOK
  <2>2. /\ pc[t] = "hold" /\ holder' = [holder EXCEPT ![l] = t]
        /\ value' = value /\ cond_waiters' = cond_waiters /\ Return(t, "run")
    BY <1>2, <2>1, Zenon DEF SetHolder, At
  <2>3. OthersStay(t) /\ pc'[t] = "run"
    BY <1>1, <2>2, Zenon DEF OthersStay, Return
  <2>4. Aside(t) /\ Aside(t)'
    BY <2>2, <2>3, AsideAt, Zenon DEF Places
  <2>5. \A k \in Locks : Owns(t, k)' <=> Owns(t, k)
    BY <1>1, <2>1, <2>2, <2>3, Zenon DEF Owns, InWindow
  <2>6. \A u \in Threads \ {t} : holder[l] # u
    BY <2>1, <2>2, Zenon DEF CondInv, IInv, MutualExclusion, Owns, InWindow
  <2>7. \A k \in Locks, u \in Threads \ {t} : holder'[k] = u <=> holder[k] = u
    BY <1>1, <2>2, <2>6, Zenon
  <2>8. QED
    BY <2>2, <2>3, <2>4, <2>5, <2>7, AsideStep, Zenon
<1>3. CASE CondReacquire(t)
  <2>1. /\ pc[t] = "cond_reacquire" /\ UNCHANGED <<value, holder, cond_waiters, cnd>>
        /\ pc' = [pc EXCEPT ![t] = "down"] /\ arg' = [arg EXCEPT ![t] = CondLock[cnd[t]]]
        /\ ret' = [ret EXCEPT ![t] = "hold"] /\ CondLock[cnd[t]] \in Locks
    BY <1>1, <1>3, SynchAssumption, Zenon DEF CondReacquire, At, Call, FrameOK
  <2>2. OthersStay(t) /\ pc'[t] = "down" /\ arg'[t] \in Locks
    BY <1>1, <2>1, Zenon DEF OthersStay
  <2>3. Aside(t) /\ Aside(t)'
    <3>1. Aside(t)
      BY <2>1, AsideAt, Zenon DEF Places
    <3>2. Aside(t)'
      BY <2>2, SynchAssumption, Zenon DEF Aside, InCondWait, Ups
    <3>3. QED
      BY <3>1, <3>2, Zenon
  <2>4. \A l \in Locks : Owns(t, l)' <=> Owns(t, l)
    BY <2>1, <2>2, Zenon DEF Owns, InWindow
  <2>5. QED
    BY <2>1, <2>2, <2>3, <2>4, AsideStep, Zenon
<1>4. CASE BroadcastStep(t)
  <2>1. pc[t] = "broadcast" /\ UNCHANGED <<value, holder>> /\ cnd[t] \in Conds
    BY <1>1, <1>4, Zenon DEF BroadcastStep, At, FrameOK
  <2>2. CASE Signal(t, cnd[t], "broadcast") /\ UNCHANGED cnd
    <3>1. holder[CondLock[cnd[t]]] = t
      BY <2>1, Zenon DEF CondInv, IInv, StillHolds, HoldsAt
    <3>2. QED
      BY <2>1, <2>2, <3>1, SignalRefines, Zenon
  <2>3. CASE Return(t, "run") /\ UNCHANGED cond_waiters
    <3>1. OthersStay(t) /\ pc'[t] = "run"
      BY <1>1, <2>3, Zenon DEF OthersStay, Return
    <3>2. Aside(t) /\ Aside(t)' /\ \A l \in Locks : Owns(t, l)' <=> Owns(t, l)
      BY <2>1, <3>1, AsideAt, Zenon DEF Places, Owns, InWindow
    <3>3. QED
      BY <2>1, <2>3, <3>1, <3>2, AsideStep, Zenon
  <2>4. QED
    BY <1>4, <2>2, <2>3, Zenon DEF BroadcastStep
<1>5. CASE StartThread(t)
  <2>1. /\ pc[t] = "create" /\ Return(t, "run") /\ UNCHANGED <<value, holder, cond_waiters>>
    BY <1>5, Zenon DEF StartThread, At
  <2>2. OthersStay(t) /\ pc'[t] = "run"
    BY <1>1, <2>1, Zenon DEF OthersStay, Return
  <2>3. Aside(t) /\ Aside(t)' /\ \A l \in Locks : Owns(t, l)' <=> Owns(t, l)
    BY <2>1, <2>2, AsideAt, Zenon DEF Places, Owns, InWindow
  <2>4. QED
    BY <2>1, <2>2, <2>3, AsideStep, Zenon
<1>6. QED
  BY <1>2, <1>3, <1>4, <1>5, sema_downRefines, sema_upRefines, CondReleaseRefines,
     CondSleepRefines, Zenon DEF InCall

(* A call to sema_down () or sema_up () from a thread's own code.           *)
LEMMA CallRefines ==
    ASSUME CondInv, IInv', NEW t \in Threads, NEW s \in Semas \cup Locks,
           NEW call \in {"down", "up"}, NEW after, after # "cond_sleep",
           pc[t] = "run", Call(t, call, s, after), UNCHANGED <<value, cond_waiters, cnd>>,
           IF call = "up" /\ s \in Locks
           THEN holder[s] = t /\ holder' = [holder EXCEPT ![s] = NULL]
           ELSE holder' = holder
    PROVE  Refines
<1>1. /\ pc \in [Threads -> Pcs] /\ arg \in [Threads -> AllSemas \cup {NULL}]
      /\ ret \in [Threads -> Rets] /\ holder \in [Locks -> Threads \cup {NULL}]
  BY Zenon DEF CondInv, IInv, TypeOK
<1>2. OthersStay(t) /\ pc'[t] = call /\ arg'[t] = s /\ ret'[t] = after
  BY <1>1, Zenon DEF OthersStay, Call
<1>3. Aside(t) /\ Aside(t)'
  <2>1. Aside(t)
    BY AsideAt, Zenon DEF Places
  <2>2. Aside(t)'
    BY <1>2, SynchAssumption, Zenon DEF Aside, InCondWait, Ups
  <2>3. QED
    BY <2>1, <2>2, Zenon
<1>4. /\ \A l \in Locks : Owns(t, l)' <=> Owns(t, l)
      /\ \A l \in Locks, u \in Threads \ {t} : holder'[l] = u <=> holder[l] = u
  <2>1. CASE call = "up" /\ s \in Locks
    BY <1>1, <1>2, <2>1, SynchAssumption, Zenon DEF Owns, InWindow
  <2>2. CASE ~ (call = "up" /\ s \in Locks)
    BY <1>1, <1>2, <2>2, SynchAssumption, Zenon DEF Owns, InWindow
  <2>3. QED
    BY <2>1, <2>2, Zenon
<1>5. QED
  BY <1>2, <1>3, <1>4, AsideStep, Zenon

LEMMA NewCallRefines ==
    ASSUME CondInv, IInv', NEW t \in Threads, NewCall(t)
    PROVE  Refines
<1>1. /\ pc \in [Threads -> Pcs] /\ arg \in [Threads -> AllSemas \cup {NULL}]
      /\ ret \in [Threads -> Rets] /\ cnd \in [Threads -> Conds \cup {NULL}]
      /\ value \in [AllSemas -> Nat]
  BY Zenon DEF CondInv, IInv, TypeOK
<1>2. ASSUME NEW s \in Semas, CallDown(t, s) \/ CallUp(t, s) PROVE Refines
  <2>1. s \notin Locks /\ s \in Semas \cup Locks
    BY SynchAssumption, Zenon
  <2>2. QED
    BY <1>2, <2>1, CallRefines, Zenon DEF CallDown, CallUp, At
<1>3. ASSUME NEW l \in Locks, lock_acquire(t, l) \/ lock_release(t, l) PROVE Refines
  <2>1. CASE lock_acquire(t, l)
    BY <2>1, CallRefines, Zenon DEF lock_acquire, At
  <2>2. CASE lock_release(t, l)
    BY <2>2, CallRefines, Zenon DEF lock_release, Release, At
  <2>3. QED
    BY <1>3, <2>1, <2>2, Zenon
<1>4. ASSUME NEW c \in Conds, cond_wait(t, c) \/ cond_signal(t, c) PROVE Refines
  <2>1. CASE cond_wait(t, c)
    BY <2>1, cond_waitRefines, Zenon
  <2>2. CASE cond_signal(t, c)
    BY <2>2, SignalRefines, Zenon DEF cond_signal, At
  <2>3. QED
    BY <1>4, <2>1, <2>2, Zenon
<1>5. ASSUME pc[t] = "run", OthersStay(t), pc'[t] \in Places, pc'[t] # "hold",
             UNCHANGED <<holder, cond_waiters>>, \A u \in Threads : value'[u] = value[u]
      PROVE  Refines
  <2>1. Aside(t) /\ Aside(t)'
    BY <1>5, AsideAt, Zenon DEF Places
  <2>2. \A l \in Locks : Owns(t, l)' <=> Owns(t, l)
    BY <1>5, Zenon DEF Owns, InWindow, Places
  <2>3. QED
    BY <1>5, <2>1, <2>2, AsideStep, Zenon
<1>6. ASSUME NEW s \in Semas, sema_try_down(t, s) PROVE Refines
  <2>1. \A u \in Threads : value'[u] = value[u]
    BY <1>1, <1>6, SynchAssumption, Zenon DEF sema_try_down, AllSemas
  <2>2. QED
    BY <1>5, <1>6, <2>1, Zenon DEF sema_try_down, At, OthersStay, Places
<1>7. ASSUME NEW l \in Locks, lock_try_acquire(t, l) PROVE Refines
  <2>1. /\ pc[t] = "run" /\ value[l] > 0 /\ UNCHANGED <<holder, cond_waiters, ret, cnd>>
        /\ value' = [value EXCEPT ![l] = value[l] - 1]
        /\ pc' = [pc EXCEPT ![t] = "hold"] /\ arg' = [arg EXCEPT ![t] = l]
    BY <1>7, Zenon DEF lock_try_acquire, At, Goto
  <2>2. OthersStay(t) /\ pc'[t] = "hold" /\ arg'[t] = l
    BY <1>1, <2>1, Zenon DEF OthersStay
  <2>3. Aside(t) /\ Aside(t)'
    BY <2>1, <2>2, AsideAt, Zenon DEF Places
  <2>4. \A u \in Threads : value'[u] = value[u] /\ ~ Owns(u, l)
    <3>1. \A u \in Threads : value'[u] = value[u]
      BY <1>1, <2>1, SynchAssumption DEF AllSemas
    <3>2. value[l] # 0
      BY <2>1
    <3>3. \A u \in Threads : ~ Owns(u, l)
      BY <3>2, Zenon DEF CondInv, IInv, MutualExclusion
    <3>4. QED
      BY <3>1, <3>3, Zenon
  <2>5. \A k \in Locks : Owns(t, k)' <=> Owns(t, k) \/ k = l
    BY <2>1, <2>2, Zenon DEF Owns, InWindow
  <2>6. Takes(t, l)
    BY <2>1, <2>2, <2>3, <2>4, <2>5, Zenon DEF Takes, Aside
  <2>7. QED
    BY <2>6, AcquireStep, Zenon
<1>8. ASSUME NEW c \in Conds, cond_broadcast(t, c) PROVE Refines
  BY <1>1, <1>5, <1>8, Zenon DEF cond_broadcast, At, Goto, OthersStay, Places
<1>9. ASSUME NEW n \in Threads, thread_create(t, n) PROVE Refines
  BY <1>1, <1>5, <1>9, Zenon DEF thread_create, At, Goto, OthersStay, Places
<1>10. ASSUME Yield(t) \/ thread_exit(t) PROVE Refines
  BY <1>5, <1>10, Zenon DEF Yield, thread_exit, synch, At, OthersStay, Places
<1>11. QED
  BY <1>2, <1>3, <1>4, <1>6, <1>7, <1>8, <1>9, <1>10, Zenon DEF NewCall

(* The idle thread and the interrupts.                                      *)
LEMMA InterruptRefines ==
    ASSUME CondInv, IInv', idle \/ Interrupt
    PROVE  Refines
<1>1. /\ pc \in [Threads -> Pcs] /\ value \in [AllSemas -> Nat] /\ idle_thread \in Threads
      /\ pc[idle_thread] \in {"hlt", "loop"}
  BY SchedulerAssumption, Zenon DEF CondInv, IInv, TypeOK, PcOK, FrameOK
<1>2. /\ \E where \in {"hlt", "loop"} : pc' = [pc EXCEPT ![idle_thread] = where]
      /\ UNCHANGED <<holder, cond_waiters, arg, ret, cnd>>
      /\ \A u \in Threads : value'[u] = value[u]
  <2>1. CASE idle
    BY <2>1, Zenon DEF idle, Goto
  <2>2. CASE timer_interrupt
    BY <1>1, <2>2, Zenon DEF timer_interrupt, EndHalt
  <2>3. ASSUME NEW s \in Semas, device_interrupt(s)
        PROVE  /\ \E where \in {"hlt", "loop"} : pc' = [pc EXCEPT ![idle_thread] = where]
               /\ UNCHANGED <<holder, cond_waiters, arg, ret, cnd>>
               /\ \A u \in Threads : value'[u] = value[u]
    BY <1>1, <2>3, SynchAssumption, Zenon DEF device_interrupt, EndHalt, Up, AllSemas
  <2>4. QED
    BY <2>1, <2>2, <2>3, Zenon DEF Interrupt
<1>3. OthersStay(idle_thread) /\ pc'[idle_thread] \in {"hlt", "loop"}
  BY <1>1, <1>2, Zenon DEF OthersStay
<1>4. Aside(idle_thread) /\ Aside(idle_thread)'
  BY <1>1, <1>3, AsideAt, Zenon DEF Places
<1>5. \A l \in Locks : Owns(idle_thread, l)' <=> Owns(idle_thread, l)
  BY <1>1, <1>2, <1>3, Zenon DEF Owns, InWindow
<1>6. QED
  BY <1>1, <1>2, <1>3, <1>4, <1>5, AsideStep, Zenon

LEMMA NextRefines == CondInv /\ [Next]_vars => CondInv' /\ [M!Next]_<<MonitorOwner, MonitorQueue>>
<1> SUFFICES ASSUME CondInv, [Next]_vars PROVE Refines /\ IInv'
  BY Zenon DEF Refines, CondInv
<1>1. IInv'
  BY NextInv, Zenon DEF CondInv
<1>2. CASE UNCHANGED vars
  <2>1. UNCHANGED <<value, holder, cond_waiters, pc, arg, ret, cnd>>
    BY <1>2, Zenon DEF vars, synch
  <2>2. idle_thread \in Threads /\ pc[idle_thread] \in {"hlt", "loop"}
    BY SchedulerAssumption, Zenon DEF CondInv, IInv, PcOK, FrameOK
  <2>3. Aside(idle_thread) /\ Aside(idle_thread)' /\ OthersStay(idle_thread)
    BY <2>1, <2>2, AsideAt, Zenon DEF Places, OthersStay
  <2>4. \A l \in Locks : Owns(idle_thread, l)' <=> Owns(idle_thread, l)
    BY <2>1, Zenon DEF Owns, InWindow
  <2>5. QED
    BY <1>1, <2>1, <2>2, <2>3, <2>4, AsideStep, Zenon
<1>3. QED
  BY <1>1, <1>2, InCallRefines, NewCallRefines, InterruptRefines, Zenon DEF Next

LEMMA InitCond == Init => CondInv /\ M!Init
<1> SUFFICES ASSUME Init PROVE CondInv /\ M!Init
  BY Zenon
<1>1. IInv
  BY InitInv, Zenon
<1>2. /\ \A c \in Conds : cond_waiters[c] = <<>>
      /\ \A t \in Threads : pc[t] \in Places /\ pc[t] # "hold" /\ pc[t] # "up"
      /\ \A l \in Locks : holder[l] = NULL
  BY Zenon DEF Init, Places
<1>3. \A t \in Threads, c \in Conds : ~ InCondWait(t, c)
  BY <1>2, AsideAt, Zenon DEF Aside
<1>4. \A t \in Threads : Signalling(t) = {}
  BY <1>2, Zenon DEF Signalling
<1>5. CondWaiterSafe
  BY <1>2, <1>3, <1>4 DEF CondWaiterSafe, InSeq, NoDuplicates
<1>6. CondInv
  BY <1>1, <1>3, <1>5, Zenon DEF CondInv, ReleaseOK
<1>7. \A l \in Locks, t \in Threads : ~ Owns(t, l)
  BY <1>2, SynchAssumption, Zenon DEF Owns, InWindow
<1>8. MonitorOwner = [l \in Locks |-> NULL]
  BY <1>7, Zenon DEF MonitorOwner
<1>9. MonitorQueue = [c \in Conds |-> <<>>]
  BY <1>2, Zenon DEF MonitorQueue
<1>10. QED
  BY <1>6, <1>8, <1>9, Zenon DEF M!Init

(* cond_wait () keeps its list element and semaphore on its stack, and that *)
(* is safe: a waiter is on the list, about to be upped or upped, exactly    *)
(* one of the three, and nobody reaches it once it is past its sleep.       *)
THEOREM SignalsExactlyOnce == Spec => []CondWaiterSafe
<1>1. Spec => []CondInv
  BY InitCond, NextRefines, PTL DEF Spec
<1>2. QED
  BY <1>1, PTL DEF CondInv

(* synch.c implements the abstract monitor: cond_wait () releases the lock  *)
(* and waits as if in one step although its three parts can be preempted,   *)
(* and waiters are signalled in the order in which they came.               *)
THEOREM SynchImplementsMonitor == Spec => ImplementsMonitor
<1>1. Init => CondInv /\ M!Init
  BY InitCond, Zenon
<1>2. CondInv /\ [Next]_vars => CondInv' /\ [M!Next]_<<MonitorOwner, MonitorQueue>>
  BY NextRefines, Zenon
<1>3. QED
  BY <1>1, <1>2, PTL DEF Spec, ImplementsMonitor, M!Spec
==============================================================================
