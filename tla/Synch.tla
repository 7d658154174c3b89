-------------------------------- MODULE Synch --------------------------------
(***************************************************************************)
(* threads/synch.c on top of the scheduler: semaphores, locks and Mesa      *)
(* condition variables used by threads that are preempted at any moment     *)
(* interrupts are on.  A kernel call is split at exactly the points where   *)
(* interrupts are on again; what runs with interrupts off is one step.      *)
(***************************************************************************)
EXTENDS Scheduler, FiniteSets

CONSTANTS Semas,      \* semaphores used on their own
          Locks,      \* locks, each named like the semaphore inside it
          Conds,      \* condition variables
          CondLock,   \* the one lock a condition variable is used with
          NULL,
          MaxValue    \* bound on the value of a semaphore used on its own

(* The semaphores: plain ones, those inside locks, and for every thread the *)
(* `waiter.semaphore' on its stack while it is in cond_wait ().             *)
AllSemas == Semas \cup Locks \cup Threads

ASSUME SynchAssumption ==
    /\ Semas \cap Locks = {} /\ Semas \cap Threads = {} /\ Locks \cap Threads = {}
    /\ NULL \notin Threads
    /\ CondLock \in [Conds -> Locks]
    /\ MaxValue \in Nat
    /\ IsFiniteSet(Threads)

VARIABLES value, waiters,   \* struct semaphore, for each of AllSemas
          holder,           \* lock->holder
          cond_waiters,     \* cond->waiters: the threads owning the elements
          pc, arg, ret,     \* where a thread is: call, object, what follows it
          cnd               \* condition variable of a cond_wait or broadcast

synch == <<value, waiters, holder, cond_waiters, pc, arg, ret, cnd>>
vars  == <<sched, synch>>

Init ==
    /\ SchedInit
    /\ value = [s \in AllSemas |-> IF s \in Locks THEN 1 ELSE 0]
    /\ waiters = [s \in AllSemas |-> <<>>]
    /\ holder = [l \in Locks |-> NULL]
    /\ cond_waiters = [c \in Conds |-> <<>>]
    /\ pc = [t \in Threads |-> IF t = idle_thread THEN "hlt" ELSE "run"]
    /\ arg = [t \in Threads |-> NULL]
    /\ ret = [t \in Threads |-> "run"]
    /\ cnd = [t \in Threads |-> NULL]

(* The CPU executes t, whose next step is at `where'.                       *)
At(t, where) == current = t /\ pc[t] = where

Goto(t, where) == pc' = [pc EXCEPT ![t] = where]

(* Go on at `where'; back in its own code a thread has forgotten its locals.*)
Return(t, where) ==
    /\ pc' = [pc EXCEPT ![t] = where]
    /\ IF where = "run"
       THEN /\ arg' = [arg EXCEPT ![t] = NULL]
            /\ ret' = [ret EXCEPT ![t] = "run"]
            /\ cnd' = [cnd EXCEPT ![t] = NULL]
       ELSE UNCHANGED <<arg, ret, cnd>>

(* Enter sema_down or sema_up (`call') on s, to go on at `after'.           *)
Call(t, call, s, after) ==
    /\ pc' = [pc EXCEPT ![t] = call]
    /\ arg' = [arg EXCEPT ![t] = s]
    /\ ret' = [ret EXCEPT ![t] = after]

(* sema_init (), value 0: a cond_wait () initialises its own waiter.        *)
sema_init(s) ==
    /\ value' = [value EXCEPT ![s] = 0]
    /\ waiters' = [waiters EXCEPT ![s] = <<>>]
------------------------------------------------------------------------------
(* Semaphores.                                                              *)

(* One turn of the loop of sema_down ().  At "waiting" the thread has come  *)
(* back from thread_block () with interrupts still off and tests again.     *)
sema_down(t) ==
    /\ At(t, "down") \/ At(t, "waiting")
    /\ IF value[arg[t]] = 0
       THEN /\ waiters' = [waiters EXCEPT ![arg[t]] = Append(@, t)]
            /\ thread_block
            /\ Return(t, "waiting")
            /\ UNCHANGED value
       ELSE /\ value' = [value EXCEPT ![arg[t]] = @ - 1]
            /\ Return(t, ret[t])
            /\ UNCHANGED <<waiters, sched>>
    /\ UNCHANGED <<holder, cond_waiters>>

(* Fault: list_front () in place of list_pop_front ().                      *)
Up_KeepsWaiter(s) ==
    /\ IF waiters[s] = <<>> THEN UNCHANGED sched
                            ELSE thread_unblock(Head(waiters[s]))
    /\ value' = [value EXCEPT ![s] = @ + 1]
    /\ UNCHANGED waiters

(* Fault: nobody is woken when the value is positive already.               *)
Up_OnlyFromZero(s) ==
    /\ IF waiters[s] = <<>> \/ value[s] > 0
       THEN UNCHANGED <<waiters, sched>>
       ELSE /\ thread_unblock(Head(waiters[s]))
            /\ waiters' = [waiters EXCEPT ![s] = Tail(@)]
    /\ value' = [value EXCEPT ![s] = @ + 1]

(* The body of sema_up (): wake the first waiter, then increment.           *)
Up(s) ==
    /\ IF waiters[s] = <<>>
       THEN UNCHANGED <<waiters, sched>>
       ELSE /\ thread_unblock(Head(waiters[s]))
            /\ waiters' = [waiters EXCEPT ![s] = Tail(@)]
    /\ value' = [value EXCEPT ![s] = @ + 1]

sema_up(t) ==
    /\ At(t, "up")
    /\ Up(arg[t])
    /\ Return(t, ret[t])
    /\ UNCHANGED <<holder, cond_waiters>>

(* A thread, or an interrupt handler, ups a plain semaphore only within     *)
(* the bound of the model.                                                  *)
MayUp(s) ==
    value[s] + Cardinality({t \in Threads : pc[t] = "up" /\ arg[t] = s}) < MaxValue

CallDown(t, s) ==
    /\ At(t, "run")
    /\ Call(t, "down", s, "run")
    /\ UNCHANGED <<sched, value, waiters, holder, cond_waiters, cnd>>

CallUp(t, s) ==
    /\ At(t, "run") /\ MayUp(s)
    /\ Call(t, "up", s, "run")
    /\ UNCHANGED <<sched, value, waiters, holder, cond_waiters, cnd>>

sema_try_down(t, s) ==
    /\ At(t, "run")
    /\ value[s] > 0
    /\ value' = [value EXCEPT ![s] = @ - 1]
    /\ UNCHANGED <<sched, waiters, holder, cond_waiters, pc, arg, ret, cnd>>
------------------------------------------------------------------------------
(* Locks.                                                                   *)

lock_acquire(t, l) ==
    /\ At(t, "run")
    /\ holder[l] # t
    /\ Call(t, "down", l, "hold")
    /\ UNCHANGED <<sched, value, waiters, holder, cond_waiters, cnd>>

(* The assignment after sema_down () or sema_try_down ().                   *)
SetHolder(t) ==
    /\ At(t, "hold")
    /\ holder' = [holder EXCEPT ![arg[t]] = t]
    /\ Return(t, "run")
    /\ UNCHANGED <<sched, value, waiters, cond_waiters>>

lock_try_acquire(t, l) ==
    /\ At(t, "run")
    /\ holder[l] # t
    /\ value[l] > 0
    /\ value' = [value EXCEPT ![l] = @ - 1]
    /\ Goto(t, "hold")
    /\ arg' = [arg EXCEPT ![t] = l]
    /\ UNCHANGED <<sched, waiters, holder, cond_waiters, ret, cnd>>

(* Fault: lock->holder is not cleared.                                      *)
Release_KeepsHolder(t, l, after) ==
    /\ holder[l] = t
    /\ Call(t, "up", l, after)
    /\ UNCHANGED holder

(* Fault: a lock may be released by a thread that does not hold it.         *)
Release_ByAnyone(t, l, after) ==
    /\ holder' = [holder EXCEPT ![l] = NULL]
    /\ Call(t, "up", l, after)

(* lock_release () up to its sema_up (), to go on at `after'.               *)
Release(t, l, after) ==
    /\ holder[l] = t
    /\ holder' = [holder EXCEPT ![l] = NULL]
    /\ Call(t, "up", l, after)

lock_release(t, l) ==
    /\ At(t, "run")
    /\ Release(t, l, "run")
    /\ UNCHANGED <<sched, value, waiters, cond_waiters, cnd>>
------------------------------------------------------------------------------
(* Condition variables.                                                     *)

cond_wait(t, c) ==
    /\ At(t, "run")
    /\ holder[CondLock[c]] = t
    /\ sema_init(t)
    /\ cond_waiters' = [cond_waiters EXCEPT ![c] = Append(@, t)]
    /\ cnd' = [cnd EXCEPT ![t] = c]
    /\ Goto(t, "cond_release")
    /\ UNCHANGED <<sched, holder, arg, ret>>

CondRelease(t) ==
    /\ At(t, "cond_release")
    /\ Release(t, CondLock[cnd[t]], "cond_sleep")
    /\ UNCHANGED <<sched, value, waiters, cond_waiters, cnd>>

CondSleep(t) ==
    /\ At(t, "cond_sleep")
    /\ Call(t, "down", t, "cond_reacquire")
    /\ UNCHANGED <<sched, value, waiters, holder, cond_waiters, cnd>>

CondReacquire(t) ==
    /\ At(t, "cond_reacquire")
    /\ Call(t, "down", CondLock[cnd[t]], "hold")
    /\ UNCHANGED <<sched, value, waiters, holder, cond_waiters, cnd>>

(* Fault: list_front () in place of list_pop_front ().                      *)
Signal_KeepsWaiter(t, c, after) ==
    /\ cond_waiters[c] # <<>>
    /\ Call(t, "up", Head(cond_waiters[c]), after)
    /\ UNCHANGED cond_waiters

(* Fault: the most recent waiter is signalled, not the first.               *)
Signal_Last(t, c, after) ==
    LET w == cond_waiters[c] IN
    /\ w # <<>>
    /\ cond_waiters' = [cond_waiters EXCEPT ![c] = SubSeq(w, 1, Len(w) - 1)]
    /\ Call(t, "up", w[Len(w)], after)

(* Pop the first waiter of c and enter sema_up () on its semaphore.         *)
Signal(t, c, after) ==
    /\ cond_waiters[c] # <<>>
    /\ cond_waiters' = [cond_waiters EXCEPT ![c] = Tail(@)]
    /\ Call(t, "up", Head(cond_waiters[c]), after)

cond_signal(t, c) ==
    /\ At(t, "run")
    /\ holder[CondLock[c]] = t
    /\ Signal(t, c, "run")
    /\ UNCHANGED <<sched, value, waiters, holder, cnd>>

cond_broadcast(t, c) ==
    /\ At(t, "run")
    /\ holder[CondLock[c]] = t
    /\ cnd' = [cnd EXCEPT ![t] = c]
    /\ Goto(t, "broadcast")
    /\ UNCHANGED <<sched, value, waiters, holder, cond_waiters, arg, ret>>

BroadcastStep(t) ==
    /\ At(t, "broadcast")
    /\ \/ Signal(t, cnd[t], "broadcast") /\ UNCHANGED cnd
       \/ /\ cond_waiters[cnd[t]] = <<>>
          /\ Return(t, "run")
          /\ UNCHANGED cond_waiters
    /\ UNCHANGED <<sched, value, waiters, holder>>
------------------------------------------------------------------------------
(* Threads come and go.                                                     *)

(* thread_create () up to thread_unblock (): the new thread is blocked but  *)
(* on no list yet.  palloc may hand out any free page.                      *)
thread_create(t, n) ==
    /\ At(t, "run")
    /\ init_thread(n)
    /\ Goto(t, "create")
    /\ arg' = [arg EXCEPT ![t] = n]
    /\ UNCHANGED <<value, waiters, holder, cond_waiters, ret, cnd>>

StartThread(t) ==
    /\ At(t, "create")
    /\ thread_unblock(arg[t])
    /\ Return(t, "run")
    /\ UNCHANGED <<value, waiters, holder, cond_waiters>>

Yield(t) ==
    /\ At(t, "run")
    /\ thread_yield
    /\ UNCHANGED synch

(* No caller of thread_exit () in the kernel holds a lock.                  *)
thread_exit(t) ==
    /\ At(t, "run")
    /\ \A l \in Locks : holder[l] # t
    /\ thread_die
    /\ UNCHANGED synch

(* The loop of the idle thread; an interrupt ends its `hlt'.                *)
idle ==
    /\ At(idle_thread, "loop")
    /\ thread_block
    /\ Goto(idle_thread, "hlt")
    /\ UNCHANGED <<value, waiters, holder, cond_waiters, arg, ret, cnd>>

InterruptsOn == pc[current] # "waiting"

EndHalt ==
    pc' = [pc EXCEPT ![idle_thread] = IF current = idle_thread THEN "loop" ELSE @]

timer_interrupt ==
    /\ InterruptsOn
    /\ thread_tick
    /\ EndHalt
    /\ UNCHANGED <<value, waiters, holder, cond_waiters, arg, ret, cnd>>

(* A device interrupt handler that ups a semaphore, as that of the IDE disk.*)
device_interrupt(s) ==
    /\ InterruptsOn /\ MayUp(s)
    /\ Up(s)
    /\ EndHalt
    /\ UNCHANGED <<holder, cond_waiters, arg, ret, cnd>>
------------------------------------------------------------------------------
(* A step inside a call the thread has already made.                        *)
InCall(t) ==
    \/ sema_down(t) \/ sema_up(t) \/ SetHolder(t)
    \/ CondRelease(t) \/ CondSleep(t) \/ CondReacquire(t) \/ BroadcastStep(t)
    \/ StartThread(t)

(* A thread in its own code makes a call.                                   *)
NewCall(t) ==
    \/ \E s \in Semas : CallDown(t, s) \/ CallUp(t, s) \/ sema_try_down(t, s)
    \/ \E l \in Locks : lock_acquire(t, l) \/ lock_try_acquire(t, l)
                        \/ lock_release(t, l)
    \/ \E c \in Conds : cond_wait(t, c) \/ cond_signal(t, c) \/ cond_broadcast(t, c)
    \/ \E n \in Threads : thread_create(t, n)
    \/ Yield(t) \/ thread_exit(t)

Interrupt == timer_interrupt \/ \E s \in Semas : device_interrupt(s)

Next == (\E t \in Threads : InCall(t) \/ NewCall(t)) \/ idle \/ Interrupt

Spec == Init /\ [][Next]_vars

(* The timer keeps interrupting; and a thread that comes back from          *)
(* thread_block () with interrupts off goes on in sema_down (), nothing     *)
(* else can happen before it has.                                           *)
FairSpec ==
    /\ Spec
    /\ WF_vars(timer_interrupt)
    /\ WF_vars(\E t \in Threads : At(t, "waiting") /\ sema_down(t))
------------------------------------------------------------------------------
Pcs == {"run", "down", "waiting", "up", "hold", "cond_release", "cond_sleep",
        "cond_reacquire", "broadcast", "create", "hlt", "loop"}

Rets == {"run", "hold", "cond_sleep", "cond_reacquire", "broadcast"}

TypeOK ==
    /\ SchedTypeOK
    /\ value \in [AllSemas -> Nat]
    /\ waiters \in [AllSemas -> Seq(Threads)]
    /\ holder \in [Locks -> Threads \cup {NULL}]
    /\ cond_waiters \in [Conds -> Seq(Threads)]
    /\ pc \in [Threads -> Pcs]
    /\ arg \in [Threads -> AllSemas \cup {NULL}]
    /\ ret \in [Threads -> Rets]
    /\ cnd \in [Threads -> Conds \cup {NULL}]

(* The comment on `elem' in threads/thread.h: a thread's one list element   *)
(* is on the run queue only while it is ready and on a semaphore's wait     *)
(* list only while it is blocked, and then on one list, once.  A thread on  *)
(* a wait list sleeps in sema_down () of that semaphore, and every blocked  *)
(* thread except idle is on a wait list, or its thread_create () has not    *)
(* yet returned: no thread sleeps where nobody can find it.                 *)
ElemExclusive ==
    /\ \A s \in AllSemas : NoDuplicates(waiters[s])
    /\ \A s \in AllSemas, t \in Threads :
          InSeq(t, waiters[s]) => /\ status[t] = "BLOCKED"
                                  /\ pc[t] = "waiting" /\ arg[t] = s
    /\ \A t \in Threads \ {idle_thread} :
          status[t] = "BLOCKED" =>
             \/ arg[t] \in AllSemas /\ InSeq(t, waiters[arg[t]])
             \/ \E u \in Threads : pc[u] = "create" /\ arg[u] = t

(* t is between its change of the semaphore of l and that of the holder.    *)
InWindow(t, l) == pc[t] \in {"hold", "up"} /\ arg[t] = l

(* t has decremented the semaphore of l and not yet incremented it again.   *)
Owns(t, l) == holder[l] = t \/ InWindow(t, l)

(* A lock is owned by at most one thread, also in the windows of            *)
(* lock_acquire () and lock_release () where its semaphore and its holder   *)
(* disagree; its semaphore is 1 when it is free and 0 otherwise; and the    *)
(* owner is a live thread.                                                  *)
MutualExclusion ==
    \A l \in Locks :
       /\ \A t, u \in Threads : Owns(t, l) /\ Owns(u, l) => t = u
       /\ value[l] = IF \E t \in Threads : Owns(t, l) THEN 0 ELSE 1
       /\ \A t \in Threads : Owns(t, l) => status[t] \notin {"FREE", "DYING"}
       /\ \A t \in Threads : ~ (holder[l] = t /\ InWindow(t, l))

(* No ASSERT between two steps of a call fails: cond_wait () and            *)
(* cond_broadcast () still hold the lock they checked on entry when they    *)
(* come to lock_release () and cond_signal (), and thread_unblock () only   *)
(* ever meets a blocked thread.                                             *)
AssertionsHold ==
    /\ \A t \in Threads :
          pc[t] \in {"cond_release", "broadcast"} \/ (pc[t] = "up" /\ ret[t] = "broadcast")
             => holder[CondLock[cnd[t]]] = t
    /\ \A t \in Threads : pc[t] = "create" => status[arg[t]] = "BLOCKED"
    /\ \A s \in AllSemas : waiters[s] # <<>> => status[Head(waiters[s])] = "BLOCKED"

(* sema_up () never loses a wakeup although a woken thread may find the     *)
(* value already taken by another: while threads sleep on a semaphore with  *)
(* a positive value, at least that many others have been woken and are on   *)
(* their way to test it.                                                    *)
Woken(s) == {t \in Threads : /\ pc[t] = "waiting" /\ arg[t] = s
                             /\ status[t] \in {"READY", "RUNNING"}}
NoLostWakeup ==
    \A s \in AllSemas : waiters[s] # <<>> => value[s] <= Cardinality(Woken(s))

(* cond_wait () keeps its list element and its semaphore on its own stack.  *)
(* Nobody holds a pointer to them once it is past its sleep, and no signal  *)
(* is lost: a thread in cond_wait () is on the list of the condition, or    *)
(* its semaphore has been upped, or somebody is about to up it; and it is   *)
(* never signalled twice.                                                   *)
InCondWait(t, c) ==
    /\ cnd[t] = c
    /\ \/ pc[t] \in {"cond_release", "cond_sleep"}
       \/ pc[t] = "up" /\ ret[t] = "cond_sleep"
       \/ pc[t] \in {"down", "waiting"} /\ arg[t] = t
Signalling(t) == {u \in Threads : pc[u] = "up" /\ arg[u] = t}
CondWaiterSafe ==
    /\ \A c \in Conds : NoDuplicates(cond_waiters[c])
    /\ \A t \in Threads, c \in Conds :
          InSeq(t, cond_waiters[c]) => InCondWait(t, c)
    /\ \A t \in Threads : Signalling(t) # {} => \E c \in Conds : InCondWait(t, c)
    /\ \A t \in Threads, c \in Conds :
          InCondWait(t, c) =>
             \/ InSeq(t, cond_waiters[c]) /\ Signalling(t) = {} /\ value[t] = 0
             \/ /\ ~ InSeq(t, cond_waiters[c]) /\ value[t] = 0
                /\ \E u \in Threads : Signalling(t) = {u}
             \/ ~ InSeq(t, cond_waiters[c]) /\ Signalling(t) = {} /\ value[t] = 1

(* Round robin: whoever blocks, yields, wakes up or is preempted, threads   *)
(* leave the run queue only at its head, to run, and join it only behind    *)
(* all the threads that were waiting already.                               *)
StartsWith(q, r) == Len(r) <= Len(q) /\ SubSeq(q, 1, Len(r)) = r
NoOvertaking ==
    [][\/ StartsWith(ready_list', ready_list)
       \/ /\ ready_list # <<>> /\ current' = Head(ready_list)
          /\ StartsWith(ready_list', Tail(ready_list))]_vars

(* Every ready thread eventually runs, because the timer ends the slice of  *)
(* the thread that has the CPU.                                             *)
ReadyThreadRuns ==
    \A t \in Threads \ {idle_thread} : status[t] = "READY" ~> current = t

(* The locks and condition variables implement the abstract monitor: the    *)
(* comment on cond_wait () promises that it "atomically releases LOCK and   *)
(* waits", although the code appends to cond->waiters, clears the holder    *)
(* and ups the semaphore in three steps that can be preempted.  A thread    *)
(* between the first and the last of them owns the lock and is the last on  *)
(* the list; it does not wait yet.                                          *)
MonitorOwner ==
    [l \in Locks |-> IF \E t \in Threads : Owns(t, l)
                     THEN CHOOSE t \in Threads : Owns(t, l) ELSE NULL]
MonitorQueue ==
    [c \in Conds |->
        LET w == cond_waiters[c]
        IN  IF w # <<>> /\ Owns(w[Len(w)], CondLock[c])
            THEN SubSeq(w, 1, Len(w) - 1) ELSE w]
M == INSTANCE Monitor WITH owner <- MonitorOwner, queue <- MonitorQueue
ImplementsMonitor == M!Spec
==============================================================================
