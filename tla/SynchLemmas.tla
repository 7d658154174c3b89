----------------------------- MODULE SynchLemmas -----------------------------
(***************************************************************************)
(* The scheduler keeps its run queue and the thread states in agreement, for *)
(* every number of threads and every time slice.  The inductive invariant of *)
(* Synch, what the scheduler and sema_up () do to it, and the steps of       *)
(* threads/synch.c up to sema_down () that keep it.                          *)
(***************************************************************************)
EXTENDS Synch, TLAPS

(* The scheduler.                                                           *)

(* list_push_back of an element that is not on the list keeps it free of    *)
(* duplicates and adds just that element.                                   *)
LEMMA AppendFresh ==
    ASSUME NEW S, NEW q \in Seq(S), NEW x \in S
    PROVE  /\ Append(q, x) \in Seq(S)
           /\ NoDuplicates(q) /\ ~ InSeq(x, q) => NoDuplicates(Append(q, x))
           /\ \A y : InSeq(y, Append(q, x)) <=> InSeq(y, q) \/ y = x
  BY DEF NoDuplicates, InSeq

(* list_pop_front removes the first element, and only it when the list has  *)
(* no duplicates.                                                           *)
LEMMA TailOfList ==
    ASSUME NEW S, NEW q \in Seq(S), q # <<>>
    PROVE  /\ Head(q) = q[1] /\ Head(q) \in S /\ Tail(q) \in Seq(S)
           /\ InSeq(Head(q), q)
           /\ NoDuplicates(q) => /\ NoDuplicates(Tail(q))
                                 /\ \A y : InSeq(y, Tail(q)) <=> InSeq(y, q) /\ y # Head(q)
<1>1. /\ Head(q) \in S /\ Tail(q) \in Seq(S) /\ Len(Tail(q)) = Len(q) - 1
      /\ \A i \in 1 .. Len(Tail(q)) : Tail(q)[i] = q[i+1]
  OBVIOUS
<1>2. Len(q) \in Nat \ {0} /\ Head(q) = q[1]
  OBVIOUS
<1>3. InSeq(Head(q), q)
  BY <1>2 DEF InSeq
<1>4. ASSUME NoDuplicates(q)
      PROVE  NoDuplicates(Tail(q))
  <2>1. \A i, j \in 1 .. Len(q) : q[i] = q[j] => i = j
    BY <1>4, Zenon DEF NoDuplicates
  <2>2. \A i \in 1 .. Len(Tail(q)) : i + 1 \in 1 .. Len(q)
    BY <1>1, <1>2
  <2>3. QED
    BY <1>1, <1>2, <2>1, <2>2 DEF NoDuplicates
<1>5. ASSUME NoDuplicates(q), NEW y
      PROVE  InSeq(y, Tail(q)) <=> InSeq(y, q) /\ y # Head(q)
  <2>1. ASSUME NEW i \in 1 .. Len(Tail(q)), Tail(q)[i] = y
        PROVE  InSeq(y, q) /\ y # Head(q)
    BY <1>1, <1>2, <1>5, <2>1 DEF InSeq, NoDuplicates
  <2>2. ASSUME NEW i \in 1 .. Len(q), q[i] = y, y # Head(q)
        PROVE  InSeq(y, Tail(q))
    <3>1. i - 1 \in 1 .. Len(Tail(q)) /\ (i - 1) + 1 = i
      BY <1>1, <1>2, <2>2
    <3>2. QED
      BY <1>1, <2>2, <3>1, Zenon DEF InSeq
  <2>3. QED
    BY <2>1, <2>2, Zenon DEF InSeq
<1>6. QED
  BY <1>1, <1>2, <1>3, <1>4, <1>5, Zenon
------------------------------------------------------------------------------
(* What schedule () needs of its caller: the current thread has given up    *)
(* the state THREAD_RUNNING and the queue already reflects its new state.   *)
Switchable(st, q) ==
    /\ st \in [Threads -> Statuses]
    /\ q \in Seq(Threads)
    /\ \A t \in Threads : st[t] # "RUNNING"
    /\ NoDuplicates(q)
    /\ \A t \in Threads : st[t] = "READY" /\ t # idle_thread <=> InSeq(t, q)
    /\ st[idle_thread] \in {"READY", "BLOCKED"}
    /\ \A t \in Threads : st[t] = "DYING" => t \in {current, initial_thread}

(* schedule () and thread_schedule_tail () restore the agreement.           *)
LEMMA ScheduleRestores ==
    ASSUME NEW st, NEW q, current \in Threads, Switchable(st, q), schedule(st, q)
    PROVE  SchedTypeOK' /\ RunQueueConsistent'
<1> DEFINE next == next_thread_to_run(q)
           rs   == Reap(st)
<1>1. /\ st \in [Threads -> Statuses] /\ q \in Seq(Threads) /\ NoDuplicates(q)
      /\ \A t \in Threads : st[t] # "RUNNING"
      /\ \A t \in Threads : st[t] = "READY" /\ t # idle_thread <=> InSeq(t, q)
      /\ st[idle_thread] \in {"READY", "BLOCKED"}
      /\ \A t \in Threads : st[t] = "DYING" => t \in {current, initial_thread}
  BY Zenon DEF Switchable
<1>2. /\ next \in Threads
      /\ q # <<>> => next = Head(q) /\ InSeq(next, q)
      /\ q = <<>> => next = idle_thread
  BY <1>1, TailOfList, SchedulerAssumption, Zenon DEF next_thread_to_run
<1>3. /\ ready_list' \in Seq(Threads) /\ NoDuplicates(ready_list')
      /\ \A t : InSeq(t, ready_list') <=> InSeq(t, q) /\ t # next
  <2>1. CASE q = <<>>
    <3>1. ready_list' = q /\ \A t : ~ InSeq(t, q)
      BY <2>1 DEF schedule, InSeq
    <3>2. QED
      BY <1>1, <3>1, Zenon
  <2>2. CASE q # <<>>
    <3>1. ready_list' = Tail(q)
      BY <2>2, Zenon DEF schedule
    <3>2. QED
      BY <1>1, <1>2, <2>2, <3>1, TailOfList, Zenon
  <2>3. QED
    BY <2>1, <2>2, Zenon
<1>4. /\ rs \in [Threads -> Statuses]
      /\ \A t \in Threads : /\ rs[t] # "RUNNING"
                            /\ rs[t] = "READY" <=> st[t] = "READY"
                            /\ rs[t] = "BLOCKED" <=> st[t] = "BLOCKED"
                            /\ rs[t] = "DYING" => t = initial_thread
  BY <1>1, Zenon DEF Reap, Statuses
<1>5. /\ status' = [rs EXCEPT ![next] = "RUNNING"]
      /\ current' = next /\ thread_ticks' = 0
  BY Zenon DEF schedule
<1>6. /\ status' \in [Threads -> Statuses] /\ status'[next] = "RUNNING"
      /\ \A t \in Threads : t # next => status'[t] = rs[t]
  BY <1>2, <1>4, <1>5, Zenon DEF Statuses
<1>7. SchedTypeOK'
  BY <1>2, <1>3, <1>5, <1>6, SchedulerAssumption DEF SchedTypeOK
<1>8. RunQueueConsistent'
  <2>1. \A t \in Threads : status'[t] = "RUNNING" <=> t = current'
    BY <1>4, <1>5, <1>6, Zenon
  <2>2. \A t \in Threads :
           status'[t] = "READY" /\ t # idle_thread <=> InSeq(t, ready_list')
    BY <1>1, <1>3, <1>4, <1>6, Zenon
  <2>3. status'[idle_thread] \in {"RUNNING", "READY", "BLOCKED"}
    BY <1>1, <1>4, <1>6, SchedulerAssumption, Zenon
  <2>4. \A t \in Threads : status'[t] = "DYING" => t = initial_thread
    BY <1>4, <1>6, Zenon
  <2>5. QED
    BY <1>3, <2>1, <2>2, <2>3, <2>4, Zenon DEF RunQueueConsistent
<1>9. QED
  BY <1>7, <1>8, Zenon
------------------------------------------------------------------------------
SchedInv == SchedTypeOK /\ RunQueueConsistent

LEMMA SchedInitInv == SchedInit => SchedInv
<1> SUFFICES ASSUME SchedInit PROVE SchedInv
  BY Zenon
<1>1. SchedTypeOK
  BY SchedulerAssumption DEF SchedInit, SchedTypeOK, Statuses
<1>2. RunQueueConsistent
  BY SchedulerAssumption DEF SchedInit, RunQueueConsistent, NoDuplicates, InSeq
<1>3. QED
  BY <1>1, <1>2, Zenon DEF SchedInv

(* The three ways of giving up the CPU.                                     *)
LEMMA GiveUpInv ==
    ASSUME SchedInv
    PROVE  thread_block \/ thread_yield \/ thread_die => SchedInv'
<1> USE DEF SchedInv
<1>1. /\ current \in Threads /\ status[current] = "RUNNING"
      /\ ready_list \in Seq(Threads) /\ status \in [Threads -> Statuses]
      /\ ~ InSeq(current, ready_list)
  BY Zenon DEF SchedTypeOK, RunQueueConsistent
<1>2. CASE thread_block
  <2>1. Switchable([status EXCEPT ![current] = "BLOCKED"], ready_list)
    BY <1>1, SchedulerAssumption, Zenon
    DEF SchedTypeOK, RunQueueConsistent, Switchable, Statuses
  <2>2. QED
    BY <1>1, <1>2, <2>1, ScheduleRestores, Zenon DEF thread_block
<1>3. CASE thread_yield
  <2> DEFINE st == [status EXCEPT ![current] = "READY"]
             q  == IF current = idle_thread THEN ready_list
                                            ELSE Append(ready_list, current)
  <2>1. /\ q \in Seq(Threads) /\ NoDuplicates(q)
        /\ \A t : InSeq(t, q) <=> \/ InSeq(t, ready_list)
                                  \/ t = current /\ t # idle_thread
    BY <1>1, AppendFresh, Zenon DEF RunQueueConsistent
  <2>2. Switchable(st, q)
    BY <1>1, <2>1, SchedulerAssumption, Zenon
    DEF SchedTypeOK, RunQueueConsistent, Switchable, Statuses
  <2>3. QED
    BY <1>1, <1>3, <2>2, ScheduleRestores, Zenon DEF thread_yield
<1>4. CASE thread_die
  <2>1. Switchable([status EXCEPT ![current] = "DYING"], ready_list)
    BY <1>1, <1>4, SchedulerAssumption, Zenon
    DEF SchedTypeOK, RunQueueConsistent, Switchable, Statuses, thread_die
  <2>2. QED
    BY <1>1, <1>4, <2>1, ScheduleRestores, Zenon DEF thread_die
<1>5. QED
  BY <1>2, <1>3, <1>4, Zenon

LEMMA SchedNextInv == SchedInv /\ [SchedNext]_sched => SchedInv'
<1> SUFFICES ASSUME SchedInv, [SchedNext]_sched PROVE SchedInv'
  BY Zenon
<1> USE DEF SchedInv
<1>1. CASE thread_block \/ thread_yield \/ thread_die
  BY <1>1, GiveUpInv, Zenon
<1>2. CASE thread_tick
  <2>1. CASE thread_ticks + 1 >= TIME_SLICE
    BY <1>2, <2>1, GiveUpInv, Zenon DEF thread_tick
  <2>2. CASE ~ (thread_ticks + 1 >= TIME_SLICE)
    BY <1>2, <2>2, SchedulerAssumption
    DEF thread_tick, SchedTypeOK, RunQueueConsistent
  <2>3. QED
    BY <2>1, <2>2, Zenon
<1>3. ASSUME NEW t \in Threads \ {idle_thread}, thread_unblock(t)
      PROVE  SchedInv'
  <2>1. /\ ~ InSeq(t, ready_list) /\ t # current /\ ready_list \in Seq(Threads)
    BY <1>3, Zenon DEF SchedTypeOK, RunQueueConsistent, thread_unblock
  <2>2. /\ ready_list' \in Seq(Threads) /\ NoDuplicates(ready_list')
        /\ \A u : InSeq(u, ready_list') <=> InSeq(u, ready_list) \/ u = t
    BY <1>3, <2>1, AppendFresh, Zenon
    DEF RunQueueConsistent, thread_unblock
  <2>3. QED
    BY <1>3, <2>1, <2>2
    DEF SchedTypeOK, RunQueueConsistent, thread_unblock, Statuses
<1>4. ASSUME NEW t \in Threads, init_thread(t)
      PROVE  SchedInv'
  BY <1>4, SchedulerAssumption, Zenon DEF SchedTypeOK, RunQueueConsistent, init_thread, Statuses
<1>5. CASE UNCHANGED sched
  BY <1>5, Zenon DEF SchedTypeOK, RunQueueConsistent, sched
<1>6. QED
  BY <1>1, <1>2, <1>3, <1>4, <1>5, Zenon DEF SchedNext

(* In every reachable state of the scheduler exactly the current thread is  *)
(* running, the run queue holds each ready thread once and nothing else,    *)
(* and the idle thread is never on it (thread.c, comment on idle ()).       *)
THEOREM SchedulerCorrect == SchedSpec => [](SchedTypeOK /\ RunQueueConsistent)
<1>1. SchedSpec => []SchedInv
  BY SchedInitInv, SchedNextInv, PTL DEF SchedSpec
<1>2. QED
  BY <1>1, PTL DEF SchedInv
------------------------------------------------------------------------------
(* The invariant of Synch.                                                  *)

(* What the place a thread is at says of the object it works on.            *)
FrameOK(t) ==
    /\ pc[t] \in {"hlt", "loop"} <=> t = idle_thread
    /\ pc[t] \in {"down", "waiting"} =>
          \/ ret[t] = "run" /\ arg[t] \in Semas
          \/ ret[t] = "hold" /\ arg[t] \in Locks
          \/ ret[t] = "cond_reacquire" /\ arg[t] = t /\ cnd[t] \in Conds
    /\ pc[t] = "up" =>
          \/ ret[t] = "run" /\ arg[t] \in AllSemas
          \/ ret[t] = "cond_sleep" /\ cnd[t] \in Conds /\ arg[t] \in Locks
          \/ ret[t] = "broadcast" /\ cnd[t] \in Conds /\ arg[t] \in Threads
    /\ pc[t] = "hold" => arg[t] \in Locks
    /\ pc[t] \in {"cond_release", "cond_sleep", "cond_reacquire", "broadcast"}
          => cnd[t] \in Conds

(* The thread a thread_create () is about to start is blocked and new.      *)
CreateOK(t) ==
    pc[t] = "create" => /\ arg[t] \in Threads \ {idle_thread}
                        /\ status[arg[t]] = "BLOCKED"
                        /\ pc[arg[t]] = "run"

PcOK ==
    /\ \A t \in Threads :
          FrameOK(t) /\ CreateOK(t) /\ (status[t] \in {"FREE", "DYING"} => pc[t] = "run")
    /\ \A t, u \in Threads :
          pc[t] = "create" /\ pc[u] = "create" /\ arg[t] = arg[u] => t = u

(* The lock a thread in cond_wait () or cond_broadcast () checked is held.  *)
HoldsAt(t) ==
    pc[t] \in {"cond_release", "broadcast"} \/ (pc[t] = "up" /\ ret[t] = "broadcast")
       => holder[CondLock[cnd[t]]] = t

StillHolds == \A t \in Threads : HoldsAt(t)

IInv == SchedInv /\ TypeOK /\ PcOK /\ ElemExclusive /\ MutualExclusion /\ StillHolds

(* Away from the idle thread the invariant looks at two things in a status. *)
Blocked(t) == status[t] = "BLOCKED"
Gone(t)    == status[t] \in {"FREE", "DYING"}
KeepsClass(S) ==
    \A t \in S : (Blocked(t)' <=> Blocked(t)) /\ (Gone(t)' <=> Gone(t))
------------------------------------------------------------------------------
(* Preemption and yielding change no class; blocking and dying change that  *)
(* of the current thread only.                                              *)
LEMMA SwitchClasses ==
    ASSUME SchedInv
    PROVE  /\ thread_yield \/ thread_tick => KeepsClass(Threads \ {idle_thread})
           /\ thread_block => /\ KeepsClass(Threads \ {idle_thread, current})
                              /\ status'[current] = "BLOCKED" \/ current = idle_thread
           /\ thread_die => /\ KeepsClass(Threads \ {idle_thread, current})
                            /\ status'[current] \in {"FREE", "DYING"}
<1> USE SchedulerAssumption DEF SchedInv, KeepsClass, Blocked, Gone
<1>1. /\ current \in Threads /\ status[current] = "RUNNING"
      /\ ready_list \in Seq(Threads) /\ status \in [Threads -> Statuses]
      /\ ~ InSeq(current, ready_list)
      /\ \A t \in Threads : status[t] = "RUNNING" <=> t = current
      /\ \A t \in Threads : InSeq(t, ready_list) => status[t] = "READY" /\ t # idle_thread
      /\ \A t \in Threads : status[t] = "DYING" => t = initial_thread
  BY Zenon DEF SchedTypeOK, RunQueueConsistent
<1>2. ASSUME NEW q \in Seq(Threads)
      PROVE  \/ q = <<>> /\ next_thread_to_run(q) = idle_thread
             \/ next_thread_to_run(q) \in Threads /\ InSeq(next_thread_to_run(q), q)
  BY TailOfList, Zenon DEF next_thread_to_run
<1>3. ASSUME thread_yield PROVE KeepsClass(Threads \ {idle_thread})
  <2> DEFINE q == IF current = idle_thread THEN ready_list ELSE Append(ready_list, current)
             next == next_thread_to_run(q)
  <2>1. q \in Seq(Threads) /\ \A t : InSeq(t, q) => InSeq(t, ready_list) \/ t = current
    BY <1>1, AppendFresh, Zenon
  <2>2. next \in Threads /\ (next = idle_thread \/ next = current \/ status[next] = "READY")
    BY <1>1, <1>2, <2>1, Zenon
  <2>3. status' = [[status EXCEPT ![current] = "READY"] EXCEPT ![next] = "RUNNING"]
    BY <1>1, <1>3, Zenon DEF thread_yield, schedule, Reap
  <2> HIDE DEF next, q
  <2>4. QED
    BY <1>1, <2>2, <2>3, Zenon
<1>4. next_thread_to_run(ready_list) \in Threads
      /\ (next_thread_to_run(ready_list) # idle_thread
             => status[next_thread_to_run(ready_list)] = "READY")
  BY <1>1, <1>2, Zenon
<1>5. ASSUME thread_block
      PROVE  /\ KeepsClass(Threads \ {idle_thread, current})
             /\ status'[current] = "BLOCKED" \/ current = idle_thread
  <2>1. status' = [[status EXCEPT ![current] = "BLOCKED"]
                      EXCEPT ![next_thread_to_run(ready_list)] = "RUNNING"]
    BY <1>1, <1>5, Zenon DEF thread_block, schedule, Reap
  <2>2. QED
    BY <1>1, <1>4, <2>1, Zenon
<1>6. ASSUME thread_die
      PROVE  KeepsClass(Threads \ {idle_thread, current}) /\ status'[current] \in {"FREE", "DYING"}
  <2>1. /\ current # idle_thread
        /\ \E x \in {"DYING", "FREE"} :
              status' = [[status EXCEPT ![current] = x]
                            EXCEPT ![next_thread_to_run(ready_list)] = "RUNNING"]
    BY <1>1, <1>6, Zenon DEF thread_die, schedule, Reap
  <2>2. QED
    BY <1>1, <1>4, <2>1, Zenon
<1>7. ASSUME thread_tick PROVE KeepsClass(Threads \ {idle_thread})
  BY <1>3, <1>7, Zenon DEF thread_tick
<1>8. QED
  BY <1>3, <1>5, <1>6, <1>7, Zenon

(* The first waiter of a semaphore is asleep in its sema_down ().           *)
LEMMA FirstWaiter ==
    ASSUME IInv, NEW s \in AllSemas, waiters[s] # <<>>
    PROVE  /\ Head(waiters[s]) \in Threads \ {idle_thread}
           /\ InSeq(Head(waiters[s]), waiters[s])
           /\ status[Head(waiters[s])] = "BLOCKED"
           /\ pc[Head(waiters[s])] = "waiting" /\ arg[Head(waiters[s])] = s
<1>1. waiters[s] \in Seq(Threads)
  BY Zenon DEF IInv, TypeOK
<1>2. Head(waiters[s]) \in Threads /\ InSeq(Head(waiters[s]), waiters[s])
  BY <1>1, TailOfList, Zenon
<1>3. QED
  BY <1>2 DEF IInv, ElemExclusive, PcOK, FrameOK

(* Nobody waits on the cond_wait () semaphore of a thread but that thread.  *)
LEMMA OwnWaiterOnly ==
    ASSUME IInv, NEW t \in Threads, pc[t] # "waiting"
    PROVE  waiters[t] = <<>>
<1>1. SUFFICES ASSUME waiters[t] # <<>> PROVE FALSE
  BY Zenon
<1>2. PICK u \in Threads : pc[u] = "waiting" /\ arg[u] = t
  BY <1>1, FirstWaiter, Zenon DEF AllSemas
<1>3. QED
  BY <1>2, SynchAssumption, Zenon DEF IInv, PcOK, FrameOK

(* What the body of sema_up () does to the wait lists and the threads.      *)
LEMMA UpEffect ==
    ASSUME IInv, NEW s \in AllSemas, Up(s)
    PROVE  /\ value' = [value EXCEPT ![s] = value[s] + 1]
           /\ waiters' \in [AllSemas -> Seq(Threads)]
           /\ \A x \in AllSemas : NoDuplicates(waiters'[x])
           /\ \A x \in AllSemas, t \in Threads :
                 InSeq(t, waiters'[x]) <=> InSeq(t, waiters[x]) /\ status'[t] = "BLOCKED"
           /\ \A t \in Threads : status'[t] = "BLOCKED" => status[t] = "BLOCKED"
           /\ \A t \in Threads : status[t] = "BLOCKED" /\ pc[t] = "run" => status'[t] = "BLOCKED"
           /\ \A t \in Threads : Gone(t)' <=> Gone(t)
           /\ current' = current
           /\ [SchedNext]_sched
<1>0. /\ waiters \in [AllSemas -> Seq(Threads)] /\ status \in [Threads -> Statuses]
      /\ \A x \in AllSemas : NoDuplicates(waiters[x])
      /\ \A x \in AllSemas, t \in Threads :
            InSeq(t, waiters[x]) => status[t] = "BLOCKED" /\ pc[t] = "waiting" /\ arg[t] = x
  BY Zenon DEF IInv, TypeOK, SchedTypeOK, ElemExclusive
<1>1. value' = [value EXCEPT ![s] = value[s] + 1]
  BY Zenon DEF Up
<1>2. CASE waiters[s] = <<>>
  <2>1. UNCHANGED <<waiters, sched>>
    BY <1>2, Zenon DEF Up
  <2>2. QED
    BY <1>0, <1>1, <2>1, Zenon DEF sched, Gone
<1>3. CASE waiters[s] # <<>>
  <2> DEFINE h == Head(waiters[s])
  <2>1. /\ thread_unblock(h) /\ waiters' = [waiters EXCEPT ![s] = Tail(waiters[s])]
    BY <1>3, Zenon DEF Up
  <2>2. /\ h \in Threads \ {idle_thread} /\ status[h] = "BLOCKED"
        /\ pc[h] = "waiting" /\ arg[h] = s
    BY <1>3, FirstWaiter, Zenon
  <2>3. /\ Tail(waiters[s]) \in Seq(Threads) /\ NoDuplicates(Tail(waiters[s]))
        /\ \A y : InSeq(y, Tail(waiters[s])) <=> InSeq(y, waiters[s]) /\ y # h
    BY <1>0, <1>3, TailOfList
  <2>4. status' = [status EXCEPT ![h] = "READY"] /\ current' = current
    BY <2>1, Zenon DEF thread_unblock
  <2>5. SchedNext
    BY <2>1, <2>2, Zenon DEF SchedNext
  <2> HIDE DEF h
  <2>6. \A x \in AllSemas : waiters'[x] = IF x = s THEN Tail(waiters[s]) ELSE waiters[x]
    BY <1>0, <2>1, Zenon
  <2>7. \A t \in Threads : status'[t] = IF t = h THEN "READY" ELSE status[t]
    BY <1>0, <2>4, Zenon
  <2>8. waiters' \in [AllSemas -> Seq(Threads)] /\ \A x \in AllSemas : NoDuplicates(waiters'[x])
    BY <1>0, <2>1, <2>3, <2>6, Zenon
  <2>9. \A x \in AllSemas, t \in Threads :
           InSeq(t, waiters'[x]) <=> InSeq(t, waiters[x]) /\ status'[t] = "BLOCKED"
    BY <1>0, <2>2, <2>3, <2>6, <2>7
  <2>10. QED
    BY <1>1, <2>2, <2>4, <2>5, <2>7, <2>8, <2>9 DEF Gone
<1>4. QED
  BY <1>2, <1>3, Zenon
------------------------------------------------------------------------------
(* A step of the current thread that changes neither the scheduler nor a    *)
(* wait list: only its own place and the locks have to be looked at.        *)
LEMMA LocalStep ==
    ASSUME IInv, NEW t \in Threads, current = t,
           pc[t] \notin {"create", "hlt", "loop"},
           pc'[t] \notin {"waiting", "create", "hlt", "loop"},
           UNCHANGED <<sched, waiters>>, TypeOK',
           \A u \in Threads \ {t} : /\ pc'[u] = pc[u] /\ arg'[u] = arg[u]
                                    /\ ret'[u] = ret[u] /\ cnd'[u] = cnd[u],
           \A l \in Locks, u \in Threads \ {t} : holder[l] = u => holder'[l] = u,
           FrameOK(t)', HoldsAt(t)', MutualExclusion'
    PROVE  IInv'
<1>1. status[t] = "RUNNING"
  BY Zenon DEF IInv, SchedInv, RunQueueConsistent
<1>2. SchedInv'
  BY Zenon DEF IInv, SchedInv, SchedTypeOK, RunQueueConsistent, sched
<1>3. PcOK'
  <2>1. \A u \in Threads : FrameOK(u)'
    BY DEF IInv, PcOK, FrameOK
  <2>2. \A u \in Threads : CreateOK(u)'
    <3>1. \A u \in Threads : pc'[u] = "create" => u # t /\ pc[u] = "create" /\ arg'[u] = arg[u]
      BY Zenon
    <3>2. \A u \in Threads : pc[u] = "create" => arg[u] # t
      BY <1>1, Zenon DEF IInv, PcOK, CreateOK
    <3>3. QED
      BY <3>1, <3>2 DEF IInv, PcOK, CreateOK, sched
  <2>3. \A u \in Threads : status'[u] \in {"FREE", "DYING"} => pc'[u] = "run"
    BY <1>1, Zenon DEF IInv, PcOK, sched
  <2>4. \A u, v \in Threads :
           pc'[u] = "create" /\ pc'[v] = "create" /\ arg'[u] = arg'[v] => u = v
    BY DEF IInv, PcOK
  <2>5. QED
    BY <2>1, <2>2, <2>3, <2>4, Zenon DEF PcOK
<1>4. ElemExclusive'
  <2>1. \A s \in AllSemas : NoDuplicates(waiters'[s])
    BY Zenon DEF IInv, ElemExclusive
  <2>2. \A s \in AllSemas, u \in Threads :
           InSeq(u, waiters'[s]) => /\ status'[u] = "BLOCKED"
                                    /\ pc'[u] = "waiting" /\ arg'[u] = s
    BY <1>1 DEF IInv, ElemExclusive, sched
  <2>3. \A u \in Threads \ {idle_thread} :
           status'[u] = "BLOCKED" =>
              \/ arg'[u] \in AllSemas /\ InSeq(u, waiters'[arg'[u]])
              \/ \E v \in Threads : pc'[v] = "create" /\ arg'[v] = u
    BY <1>1 DEF IInv, ElemExclusive, sched
  <2>4. QED
    BY <2>1, <2>2, <2>3, Zenon DEF ElemExclusive
<1>5. StillHolds'
  <2>1. ASSUME NEW u \in Threads \ {t} PROVE HoldsAt(u)'
    BY SynchAssumption DEF IInv, StillHolds, HoldsAt, PcOK, FrameOK
  <2>2. QED
    BY <2>1, Zenon DEF StillHolds
<1>6. QED
  BY <1>2, <1>3, <1>4, <1>5, Zenon DEF IInv

(* The locks are as before when nobody becomes or ceases to be an owner.    *)
LEMMA SameOwners ==
    ASSUME IInv,
           \A l \in Locks : value'[l] = value[l],
           \A u \in Threads : Gone(u)' => Gone(u),
           \A l \in Locks, u \in Threads : /\ Owns(u, l)' <=> Owns(u, l)
                                           /\ ~ (holder[l] = u /\ InWindow(u, l))'
    PROVE  MutualExclusion'
  BY Zenon DEF IInv, MutualExclusion, Gone

(* A step that moves one thread, in no window before or after, and sets no  *)
(* holder.                                                                  *)
LEMMA OwnsKept ==
    ASSUME IInv, NEW t \in Threads, holder' = holder,
           \A u \in Threads \ {t} : pc'[u] = pc[u] /\ arg'[u] = arg[u],
           \A m \in Locks : ~ InWindow(t, m) /\ ~ InWindow(t, m)'
    PROVE  \A m \in Locks, u \in Threads : /\ Owns(u, m)' <=> Owns(u, m)
                                           /\ ~ (holder[m] = u /\ InWindow(u, m))'
<1>1. ASSUME NEW m \in Locks, NEW u \in Threads
      PROVE  InWindow(u, m)' <=> InWindow(u, m)
  <2>1. CASE u = t
    BY <2>1, Zenon
  <2>2. CASE u # t
    BY <2>2, Zenon DEF InWindow
  <2>3. QED
    BY <2>1, <2>2, Zenon
<1>2. \A m \in Locks, u \in Threads : ~ (holder[m] = u /\ InWindow(u, m))
  BY Zenon DEF IInv, MutualExclusion
<1>3. QED
  BY <1>1, <1>2, Zenon DEF Owns

(* A thread takes a free lock: it becomes the one owner.                    *)
LEMMA NewOwner ==
    ASSUME IInv, NEW t \in Threads, NEW l \in Locks, status[t] = "RUNNING",
           UNCHANGED <<sched, holder>>, value[l] # 0,
           value' = [value EXCEPT ![l] = value[l] - 1],
           InWindow(t, l)', ~ InWindow(t, l),
           \A m \in Locks, u \in Threads : (u # t \/ m # l) => (InWindow(u, m)' <=> InWindow(u, m))
    PROVE  MutualExclusion'
<1>1. value[l] = 1 /\ \A u \in Threads : ~ Owns(u, l)
  BY Zenon DEF IInv, MutualExclusion
<1>2. value'[l] = 0 /\ \A m \in Locks : m # l => value'[m] = value[m]
  BY <1>1 DEF IInv, TypeOK, AllSemas
<1>3. \A m \in Locks, u \in Threads : Owns(u, m)' <=> Owns(u, m) \/ (u = t /\ m = l)
  BY Zenon DEF Owns
<1>4. ASSUME NEW m \in Locks, m # l
      PROVE  /\ \A u, v \in Threads : Owns(u, m)' /\ Owns(v, m)' => u = v
             /\ value'[m] = IF \E u \in Threads : Owns(u, m)' THEN 0 ELSE 1
             /\ \A u \in Threads : Owns(u, m)' => status'[u] \notin {"FREE", "DYING"}
             /\ \A u \in Threads : ~ (holder'[m] = u /\ InWindow(u, m)')
  BY <1>2, <1>3, <1>4, Zenon DEF IInv, MutualExclusion, sched
<1>5. /\ \A u, v \in Threads : Owns(u, l)' /\ Owns(v, l)' => u = v
      /\ value'[l] = IF \E u \in Threads : Owns(u, l)' THEN 0 ELSE 1
      /\ \A u \in Threads : Owns(u, l)' => status'[u] \notin {"FREE", "DYING"}
      /\ \A u \in Threads : ~ (holder'[l] = u /\ InWindow(u, l)')
  BY <1>1, <1>2, <1>3, Zenon DEF Owns, sched
<1>6. QED
  BY <1>4, <1>5, Zenon DEF MutualExclusion
------------------------------------------------------------------------------
(* The steps of a thread that leave the scheduler and the wait lists alone. *)

LEMMA CallDownInv ==
    ASSUME IInv, NEW t \in Threads, NEW s \in Semas, CallDown(t, s)
    PROVE  IInv'
<1> USE SynchAssumption DEF At, CallDown, Call
<1>1. /\ current = t /\ UNCHANGED <<sched, waiters>> /\ FrameOK(t)
      /\ \A u \in Threads \ {t} : /\ pc'[u] = pc[u] /\ arg'[u] = arg[u]
                               /\ ret'[u] = ret[u] /\ cnd'[u] = cnd[u]
      /\ pc[t] \notin {"create", "hlt", "loop"}
      /\ pc'[t] \notin {"waiting", "create", "hlt", "loop"}
  BY Zenon DEF IInv, TypeOK, PcOK
<1>2. TypeOK'
  <2>1. value' \in [AllSemas -> Nat] /\ SchedTypeOK'
    BY <1>1, Zenon DEF IInv, TypeOK, SchedTypeOK, AllSemas, sched
  <2>2. /\ pc' \in [Threads -> Pcs] /\ arg' \in [Threads -> AllSemas \cup {NULL}]
        /\ ret' \in [Threads -> Rets] /\ cnd' \in [Threads -> Conds \cup {NULL}]
        /\ holder' \in [Locks -> Threads \cup {NULL}]
    BY <1>1, Zenon DEF IInv, TypeOK, FrameOK, AllSemas, Pcs, Rets
  <2>3. QED
    BY <1>1, <2>1, <2>2, Zenon DEF IInv, TypeOK
<1>3. FrameOK(t)' /\ HoldsAt(t)'
  BY <1>1, Zenon DEF IInv, TypeOK, FrameOK, HoldsAt, StillHolds, AllSemas
<1>4. /\ \A m \in Locks : value'[m] = value[m]
      /\ \A u \in Threads : Gone(u)' => Gone(u)
  BY <1>1, Zenon DEF IInv, TypeOK, AllSemas, Gone, sched
<1>5. \A m \in Locks, u \in Threads : /\ Owns(u, m)' <=> Owns(u, m)
                                    /\ ~ (holder[m] = u /\ InWindow(u, m))'
  <2>1. \A m \in Locks : ~ InWindow(t, m) /\ ~ InWindow(t, m)'
    BY <1>1, Zenon DEF IInv, TypeOK, FrameOK, InWindow
  <2>2. QED
    BY <1>1, <2>1, OwnsKept, Zenon
<1>6. \A m \in Locks, u \in Threads \ {t} : holder[m] = u => holder'[m] = u
  BY <1>1, Zenon DEF IInv, TypeOK, FrameOK
<1>7. MutualExclusion'
  BY <1>4, <1>5, SameOwners, Zenon
<1>8. QED
  BY <1>1, <1>2, <1>3, <1>6, <1>7, LocalStep, Zenon

LEMMA CallUpInv ==
    ASSUME IInv, NEW t \in Threads, NEW s \in Semas, CallUp(t, s)
    PROVE  IInv'
<1> USE SynchAssumption DEF At, CallUp, Call
<1>1. /\ current = t /\ UNCHANGED <<sched, waiters>> /\ FrameOK(t)
      /\ \A u \in Threads \ {t} : /\ pc'[u] = pc[u] /\ arg'[u] = arg[u]
                               /\ ret'[u] = ret[u] /\ cnd'[u] = cnd[u]
      /\ pc[t] \notin {"create", "hlt", "loop"}
      /\ pc'[t] \notin {"waiting", "create", "hlt", "loop"}
  BY Zenon DEF IInv, TypeOK, PcOK
<1>2. TypeOK'
  <2>1. value' \in [AllSemas -> Nat] /\ SchedTypeOK'
    BY <1>1, Zenon DEF IInv, TypeOK, SchedTypeOK, AllSemas, sched
  <2>2. /\ pc' \in [Threads -> Pcs] /\ arg' \in [Threads -> AllSemas \cup {NULL}]
        /\ ret' \in [Threads -> Rets] /\ cnd' \in [Threads -> Conds \cup {NULL}]
        /\ holder' \in [Locks -> Threads \cup {NULL}]
    BY <1>1, Zenon DEF IInv, TypeOK, FrameOK, AllSemas, Pcs, Rets
  <2>3. QED
    BY <1>1, <2>1, <2>2, Zenon DEF IInv, TypeOK
<1>3. FrameOK(t)' /\ HoldsAt(t)'
  BY <1>1, Zenon DEF IInv, TypeOK, FrameOK, HoldsAt, StillHolds, AllSemas
<1>4. /\ \A m \in Locks : value'[m] = value[m]
      /\ \A u \in Threads : Gone(u)' => Gone(u)
  BY <1>1, Zenon DEF IInv, TypeOK, AllSemas, Gone, sched
<1>5. \A m \in Locks, u \in Threads : /\ Owns(u, m)' <=> Owns(u, m)
                                    /\ ~ (holder[m] = u /\ InWindow(u, m))'
  <2>1. \A m \in Locks : ~ InWindow(t, m) /\ ~ InWindow(t, m)'
    BY <1>1, ZenonT(40) DEF IInv, TypeOK, FrameOK, InWindow
  <2>2. QED
    BY <1>1, <2>1, OwnsKept, Zenon
<1>6. \A m \in Locks, u \in Threads \ {t} : holder[m] = u => holder'[m] = u
  BY <1>1, Zenon DEF IInv, TypeOK, FrameOK
<1>7. MutualExclusion'
  BY <1>4, <1>5, SameOwners, Zenon
<1>8. QED
  BY <1>1, <1>2, <1>3, <1>6, <1>7, LocalStep, Zenon

LEMMA sema_try_downInv ==
    ASSUME IInv, NEW t \in Threads, NEW s \in Semas, sema_try_down(t, s)
    PROVE  IInv'
<1> USE SynchAssumption DEF At, sema_try_down
<1>1. /\ current = t /\ UNCHANGED <<sched, waiters>> /\ FrameOK(t)
      /\ \A u \in Threads \ {t} : /\ pc'[u] = pc[u] /\ arg'[u] = arg[u]
                               /\ ret'[u] = ret[u] /\ cnd'[u] = cnd[u]
      /\ pc[t] \notin {"create", "hlt", "loop"}
      /\ pc'[t] \notin {"waiting", "create", "hlt", "loop"}
  BY Zenon DEF IInv, TypeOK, PcOK
<1>2. TypeOK'
  <2>1. value' \in [AllSemas -> Nat] /\ SchedTypeOK'
    BY <1>1 DEF IInv, TypeOK, SchedTypeOK, AllSemas, sched
  <2>2. /\ pc' \in [Threads -> Pcs] /\ arg' \in [Threads -> AllSemas \cup {NULL}]
        /\ ret' \in [Threads -> Rets] /\ cnd' \in [Threads -> Conds \cup {NULL}]
        /\ holder' \in [Locks -> Threads \cup {NULL}]
    BY <1>1, Zenon DEF IInv, TypeOK, FrameOK, AllSemas, Pcs, Rets
  <2>3. QED
    BY <1>1, <2>1, <2>2, Zenon DEF IInv, TypeOK
<1>3. FrameOK(t)' /\ HoldsAt(t)'
  BY <1>1, Zenon DEF IInv, TypeOK, FrameOK, HoldsAt, StillHolds, AllSemas
<1>4. /\ \A m \in Locks : value'[m] = value[m]
      /\ \A u \in Threads : Gone(u)' => Gone(u)
  BY <1>1, Zenon DEF IInv, TypeOK, AllSemas, Gone, sched
<1>5. \A m \in Locks, u \in Threads : /\ Owns(u, m)' <=> Owns(u, m)
                                    /\ ~ (holder[m] = u /\ InWindow(u, m))'
  <2>1. \A m \in Locks : ~ InWindow(t, m) /\ ~ InWindow(t, m)'
    BY <1>1, Zenon DEF IInv, TypeOK, FrameOK, InWindow
  <2>2. QED
    BY <1>1, <2>1, OwnsKept, Zenon
<1>6. \A m \in Locks, u \in Threads \ {t} : holder[m] = u => holder'[m] = u
  BY <1>1, Zenon DEF IInv, TypeOK, FrameOK
<1>7. MutualExclusion'
  BY <1>4, <1>5, SameOwners, Zenon
<1>8. QED
  BY <1>1, <1>2, <1>3, <1>6, <1>7, LocalStep, Zenon

LEMMA lock_acquireInv ==
    ASSUME IInv, NEW t \in Threads, NEW l \in Locks, lock_acquire(t, l)
    PROVE  IInv'
<1> USE SynchAssumption DEF At, lock_acquire, Call
<1>1. /\ current = t /\ UNCHANGED <<sched, waiters>> /\ FrameOK(t)
      /\ \A u \in Threads \ {t} : /\ pc'[u] = pc[u] /\ arg'[u] = arg[u]
                               /\ ret'[u] = ret[u] /\ cnd'[u] = cnd[u]
      /\ pc[t] \notin {"create", "hlt", "loop"}
      /\ pc'[t] \notin {"waiting", "create", "hlt", "loop"}
  BY Zenon DEF IInv, TypeOK, PcOK
<1>2. TypeOK'
  <2>1. value' \in [AllSemas -> Nat] /\ SchedTypeOK'
    BY <1>1, Zenon DEF IInv, TypeOK, SchedTypeOK, AllSemas, sched
  <2>2. /\ pc' \in [Threads -> Pcs] /\ arg' \in [Threads -> AllSemas \cup {NULL}]
        /\ ret' \in [Threads -> Rets] /\ cnd' \in [Threads -> Conds \cup {NULL}]
        /\ holder' \in [Locks -> Threads \cup {NULL}]
    BY <1>1, Zenon DEF IInv, TypeOK, FrameOK, AllSemas, Pcs, Rets
  <2>3. QED
    BY <1>1, <2>1, <2>2, Zenon DEF IInv, TypeOK
<1>3. FrameOK(t)' /\ HoldsAt(t)'
  BY <1>1, Zenon DEF IInv, TypeOK, FrameOK, HoldsAt, StillHolds, AllSemas
<1>4. /\ \A m \in Locks : value'[m] = value[m]
      /\ \A u \in Threads : Gone(u)' => Gone(u)
  BY <1>1, Zenon DEF IInv, TypeOK, AllSemas, Gone, sched
<1>5. \A m \in Locks, u \in Threads : /\ Owns(u, m)' <=> Owns(u, m)
                                    /\ ~ (holder[m] = u /\ InWindow(u, m))'
  <2>1. \A m \in Locks : ~ InWindow(t, m) /\ ~ InWindow(t, m)'
    BY <1>1, Zenon DEF IInv, TypeOK, FrameOK, InWindow
  <2>2. QED
    BY <1>1, <2>1, OwnsKept, Zenon
<1>6. \A m \in Locks, u \in Threads \ {t} : holder[m] = u => holder'[m] = u
  BY <1>1, Zenon DEF IInv, TypeOK, FrameOK
<1>7. MutualExclusion'
  BY <1>4, <1>5, SameOwners, Zenon
<1>8. QED
  BY <1>1, <1>2, <1>3, <1>6, <1>7, LocalStep, Zenon

LEMMA SetHolderInv ==
    ASSUME IInv, NEW t \in Threads, SetHolder(t)
    PROVE  IInv'
<1> USE SynchAssumption DEF At, SetHolder, Return
<1>1. /\ current = t /\ UNCHANGED <<sched, waiters>> /\ FrameOK(t)
      /\ \A u \in Threads \ {t} : /\ pc'[u] = pc[u] /\ arg'[u] = arg[u]
                               /\ ret'[u] = ret[u] /\ cnd'[u] = cnd[u]
      /\ pc[t] \notin {"create", "hlt", "loop"}
      /\ pc'[t] \notin {"waiting", "create", "hlt", "loop"}
  BY Zenon DEF IInv, TypeOK, PcOK
<1>2. TypeOK'
  <2>1. value' \in [AllSemas -> Nat] /\ SchedTypeOK'
    BY <1>1, Zenon DEF IInv, TypeOK, SchedTypeOK, AllSemas, sched
  <2>2. /\ pc' \in [Threads -> Pcs] /\ arg' \in [Threads -> AllSemas \cup {NULL}]
        /\ ret' \in [Threads -> Rets] /\ cnd' \in [Threads -> Conds \cup {NULL}]
        /\ holder' \in [Locks -> Threads \cup {NULL}]
    <3>1. arg[t] \in Locks /\ holder' = [holder EXCEPT ![arg[t]] = t]
      BY <1>1, Zenon DEF FrameOK
    <3>2. /\ pc' = [pc EXCEPT ![t] = "run"] /\ arg' = [arg EXCEPT ![t] = NULL]
          /\ ret' = [ret EXCEPT ![t] = "run"] /\ cnd' = [cnd EXCEPT ![t] = NULL]
      BY Zenon
    <3> HIDE DEF SetHolder, Return
    <3>3. QED
      BY <3>1, <3>2, Zenon DEF IInv, TypeOK, Pcs, Rets
  <2>3. QED
    BY <1>1, <2>1, <2>2, Zenon DEF IInv, TypeOK
<1>3. FrameOK(t)' /\ HoldsAt(t)'
  BY <1>1, Zenon DEF IInv, TypeOK, FrameOK, HoldsAt, StillHolds, AllSemas
<1>4. /\ \A m \in Locks : value'[m] = value[m]
      /\ \A u \in Threads : Gone(u)' => Gone(u)
  BY <1>1, Zenon DEF IInv, TypeOK, AllSemas, Gone, sched
<1>5. \A m \in Locks, u \in Threads : /\ Owns(u, m)' <=> Owns(u, m)
                                    /\ ~ (holder[m] = u /\ InWindow(u, m))'
  BY <1>1 DEF IInv, TypeOK, FrameOK, MutualExclusion, Owns, InWindow
<1>6. \A m \in Locks, u \in Threads \ {t} : holder[m] = u => holder'[m] = u
  BY <1>1 DEF IInv, TypeOK, FrameOK, MutualExclusion, Owns, InWindow
<1>7. MutualExclusion'
  BY <1>4, <1>5, SameOwners, Zenon
<1>8. QED
  BY <1>1, <1>2, <1>3, <1>6, <1>7, LocalStep, Zenon

LEMMA lock_releaseInv ==
    ASSUME IInv, NEW t \in Threads, NEW l \in Locks, lock_release(t, l)
    PROVE  IInv'
<1> USE SynchAssumption DEF At, lock_release, Release, Call
<1>1. /\ current = t /\ UNCHANGED <<sched, waiters>> /\ FrameOK(t)
      /\ \A u \in Threads \ {t} : /\ pc'[u] = pc[u] /\ arg'[u] = arg[u]
                               /\ ret'[u] = ret[u] /\ cnd'[u] = cnd[u]
      /\ pc[t] \notin {"create", "hlt", "loop"}
      /\ pc'[t] \notin {"waiting", "create", "hlt", "loop"}
  BY Zenon DEF IInv, TypeOK, PcOK
<1>2. TypeOK'
  <2>1. value' \in [AllSemas -> Nat] /\ SchedTypeOK'
    BY <1>1, Zenon DEF IInv, TypeOK, SchedTypeOK, AllSemas, sched
  <2>2. /\ pc' \in [Threads -> Pcs] /\ arg' \in [Threads -> AllSemas \cup {NULL}]
        /\ ret' \in [Threads -> Rets] /\ cnd' \in [Threads -> Conds \cup {NULL}]
        /\ holder' \in [Locks -> Threads \cup {NULL}]
    BY <1>1, Zenon DEF IInv, TypeOK, FrameOK, AllSemas, Pcs, Rets
  <2>3. QED
    BY <1>1, <2>1, <2>2, Zenon DEF IInv, TypeOK
<1>3. FrameOK(t)' /\ HoldsAt(t)'
  BY <1>1, Zenon DEF IInv, TypeOK, FrameOK, HoldsAt, StillHolds, AllSemas
<1>4. /\ \A m \in Locks : value'[m] = value[m]
      /\ \A u \in Threads : Gone(u)' => Gone(u)
  BY <1>1, Zenon DEF IInv, TypeOK, AllSemas, Gone, sched
<1>5. \A m \in Locks, u \in Threads : /\ Owns(u, m)' <=> Owns(u, m)
                                    /\ ~ (holder[m] = u /\ InWindow(u, m))'
  BY <1>1 DEF IInv, TypeOK, FrameOK, MutualExclusion, Owns, InWindow
<1>6. \A m \in Locks, u \in Threads \ {t} : holder[m] = u => holder'[m] = u
  BY <1>1, Zenon DEF IInv, TypeOK, FrameOK
<1>7. MutualExclusion'
  BY <1>4, <1>5, SameOwners, Zenon
<1>8. QED
  BY <1>1, <1>2, <1>3, <1>6, <1>7, LocalStep, Zenon

LEMMA CondReleaseInv ==
    ASSUME IInv, NEW t \in Threads, CondRelease(t)
    PROVE  IInv'
<1> USE SynchAssumption DEF At, CondRelease, Release, Call
<1>1. /\ current = t /\ UNCHANGED <<sched, waiters>> /\ FrameOK(t)
      /\ \A u \in Threads \ {t} : /\ pc'[u] = pc[u] /\ arg'[u] = arg[u]
                               /\ ret'[u] = ret[u] /\ cnd'[u] = cnd[u]
      /\ pc[t] \notin {"create", "hlt", "loop"}
      /\ pc'[t] \notin {"waiting", "create", "hlt", "loop"}
  BY Zenon DEF IInv, TypeOK, PcOK
<1>2. TypeOK'
  <2>1. value' \in [AllSemas -> Nat] /\ SchedTypeOK'
    BY <1>1, Zenon DEF IInv, TypeOK, SchedTypeOK, AllSemas, sched
  <2>2. /\ pc' \in [Threads -> Pcs] /\ arg' \in [Threads -> AllSemas \cup {NULL}]
        /\ ret' \in [Threads -> Rets] /\ cnd' \in [Threads -> Conds \cup {NULL}]
        /\ holder' \in [Locks -> Threads \cup {NULL}]
    BY <1>1, Zenon DEF IInv, TypeOK, FrameOK, AllSemas, Pcs, Rets
  <2>3. QED
    BY <1>1, <2>1, <2>2, Zenon DEF IInv, TypeOK
<1>3. FrameOK(t)' /\ HoldsAt(t)'
  BY <1>1, Zenon DEF IInv, TypeOK, FrameOK, HoldsAt, StillHolds, AllSemas
<1>4. /\ \A m \in Locks : value'[m] = value[m]
      /\ \A u \in Threads : Gone(u)' => Gone(u)
  BY <1>1, Zenon DEF IInv, TypeOK, AllSemas, Gone, sched
<1>5. \A m \in Locks, u \in Threads : /\ Owns(u, m)' <=> Owns(u, m)
                                    /\ ~ (holder[m] = u /\ InWindow(u, m))'
  BY <1>1 DEF IInv, TypeOK, FrameOK, MutualExclusion, Owns, InWindow
<1>6. \A m \in Locks, u \in Threads \ {t} : holder[m] = u => holder'[m] = u
  BY <1>1, Zenon DEF IInv, TypeOK, FrameOK
<1>7. MutualExclusion'
  BY <1>4, <1>5, SameOwners, Zenon
<1>8. QED
  BY <1>1, <1>2, <1>3, <1>6, <1>7, LocalStep, Zenon

LEMMA CondSleepInv ==
    ASSUME IInv, NEW t \in Threads, CondSleep(t)
    PROVE  IInv'
<1> USE SynchAssumption DEF At, CondSleep, Call
<1>1. /\ current = t /\ UNCHANGED <<sched, waiters>> /\ FrameOK(t)
      /\ \A u \in Threads \ {t} : /\ pc'[u] = pc[u] /\ arg'[u] = arg[u]
                               /\ ret'[u] = ret[u] /\ cnd'[u] = cnd[u]
      /\ pc[t] \notin {"create", "hlt", "loop"}
      /\ pc'[t] \notin {"waiting", "create", "hlt", "loop"}
  BY Zenon DEF IInv, TypeOK, PcOK
<1>2. TypeOK'
  <2>1. value' \in [AllSemas -> Nat] /\ SchedTypeOK'
    BY <1>1, Zenon DEF IInv, TypeOK, SchedTypeOK, AllSemas, sched
  <2>2. /\ pc' \in [Threads -> Pcs] /\ arg' \in [Threads -> AllSemas \cup {NULL}]
        /\ ret' \in [Threads -> Rets] /\ cnd' \in [Threads -> Conds \cup {NULL}]
        /\ holder' \in [Locks -> Threads \cup {NULL}]
    BY <1>1, Zenon DEF IInv, TypeOK, FrameOK, AllSemas, Pcs, Rets
  <2>3. QED
    BY <1>1, <2>1, <2>2, Zenon DEF IInv, TypeOK
<1>3. FrameOK(t)' /\ HoldsAt(t)'
  BY <1>1, Zenon DEF IInv, TypeOK, FrameOK, HoldsAt, StillHolds, AllSemas
<1>4. /\ \A m \in Locks : value'[m] = value[m]
      /\ \A u \in Threads : Gone(u)' => Gone(u)
  BY <1>1, Zenon DEF IInv, TypeOK, AllSemas, Gone, sched
<1>5. \A m \in Locks, u \in Threads : /\ Owns(u, m)' <=> Owns(u, m)
                                    /\ ~ (holder[m] = u /\ InWindow(u, m))'
  <2>1. \A m \in Locks : ~ InWindow(t, m) /\ ~ InWindow(t, m)'
    BY <1>1, Zenon DEF IInv, TypeOK, FrameOK, InWindow
  <2>2. QED
    BY <1>1, <2>1, OwnsKept, Zenon
<1>6. \A m \in Locks, u \in Threads \ {t} : holder[m] = u => holder'[m] = u
  BY <1>1, Zenon DEF IInv, TypeOK, FrameOK
<1>7. MutualExclusion'
  BY <1>4, <1>5, SameOwners, Zenon
<1>8. QED
  BY <1>1, <1>2, <1>3, <1>6, <1>7, LocalStep, Zenon

LEMMA CondReacquireInv ==
    ASSUME IInv, NEW t \in Threads, CondReacquire(t)
    PROVE  IInv'
<1> USE SynchAssumption DEF At, CondReacquire, Call
<1>1. /\ current = t /\ UNCHANGED <<sched, waiters>> /\ FrameOK(t)
      /\ \A u \in Threads \ {t} : /\ pc'[u] = pc[u] /\ arg'[u] = arg[u]
                               /\ ret'[u] = ret[u] /\ cnd'[u] = cnd[u]
      /\ pc[t] \notin {"create", "hlt", "loop"}
      /\ pc'[t] \notin {"waiting", "create", "hlt", "loop"}
  BY Zenon DEF IInv, TypeOK, PcOK
<1>2. TypeOK'
  <2>1. value' \in [AllSemas -> Nat] /\ SchedTypeOK'
    BY <1>1, Zenon DEF IInv, TypeOK, SchedTypeOK, AllSemas, sched
  <2>2. /\ pc' \in [Threads -> Pcs] /\ arg' \in [Threads -> AllSemas \cup {NULL}]
        /\ ret' \in [Threads -> Rets] /\ cnd' \in [Threads -> Conds \cup {NULL}]
        /\ holder' \in [Locks -> Threads \cup {NULL}]
    BY <1>1, Zenon DEF IInv, TypeOK, FrameOK, AllSemas, Pcs, Rets
  <2>3. QED
    BY <1>1, <2>1, <2>2, Zenon DEF IInv, TypeOK
<1>3. FrameOK(t)' /\ HoldsAt(t)'
  BY <1>1, Zenon DEF IInv, TypeOK, FrameOK, HoldsAt, StillHolds, AllSemas
<1>4. /\ \A m \in Locks : value'[m] = value[m]
      /\ \A u \in Threads : Gone(u)' => Gone(u)
  BY <1>1, Zenon DEF IInv, TypeOK, AllSemas, Gone, sched
<1>5. \A m \in Locks, u \in Threads : /\ Owns(u, m)' <=> Owns(u, m)
                                    /\ ~ (holder[m] = u /\ InWindow(u, m))'
  <2>1. \A m \in Locks : ~ InWindow(t, m) /\ ~ InWindow(t, m)'
    BY <1>1, Zenon DEF IInv, TypeOK, FrameOK, InWindow
  <2>2. QED
    BY <1>1, <2>1, OwnsKept, Zenon
<1>6. \A m \in Locks, u \in Threads \ {t} : holder[m] = u => holder'[m] = u
  BY <1>1, Zenon DEF IInv, TypeOK, FrameOK
<1>7. MutualExclusion'
  BY <1>4, <1>5, SameOwners, Zenon
<1>8. QED
  BY <1>1, <1>2, <1>3, <1>6, <1>7, LocalStep, Zenon
------------------------------------------------------------------------------
(* Condition variables, and sema_down ().                                   *)

LEMMA cond_broadcastInv ==
    ASSUME IInv, NEW t \in Threads, NEW c \in Conds, cond_broadcast(t, c)
    PROVE  IInv'
<1> USE SynchAssumption DEF At, cond_broadcast, Goto
<1>1. /\ current = t /\ UNCHANGED <<sched, waiters>> /\ FrameOK(t)
      /\ \A u \in Threads \ {t} : /\ pc'[u] = pc[u] /\ arg'[u] = arg[u]
                               /\ ret'[u] = ret[u] /\ cnd'[u] = cnd[u]
      /\ pc[t] \notin {"create", "hlt", "loop"}
      /\ pc'[t] \notin {"waiting", "create", "hlt", "loop"}
  BY Zenon DEF IInv, TypeOK, PcOK
<1>2. TypeOK'
  <2>1. value' \in [AllSemas -> Nat] /\ SchedTypeOK'
    BY <1>1, Zenon DEF IInv, TypeOK, SchedTypeOK, AllSemas, sched
  <2>2. /\ pc' \in [Threads -> Pcs] /\ arg' \in [Threads -> AllSemas \cup {NULL}]
        /\ ret' \in [Threads -> Rets] /\ cnd' \in [Threads -> Conds \cup {NULL}]
        /\ holder' \in [Locks -> Threads \cup {NULL}]
    BY <1>1, Zenon DEF IInv, TypeOK, FrameOK, AllSemas, Pcs, Rets
  <2>3. QED
    BY <1>1, <2>1, <2>2, Zenon DEF IInv, TypeOK
<1>3. FrameOK(t)' /\ HoldsAt(t)'
  BY <1>1, Zenon DEF IInv, TypeOK, FrameOK, HoldsAt, StillHolds, AllSemas
<1>4. /\ \A m \in Locks : value'[m] = value[m]
      /\ \A u \in Threads : Gone(u)' => Gone(u)
  BY <1>1, Zenon DEF IInv, TypeOK, AllSemas, Gone, sched
<1>5. \A m \in Locks, u \in Threads : /\ Owns(u, m)' <=> Owns(u, m)
                                    /\ ~ (holder[m] = u /\ InWindow(u, m))'
  <2>1. \A m \in Locks : ~ InWindow(t, m) /\ ~ InWindow(t, m)'
    BY <1>1, Zenon DEF IInv, TypeOK, FrameOK, InWindow
  <2>2. QED
    BY <1>1, <2>1, OwnsKept, Zenon
<1>6. \A m \in Locks, u \in Threads \ {t} : holder[m] = u => holder'[m] = u
  BY <1>1, Zenon DEF IInv, TypeOK, FrameOK
<1>7. MutualExclusion'
  BY <1>4, <1>5, SameOwners, Zenon
<1>8. QED
  BY <1>1, <1>2, <1>3, <1>6, <1>7, LocalStep, Zenon

(* cond_signal () and a turn of the loop of cond_broadcast ().              *)
LEMMA SignalInv ==
    ASSUME IInv, NEW t \in Threads, NEW c \in Conds, NEW after,
           current = t, Signal(t, c, after), UNCHANGED <<sched, value, waiters, holder, cnd>>,
           \/ pc[t] = "run" /\ after = "run"
           \/ pc[t] = "broadcast" /\ after = "broadcast" /\ c = cnd[t]
    PROVE  IInv'
<1> DEFINE h == Head(cond_waiters[c])
<1>1. /\ pc' = [pc EXCEPT ![t] = "up"] /\ arg' = [arg EXCEPT ![t] = h]
      /\ ret' = [ret EXCEPT ![t] = after]
      /\ cond_waiters' = [cond_waiters EXCEPT ![c] = Tail(cond_waiters[c])]
      /\ cond_waiters[c] # <<>>
  BY Zenon DEF Signal, Call
<1>2. h \in Threads /\ Tail(cond_waiters[c]) \in Seq(Threads)
  <2>1. cond_waiters[c] \in Seq(Threads)
    BY Zenon DEF IInv, TypeOK
  <2>2. QED
    BY <1>1, <2>1, TailOfList, Zenon
<1> HIDE DEF h
<1>3. TypeOK'
  <2>1. SchedTypeOK' /\ value' \in [AllSemas -> Nat]
    BY Zenon DEF IInv, TypeOK, SchedTypeOK, sched
  <2>2. cond_waiters' \in [Conds -> Seq(Threads)]
    BY <1>1, <1>2, Zenon DEF IInv, TypeOK
  <2>3. /\ pc' \in [Threads -> Pcs] /\ arg' \in [Threads -> AllSemas \cup {NULL}]
        /\ ret' \in [Threads -> Rets]
    BY <1>1, <1>2, Zenon DEF IInv, TypeOK, AllSemas, Pcs, Rets
  <2>4. QED
    BY <2>1, <2>2, <2>3, Zenon DEF IInv, TypeOK
<1>4. /\ FrameOK(t) /\ HoldsAt(t)
      /\ \A u \in Threads \ {t} : /\ pc'[u] = pc[u] /\ arg'[u] = arg[u]
                               /\ ret'[u] = ret[u] /\ cnd'[u] = cnd[u]
      /\ pc'[t] = "up" /\ arg'[t] = h /\ ret'[t] = after
  BY <1>1, Zenon DEF IInv, TypeOK, PcOK, StillHolds
<1>5. FrameOK(t)' /\ HoldsAt(t)'
  <2>1. FrameOK(t)'
    BY <1>2, <1>4, Zenon DEF FrameOK, AllSemas
  <2>2. HoldsAt(t)'
    BY <1>4, Zenon DEF HoldsAt
  <2>3. QED
    BY <2>1, <2>2, Zenon
<1>6. MutualExclusion'
  <2>1. \A m \in Locks, u \in Threads : InWindow(u, m)' <=> InWindow(u, m)
    BY <1>2, <1>4, SynchAssumption, Zenon DEF InWindow
  <2>2. QED
    BY <2>1, SameOwners, Zenon DEF IInv, MutualExclusion, Owns, Gone, sched
<1>7. QED
  BY <1>3, <1>4, <1>5, <1>6, LocalStep, Zenon

LEMMA cond_signalInv ==
    ASSUME IInv, NEW t \in Threads, NEW c \in Conds, cond_signal(t, c)
    PROVE  IInv'
  BY SignalInv, Zenon DEF cond_signal, At

LEMMA BroadcastStepInv ==
    ASSUME IInv, NEW t \in Threads, BroadcastStep(t)
    PROVE  IInv'
<1>1. /\ current = t /\ pc[t] = "broadcast" /\ UNCHANGED <<sched, value, waiters, holder>>
      /\ FrameOK(t) /\ cnd[t] \in Conds
  BY Zenon DEF IInv, PcOK, FrameOK, BroadcastStep, At
<1>2. CASE Signal(t, cnd[t], "broadcast") /\ UNCHANGED cnd
  BY <1>1, <1>2, SignalInv, Zenon
<1>3. CASE Return(t, "run") /\ UNCHANGED cond_waiters
  <2>1. /\ pc' = [pc EXCEPT ![t] = "run"] /\ arg' = [arg EXCEPT ![t] = NULL]
        /\ ret' = [ret EXCEPT ![t] = "run"] /\ cnd' = [cnd EXCEPT ![t] = NULL]
    BY <1>3, Zenon DEF Return
  <2>2. TypeOK'
    BY <1>1, <1>3, <2>1, Zenon DEF IInv, TypeOK, SchedTypeOK, sched, Pcs, Rets
  <2>3. /\ \A u \in Threads \ {t} : /\ pc'[u] = pc[u] /\ arg'[u] = arg[u]
                                 /\ ret'[u] = ret[u] /\ cnd'[u] = cnd[u]
        /\ pc'[t] = "run"
    BY <2>1, Zenon DEF IInv, TypeOK
  <2>4. FrameOK(t)' /\ HoldsAt(t)'
    BY <1>1, <2>3, Zenon DEF FrameOK, HoldsAt
  <2>5. MutualExclusion'
    <3>1. \A m \in Locks, u \in Threads : InWindow(u, m)' <=> InWindow(u, m)
      BY <1>1, <2>3, Zenon DEF InWindow
    <3>2. QED
      BY <1>1, <3>1, SameOwners, Zenon DEF IInv, MutualExclusion, Owns, Gone, sched
  <2>6. QED
    BY <1>1, <2>2, <2>3, <2>4, <2>5, LocalStep, Zenon
<1>4. QED
  BY <1>2, <1>3, Zenon DEF BroadcastStep

LEMMA lock_try_acquireInv ==
    ASSUME IInv, NEW t \in Threads, NEW l \in Locks, lock_try_acquire(t, l)
    PROVE  IInv'
<1>1. /\ current = t /\ pc[t] = "run" /\ value[l] > 0 /\ FrameOK(t)
      /\ UNCHANGED <<sched, waiters, holder, cond_waiters, ret, cnd>>
      /\ pc' = [pc EXCEPT ![t] = "hold"] /\ arg' = [arg EXCEPT ![t] = l]
      /\ value' = [value EXCEPT ![l] = value[l] - 1]
      /\ status[t] = "RUNNING" /\ value[l] # 0
  <2>1. value[l] > 0 => value[l] # 0
    OBVIOUS
  <2>2. QED
    BY <2>1, Zenon
    DEF IInv, PcOK, SchedInv, RunQueueConsistent, lock_try_acquire, At, Goto
<1>2. TypeOK'
  <2>1. value \in [AllSemas -> Nat] /\ l \in AllSemas
    BY Zenon DEF IInv, TypeOK, AllSemas
  <2>2. value' \in [AllSemas -> Nat]
    BY <1>1, <2>1
  <2>3. pc' \in [Threads -> Pcs] /\ arg' \in [Threads -> AllSemas \cup {NULL}]
    BY <1>1, <2>1, Zenon DEF IInv, TypeOK, Pcs
  <2>4. QED
    BY <1>1, <2>2, <2>3, Zenon DEF IInv, TypeOK, SchedTypeOK, sched
<1>3. /\ \A u \in Threads \ {t} : /\ pc'[u] = pc[u] /\ arg'[u] = arg[u]
                               /\ ret'[u] = ret[u] /\ cnd'[u] = cnd[u]
      /\ pc'[t] = "hold" /\ arg'[t] = l
  BY <1>1, Zenon DEF IInv, TypeOK
<1>4. FrameOK(t)' /\ HoldsAt(t)'
  BY <1>1, <1>3, Zenon DEF FrameOK, HoldsAt
<1>5. /\ InWindow(t, l)' /\ ~ InWindow(t, l)
      /\ \A m \in Locks, u \in Threads :
            (u # t \/ m # l) => (InWindow(u, m)' <=> InWindow(u, m))
  BY <1>1, <1>3, Zenon DEF InWindow
<1>6. MutualExclusion'
  BY <1>1, <1>5, NewOwner, Zenon
<1>7. QED
  BY <1>1, <1>2, <1>3, <1>4, <1>6, LocalStep, Zenon

LEMMA cond_waitInv ==
    ASSUME IInv, NEW t \in Threads, NEW c \in Conds, cond_wait(t, c)
    PROVE  IInv'
<1>1. /\ current = t /\ pc[t] = "run" /\ holder[CondLock[c]] = t /\ FrameOK(t)
      /\ UNCHANGED <<sched, holder, arg, ret>>
      /\ pc' = [pc EXCEPT ![t] = "cond_release"] /\ cnd' = [cnd EXCEPT ![t] = c]
      /\ value' = [value EXCEPT ![t] = 0]
      /\ cond_waiters' = [cond_waiters EXCEPT ![c] = Append(cond_waiters[c], t)]
  BY Zenon DEF IInv, PcOK, cond_wait, sema_init, At, Goto
<1>2. waiters' = waiters
  <2>1. waiters[t] = <<>>
    BY <1>1, OwnWaiterOnly, Zenon
  <2>2. waiters' = [waiters EXCEPT ![t] = <<>>] /\ t \in AllSemas
    BY Zenon DEF cond_wait, sema_init, AllSemas
  <2>3. QED
    BY <2>1, <2>2, Zenon DEF IInv, TypeOK
<1>3. TypeOK'
  <2>1. Append(cond_waiters[c], t) \in Seq(Threads)
    BY DEF IInv, TypeOK
  <2>2. cond_waiters' \in [Conds -> Seq(Threads)]
    BY <1>1, <2>1, Zenon DEF IInv, TypeOK
  <2>3. value' \in [AllSemas -> Nat] /\ SchedTypeOK'
    BY <1>1, Zenon DEF IInv, TypeOK, SchedTypeOK, sched, AllSemas
  <2>4. QED
    BY <1>1, <1>2, <2>2, <2>3, Zenon DEF IInv, TypeOK, Pcs
<1>4. /\ \A u \in Threads \ {t} : /\ pc'[u] = pc[u] /\ arg'[u] = arg[u]
                               /\ ret'[u] = ret[u] /\ cnd'[u] = cnd[u]
      /\ pc'[t] = "cond_release" /\ cnd'[t] = c
  BY <1>1, Zenon DEF IInv, TypeOK
<1>5. FrameOK(t)' /\ HoldsAt(t)'
  BY <1>1, <1>4, Zenon DEF FrameOK, HoldsAt
<1>6. MutualExclusion'
  <2>1. \A m \in Locks, u \in Threads : InWindow(u, m)' <=> InWindow(u, m)
    BY <1>1, <1>4, Zenon DEF InWindow
  <2>2. \A m \in Locks : value'[m] = value[m]
    BY <1>1, SynchAssumption DEF IInv, TypeOK, AllSemas
  <2>3. QED
    BY <1>1, <2>1, <2>2, SameOwners, Zenon DEF IInv, MutualExclusion, Owns, Gone, sched
<1>7. QED
  BY <1>1, <1>2, <1>3, <1>4, <1>5, <1>6, LocalStep, Zenon
==============================================================================
