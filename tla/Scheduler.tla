------------------------------ MODULE Scheduler ------------------------------
(***************************************************************************)
(* The round-robin thread scheduler of threads/thread.c on one CPU: thread *)
(* states, the FIFO run queue, the time slice and the idle thread.  Each    *)
(* operator below is a stretch of kernel code that runs with interrupts     *)
(* off, and so is atomic.                                                   *)
(***************************************************************************)
EXTENDS Naturals, Sequences

CONSTANTS Threads,          \* thread pages: struct thread lives in its own page
          idle_thread,      \* the thread that runs when no other is ready
          initial_thread,   \* "main"; its page does not come from palloc
          TIME_SLICE        \* timer ticks given to a thread (4 in the code)

ASSUME SchedulerAssumption ==
    /\ idle_thread \in Threads /\ initial_thread \in Threads
    /\ idle_thread # initial_thread
    /\ TIME_SLICE \in Nat \ {0}

VARIABLES status,           \* enum thread_status, and "FREE" for an unused page
          ready_list,       \* the run queue
          current,          \* running_thread ()
          thread_ticks      \* ticks since the last thread switch

InSeq(t, q) == \E i \in 1 .. Len(q) : q[i] = t

NoDuplicates(q) == \A i, j \in 1 .. Len(q) : q[i] = q[j] => i = j

sched == <<status, ready_list, current, thread_ticks>>

Statuses == {"RUNNING", "READY", "BLOCKED", "DYING", "FREE"}

(* The state thread_init and thread_start leave: main runs, the idle thread *)
(* has been scheduled once and has blocked itself.                          *)
SchedInit ==
    /\ status = [t \in Threads |-> IF t = initial_thread THEN "RUNNING"
                                ELSE IF t = idle_thread THEN "BLOCKED" ELSE "FREE"]
    /\ ready_list = <<>>
    /\ current = initial_thread
    /\ thread_ticks = 0

next_thread_to_run(queue) ==
    IF queue = <<>> THEN idle_thread ELSE Head(queue)

(* The page of a dying predecessor is freed by the thread that replaces it. *)
Reap(st) ==
    IF st[current] = "DYING" /\ current # initial_thread
    THEN [st EXCEPT ![current] = "FREE"]
    ELSE st

(* schedule () and thread_schedule_tail ().  `st' holds the statuses with   *)
(* that of the caller already changed, `queue' the run queue.               *)
schedule(st, queue) ==
    /\ current' = next_thread_to_run(queue)
    /\ ready_list' = IF queue = <<>> THEN queue ELSE Tail(queue)
    /\ status' = [Reap(st) EXCEPT ![next_thread_to_run(queue)] = "RUNNING"]
    /\ thread_ticks' = 0

thread_block == schedule([status EXCEPT ![current] = "BLOCKED"], ready_list)

(* Fault: the idle thread is put on the run queue like any other.           *)
thread_yield_QueuesIdle ==
    schedule([status EXCEPT ![current] = "READY"], Append(ready_list, current))

thread_yield ==
    schedule([status EXCEPT ![current] = "READY"],
             IF current = idle_thread THEN ready_list
                                      ELSE Append(ready_list, current))

(* The scheduling half of thread_exit (); idle never returns.               *)
thread_die ==
    /\ current # idle_thread
    /\ schedule([status EXCEPT ![current] = "DYING"], ready_list)

(* Fault: list_push_front () in place of list_push_back ().                 *)
thread_unblock_Front(t) ==
    /\ status[t] = "BLOCKED"
    /\ status' = [status EXCEPT ![t] = "READY"]
    /\ ready_list' = <<t>> \o ready_list
    /\ UNCHANGED <<current, thread_ticks>>

(* thread_unblock (t), which asserts that t is blocked.  It never preempts. *)
thread_unblock(t) ==
    /\ status[t] = "BLOCKED"
    /\ status' = [status EXCEPT ![t] = "READY"]
    /\ ready_list' = Append(ready_list, t)
    /\ UNCHANGED <<current, thread_ticks>>

(* init_thread (t) on a page palloc has just handed out.                    *)
init_thread(t) ==
    /\ status[t] = "FREE"
    /\ status' = [status EXCEPT ![t] = "BLOCKED"]
    /\ UNCHANGED <<ready_list, current, thread_ticks>>

(* Fault: intr_yield_on_return () is not called at the end of the slice.    *)
thread_tick_NoPreemption ==
    IF thread_ticks + 1 >= TIME_SLICE
    THEN UNCHANGED sched
    ELSE /\ thread_ticks' = thread_ticks + 1
         /\ UNCHANGED <<status, ready_list, current>>

(* thread_tick (), and the thread_yield () that intr_handler () makes on    *)
(* return when the time slice has run out.                                  *)
thread_tick ==
    IF thread_ticks + 1 >= TIME_SLICE
    THEN thread_yield
    ELSE /\ thread_ticks' = thread_ticks + 1
         /\ UNCHANGED <<status, ready_list, current>>

(* What the rest of the kernel may ask of the scheduler.                    *)
SchedNext ==
    \/ thread_block
    \/ thread_yield
    \/ thread_die
    \/ thread_tick
    \/ \E t \in Threads \ {idle_thread} : thread_unblock(t)
    \/ \E t \in Threads : init_thread(t)

SchedSpec == SchedInit /\ [][SchedNext]_sched
------------------------------------------------------------------------------
SchedTypeOK ==
    /\ status \in [Threads -> Statuses]
    /\ ready_list \in Seq(Threads)
    /\ current \in Threads
    /\ thread_ticks \in 0 .. TIME_SLICE - 1

(* The run queue and the thread states agree: exactly the current thread is *)
(* THREAD_RUNNING (asserted by thread_current ()), the run queue holds each *)
(* THREAD_READY thread once and nothing else, the idle thread is never on   *)
(* it, and only "main" may stay THREAD_DYING.                               *)
RunQueueConsistent ==
    /\ \A t \in Threads : status[t] = "RUNNING" <=> t = current
    /\ NoDuplicates(ready_list)
    /\ \A t \in Threads :
          status[t] = "READY" /\ t # idle_thread <=> InSeq(t, ready_list)
    /\ status[idle_thread] \in {"RUNNING", "READY", "BLOCKED"}
    /\ \A t \in Threads : status[t] = "DYING" => t = initial_thread
==============================================================================
