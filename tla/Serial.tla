-------------------------------- MODULE Serial --------------------------------
(***************************************************************************)
(* Console output and keyboard input: the interrupt queues of               *)
(* devices/intq.c between kernel threads and interrupt handlers, the serial *)
(* driver devices/serial.c with its interrupt enable register, the input    *)
(* buffer devices/input.c and the console lock of lib/kernel/console.c.     *)
(*                                                                          *)
(* The queues are used with interrupts off, so a step of a thread lasts     *)
(* until it sleeps or returns; between steps other threads run and          *)
(* interrupts arrive.  Bytes are numbered in the order they are printed, or *)
(* arrive.                                                                  *)
(***************************************************************************)
EXTENDS Integers, Sequences

CONSTANTS Threads, main,
          INTQ_BUFSIZE,      \* 64 in the code
          MaxOut, MaxIn,     \* bounds on the bytes printed and arriving
          NULL

ASSUME SerialAssumption ==
    /\ main \in Threads /\ NULL \notin Threads \cup Nat
    /\ INTQ_BUFSIZE \in Nat /\ INTQ_BUFSIZE > 1
    /\ MaxOut \in Nat /\ MaxIn \in Nat

VARIABLES q,          \* q["tx"]: txq of serial.c, q["rx"]: buffer of input.c
          mode,       \* UNINIT, POLL or QUEUE
          console,    \* the holder of console_lock
          pc,         \* where a thread is: in its own code, printing, ...
          at,         \* and inside intq_getc () or intq_putc (): asleep for
                      \* the lock of the queue, or in wait ()
          asleep,     \* the blocked threads
          panicked    \* the thread in debug_panic ()

VARIABLES ier,              \* the UART: interrupt enable register,
          thr, thre, rbr    \* the byte in transmission, "THR became empty"
                            \* pending, the byte received

VARIABLES printed, arrived,   \* how many bytes were printed, and arrived
          sent, kept, got     \* the bytes on the wire, those an interrupt
                              \* handler stored, those threads have read

threads == <<console, pc, at, asleep, panicked>>
uart    == <<ier, thr, thre, rbr>>
history == <<printed, arrived, sent, kept, got>>
vars    == <<q, mode, threads, uart, history>>

NoQueue == [buf |-> [i \in 0 .. INTQ_BUFSIZE - 1 |-> NULL], head |-> 0, tail |-> 0,
            not_full |-> NULL, not_empty |-> NULL, lock |-> NULL, lock_waiters |-> <<>>]

(* console_init () has run; thread_start () and serial_init_queue () are to *)
(* come.                                                                    *)
Init ==
    /\ q = [s \in {"tx", "rx"} |-> NoQueue]
    /\ mode = "UNINIT" /\ console = NULL /\ panicked = NULL
    /\ pc = [t \in Threads |-> "run"] /\ at = [t \in Threads |-> "none"]
    /\ asleep = {}
    /\ ier = [xmit |-> FALSE, recv |-> FALSE]
    /\ thr = NULL /\ thre = TRUE /\ rbr = NULL
    /\ printed = 0 /\ arrived = 0 /\ sent = <<>> /\ kept = <<>> /\ got = <<>>
------------------------------------------------------------------------------
(* Interrupt queues.                                                        *)

next(pos) == (pos + 1) % INTQ_BUFSIZE

intq_empty(r) == r.head = r.tail

intq_full(r) == next(r.head) = r.tail

(* Fault: the head moves before the byte is stored.                         *)
Put_HeadFirst(r, byte) ==
    [r EXCEPT !.head = next(@), !.buf[next(r.head)] = byte, !.not_empty = NULL]

(* The end of intq_putc () and of intq_getc (), with signal (), which wakes *)
(* the thread that *waiter named.                                           *)
Put(r, byte) == [r EXCEPT !.buf[r.head] = byte, !.head = next(@), !.not_empty = NULL]
Take(r)      == [r EXCEPT !.tail = next(@), !.not_full = NULL]

(* What a thread waits for in a queue, and where it says that it waits.     *)
MustWait(s, r) == IF s = "rx" THEN intq_empty(r) ELSE intq_full(r)
Waiter(s)      == IF s = "rx" THEN "not_empty" ELSE "not_full"

(* Fault: lock_release () wakes nobody.                                     *)
Unlocked_Nobody(r) == {}

(* lock_release (), with the waiter it wakes.                               *)
Unlock(r)   == [r EXCEPT !.lock = NULL,
                         !.lock_waiters = IF @ = <<>> THEN <<>> ELSE Tail(@)]
Unlocked(r) == IF r.lock_waiters = <<>> THEN {} ELSE {Head(r.lock_waiters)}

(* lock_acquire () and then wait (), or sleep in lock_acquire ().           *)
Sleep(t, s, r, woken) ==
    /\ q' = [q EXCEPT ![s] = IF r.lock = NULL
                             THEN [r EXCEPT !.lock = t, ![Waiter(s)] = t]
                             ELSE [r EXCEPT !.lock_waiters = Append(@, t)]]
    /\ at' = [at EXCEPT ![t] = IF r.lock = NULL THEN "wait" ELSE "lock"]
    /\ asleep' = (asleep \ woken) \cup {t}

(* A thread comes back from wait () into the loop without the lock.         *)
Looping(t, r) == IF at[t] = "wait" THEN Unlock(r) ELSE r
LetIn(t, r)   == IF at[t] = "wait" THEN Unlocked(r) ELSE {}

Booting == mode # "QUEUE" \/ pc[main] = "init"

(* The CPU can execute t.  Up to serial_init_queue () there is only main,   *)
(* which then waits for the programs it runs; after a panic there is only   *)
(* the thread that panicked.                                                *)
Runs(t, where) ==
    /\ pc[t] = where /\ t \notin asleep
    /\ panicked \in {NULL, t}
    /\ t = main <=> Booting
------------------------------------------------------------------------------
(* The UART.                                                                *)

Held(byte) == IF byte = NULL THEN <<>> ELSE <<byte>>

(* putc_poll () of each of the bytes: it waits until the UART has sent the  *)
(* byte before.                                                             *)
putc_poll(bytes) ==
    /\ bytes # <<>>
    /\ sent' = sent \o Held(thr) \o SubSeq(bytes, 1, Len(bytes) - 1)
    /\ thr' = bytes[Len(bytes)]

NoPoll == UNCHANGED <<sent, thr>>

(* The value write_ier () stores for the queues as they are now.            *)
IER(txq, buffer) == [xmit |-> ~ intq_empty(txq), recv |-> ~ intq_full(buffer)]

(* The UART reports an empty THR again when the interrupt is enabled.       *)
write_ier ==
    /\ ier' = IER(q'["tx"], q'["rx"])
    /\ thre' = ((thre \/ (~ ier.xmit /\ ier'.xmit)) /\ thr' = NULL)

NoIer == UNCHANGED ier /\ thre' = (thre /\ thr' = NULL)

serial_notify == IF mode = "QUEUE" THEN write_ier ELSE NoIer

Transmit ==
    /\ thr # NULL
    /\ sent' = Append(sent, thr) /\ thr' = NULL /\ thre' = TRUE
    /\ UNCHANGED <<q, mode, threads, ier, rbr, printed, arrived, kept, got>>

(* A byte that was not fetched is overrun.                                  *)
Receive ==
    /\ arrived < MaxIn
    /\ arrived' = arrived + 1 /\ rbr' = arrived + 1
    /\ UNCHANGED <<q, mode, threads, ier, thr, thre, printed, sent, kept, got>>
------------------------------------------------------------------------------
(* Threads.                                                                 *)

acquire_console(t) ==
    /\ Runs(t, "run") /\ at[t] = "none" /\ panicked = NULL
    /\ console = NULL
    /\ console' = t
    /\ pc' = [pc EXCEPT ![t] = "print"]
    /\ UNCHANGED <<q, mode, at, asleep, panicked, uart, history>>

release_console(t) ==
    /\ Runs(t, "print") /\ at[t] = "none"
    /\ console' = NULL
    /\ pc' = [pc EXCEPT ![t] = "run"]
    /\ UNCHANGED <<q, mode, at, asleep, panicked, uart, history>>

(* serial_putc () before serial_init_queue ().                              *)
PutPolled(t) ==
    /\ Runs(t, "print") \/ Runs(t, "panic")
    /\ mode # "QUEUE" /\ printed < MaxOut
    /\ mode' = "POLL"
    /\ printed' = printed + 1
    /\ putc_poll(<<printed + 1>>) /\ NoIer
    /\ UNCHANGED <<q, threads, rbr, arrived, kept, got>>

(* serial_putc () called with interrupts on.                                *)
serial_putc(t) ==
    LET r == Looping(t, q["tx"]) IN
    /\ Runs(t, "print") /\ at[t] # "lock"
    /\ mode = "QUEUE" /\ printed < MaxOut
    /\ \/ /\ ~ intq_full(r)
          /\ q' = [q EXCEPT !["tx"] = Put(r, printed + 1)]
          /\ at' = [at EXCEPT ![t] = "none"]
          /\ asleep' = asleep \ LetIn(t, q["tx"])
          /\ printed' = printed + 1
          /\ NoPoll /\ write_ier
       \/ /\ intq_full(r)
          /\ Sleep(t, "tx", r, LetIn(t, q["tx"]))
          /\ UNCHANGED <<printed, sent, thr, ier, thre>>
    /\ UNCHANGED <<mode, console, pc, panicked, rbr, arrived, kept, got>>

(* Fault: the driver is not told that there is room again.                  *)
input_getc_NoNotify(t) ==
    LET r == Looping(t, q["rx"]) IN
    /\ Runs(t, "run") /\ at[t] # "lock" /\ ~ Booting
    /\ \/ /\ ~ intq_empty(r)
          /\ q' = [q EXCEPT !["rx"] = Take(r)]
          /\ at' = [at EXCEPT ![t] = "none"]
          /\ asleep' = asleep \ LetIn(t, q["rx"])
          /\ got' = Append(got, r.buf[r.tail])
       \/ /\ intq_empty(r)
          /\ Sleep(t, "rx", r, LetIn(t, q["rx"]))
          /\ UNCHANGED got
    /\ UNCHANGED <<mode, console, pc, panicked, uart, printed, arrived, sent, kept>>

(* input_getc () for a read of file descriptor 0, which takes no lock.      *)
input_getc(t) ==
    LET r == Looping(t, q["rx"]) IN
    /\ Runs(t, "run") /\ at[t] # "lock" /\ ~ Booting
    /\ \/ /\ ~ intq_empty(r)
          /\ q' = [q EXCEPT !["rx"] = Take(r)]
          /\ at' = [at EXCEPT ![t] = "none"]
          /\ asleep' = asleep \ LetIn(t, q["rx"])
          /\ got' = Append(got, r.buf[r.tail])
          /\ NoPoll /\ serial_notify
       \/ /\ intq_empty(r)
          /\ Sleep(t, "rx", r, LetIn(t, q["rx"]))
          /\ UNCHANGED <<got, sent, thr, ier, thre>>
    /\ UNCHANGED <<mode, console, pc, panicked, rbr, printed, arrived, kept>>

(* The panic: interrupts stay off and console_lock is not used any more.    *)
Panic(t) ==
    /\ panicked' = t
    /\ pc' = [pc EXCEPT ![t] = "panic"]
    /\ at' = [at EXCEPT ![t] = "none"]
    /\ UNCHANGED asleep

(* Fault: without the ASSERT.                                               *)
LockAcquire_Unchecked(t) ==
    LET s == IF pc[t] = "run" THEN "rx" ELSE "tx" IN
    /\ Runs(t, "run") \/ Runs(t, "print")
    /\ at[t] = "lock"
    /\ Sleep(t, s, q[s], {})
    /\ UNCHANGED <<mode, console, pc, panicked, uart, history>>

(* A thread woken in lock_acquire () finds the lock taken again, or goes on *)
(* to wait (), which first ASSERTs that there still is something to wait    *)
(* for.                                                                     *)
LockAcquire(t) ==
    LET s == IF pc[t] = "run" THEN "rx" ELSE "tx" IN
    /\ Runs(t, "run") \/ Runs(t, "print")
    /\ at[t] = "lock"
    /\ IF q[s].lock # NULL \/ MustWait(s, q[s])
       THEN Sleep(t, s, q[s], {}) /\ UNCHANGED <<pc, panicked>>
       ELSE Panic(t) /\ q' = [q EXCEPT ![s].lock = t]
    /\ UNCHANGED <<mode, console, uart, history>>

(* Some other ASSERT fails, or kill () panics.                              *)
debug_panic(t) ==
    /\ Runs(t, "run") \/ Runs(t, "print")
    /\ at[t] = "none" /\ panicked = NULL
    /\ Panic(t)
    /\ UNCHANGED <<q, mode, console, uart, history>>

(* serial_putc () called with interrupts off, by debug_panic (): a full     *)
(* queue gives up its oldest byte to putc_poll ().                          *)
PanicPutc(t) ==
    LET full == intq_full(q["tx"])
        r    == IF full THEN Take(q["tx"]) ELSE q["tx"]
    IN
    /\ Runs(t, "panic") /\ mode = "QUEUE" /\ printed < MaxOut
    /\ q' = [q EXCEPT !["tx"] = Put(r, printed + 1)]
    /\ asleep' = IF full THEN asleep \ {q["tx"].not_full} ELSE asleep
    /\ printed' = printed + 1
    /\ IF full THEN putc_poll(<<q["tx"].buf[q["tx"].tail]>>) ELSE NoPoll
    /\ write_ier
    /\ UNCHANGED <<mode, console, pc, at, panicked, rbr, arrived, kept, got>>

Count(r)    == (r.head - r.tail) % INTQ_BUFSIZE
Contents(r) == [i \in 1 .. Count(r) |-> r.buf[(r.tail + i - 1) % INTQ_BUFSIZE]]

(* serial_flush (), by debug_panic () or on the way to power off: every     *)
(* byte of the queue through putc_poll ().  It leaves the IER alone.        *)
serial_flush(t) ==
    LET r == q["tx"] IN
    /\ Runs(t, "run") \/ Runs(t, "panic")
    /\ at[t] = "none"
    /\ q' = [q EXCEPT !["tx"].tail = r.head,
                      !["tx"].not_full = IF intq_empty(r) THEN @ ELSE NULL]
    /\ asleep' = IF intq_empty(r) THEN asleep ELSE asleep \ {r.not_full}
    /\ IF intq_empty(r) THEN NoPoll ELSE putc_poll(Contents(r))
    /\ NoIer
    /\ pc' = [pc EXCEPT ![t] = IF @ = "panic" THEN "halted" ELSE @]
    /\ UNCHANGED <<mode, console, at, panicked, rbr, printed, arrived, kept, got>>

(* serial_init_queue (), which enables the queue before the interrupts.     *)
serial_init_queue ==
    /\ Runs(main, "run") /\ mode # "QUEUE"
    /\ mode' = "QUEUE"
    /\ pc' = [pc EXCEPT ![main] = "init"]
    /\ UNCHANGED <<q, console, at, asleep, panicked, uart, history>>

EnableQueue ==
    /\ Runs(main, "init")
    /\ pc' = [pc EXCEPT ![main] = "run"]
    /\ UNCHANGED q /\ NoPoll /\ write_ier
    /\ UNCHANGED <<mode, console, at, asleep, panicked, rbr, printed, arrived, kept, got>>
------------------------------------------------------------------------------
(* Interrupts.  The boot messages are printed before thread_start ().       *)
InterruptsOn == panicked = NULL /\ mode # "UNINIT"

(* A key press reaches input_putc () if there is room.                      *)
keyboard_interrupt ==
    LET r == q["rx"] IN
    /\ InterruptsOn /\ arrived < MaxIn
    /\ arrived' = arrived + 1
    /\ \/ /\ ~ intq_full(r)
          /\ q' = [q EXCEPT !["rx"] = Put(r, arrived + 1)]
          /\ asleep' = asleep \ {r.not_empty}
          /\ kept' = Append(kept, arrived + 1)
          /\ NoPoll /\ serial_notify
       \/ /\ intq_full(r)
          /\ UNCHANGED <<q, asleep, kept, sent, thr, ier, thre>>
    /\ UNCHANGED <<mode, console, pc, at, panicked, rbr, printed, got>>

(* The interrupt line of the UART.  Reading the IIR clears a pending THRE   *)
(* unless a received byte, which has priority, is the reason.               *)
Pending == (ier.recv /\ rbr # NULL) \/ (ier.xmit /\ thre)

serial_interrupt ==
    LET tx   == q["tx"]
        rx   == q["rx"]
        recv == ~ intq_full(rx) /\ rbr # NULL
        xmit == ~ intq_empty(tx) /\ thr = NULL
        left == thre /\ ier.recv /\ rbr # NULL
    IN
    /\ InterruptsOn /\ Pending
    /\ q' = [q EXCEPT !["rx"] = IF recv THEN Put(rx, rbr) ELSE rx,
                      !["tx"] = IF xmit THEN Take(tx) ELSE tx]
    /\ asleep' = asleep \ ((IF recv THEN {rx.not_empty} ELSE {})
                           \cup (IF xmit THEN {tx.not_full} ELSE {}))
    /\ kept' = IF recv THEN Append(kept, rbr) ELSE kept
    /\ rbr' = IF recv THEN NULL ELSE rbr
    /\ thr' = IF xmit THEN tx.buf[tx.tail] ELSE thr
    /\ ier' = IER(q'["tx"], q'["rx"])
    /\ thre' = ((left \/ (~ ier.xmit /\ ier'.xmit)) /\ thr' = NULL)
    /\ UNCHANGED <<mode, console, pc, at, panicked, printed, arrived, sent, got>>
------------------------------------------------------------------------------
(* A thread inside intq_getc () or intq_putc () goes on when it is woken.   *)
InQueue(t) ==
    /\ at[t] # "none"
    /\ input_getc(t) \/ serial_putc(t) \/ LockAcquire(t)

NewCall(t) ==
    /\ at[t] = "none"
    /\ \/ input_getc(t) \/ serial_putc(t)
       \/ acquire_console(t) \/ release_console(t) \/ PutPolled(t)
       \/ debug_panic(t) \/ PanicPutc(t) \/ serial_flush(t)

Hardware == Transmit \/ Receive \/ keyboard_interrupt \/ serial_interrupt

Next ==
    \/ \E t \in Threads : InQueue(t) \/ NewCall(t)
    \/ serial_init_queue \/ EnableQueue
    \/ Hardware

Spec == Init /\ [][Next]_vars

(* The UART sends what it was given and its interrupts are taken, threads   *)
(* that are ready get the CPU, and a panic gets to its serial_flush ().     *)
FairSpec ==
    /\ Spec
    /\ WF_vars(Transmit) /\ WF_vars(serial_interrupt) /\ WF_vars(EnableQueue)
    /\ \A t \in Threads : /\ WF_vars(InQueue(t))
                          /\ WF_vars(pc[t] = "panic" /\ serial_flush(t))
------------------------------------------------------------------------------
TypeOK ==
    /\ \A s \in {"tx", "rx"} :
          /\ q[s].head \in 0 .. INTQ_BUFSIZE - 1 /\ q[s].tail \in 0 .. INTQ_BUFSIZE - 1
          /\ q[s].lock_waiters \in Seq(Threads)
          /\ {q[s].lock, q[s].not_full, q[s].not_empty} \subseteq Threads \cup {NULL}
    /\ mode \in {"UNINIT", "POLL", "QUEUE"}
    /\ {console, panicked} \subseteq Threads \cup {NULL}
    /\ pc \in [Threads -> {"run", "init", "print", "panic", "halted"}]
    /\ at \in [Threads -> {"none", "lock", "wait"}]
    /\ asleep \subseteq Threads
    /\ ier \in [xmit : BOOLEAN, recv : BOOLEAN] /\ thre \in BOOLEAN
    /\ printed \in 0 .. MaxOut /\ arrived \in 0 .. MaxIn

(* Whatever path a byte takes, through the queue, by polling in a panic or  *)
(* by the flush of a full queue, the bytes reach the wire once each, in the *)
(* order they were printed.                                                 *)
OutputInOrder ==
    sent \o Held(thr) \o Contents(q["tx"]) = [i \in 1 .. printed |-> i]

(* Every key the handlers stored is read once, in the order of arrival,     *)
(* although several threads read and keyboard and serial port both write.   *)
InputInOrder ==
    /\ got \o Contents(q["rx"]) = kept
    /\ \A i, j \in DOMAIN kept : i # j => kept[i] # kept[j]

Side(t) == IF pc[t] = "print" THEN "tx" ELSE "rx"

(* intq.c has no condition variable, only a pointer to one sleeping thread. *)
(* A thread sleeps in wait () only while the pointer names it and there is  *)
(* nothing for it in the queue; and nobody sleeps for the lock of a queue   *)
(* that is free, unless another thread is on its way to it.                 *)
NoLostWakeup ==
    /\ \A t \in asleep :
          LET r == q[Side(t)] IN
          /\ at[t] = "wait" => r[Waiter(Side(t))] = t /\ MustWait(Side(t), r)
          /\ at[t] = "lock" =>
                /\ \E i \in DOMAIN r.lock_waiters : r.lock_waiters[i] = t
                /\ r.lock # NULL \/ \E u \in Threads \ asleep : at[u] = "lock"
    /\ \A t \in Threads : t \in asleep => at[t] # "none"

(* The comment on `lock' in devices/intq.h: "Only one thread may wait at    *)
(* once", and it holds the lock while it does, so that the pointer of       *)
(* another sleeper is never overwritten.                                    *)
OneWaiter ==
    \A s \in {"tx", "rx"}, t \in Threads :
       /\ q[s][Waiter(s)] = t => q[s].lock = t /\ t \in asleep
       /\ q[s].lock = t => at[t] = "wait" \/ panicked = t
       /\ at[t] = "wait" /\ Side(t) = s => q[s].lock = t

(* The interrupt enable register follows the queues: the transmit interrupt *)
(* is on whenever there is something to send, and the receive interrupt is  *)
(* on exactly while there is room, also after a read, a key press or a      *)
(* polled byte, so that neither output nor input gets stuck and a full      *)
(* buffer causes no storm of interrupts.                                    *)
IerFollowsQueues ==
    mode = "QUEUE" /\ pc[main] # "init" =>
       /\ ~ intq_empty(q["tx"]) => ier.xmit
       /\ ier.recv <=> ~ intq_full(q["rx"])

(* What is printed reaches the wire in the end, also when the kernel panics *)
(* with a full queue.                                                       *)
OutputLeaves == \A i \in 1 .. MaxOut : printed >= i ~> Len(sent) >= i

(* A thread in input_getc () does not sleep on while there are keys.        *)
InputServed ==
    \A t \in Threads :
       (pc[t] = "run" /\ at[t] # "none" /\ ~ intq_empty(q["rx"]))
          ~> (at[t] = "none" \/ intq_empty(q["rx"]) \/ panicked # NULL)

(* The ASSERT in wait () (devices/intq.c:91): a thread that calls wait ()   *)
(* has seen an empty, or full, queue, and it still is when it has the lock. *)
(* A queue lock is held by a thread that panicked only if that ASSERT       *)
(* failed.                                                                  *)
StillMustWait ==
    \A s \in {"tx", "rx"} : q[s].lock # NULL => q[s].lock # panicked

(* Neither direction of the console loses, doubles or reorders a byte.      *)
StreamsInOrder == OutputInOrder /\ InputInOrder

(* Neither direction of the console gets stuck.                             *)
SerialProgress == OutputLeaves /\ InputServed
==============================================================================
