----------------------------- MODULE SerialProofs -----------------------------
(***************************************************************************)
(* Proofs about Serial, for any number of threads, any size of the queues   *)
(* and any number of bytes: the hand-made monitor of devices/intq.c loses   *)
(* no wakeup and has one waiter at a time, the interrupt enable register of *)
(* the serial port follows the queues, and no byte is lost, doubled or      *)
(* reordered in either direction.  First the inductive invariant, what the  *)
(* operations of devices/intq.c do to a queue, and how the threads asleep   *)
(* for its lock and in wait () stay in order; then the ring of a queue as a *)
(* sequence of bytes.                                                       *)
(***************************************************************************)
EXTENDS Serial, TLAPS

Sides  == {"tx", "rx"}
Nobody == Threads \cup {NULL}
Slots  == 0 .. INTQ_BUFSIZE - 1

(* struct intq.                                                             *)
Queue == [buf : [Slots -> Nat \cup {NULL}], head : Slots, tail : Slots,
          not_full : Nobody, not_empty : Nobody, lock : Nobody,
          lock_waiters : Seq(Threads)]

(* The threads asleep for the lock of a queue.                              *)
Waiting(r) == {r.lock_waiters[i] : i \in 1 .. Len(r.lock_waiters)}
NoTwice(r) == \A i, j \in 1 .. Len(r.lock_waiters) :
                 r.lock_waiters[i] = r.lock_waiters[j] => i = j

(* What holds of a queue r on side s when A are asleep, W are in wait () on *)
(* it, L are in its lock_acquire () and the thread pan has panicked.        *)
Orderly(s, r, A, W, L, pan) ==
    /\ r[Waiter(s)] \in {NULL} \cup (A \cap W)
    /\ r.lock \in W \cup {pan, NULL}
    /\ \A u \in W : r.lock = u
    /\ Waiting(r) = L \cap A /\ NoTwice(r)
    /\ \A u \in W \cap A : r[Waiter(s)] = u /\ MustWait(s, r)

(* The free lock of a queue is not forgotten.                               *)
Heard(r, A, L) == r.lock = NULL /\ Waiting(r) # {} => L \ A # {}

LEMMA Sizes ==
    /\ INTQ_BUFSIZE \in Nat /\ INTQ_BUFSIZE > 1 /\ NULL \notin Threads /\ main \in Threads
    /\ \A n \in Slots : next(n) \in Slots /\ next(n) # n
    /\ 0 \in Slots
BY SerialAssumption DEF next, Slots

(* A byte goes in.                                                          *)
LEMMA PutFields ==
    ASSUME NEW r \in Queue, NEW byte \in Nat
    PROVE  /\ Put(r, byte) \in Queue
           /\ Put(r, byte).lock = r.lock /\ Put(r, byte).lock_waiters = r.lock_waiters
           /\ Put(r, byte).not_full = r.not_full /\ Put(r, byte).not_empty = NULL
           /\ Put(r, byte).head = next(r.head) /\ Put(r, byte).tail = r.tail
BY Sizes, Zenon DEF Queue, Put, Nobody

(* A byte comes out.                                                        *)
LEMMA TakeFields ==
    ASSUME NEW r \in Queue
    PROVE  /\ Take(r) \in Queue
           /\ Take(r).lock = r.lock /\ Take(r).lock_waiters = r.lock_waiters
           /\ Take(r).not_empty = r.not_empty /\ Take(r).not_full = NULL
           /\ Take(r).head = r.head /\ Take(r).tail = next(r.tail)
BY Sizes, Zenon DEF Queue, Take, Nobody

(* lock_release () takes the first thread off the list and wakes it.        *)
LEMMA UnlockFields ==
    ASSUME NEW r \in Queue, NoTwice(r)
    PROVE  /\ Unlock(r) \in Queue
           /\ Unlock(r).lock = NULL
           /\ Unlock(r).head = r.head /\ Unlock(r).tail = r.tail
           /\ Unlock(r).not_full = r.not_full /\ Unlock(r).not_empty = r.not_empty
           /\ Waiting(Unlock(r)) = Waiting(r) \ Unlocked(r)
           /\ Unlocked(r) \subseteq Waiting(r)
           /\ Waiting(r) # {} => Unlocked(r) # {}
           /\ NoTwice(Unlock(r))
<1> DEFINE w == r.lock_waiters
<1>0. w \in Seq(Threads)
  BY Zenon DEF Queue
<1>1. CASE w = <<>>
  <2>1. Unlock(r) = [r EXCEPT !.lock = NULL, !.lock_waiters = <<>>] /\ Unlocked(r) = {}
    BY <1>1, Zenon DEF Unlock, Unlocked
  <2>2. <<>> \in Seq(Threads) /\ Len(<<>>) = 0
    OBVIOUS
  <2>3. Unlock(r) \in Queue /\ Unlock(r).lock_waiters = <<>> /\ Unlock(r).lock = NULL
        /\ Unlock(r).head = r.head /\ Unlock(r).tail = r.tail
        /\ Unlock(r).not_full = r.not_full /\ Unlock(r).not_empty = r.not_empty
    BY <2>1, <2>2, Zenon DEF Queue, Nobody
  <2>4. Waiting(r) = {} /\ Waiting(Unlock(r)) = {}
    BY <1>1, <2>2, <2>3 DEF Waiting
  <2>5. NoTwice(Unlock(r))
    BY <2>2, <2>3 DEF NoTwice
  <2> QED
    BY <2>1, <2>3, <2>4, <2>5, Zenon
<1>2. CASE w # <<>>
  <2>1. Unlock(r) = [r EXCEPT !.lock = NULL, !.lock_waiters = Tail(w)] /\ Unlocked(r) = {w[1]}
    BY <1>2, <1>0 DEF Unlock, Unlocked
  <2>2. /\ Tail(w) \in Seq(Threads) /\ Len(Tail(w)) = Len(w) - 1 /\ Len(w) \in Nat /\ Len(w) > 0
        /\ \A i \in 1 .. Len(Tail(w)) : Tail(w)[i] = w[i + 1]
    BY <1>2, <1>0
  <2>3. Unlock(r) \in Queue /\ Unlock(r).lock_waiters = Tail(w) /\ Unlock(r).lock = NULL
        /\ Unlock(r).head = r.head /\ Unlock(r).tail = r.tail
        /\ Unlock(r).not_full = r.not_full /\ Unlock(r).not_empty = r.not_empty
    BY <2>1, <2>2, Zenon DEF Queue, Nobody
  <2>4. \A i, j \in 1 .. Len(w) : w[i] = w[j] => i = j
    BY Zenon DEF NoTwice
  <2> HIDE DEF w
  <2>5. {Tail(w)[i] : i \in 1 .. Len(Tail(w))} = {w[i] : i \in 1 .. Len(w)} \ {w[1]}
    <3>1. ASSUME NEW i \in 1 .. Len(Tail(w))
          PROVE  Tail(w)[i] \in {w[j] : j \in 1 .. Len(w)} \ {w[1]}
      BY <2>2, <2>4
    <3>2. ASSUME NEW j \in 1 .. Len(w), w[j] # w[1]
          PROVE  \E i \in 1 .. Len(Tail(w)) : Tail(w)[i] = w[j]
      <4>1. j - 1 \in 1 .. Len(Tail(w)) /\ (j - 1) + 1 = j
        BY <3>2, <2>2
      <4> QED
        BY <4>1, <2>2, Zenon
    <3> QED
      BY <3>1, <3>2
  <2>6. w[1] \in {w[i] : i \in 1 .. Len(w)}
    BY <2>2
  <2>7. \A i, j \in 1 .. Len(Tail(w)) : Tail(w)[i] = Tail(w)[j] => i = j
    BY <2>2, <2>4
  <2>8. Waiting(Unlock(r)) = Waiting(r) \ {w[1]} /\ w[1] \in Waiting(r)
    <3>1. Waiting(r) = {w[i] : i \in 1 .. Len(w)}
      BY Zenon DEF Waiting, w
    <3>2. Waiting(Unlock(r)) = {Tail(w)[i] : i \in 1 .. Len(Tail(w))}
      BY <2>3, Zenon DEF Waiting
    <3> QED
      BY <3>1, <3>2, <2>5, <2>6, Zenon
  <2>9. NoTwice(Unlock(r))
    BY <2>3, <2>7, Zenon DEF NoTwice
  <2> QED
    BY <2>1, <2>3, <2>8, <2>9, Zenon
<1> QED
  BY <1>1, <1>2, Zenon

(* lock_acquire () and wait () of a thread, or its sleep for the lock.      *)
Joined(s, r, t) ==
    IF r.lock = NULL THEN [r EXCEPT !.lock = t, ![Waiter(s)] = t]
                     ELSE [r EXCEPT !.lock_waiters = Append(@, t)]

LEMMA JoinedFields ==
    ASSUME NEW s \in Sides, NEW r \in Queue, NEW t \in Threads
    PROVE  /\ Joined(s, r, t) \in Queue
           /\ Joined(s, r, t).head = r.head /\ Joined(s, r, t).tail = r.tail
           /\ r.lock = NULL =>
                /\ Joined(s, r, t).lock = t /\ Joined(s, r, t)[Waiter(s)] = t
                /\ Waiting(Joined(s, r, t)) = Waiting(r)
                /\ NoTwice(r) => NoTwice(Joined(s, r, t))
           /\ r.lock # NULL =>
                /\ Joined(s, r, t).lock = r.lock /\ Joined(s, r, t)[Waiter(s)] = r[Waiter(s)]
                /\ Waiting(Joined(s, r, t)) = Waiting(r) \cup {t}
                /\ NoTwice(r) /\ t \notin Waiting(r) => NoTwice(Joined(s, r, t))
<1> DEFINE w == r.lock_waiters
           j == Joined(s, r, t)
<1>1. CASE r.lock = NULL
  <2>1. j \in Queue /\ j.head = r.head /\ j.tail = r.tail /\ j.lock = t
        /\ j[Waiter(s)] = t /\ j.lock_waiters = w
    <3>1. CASE s = "tx"
      BY <1>1, <3>1, Zenon DEF Joined, Waiter, Queue, Nobody
    <3>2. CASE s = "rx"
      BY <1>1, <3>2, Zenon DEF Joined, Waiter, Queue, Nobody
    <3> QED
      BY <3>1, <3>2, Zenon DEF Sides
  <2> QED
    BY <1>1, <2>1, Zenon DEF Waiting, NoTwice
<1>2. CASE r.lock # NULL
  <2>1. j = [r EXCEPT !.lock_waiters = Append(w, t)]
    BY <1>2, Zenon DEF Joined
  <2>2. /\ w \in Seq(Threads) /\ Append(w, t) \in Seq(Threads) /\ Len(w) \in Nat
        /\ Len(Append(w, t)) = Len(w) + 1 /\ Append(w, t)[Len(w) + 1] = t
        /\ \A i \in 1 .. Len(w) : Append(w, t)[i] = w[i]
    BY DEF Queue
  <2>3. /\ j \in Queue /\ j.head = r.head /\ j.tail = r.tail /\ j.lock = r.lock
        /\ j[Waiter(s)] = r[Waiter(s)] /\ j.lock_waiters = Append(w, t)
    BY <2>1, <2>2, Zenon DEF Queue, Waiter
  <2> HIDE DEF j, w
  <2>4. {Append(w, t)[i] : i \in 1 .. Len(Append(w, t))} = {w[i] : i \in 1 .. Len(w)} \cup {t}
    <3>1. ASSUME NEW i \in 1 .. Len(Append(w, t))
          PROVE  Append(w, t)[i] \in {w[k] : k \in 1 .. Len(w)} \cup {t}
      <4>1. i \in 1 .. Len(w) \/ i = Len(w) + 1
        BY <2>2
      <4> QED
        BY <4>1, <2>2, Zenon
    <3>2. ASSUME NEW k \in 1 .. Len(w)
          PROVE  w[k] \in {Append(w, t)[i] : i \in 1 .. Len(Append(w, t))}
      BY <2>2
    <3>3. t \in {Append(w, t)[i] : i \in 1 .. Len(Append(w, t))}
      BY <2>2
    <3> QED
      BY <3>1, <3>2, <3>3, Zenon
  <2>5. ASSUME NoTwice(r), t \notin Waiting(r)
        PROVE  \A i, k \in 1 .. Len(Append(w, t)) :
                  Append(w, t)[i] = Append(w, t)[k] => i = k
    <3>1. \A i, k \in 1 .. Len(w) : w[i] = w[k] => i = k
      BY <2>5, Zenon DEF NoTwice, w
    <3>2. \A i \in 1 .. Len(w) : w[i] # t
      BY <2>5, Zenon DEF Waiting, w
    <3>3. \A i \in 1 .. Len(Append(w, t)) : i \in 1 .. Len(w) \/ i = Len(w) + 1
      BY <2>2
    <3> QED
      BY <2>2, <3>1, <3>2, <3>3, Zenon
  <2>6. Waiting(j) = Waiting(r) \cup {t}
    BY <2>3, <2>4, Zenon DEF Waiting, w
  <2>7. NoTwice(r) /\ t \notin Waiting(r) => NoTwice(j)
    BY <2>3, <2>5, Zenon DEF NoTwice
  <2> QED
    BY <1>2, <2>3, <2>6, <2>7, Zenon DEF j
<1> QED
  BY <1>1, <1>2, Zenon
------------------------------------------------------------------------------
(* How a queue stays orderly.                                               *)

(* Nothing happens to the queue and its threads.                            *)
LEMMA Undisturbed ==
    ASSUME NEW s \in Sides, NEW r \in Queue, NEW A, NEW B, NEW W, NEW L, NEW pan, NEW pan2,
           Orderly(s, r, A, W, L, pan), Heard(r, A, L),
           \A u \in W \cup L : u \in A <=> u \in B,
           pan2 = pan \/ pan = NULL
    PROVE  Orderly(s, r, B, W, L, pan2) /\ Heard(r, B, L)
BY Zenon DEF Orderly, Heard

(* signal () wakes the thread in wait (), if there is one.                  *)
LEMMA Signalled ==
    ASSUME NEW s \in Sides, NEW r \in Queue, NEW r2 \in Queue,
           NEW A, NEW B, NEW W, NEW L, NEW pan,
           Orderly(s, r, A, W, L, pan), Heard(r, A, L),
           W \cap L = {}, NULL \notin W \cup L,
           r2.lock = r.lock, r2.lock_waiters = r.lock_waiters,
           r2[Waiter(s)] = NULL,
           \A u \in W \cup L : u \in B <=> u \in A /\ u # r[Waiter(s)]
    PROVE  Orderly(s, r2, B, W, L, pan) /\ Heard(r2, B, L)
<1>1. Waiting(r2) = Waiting(r) /\ NoTwice(r2)
  BY DEF Waiting, NoTwice, Orderly
<1>2. L \cap B = L \cap A
  BY Zenon DEF Orderly
<1>3. W \cap B = {}
  BY Zenon DEF Orderly
<1> QED
  BY <1>1, <1>2, <1>3, Zenon DEF Orderly, Heard

(* The queue changes while nobody has a reason to wait for it.              *)
LEMMA Unwaited ==
    ASSUME NEW s \in Sides, NEW r \in Queue, NEW r2 \in Queue,
           NEW A, NEW B, NEW W, NEW L, NEW pan,
           Orderly(s, r, A, W, L, pan), Heard(r, A, L),
           W \cap L = {}, NULL \notin W \cup L,
           r2.lock = r.lock, r2.lock_waiters = r.lock_waiters,
           ~ MustWait(s, r), r2[Waiter(s)] \in {NULL, r[Waiter(s)]},
           \A u \in W \cup L : u \in B <=> u \in A
    PROVE  Orderly(s, r2, B, W, L, pan) /\ Heard(r2, B, L)
<1>1. r[Waiter(s)] = NULL
  BY Zenon DEF Orderly
<1> QED
  BY <1>1, Signalled

(* A thread comes back from wait () and releases the lock.                  *)
LEMMA Returned ==
    ASSUME NEW s \in Sides, NEW r \in Queue, NEW A, NEW W, NEW L, NEW pan,
           NEW t \in W, t \notin A, W \cap L = {},
           Orderly(s, r, A, W, L, pan)
    PROVE  /\ Orderly(s, Unlock(r), A \ Unlocked(r), W \ {t}, L, pan)
           /\ Heard(Unlock(r), A \ Unlocked(r), L)
<1>1. W \ {t} = {} /\ r[Waiter(s)] = NULL
  BY Zenon DEF Orderly
<1>2. Unlock(r)[Waiter(s)] = NULL
  BY <1>1, UnlockFields, Zenon DEF Waiter, Orderly
<1>3. /\ Unlock(r).lock = NULL /\ NoTwice(Unlock(r))
      /\ Waiting(Unlock(r)) = Waiting(r) \ Unlocked(r)
      /\ Unlocked(r) \subseteq Waiting(r) /\ (Waiting(r) # {} => Unlocked(r) # {})
  BY UnlockFields, Zenon DEF Orderly
<1>4. Waiting(r) = L \cap A
  BY Zenon DEF Orderly
<1>5. Waiting(Unlock(r)) = L \cap (A \ Unlocked(r))
  BY <1>3, <1>4, Zenon
<1>6. Waiting(Unlock(r)) # {} => L \ (A \ Unlocked(r)) # {}
  <2> SUFFICES ASSUME Waiting(Unlock(r)) # {}
               PROVE  \E u : u \in L \ (A \ Unlocked(r))
    BY Zenon
  <2>1. PICK u : u \in Unlocked(r)
    BY <1>3, Zenon
  <2> QED
    BY <2>1, <1>3, <1>4, Zenon
<1> QED
  BY <1>1, <1>2, <1>3, <1>5, <1>6, Zenon DEF Orderly, Heard

(* A thread goes to sleep, in wait () or for the lock.                      *)
LEMMA Sleeps ==
    ASSUME NEW s \in Sides, NEW r \in Queue, NEW A, NEW W, NEW L, NEW pan,
           NEW t \in Threads, t \notin A, t \notin W \cup L, NULL \notin W,
           r.lock = NULL => MustWait(s, r),
           Orderly(s, r, A, W, L, pan)
    PROVE  LET now == r.lock = NULL IN
           /\ Orderly(s, Joined(s, r, t), A \cup {t}, IF now THEN W \cup {t} ELSE W,
                      IF now THEN L ELSE L \cup {t}, pan)
           /\ Heard(Joined(s, r, t), A \cup {t}, IF now THEN L ELSE L \cup {t})
<1> DEFINE j == Joined(s, r, t)
<1>0. NULL # t
  BY Sizes, Zenon
<1>1. MustWait(s, r) => MustWait(s, j)
  BY JoinedFields DEF MustWait, intq_empty, intq_full
<1>2. CASE r.lock = NULL
  <2>1. W = {}
    BY <1>2, Zenon DEF Orderly
  <2>2. /\ j.lock = t /\ j[Waiter(s)] = t /\ NoTwice(j) /\ Waiting(j) = Waiting(r)
    BY <1>2, JoinedFields DEF Orderly
  <2>3. Waiting(r) = L \cap (A \cup {t})
    BY Zenon DEF Orderly
  <2> HIDE DEF j
  <2>4. Orderly(s, j, A \cup {t}, W \cup {t}, L, pan) /\ Heard(j, A \cup {t}, L)
    BY <1>0, <1>1, <1>2, <2>1, <2>2, <2>3, Zenon DEF Orderly, Heard
  <2> QED
    BY <1>2, <2>4, Zenon DEF j
<1>3. CASE r.lock # NULL
  <2>1. t \notin Waiting(r) /\ Waiting(r) = L \cap A
    BY Zenon DEF Orderly
  <2>2. /\ j.lock = r.lock /\ j[Waiter(s)] = r[Waiter(s)] /\ NoTwice(j)
        /\ Waiting(j) = Waiting(r) \cup {t}
    BY <1>3, <2>1, JoinedFields DEF Orderly
  <2>3. Waiting(j) = (L \cup {t}) \cap (A \cup {t})
    BY <2>1, <2>2, Zenon
  <2> HIDE DEF j
  <2>4. Orderly(s, j, A \cup {t}, W, L \cup {t}, pan) /\ Heard(j, A \cup {t}, L \cup {t})
    BY <1>1, <1>3, <2>2, <2>3, Zenon DEF Orderly, Heard
  <2> QED
    BY <1>3, <2>4, Zenon DEF j
<1> QED
  BY <1>2, <1>3, Zenon
------------------------------------------------------------------------------
(* The inductive invariant.                                                 *)

InWait(s) == {t \in Threads : at[t] = "wait" /\ Side(t) = s}
InLock(s) == {t \in Threads : at[t] = "lock" /\ Side(t) = s}

Queues == q \in [Sides -> Queue] /\ rbr \in Nat \cup {NULL}

Others ==
    /\ mode \in {"UNINIT", "POLL", "QUEUE"}
    /\ console \in Nobody /\ panicked \in Nobody
    /\ pc \in [Threads -> {"run", "init", "print", "panic", "halted"}]
    /\ at \in [Threads -> {"none", "lock", "wait"}]
    /\ asleep \subseteq Threads
    /\ ier \in [xmit : BOOLEAN, recv : BOOLEAN] /\ thre \in BOOLEAN
    /\ printed \in 0 .. MaxOut /\ arrived \in 0 .. MaxIn

(* Where a thread can be: a panic ends its life in the queues, which are    *)
(* used when the driver is up, and only those in a queue sleep.             *)
Places ==
    /\ \A t \in Threads : /\ panicked = t <=> pc[t] \in {"panic", "halted"}
                          /\ at[t] # "none" => pc[t] \in {"run", "print"}
                          /\ t \in asleep => at[t] # "none"
                          /\ Booting => at[t] = "none"

Calm(s) == /\ Orderly(s, q[s], asleep, InWait(s), InLock(s), panicked)
           /\ Heard(q[s], asleep, InLock(s))

SerialIInv == Queues /\ Others /\ Places /\ IerFollowsQueues /\ (\A s \in Sides : Calm(s))

LEMMA Waiters == Waiter("tx") = "not_full" /\ Waiter("rx") = "not_empty" /\ "tx" # "rx"
BY Zenon DEF Waiter

LEMMA TypesFollow == Queues /\ Others => TypeOK
<1> SUFFICES ASSUME Queues, Others PROVE TypeOK
  BY Zenon
<1>1. \A s \in Sides : q[s] \in Queue
  BY Zenon DEF Queues
<1>2. \A s \in Sides : /\ q[s].head \in Slots /\ q[s].tail \in Slots
                       /\ q[s].lock_waiters \in Seq(Threads)
                       /\ q[s].lock \in Nobody /\ q[s].not_full \in Nobody
                       /\ q[s].not_empty \in Nobody
  BY <1>1, Zenon DEF Queue
<1> QED
  BY <1>2, Zenon DEF Others, TypeOK, Nobody, Slots, Sides

LEMMA SerialInitially == Init => SerialIInv
<1> SUFFICES ASSUME Init PROVE SerialIInv
  BY Zenon
<1>1. NoQueue \in Queue
  BY Sizes DEF NoQueue, Queue, Nobody, Slots
<1>2. Queues
  BY <1>1, Zenon DEF Init, Queues, Sides
<1>3. Others /\ Places
  BY SerialAssumption DEF Init, Others, Places, Nobody, Booting
<1>4. IerFollowsQueues
  BY Zenon DEF Init, IerFollowsQueues
<1>5. \A s \in Sides : Calm(s)
  <2> SUFFICES ASSUME NEW s \in Sides PROVE Calm(s)
    BY Zenon
  <2>1. InWait(s) = {} /\ InLock(s) = {} /\ q[s] = NoQueue /\ asleep = {}
    BY Zenon DEF Init, InWait, InLock, Sides
  <2>2. NoQueue.lock = NULL /\ NoQueue[Waiter(s)] = NULL /\ NoQueue.lock_waiters = <<>>
    BY Zenon DEF NoQueue, Waiter
  <2>3. Waiting(NoQueue) = {} /\ NoTwice(NoQueue)
    BY <2>2 DEF Waiting, NoTwice
  <2> QED
    BY <2>1, <2>2, <2>3, Zenon DEF Calm, Orderly, Heard
<1> QED
  BY <1>2, <1>3, <1>4, <1>5, Zenon DEF SerialIInv

(* The threads in the two queues are different ones.                        *)
LEMMA Members ==
    ASSUME SerialIInv
    PROVE  /\ \A s \in Sides : /\ InWait(s) \cap InLock(s) = {}
                               /\ NULL \notin InWait(s) \cup InLock(s)
                               /\ q[s] \in Queue
                               /\ q[s][Waiter(s)] \in {NULL} \cup InWait(s)
           /\ (InWait("tx") \cup InLock("tx")) \cap (InWait("rx") \cup InLock("rx")) = {}
<1>1. \A s \in Sides : q[s][Waiter(s)] \in {NULL} \cup InWait(s)
  BY Zenon DEF SerialIInv, Calm, Orderly
<1>2. \A s \in Sides : q[s] \in Queue
  BY Zenon DEF SerialIInv, Queues
<1> QED
  BY <1>1, <1>2, Sizes, Zenon DEF InWait, InLock

(* Threads outside of the queues move.                                      *)
LEMMA SameMembers ==
    ASSUME Others, at' = at, \A u \in Threads : at[u] # "none" => Side(u)' = Side(u)
    PROVE  \A s \in Sides : InWait(s)' = InWait(s) /\ InLock(s)' = InLock(s)
BY Zenon DEF InWait, InLock, Others

(* A thread moves in its queue.                                             *)
LEMMA Moved ==
    ASSUME Others, NEW t \in Threads, NEW x \in {"none", "lock", "wait"},
           at' = [at EXCEPT ![t] = x], \A u \in Threads : at'[u] # "none" => Side(u)' = Side(u),
           \A u \in Threads : u # t /\ at[u] # "none" => Side(u)' = Side(u),
           NEW s \in Sides
    PROVE  /\ s = Side(t) => InWait(s)' = IF x = "wait" THEN InWait(s) \cup {t}
                                          ELSE InWait(s) \ {t}
           /\ s = Side(t) => InLock(s)' = IF x = "lock" THEN InLock(s) \cup {t}
                                          ELSE InLock(s) \ {t}
           /\ s # Side(t) => InWait(s)' = InWait(s) /\ InLock(s)' = InLock(s)
<1>1. \A u \in Threads : at'[u] = IF u = t THEN x ELSE at[u]
  BY Zenon DEF Others
<1> QED
  BY <1>1, Zenon DEF InWait, InLock
------------------------------------------------------------------------------
(* Threads in the queues.                                                   *)

(* A thread is about to test its queue, after it came back from wait () or  *)
(* when it has just called.                                                 *)
LEMMA Looped ==
    ASSUME SerialIInv, NEW t \in Threads, t \notin asleep, at[t] # "lock",
           NEW s \in Sides, s = Side(t)
    PROVE  LET r == Looping(t, q[s])
               A == asleep \ LetIn(t, q[s])
           IN /\ Orderly(s, r, A, InWait(s) \ {t}, InLock(s), panicked) /\ Heard(r, A, InLock(s))
              /\ r \in Queue /\ r.head = q[s].head /\ r.tail = q[s].tail
              /\ LetIn(t, q[s]) \subseteq InLock(s)
<1>1. q[s] \in Queue /\ Calm(s)
  BY Zenon DEF SerialIInv, Queues
<1>2. Orderly(s, q[s], asleep, InWait(s), InLock(s), panicked)
  BY <1>1, Zenon DEF Calm
<1>3. CASE at[t] = "wait"
  <2>1. t \in InWait(s) /\ InWait(s) \cap InLock(s) = {}
    BY <1>3, Members, Zenon DEF InWait
  <2>2. /\ Orderly(s, Unlock(q[s]), asleep \ Unlocked(q[s]), InWait(s) \ {t}, InLock(s), panicked)
        /\ Heard(Unlock(q[s]), asleep \ Unlocked(q[s]), InLock(s))
    BY <1>1, <1>2, <2>1, Returned, Zenon
  <2>3. NoTwice(q[s]) /\ Waiting(q[s]) \subseteq InLock(s)
    BY <1>2, Zenon DEF Orderly
  <2>4. /\ Unlock(q[s]) \in Queue /\ Unlock(q[s]).head = q[s].head /\ Unlock(q[s]).tail = q[s].tail
        /\ Unlocked(q[s]) \subseteq InLock(s)
    BY <1>1, <2>3, UnlockFields, Zenon
  <2> QED
    BY <1>3, <2>2, <2>4, Zenon DEF Looping, LetIn
<1>4. CASE at[t] # "wait"
  <2>1. InWait(s) \ {t} = InWait(s) /\ asleep \ {} = asleep
    BY <1>4, Zenon DEF InWait
  <2> QED
    BY <1>1, <1>4, <2>1, Zenon DEF Looping, LetIn, Calm
<1> QED
  BY <1>3, <1>4, Zenon

(* The other queue does not notice.                                         *)
LEMMA OtherSide ==
    ASSUME SerialIInv, NEW o \in Sides,
           q'[o] = q[o], InWait(o)' = InWait(o), InLock(o)' = InLock(o),
           \A u \in InWait(o) \cup InLock(o) : u \in asleep <=> u \in asleep',
           panicked' = panicked \/ panicked = NULL
    PROVE  Calm(o)'
<1>1. q[o] \in Queue /\ Calm(o)
  BY Zenon DEF SerialIInv, Queues
<1>2. /\ Orderly(o, q[o], asleep', InWait(o), InLock(o), panicked')
      /\ Heard(q[o], asleep', InLock(o))
  BY <1>1, Undisturbed DEF Calm
<1> QED
  BY <1>2, Zenon DEF Calm, Orderly, Heard

(* The thread finds what it needs and leaves the queue.                     *)
LEMMA Served ==
    ASSUME SerialIInv, NEW t \in Threads, t \notin asleep, at[t] # "lock",
           NEW s \in Sides, s = Side(t),
           NEW r2 \in Queue,
           r2.lock = Looping(t, q[s]).lock, r2.lock_waiters = Looping(t, q[s]).lock_waiters,
           ~ MustWait(s, Looping(t, q[s])),
           r2[Waiter(s)] \in {NULL, Looping(t, q[s])[Waiter(s)]},
           q' = [q EXCEPT ![s] = r2], at' = [at EXCEPT ![t] = "none"],
           asleep' = asleep \ LetIn(t, q[s]), pc' = pc, panicked' = panicked
    PROVE  \A o \in Sides : Calm(o)'
<1> DEFINE r == Looping(t, q[s])
           A == asleep \ LetIn(t, q[s])
<1>1. /\ Orderly(s, r, A, InWait(s) \ {t}, InLock(s), panicked) /\ Heard(r, A, InLock(s))
      /\ r \in Queue /\ LetIn(t, q[s]) \subseteq InLock(s)
  BY Looped, Zenon
<1>2. \A u \in Threads : Side(u)' = Side(u)
  BY Zenon DEF Side
<1>3. Others /\ q \in [Sides -> Queue]
  BY Zenon DEF SerialIInv, Queues
<1>4. \A o \in Sides : /\ o = s => InWait(o)' = InWait(o) \ {t} /\ InLock(o)' = InLock(o) \ {t}
                       /\ o # s => InWait(o)' = InWait(o) /\ InLock(o)' = InLock(o)
  BY <1>2, <1>3, Moved, Zenon
<1>5. InLock(s) \ {t} = InLock(s)
  BY Zenon DEF InLock
<1>6. (InWait(s) \ {t}) \cap InLock(s) = {} /\ NULL \notin (InWait(s) \ {t}) \cup InLock(s)
  BY Members, Zenon
<1>7. /\ Orderly(s, r2, A, InWait(s) \ {t}, InLock(s), panicked) /\ Heard(r2, A, InLock(s))
  <2> HIDE DEF r, A
  <2>1. /\ r2.lock = r.lock /\ r2.lock_waiters = r.lock_waiters /\ ~ MustWait(s, r)
        /\ r2[Waiter(s)] \in {NULL, r[Waiter(s)]}
    BY Zenon DEF r
  <2> QED
    BY <1>1, <1>6, <2>1, Unwaited, Zenon
<1>8. q'[s] = r2 /\ \A o \in Sides : o # s => q'[o] = q[o]
  BY <1>3, Zenon
<1>9. Calm(s)'
  BY <1>4, <1>5, <1>7, <1>8 DEF Calm, Orderly, Heard
<1>10. ASSUME NEW o \in Sides, o # s PROVE Calm(o)'
  <2>1. \A u \in InWait(o) \cup InLock(o) : u \notin InLock(s)
    BY <1>10, Members DEF Sides
  <2> QED
    BY <1>1, <1>4, <1>8, <1>10, <2>1, OtherSide, Zenon
<1> QED
  BY <1>9, <1>10, Zenon

(* The thread sleeps, after it has let go of the lock or not.               *)
LEMMA FallsAsleep ==
    ASSUME SerialIInv, NEW t \in Threads, t \notin asleep,
           NEW s \in Sides, s = Side(t), NEW r \in Queue, NEW A,
           A \subseteq asleep, asleep \ A \subseteq InLock(s),
           Orderly(s, r, A, InWait(s) \ {t}, InLock(s) \ {t}, panicked),
           r.lock = NULL => MustWait(s, r),
           q' = [q EXCEPT ![s] = Joined(s, r, t)],
           at' = [at EXCEPT ![t] = IF r.lock = NULL THEN "wait" ELSE "lock"],
           asleep' = A \cup {t}, pc' = pc, panicked' = panicked
    PROVE  \A o \in Sides : Calm(o)'
<1> DEFINE W == InWait(s) \ {t}
           L == InLock(s) \ {t}
           j == Joined(s, r, t)
           W2 == IF r.lock = NULL THEN W \cup {t} ELSE W
           L2 == IF r.lock = NULL THEN L ELSE L \cup {t}
<1>1. NULL \notin W /\ t \notin W \cup L /\ t \notin A
  BY Members, Zenon
<1>2. Orderly(s, j, A \cup {t}, W2, L2, panicked) /\ Heard(j, A \cup {t}, L2)
  <2> HIDE DEF W, L
  <2>1. Orderly(s, r, A, W, L, panicked)
    BY Zenon DEF W, L
  <2> QED
    BY <1>1, <2>1, Sleeps, Zenon
<1>3. \A u \in Threads : Side(u)' = Side(u)
  BY Zenon DEF Side
<1>4. Others /\ q \in [Sides -> Queue]
  BY Zenon DEF SerialIInv, Queues
<1>5. \A o \in Sides : /\ o = s => InWait(o)' = W2 /\ InLock(o)' = L2
                       /\ o # s => InWait(o)' = InWait(o) /\ InLock(o)' = InLock(o)
  <2>1. CASE r.lock = NULL
    <3>1. at' = [at EXCEPT ![t] = "wait"]
      BY <2>1, Zenon
    <3>2. \A o \in Sides :
             /\ o = s => InWait(o)' = InWait(s) \cup {t} /\ InLock(o)' = InLock(s) \ {t}
             /\ o # s => InWait(o)' = InWait(o) /\ InLock(o)' = InLock(o)
      BY <1>3, <1>4, <3>1, Moved, ZenonT(40)
    <3>3. W2 = InWait(s) \cup {t} /\ L2 = InLock(s) \ {t}
      BY <2>1, Zenon
    <3> HIDE DEF W2, L2
    <3> QED
      BY <3>2, <3>3, Zenon
  <2>2. CASE r.lock # NULL
    <3>1. at' = [at EXCEPT ![t] = "lock"]
      BY <2>2, Zenon
    <3>2. \A o \in Sides :
             /\ o = s => InWait(o)' = InWait(s) \ {t} /\ InLock(o)' = InLock(s) \cup {t}
             /\ o # s => InWait(o)' = InWait(o) /\ InLock(o)' = InLock(o)
      BY <1>3, <1>4, <3>1, Moved, ZenonT(40)
    <3>3. W2 = InWait(s) \ {t} /\ L2 = InLock(s) \cup {t}
      BY <2>2, Zenon
    <3> HIDE DEF W2, L2
    <3> QED
      BY <3>2, <3>3, Zenon
  <2> QED
    BY <2>1, <2>2, Zenon
<1>6. q'[s] = j /\ \A o \in Sides : o # s => q'[o] = q[o]
  BY <1>4, Zenon
<1>7. Calm(s)'
  <2> HIDE DEF j, W2, L2
  <2> QED
    BY <1>2, <1>5, <1>6, Zenon DEF Calm, Orderly, Heard
<1>8. ASSUME NEW o \in Sides, o # s PROVE Calm(o)'
  <2>1. \A u \in InWait(o) \cup InLock(o) : u \notin InLock(s) /\ u # t
    BY <1>8, Members, Zenon DEF Sides, InWait, InLock
  <2> QED
    BY <1>5, <1>6, <1>8, <2>1, OtherSide, Zenon
<1> QED
  BY <1>7, <1>8, Zenon

LEMMA PlacesInQueue ==
    ASSUME SerialIInv, NEW t \in Threads, pc[t] \in {"run", "print"}, t \notin asleep, ~ Booting,
           NEW x \in {"none", "lock", "wait"}, at' = [at EXCEPT ![t] = x],
           asleep' \subseteq asleep \cup {t}, t \in asleep' => x # "none",
           pc' = pc, panicked' = panicked, mode' = mode
    PROVE  Places'
BY Zenon DEF SerialIInv, Others, Places, Booting

LEMMA IerWritten ==
    ASSUME ier' = IER(q'["tx"], q'["rx"]) PROVE IerFollowsQueues'
BY Zenon DEF IER, IerFollowsQueues, intq_empty, intq_full

LEMMA IerKept ==
    ASSUME IerFollowsQueues, ier' = ier, Booting' \/ ~ Booting,
           \/ intq_empty(q'["tx"])
           \/ q'["tx"].head = q["tx"].head /\ q'["tx"].tail = q["tx"].tail,
           q'["rx"].head = q["rx"].head, q'["rx"].tail = q["rx"].tail
    PROVE  IerFollowsQueues'
BY Zenon DEF IerFollowsQueues, intq_empty, intq_full, Booting
------------------------------------------------------------------------------
(* serial_putc () of a thread.                                              *)
LEMMA PutcStep ==
    ASSUME SerialIInv, NEW t \in Threads, serial_putc(t)
    PROVE  SerialIInv'
<1> DEFINE s == "tx"
           r == Looping(t, q["tx"])
           A == asleep \ LetIn(t, q["tx"])
<1>1. /\ pc[t] = "print" /\ t \notin asleep /\ at[t] # "lock" /\ Side(t) = "tx"
      /\ ~ Booting /\ printed < MaxOut
  BY Zenon DEF serial_putc, Runs, Booting, Side
<1>2. /\ q \in [Sides -> Queue] /\ Others /\ rbr \in Nat \cup {NULL} /\ s \in Sides
      /\ printed \in Nat
  BY DEF SerialIInv, Queues, Others, Sides
<1>3. /\ Orderly(s, r, A, InWait(s) \ {t}, InLock(s), panicked)
      /\ r \in Queue /\ r.head = q[s].head /\ r.tail = q[s].tail
      /\ LetIn(t, q[s]) \subseteq InLock(s)
  BY <1>1, <1>2, Looped, Zenon
<1>4. /\ mode' = mode /\ console' = console /\ pc' = pc /\ panicked' = panicked /\ rbr' = rbr
      /\ arrived' = arrived
  BY Zenon DEF serial_putc
<1>5. CASE ~ intq_full(r) /\ q' = [q EXCEPT !["tx"] = Put(r, printed + 1)]
           /\ at' = [at EXCEPT ![t] = "none"] /\ asleep' = A /\ printed' = printed + 1
           /\ write_ier
  <2>1. /\ Put(r, printed + 1) \in Queue /\ Put(r, printed + 1).lock = r.lock
        /\ Put(r, printed + 1).lock_waiters = r.lock_waiters
        /\ Put(r, printed + 1).not_full = r.not_full
    BY <1>2, <1>3, PutFields
  <2>2. ~ MustWait(s, r)
    BY <1>5, Zenon DEF MustWait
  <2>3. \A o \in Sides : Calm(o)'
    <3> HIDE DEF r, A
    <3>1. Put(r, printed + 1)[Waiter(s)] = r[Waiter(s)]
      BY <2>1, Waiters, Zenon
    <3> QED
      BY <1>1, <1>2, <1>4, <1>5, <2>1, <2>2, <3>1, Served, Zenon DEF r, A
  <2>4. Queues'
    BY <1>2, <1>4, <1>5, <2>1, Zenon DEF Queues
  <2>5. ier' \in [xmit : BOOLEAN, recv : BOOLEAN] /\ thre' \in BOOLEAN
    BY <1>5, Zenon DEF write_ier, IER
  <2>6. Others'
    BY <1>1, <1>2, <1>4, <1>5, <2>5, SerialAssumption DEF Others
  <2>7. Places'
    BY <1>1, <1>4, <1>5, PlacesInQueue, Zenon
  <2>8. IerFollowsQueues'
    BY <1>5, IerWritten, Zenon DEF write_ier
  <2> QED
    BY <2>3, <2>4, <2>6, <2>7, <2>8, Zenon DEF SerialIInv
<1>6. CASE intq_full(r) /\ Sleep(t, "tx", r, LetIn(t, q["tx"]))
           /\ UNCHANGED <<printed, sent, thr, ier, thre>>
  <2>1. /\ q' = [q EXCEPT ![s] = Joined(s, r, t)] /\ asleep' = A \cup {t}
        /\ at' = [at EXCEPT ![t] = IF r.lock = NULL THEN "wait" ELSE "lock"]
    BY <1>6, Zenon DEF Sleep, Joined
  <2>2. /\ Joined(s, r, t) \in Queue /\ Joined(s, r, t).head = r.head
        /\ Joined(s, r, t).tail = r.tail
    BY <1>2, <1>3, JoinedFields, Zenon
  <2>3. MustWait(s, r) /\ InLock(s) \ {t} = InLock(s)
    BY <1>1, <1>6, Zenon DEF MustWait, InLock
  <2>4. \A o \in Sides : Calm(o)'
    <3>1. A \subseteq asleep /\ asleep \ A \subseteq InLock(s)
      BY <1>3, Zenon
    <3> HIDE DEF r, A
    <3> QED
      BY <1>1, <1>2, <1>3, <1>4, <2>1, <2>3, <3>1, FallsAsleep, Zenon
  <2>5. Queues'
    BY <1>2, <1>4, <2>1, <2>2, Zenon DEF Queues
  <2>6. Others'
    BY <1>1, <1>2, <1>4, <1>6, <2>1, Zenon DEF Others
  <2>7. Places'
    <3>1. CASE r.lock = NULL
      BY <1>1, <1>4, <2>1, <3>1, PlacesInQueue, Zenon
    <3>2. CASE r.lock # NULL
      BY <1>1, <1>4, <2>1, <3>2, PlacesInQueue, Zenon
    <3> QED
      BY <3>1, <3>2, Zenon
  <2>8. IerFollowsQueues'
    <3>1. /\ q'["tx"].head = q["tx"].head /\ q'["tx"].tail = q["tx"].tail
          /\ q'["rx"] = q["rx"]
      BY <1>2, <1>3, <2>1, <2>2, Zenon DEF Sides
    <3> QED
      BY <1>1, <1>6, <3>1, IerKept, Zenon DEF SerialIInv
  <2> QED
    BY <2>4, <2>5, <2>6, <2>7, <2>8, Zenon DEF SerialIInv
<1> QED
  BY <1>5, <1>6, Zenon DEF serial_putc

(* input_getc () of a thread.                                               *)
LEMMA GetcStep ==
    ASSUME SerialIInv, NEW t \in Threads, input_getc(t)
    PROVE  SerialIInv'
<1> DEFINE s == "rx"
           r == Looping(t, q["rx"])
           A == asleep \ LetIn(t, q["rx"])
<1>1. /\ pc[t] = "run" /\ t \notin asleep /\ at[t] # "lock" /\ Side(t) = "rx"
      /\ ~ Booting /\ mode = "QUEUE"
  BY Zenon DEF input_getc, Runs, Booting, Side
<1>2. q \in [Sides -> Queue] /\ Others /\ rbr \in Nat \cup {NULL} /\ s \in Sides
  BY Zenon DEF SerialIInv, Queues, Others, Sides
<1>3. /\ Orderly(s, r, A, InWait(s) \ {t}, InLock(s), panicked)
      /\ r \in Queue /\ r.head = q[s].head /\ r.tail = q[s].tail
      /\ LetIn(t, q[s]) \subseteq InLock(s)
  BY <1>1, <1>2, Looped, Zenon
<1>4. /\ mode' = mode /\ console' = console /\ pc' = pc /\ panicked' = panicked /\ rbr' = rbr
      /\ arrived' = arrived /\ printed' = printed
  BY Zenon DEF input_getc
<1>5. CASE ~ intq_empty(r) /\ q' = [q EXCEPT !["rx"] = Take(r)]
           /\ at' = [at EXCEPT ![t] = "none"] /\ asleep' = A /\ serial_notify
  <2>0. write_ier
    BY <1>1, <1>5, Zenon DEF serial_notify
  <2>1. /\ Take(r) \in Queue /\ Take(r).lock = r.lock
        /\ Take(r).lock_waiters = r.lock_waiters /\ Take(r).not_empty = r.not_empty
    BY <1>3, TakeFields, Zenon
  <2>2. ~ MustWait(s, r)
    BY <1>5, Zenon DEF MustWait
  <2>3. \A o \in Sides : Calm(o)'
    <3> HIDE DEF r, A
    <3>1. Take(r)[Waiter(s)] = r[Waiter(s)]
      BY <2>1, Waiters, Zenon
    <3> QED
      BY <1>1, <1>2, <1>4, <1>5, <2>1, <2>2, <3>1, Served, Zenon DEF r, A
  <2>4. Queues'
    BY <1>2, <1>4, <1>5, <2>1, Zenon DEF Queues
  <2>5. ier' \in [xmit : BOOLEAN, recv : BOOLEAN] /\ thre' \in BOOLEAN
    BY <2>0, Zenon DEF write_ier, IER
  <2>6. Others'
    BY <1>1, <1>2, <1>4, <1>5, <2>5, Zenon DEF Others
  <2>7. Places'
    BY <1>1, <1>4, <1>5, PlacesInQueue, Zenon
  <2>8. IerFollowsQueues'
    BY <2>0, IerWritten, Zenon DEF write_ier
  <2> QED
    BY <2>3, <2>4, <2>6, <2>7, <2>8, Zenon DEF SerialIInv
<1>6. CASE intq_empty(r) /\ Sleep(t, "rx", r, LetIn(t, q["rx"]))
           /\ UNCHANGED <<got, sent, thr, ier, thre>>
  <2>1. /\ q' = [q EXCEPT ![s] = Joined(s, r, t)] /\ asleep' = A \cup {t}
        /\ at' = [at EXCEPT ![t] = IF r.lock = NULL THEN "wait" ELSE "lock"]
    BY <1>6, Zenon DEF Sleep, Joined
  <2>2. /\ Joined(s, r, t) \in Queue /\ Joined(s, r, t).head = r.head
        /\ Joined(s, r, t).tail = r.tail
    BY <1>2, <1>3, JoinedFields, Zenon
  <2>3. MustWait(s, r) /\ InLock(s) \ {t} = InLock(s)
    BY <1>1, <1>6, Zenon DEF MustWait, InLock
  <2>4. \A o \in Sides : Calm(o)'
    <3>1. A \subseteq asleep /\ asleep \ A \subseteq InLock(s)
      BY <1>3, Zenon
    <3> HIDE DEF r, A
    <3> QED
      BY <1>1, <1>2, <1>3, <1>4, <2>1, <2>3, <3>1, FallsAsleep, Zenon
  <2>5. Queues'
    BY <1>2, <1>4, <2>1, <2>2, Zenon DEF Queues
  <2>6. Others'
    BY <1>1, <1>2, <1>4, <1>6, <2>1, Zenon DEF Others
  <2>7. Places'
    <3>1. CASE r.lock = NULL
      BY <1>1, <1>4, <2>1, <3>1, PlacesInQueue, Zenon
    <3>2. CASE r.lock # NULL
      BY <1>1, <1>4, <2>1, <3>2, PlacesInQueue, Zenon
    <3> QED
      BY <3>1, <3>2, Zenon
  <2>8. IerFollowsQueues'
    <3>1. /\ q'["rx"].head = q["rx"].head /\ q'["rx"].tail = q["rx"].tail
          /\ q'["tx"] = q["tx"]
      BY <1>2, <1>3, <2>1, <2>2, Zenon DEF Sides
    <3> QED
      BY <1>1, <1>6, <3>1, IerKept, Zenon DEF SerialIInv
  <2> QED
    BY <2>4, <2>5, <2>6, <2>7, <2>8, Zenon DEF SerialIInv
<1> QED
  BY <1>5, <1>6, Zenon DEF input_getc

(* The return from the sleep for the lock of a queue: to wait (), back to   *)
(* sleep, or into the panic of the ASSERT.                                  *)
LEMMA LockAcquireStep ==
    ASSUME SerialIInv, NEW t \in Threads, LockAcquire(t)
    PROVE  SerialIInv'
<1>0. PICK s \in Sides : s = IF pc[t] = "run" THEN "rx" ELSE "tx"
  BY Zenon DEF Sides
<1> DEFINE r == q[s]
<1>1. /\ pc[t] \in {"run", "print"} /\ t \notin asleep /\ at[t] = "lock"
      /\ panicked \in {NULL, t}
  BY Zenon DEF LockAcquire, Runs
<1>2. /\ q \in [Sides -> Queue] /\ Others /\ rbr \in Nat \cup {NULL} /\ s \in Sides
      /\ Side(t) = s /\ ~ Booting /\ panicked = NULL /\ r \in Queue
  BY <1>0, <1>1, Zenon DEF SerialIInv, Queues, Sides, Side, Places
<1>3. Orderly(s, r, asleep, InWait(s), InLock(s), panicked) /\ Calm(s)
  BY <1>2, Zenon DEF SerialIInv, Calm
<1>4. InWait(s) \ {t} = InWait(s) /\ t \in InLock(s)
  BY <1>1, <1>2, Zenon DEF InWait, InLock
<1>5. /\ mode' = mode /\ console' = console /\ rbr' = rbr /\ arrived' = arrived
      /\ printed' = printed /\ ier' = ier /\ thre' = thre
  BY Zenon DEF LockAcquire, uart, history
<1>6. CASE q[s].lock # NULL \/ MustWait(s, q[s])
  <2>0. Sleep(t, s, q[s], {}) /\ UNCHANGED <<pc, panicked>>
    BY <1>0, <1>6, Zenon DEF LockAcquire
  <2>1. /\ q' = [q EXCEPT ![s] = Joined(s, r, t)] /\ asleep' = asleep \cup {t}
        /\ at' = [at EXCEPT ![t] = IF r.lock = NULL THEN "wait" ELSE "lock"]
        /\ pc' = pc /\ panicked' = panicked
    BY <2>0, Zenon DEF Sleep, Joined
  <2> HIDE DEF r
  <2>2. /\ Joined(s, r, t) \in Queue /\ Joined(s, r, t).head = r.head
        /\ Joined(s, r, t).tail = r.tail
    BY <1>2, JoinedFields
  <2>3. Orderly(s, r, asleep, InWait(s) \ {t}, InLock(s) \ {t}, panicked)
    BY <1>1, <1>3, <1>4, Zenon DEF Orderly
  <2>4. r.lock = NULL => MustWait(s, r)
    BY <1>6, Zenon DEF r
  <2>5. \A o \in Sides : Calm(o)'
    <3>1. asleep \subseteq asleep /\ asleep \ asleep \subseteq InLock(s)
      BY Zenon
    <3> QED
      BY <1>1, <1>2, <2>1, <2>3, <2>4, <3>1, FallsAsleep, Zenon
  <2>6. Queues'
    BY <1>2, <1>5, <2>1, <2>2, Zenon DEF Queues
  <2>7. Others'
    BY <1>1, <1>2, <1>5, <2>1, Zenon DEF Others
  <2>8. Places'
    <3>1. CASE r.lock = NULL
      BY <1>1, <1>2, <1>5, <2>1, <3>1, PlacesInQueue, Zenon
    <3>2. CASE r.lock # NULL
      BY <1>1, <1>2, <1>5, <2>1, <3>2, PlacesInQueue, Zenon
    <3> QED
      BY <3>1, <3>2, Zenon
  <2>9. IerFollowsQueues'
    <3>1. \A o \in Sides : q'[o].head = q[o].head /\ q'[o].tail = q[o].tail
      BY <1>2, <2>1, <2>2, Zenon DEF r
    <3> QED
      BY <1>2, <1>5, <3>1, IerKept, Zenon DEF SerialIInv, Sides
  <2> QED
    BY <2>5, <2>6, <2>7, <2>8, <2>9, Zenon DEF SerialIInv
<1>7. CASE ~ (q[s].lock # NULL \/ MustWait(s, q[s]))
  <2>0. Panic(t) /\ q' = [q EXCEPT ![s].lock = t]
    BY <1>0, <1>7, Zenon DEF LockAcquire
  <2> DEFINE r2 == [r EXCEPT !.lock = t]
  <2>1. /\ q' = [q EXCEPT ![s] = r2] /\ asleep' = asleep /\ panicked' = t
        /\ at' = [at EXCEPT ![t] = "none"] /\ pc' = [pc EXCEPT ![t] = "panic"]
    BY <1>2, <2>0, Zenon DEF Panic
  <2>2. /\ r2 \in Queue /\ r2.lock = t /\ r2.lock_waiters = r.lock_waiters
        /\ r2[Waiter(s)] = r[Waiter(s)] /\ r2.head = r.head /\ r2.tail = r.tail
    BY <1>2, Zenon DEF Queue, Waiter, Nobody
  <2> HIDE DEF r2
  <2>3. r.lock = NULL
    BY <1>7, Zenon
  <2> HIDE DEF r
  <2>4. InWait(s) = {} /\ r[Waiter(s)] = NULL
    BY <1>3, <2>3, Members, <1>2 DEF Orderly
  <2>5. \A u \in Threads : /\ at'[u] # "none" => Side(u)' = Side(u)
                           /\ u # t => Side(u)' = Side(u)
    BY <1>2, <2>1, Zenon DEF Side, Others
  <2>6. \A o \in Sides : /\ o = s => InWait(o)' = InWait(o) \ {t} /\ InLock(o)' = InLock(o) \ {t}
                         /\ o # s => InWait(o)' = InWait(o) /\ InLock(o)' = InLock(o)
    BY <1>2, <2>1, <2>5, Moved, Zenon
  <2>7. q'[s] = r2 /\ \A o \in Sides : o # s => q'[o] = q[o]
    BY <1>2, <2>1, Zenon
  <2>8. Waiting(r2) = Waiting(r) /\ (NoTwice(r) => NoTwice(r2))
    BY <2>2, Zenon DEF Waiting, NoTwice
  <2>9. Orderly(s, r2, asleep, {}, InLock(s) \ {t}, t) /\ Heard(r2, asleep, InLock(s) \ {t})
    BY <1>1, <1>3, <2>2, <2>4, <2>8, Sizes, Zenon DEF Orderly, Heard
  <2>10. Calm(s)'
    <3>1. InWait(s)' = {} /\ InLock(s)' = InLock(s) \ {t}
      BY <1>2, <2>4, <2>6, Zenon
    <3> QED
      BY <2>1, <2>7, <2>9, <3>1, Zenon DEF Calm
  <2>11. ASSUME NEW o \in Sides, o # s PROVE Calm(o)'
    BY <1>2, <2>1, <2>6, <2>7, <2>11, OtherSide, Zenon
  <2>12. Queues'
    BY <1>2, <1>5, <2>1, <2>2, Zenon DEF Queues
  <2>13. Others'
    BY <1>2, <1>5, <2>1, Zenon DEF Others, Nobody
  <2>14. Places'
    BY <1>1, <1>2, <1>5, <2>1, Sizes, Zenon DEF SerialIInv, Others, Places, Booting
  <2>15. IerFollowsQueues'
    <3>1. \A o \in Sides : q'[o].head = q[o].head /\ q'[o].tail = q[o].tail
      BY <2>2, <2>7, Zenon DEF r
    <3> QED
      BY <1>2, <1>5, <3>1, IerKept, Zenon DEF SerialIInv, Sides
  <2> QED
    BY <2>10, <2>11, <2>12, <2>13, <2>14, <2>15, Zenon DEF SerialIInv
<1> QED
  BY <1>6, <1>7, Zenon
------------------------------------------------------------------------------
(* Threads outside of the queues, and interrupts.                           *)

LEMMA Still ==
    ASSUME SerialIInv, q' = q, at' = at, asleep' = asleep,
           \A u \in Threads : at[u] # "none" => Side(u)' = Side(u),
           panicked' = panicked \/ panicked = NULL
    PROVE  \A o \in Sides : Calm(o)'
<1>1. \A o \in Sides : InWait(o)' = InWait(o) /\ InLock(o)' = InLock(o)
  BY SameMembers, Zenon DEF SerialIInv
<1> QED
  BY <1>1, OtherSide, Zenon

(* signal () on side o.                                                     *)
LEMMA Woken ==
    ASSUME SerialIInv, NEW o \in Sides, NEW r2 \in Queue, q'[o] = r2,
           r2.lock = q[o].lock, r2.lock_waiters = q[o].lock_waiters,
           \/ /\ r2[Waiter(o)] = NULL
              /\ \A u \in InWait(o) \cup InLock(o) :
                    u \in asleep' <=> u \in asleep /\ u # q[o][Waiter(o)]
           \/ /\ ~ MustWait(o, q[o]) /\ r2[Waiter(o)] = q[o][Waiter(o)]
              /\ \A u \in InWait(o) \cup InLock(o) : u \in asleep' <=> u \in asleep,
           at' = at, \A u \in Threads : at[u] # "none" => Side(u)' = Side(u),
           panicked' = panicked
    PROVE  Calm(o)'
<1>1. q[o] \in Queue /\ Calm(o) /\ Others
  BY Zenon DEF SerialIInv, Queues
<1>2. InWait(o)' = InWait(o) /\ InLock(o)' = InLock(o)
  BY <1>1, SameMembers, Zenon
<1>3. InWait(o) \cap InLock(o) = {} /\ NULL \notin InWait(o) \cup InLock(o)
  BY Members, Zenon
<1>4. /\ Orderly(o, q[o], asleep, InWait(o), InLock(o), panicked)
      /\ Heard(q[o], asleep, InLock(o))
  BY <1>1, Zenon DEF Calm
<1>5. /\ Orderly(o, r2, asleep', InWait(o), InLock(o), panicked)
      /\ Heard(r2, asleep', InLock(o))
  <2>1. CASE /\ r2[Waiter(o)] = NULL
             /\ \A u \in InWait(o) \cup InLock(o) :
                   u \in asleep' <=> u \in asleep /\ u # q[o][Waiter(o)]
    BY <1>1, <1>3, <1>4, <2>1, Signalled, SMTT(30)
  <2>2. CASE /\ ~ MustWait(o, q[o]) /\ r2[Waiter(o)] = q[o][Waiter(o)]
             /\ \A u \in InWait(o) \cup InLock(o) : u \in asleep' <=> u \in asleep
    BY <1>1, <1>3, <1>4, <2>2, Unwaited, Zenon
  <2> QED
    BY <2>1, <2>2, Zenon
<1> QED
  BY <1>2, <1>5, Zenon DEF Calm, Orderly, Heard

(* The console lock, polled output, and the start of the driver.            *)
LEMMA QuietStep ==
    ASSUME SerialIInv, NEW t \in Threads, at[t] = "none",
           acquire_console(t) \/ release_console(t) \/ PutPolled(t) \/ debug_panic(t)
    PROVE  SerialIInv'
<1>1. /\ Queues /\ Others /\ Places /\ IerFollowsQueues
  BY Zenon DEF SerialIInv
<1>2. CASE acquire_console(t) \/ release_console(t)
  <2>1. /\ UNCHANGED <<q, mode, at, asleep, panicked, ier, thre, rbr, printed, arrived>>
        /\ pc[t] \in {"run", "print"} /\ console' \in Nobody
        /\ pc' = [pc EXCEPT ![t] = "print"] \/ pc' = [pc EXCEPT ![t] = "run"]
    BY <1>2, Zenon DEF acquire_console, release_console, Runs, uart, history, Nobody
  <2>2. \A u \in Threads : u # t => pc'[u] = pc[u]
    BY <1>1, <2>1, Zenon DEF Others
  <2>3. pc'[t] \in {"run", "print"} /\ pc' \in [Threads -> {"run", "init", "print", "panic", "halted"}]
    BY <1>1, <2>1, Zenon DEF Others
  <2>4. Booting' = Booting
    BY <2>1, <2>2, <2>3, Sizes, Zenon DEF Booting
  <2>5. \A o \in Sides : Calm(o)'
    BY <2>1, <2>2, Still, Zenon DEF Side
  <2>6. Queues' /\ Others'
    BY <1>1, <2>1, <2>3, Zenon DEF Queues, Others
  <2>7. Places'
    BY <1>1, <2>1, <2>2, <2>3, <2>4, Zenon DEF Places
  <2>8. IerFollowsQueues'
    BY <1>1, <2>1, <2>4, IerKept, Zenon
  <2> QED
    BY <2>5, <2>6, <2>7, <2>8, Zenon DEF SerialIInv
<1>3. CASE PutPolled(t)
  <2>1. /\ UNCHANGED <<q, pc, at, asleep, console, panicked, ier, rbr, arrived>>
        /\ mode # "QUEUE" /\ mode' = "POLL" /\ printed < MaxOut /\ printed' = printed + 1
        /\ thre' = (thre /\ thr' = NULL)
    BY <1>3, Zenon DEF PutPolled, threads, NoIer
  <2>2. \A o \in Sides : Calm(o)'
    BY <2>1, Still, Zenon DEF Side
  <2>3. Queues' /\ Others'
    BY <1>1, <2>1, SerialAssumption DEF Queues, Others
  <2>4. Places'
    BY <1>1, <2>1, Zenon DEF Places, Booting
  <2>5. IerFollowsQueues'
    BY <2>1, Zenon DEF IerFollowsQueues
  <2> QED
    BY <2>2, <2>3, <2>4, <2>5, Zenon DEF SerialIInv
<1>4. CASE debug_panic(t)
  <2>1. /\ UNCHANGED <<q, mode, console, asleep, ier, thre, rbr, printed, arrived>>
        /\ pc[t] \in {"run", "print"} /\ panicked = NULL /\ panicked' = t
        /\ pc' = [pc EXCEPT ![t] = "panic"] /\ at' = [at EXCEPT ![t] = "none"]
    BY <1>4, Zenon DEF debug_panic, Panic, Runs, uart, history
  <2>2. at' = at
    BY <1>1, <2>1, Zenon DEF Others
  <2>3. \A o \in Sides : Calm(o)'
    <3>1. \A u \in Threads : at[u] # "none" => Side(u)' = Side(u)
      BY <1>1, <2>1, Zenon DEF Side, Others
    <3> QED
      BY <2>1, <2>2, <3>1, Still, Zenon
  <2>4. Queues' /\ Others'
    BY <1>1, <2>1, Zenon DEF Queues, Others, Nobody
  <2>5. Booting' = Booting
    BY <1>1, <2>1, Sizes, Zenon DEF Booting, Others
  <2>6. Places'
    BY <1>1, <2>1, <2>2, <2>5, Sizes, Zenon DEF Places, Others
  <2>7. IerFollowsQueues'
    BY <1>1, <2>1, <2>5, IerKept, Zenon
  <2> QED
    BY <2>3, <2>4, <2>6, <2>7, Zenon DEF SerialIInv
<1> QED
  BY <1>2, <1>3, <1>4, Zenon

LEMMA StartStep ==
    ASSUME SerialIInv, serial_init_queue \/ EnableQueue
    PROVE  SerialIInv'
<1>1. Queues /\ Others /\ Places /\ IerFollowsQueues
  BY Zenon DEF SerialIInv
<1>2. /\ UNCHANGED <<q, console, at, asleep, panicked, rbr, printed, arrived>>
      /\ Booting /\ pc[main] \in {"run", "init"}
  BY Zenon DEF serial_init_queue, EnableQueue, Runs, Booting, uart, history
<1>3. \/ pc' = [pc EXCEPT ![main] = "init"] /\ mode' = "QUEUE" /\ UNCHANGED <<ier, thre>>
      \/ pc' = [pc EXCEPT ![main] = "run"] /\ mode' = mode /\ write_ier
  BY Zenon DEF serial_init_queue, EnableQueue, uart
<1>4. ier' \in [xmit : BOOLEAN, recv : BOOLEAN] /\ thre' \in BOOLEAN
  <2>1. CASE UNCHANGED <<ier, thre>>
    BY <1>1, <2>1, Zenon DEF Others
  <2>2. CASE write_ier
    BY <2>2, Zenon DEF write_ier, IER
  <2> QED
    BY <1>3, <2>1, <2>2, Zenon
<1>5. /\ \A u \in Threads : at[u] = "none"
      /\ \A u \in Threads : u # main => pc'[u] = pc[u]
      /\ pc'[main] \in {"run", "init"}
      /\ pc' \in [Threads -> {"run", "init", "print", "panic", "halted"}]
  BY <1>1, <1>2, <1>3, Sizes, Zenon DEF Places, Others
<1>6. \A o \in Sides : Calm(o)'
  BY <1>2, <1>5, Still, Zenon
<1>7. Queues' /\ Others'
  BY <1>1, <1>2, <1>3, <1>4, <1>5, Zenon DEF Queues, Others
<1>8. Places'
  BY <1>1, <1>2, <1>5, Sizes, Zenon DEF Places
<1>9. IerFollowsQueues'
  <2>1. CASE pc' = [pc EXCEPT ![main] = "init"]
    BY <1>1, <2>1, Sizes, Zenon DEF IerFollowsQueues, Others
  <2>2. CASE write_ier
    BY <2>2, IerWritten, Zenon DEF write_ier
  <2> QED
    BY <1>3, <2>1, <2>2, Zenon
<1> QED
  BY <1>6, <1>7, <1>8, <1>9, Zenon DEF SerialIInv

(* serial_putc () in a panic: a full queue gives up a byte and wakes its    *)
(* waiter.                                                                  *)
LEMMA PanicPutcStep ==
    ASSUME SerialIInv, NEW t \in Threads, PanicPutc(t)
    PROVE  SerialIInv'
<1> DEFINE full == intq_full(q["tx"])
           r == IF full THEN Take(q["tx"]) ELSE q["tx"]
           r2 == Put(r, printed + 1)
<1>1. Queues /\ Others /\ Places /\ IerFollowsQueues
  BY Zenon DEF SerialIInv
<1>2. /\ UNCHANGED <<mode, console, pc, at, panicked, rbr, arrived>>
      /\ printed < MaxOut /\ printed' = printed + 1 /\ write_ier
      /\ q' = [q EXCEPT !["tx"] = r2]
      /\ asleep' = IF full THEN asleep \ {q["tx"].not_full} ELSE asleep
  BY Zenon DEF PanicPutc
<1>3. q["tx"] \in Queue /\ q \in [Sides -> Queue] /\ printed \in Nat /\ "tx" \in Sides
  BY <1>1 DEF Queues, Others, Sides
<1>4. /\ r \in Queue /\ r.lock = q["tx"].lock /\ r.lock_waiters = q["tx"].lock_waiters
      /\ r.not_full = IF full THEN NULL ELSE q["tx"].not_full
  BY <1>3, TakeFields, Zenon
<1>5. /\ r2 \in Queue /\ r2.lock = q["tx"].lock /\ r2.lock_waiters = q["tx"].lock_waiters
      /\ r2.not_full = IF full THEN NULL ELSE q["tx"].not_full
  <2> HIDE DEF r, full
  <2> QED
    BY <1>3, <1>4, PutFields
<1> HIDE DEF r, r2
<1>6. q'["tx"] = r2 /\ q'["rx"] = q["rx"]
  BY <1>2, <1>3, Zenon DEF Sides
<1>7. Calm("tx")'
  <2>1. CASE full
    BY <1>2, <1>3, <1>5, <1>6, <2>1, Waiters, Woken, Zenon DEF Side
  <2>2. CASE ~ full
    <3>1. ~ MustWait("tx", q["tx"])
      BY <2>2, Zenon DEF MustWait
    <3> QED
      BY <1>2, <1>3, <1>5, <1>6, <2>2, <3>1, Waiters, Woken, Zenon DEF Side
  <2> QED
    BY <2>1, <2>2, Zenon
<1>8. Calm("rx")'
  <2>1. \A u \in InWait("rx") \cup InLock("rx") : u # q["tx"].not_full
    BY Members, Waiters, Zenon DEF Sides
  <2>2. InWait("rx")' = InWait("rx") /\ InLock("rx")' = InLock("rx")
    BY <1>1, <1>2, SameMembers, Zenon DEF Side, Sides
  <2> QED
    BY <1>2, <1>6, <2>1, <2>2, OtherSide, Zenon DEF Sides
<1>9. ier' \in [xmit : BOOLEAN, recv : BOOLEAN] /\ thre' \in BOOLEAN
  BY <1>2, Zenon DEF write_ier, IER
<1>10. asleep' \subseteq asleep
  BY <1>2, Zenon
<1>11. Queues' /\ Others'
  BY <1>1, <1>2, <1>3, <1>5, <1>9, <1>10, SerialAssumption DEF Queues, Others
<1>12. Places'
  BY <1>1, <1>2, <1>10, Zenon DEF Places, Booting
<1>13. IerFollowsQueues'
  BY <1>2, IerWritten, Zenon DEF write_ier
<1> QED
  BY <1>7, <1>8, <1>11, <1>12, <1>13, Zenon DEF SerialIInv, Sides

(* serial_flush () empties the queue and wakes its waiter.                  *)
LEMMA FlushStep ==
    ASSUME SerialIInv, NEW t \in Threads, serial_flush(t)
    PROVE  SerialIInv'
<1> DEFINE r == q["tx"]
           r2 == [r EXCEPT !.tail = r.head,
                           !.not_full = IF intq_empty(r) THEN r.not_full ELSE NULL]
<1>1. Queues /\ Others /\ Places /\ IerFollowsQueues
  BY Zenon DEF SerialIInv
<1>2. r \in Queue /\ q \in [Sides -> Queue] /\ "tx" \in Sides
  BY <1>1, Zenon DEF Queues, Sides
<1>3. /\ UNCHANGED <<mode, console, at, panicked, rbr, printed, arrived, ier>>
      /\ thre' = (thre /\ thr' = NULL) /\ at[t] = "none" /\ pc[t] \in {"run", "panic"}
      /\ pc' = [pc EXCEPT ![t] = IF pc[t] = "panic" THEN "halted" ELSE pc[t]]
      /\ asleep' = IF intq_empty(r) THEN asleep ELSE asleep \ {r.not_full}
  BY Zenon DEF serial_flush, NoIer, Runs
<1>4. q' = [q EXCEPT !["tx"].tail = r.head,
                     !["tx"].not_full = IF intq_empty(r) THEN r.not_full ELSE NULL]
  BY Zenon DEF serial_flush
<1>5. q' = [q EXCEPT !["tx"] = r2]
  BY <1>2, <1>4, Zenon
<1>6. /\ r2 \in Queue /\ r2.lock = r.lock /\ r2.lock_waiters = r.lock_waiters
      /\ r2.head = r.head /\ r2.tail = r.head
      /\ r2.not_full = IF intq_empty(r) THEN r.not_full ELSE NULL
  BY <1>2, Zenon DEF Queue, Nobody
<1> HIDE DEF r2
<1>7. q'["tx"] = r2 /\ q'["rx"] = q["rx"]
  BY <1>2, <1>5, Zenon DEF Sides
<1>8. \A u \in Threads : at[u] # "none" => Side(u)' = Side(u)
  BY <1>1, <1>3, Zenon DEF Side, Others
<1>9. Calm("tx")'
  <2>1. CASE ~ intq_empty(r)
    BY <1>2, <1>3, <1>6, <1>7, <1>8, <2>1, Waiters, Woken, Zenon
  <2>2. CASE intq_empty(r)
    <3>1. ~ MustWait("tx", r)
      BY <1>2, <2>2, Sizes, Zenon DEF MustWait, intq_empty, intq_full, Queue
    <3> QED
      BY <1>2, <1>3, <1>6, <1>7, <1>8, <2>2, <3>1, Waiters, Woken, Zenon
  <2> QED
    BY <2>1, <2>2, Zenon
<1>10. Calm("rx")'
  <2>1. \A u \in InWait("rx") \cup InLock("rx") : u # q["tx"].not_full
    BY Members, Waiters, Zenon DEF Sides
  <2>2. InWait("rx")' = InWait("rx") /\ InLock("rx")' = InLock("rx")
    BY <1>1, <1>3, <1>8, SameMembers, Zenon DEF Sides
  <2> QED
    BY <1>3, <1>7, <2>1, <2>2, OtherSide, Zenon DEF Sides
<1>11. asleep' \subseteq asleep
  BY <1>3, Zenon
<1>12. Queues' /\ Others'
  BY <1>1, <1>2, <1>3, <1>5, <1>6, <1>11, Zenon DEF Queues, Others
<1>13. Booting' = Booting
  BY <1>1, <1>3, Sizes, Zenon DEF Booting, Others
<1>14. Places'
  BY <1>1, <1>3, <1>11, <1>13, Zenon DEF Places, Others
<1>15. IerFollowsQueues'
  <2>1. intq_empty(q'["tx"])
    BY <1>6, <1>7, Zenon DEF intq_empty
  <2> QED
    BY <1>1, <1>3, <1>7, <1>13, <2>1, IerKept, Zenon
<1> QED
  BY <1>9, <1>10, <1>12, <1>14, <1>15, Zenon DEF SerialIInv, Sides

(* A key press.                                                             *)
LEMMA KeyStep ==
    ASSUME SerialIInv, keyboard_interrupt
    PROVE  SerialIInv'
<1> DEFINE r == q["rx"]
           r2 == Put(r, arrived + 1)
<1>1. Queues /\ Others /\ Places /\ IerFollowsQueues
  BY Zenon DEF SerialIInv
<1>2. /\ UNCHANGED <<mode, console, pc, at, panicked, rbr, printed>>
      /\ arrived < MaxIn /\ arrived' = arrived + 1
  BY Zenon DEF keyboard_interrupt
<1>3. CASE ~ intq_full(r) /\ q' = [q EXCEPT !["rx"] = r2]
           /\ asleep' = asleep \ {r.not_empty} /\ serial_notify
  <2>1. r \in Queue /\ q \in [Sides -> Queue] /\ arrived \in Nat /\ "rx" \in Sides
    BY <1>1 DEF Queues, Others, Sides
  <2>2. /\ r2 \in Queue /\ r2.lock = r.lock /\ r2.lock_waiters = r.lock_waiters
        /\ r2.not_empty = NULL
    BY <2>1, PutFields
  <2> HIDE DEF r2
  <2>3. q'["rx"] = r2 /\ q'["tx"] = q["tx"]
    BY <1>3, <2>1, Zenon DEF Sides
  <2>4. Calm("rx")'
    BY <1>2, <1>3, <2>1, <2>2, <2>3, Waiters, Woken, Zenon DEF Side
  <2>5. Calm("tx")'
    <3>1. \A u \in InWait("tx") \cup InLock("tx") : u # q["rx"].not_empty
      BY Members, Waiters, Zenon DEF Sides
    <3>2. InWait("tx")' = InWait("tx") /\ InLock("tx")' = InLock("tx")
      BY <1>1, <1>2, SameMembers, Zenon DEF Side, Sides
    <3> QED
      BY <1>2, <1>3, <2>3, <3>1, <3>2, OtherSide, Zenon DEF Sides
  <2>6. /\ ier' \in [xmit : BOOLEAN, recv : BOOLEAN] /\ thre' \in BOOLEAN
        /\ IerFollowsQueues'
    <3>1. CASE mode = "QUEUE"
      <4>1. write_ier
        BY <1>3, <3>1, Zenon DEF serial_notify
      <4>2. ier' \in [xmit : BOOLEAN, recv : BOOLEAN] /\ thre' \in BOOLEAN
        BY <4>1, Zenon DEF write_ier, IER
      <4> QED
        BY <4>1, <4>2, IerWritten, Zenon DEF write_ier
    <3>2. CASE mode # "QUEUE"
      BY <1>1, <1>2, <1>3, <3>2, Zenon DEF serial_notify, NoIer, Others, IerFollowsQueues
    <3> QED
      BY <3>1, <3>2, Zenon
  <2>7. Queues' /\ Others'
    BY <1>1, <1>2, <1>3, <2>1, <2>2, <2>6, SerialAssumption DEF Queues, Others
  <2>8. Places'
    BY <1>1, <1>2, <1>3, Zenon DEF Places, Booting
  <2> QED
    BY <2>4, <2>5, <2>6, <2>7, <2>8, Zenon DEF SerialIInv, Sides
<1>4. CASE UNCHANGED <<q, asleep, kept, sent, thr, ier, thre>>
  <2>1. \A o \in Sides : Calm(o)'
    BY <1>2, <1>4, Still, Zenon DEF Side
  <2>2. Queues' /\ Others'
    BY <1>1, <1>2, <1>4, SerialAssumption DEF Queues, Others
  <2>3. Places' /\ Booting' = Booting
    BY <1>1, <1>2, <1>4, Zenon DEF Places, Booting
  <2>4. IerFollowsQueues'
    BY <1>1, <1>4, <2>3, IerKept, Zenon
  <2> QED
    BY <2>1, <2>2, <2>3, <2>4, Zenon DEF SerialIInv
<1> QED
  BY <1>3, <1>4, Zenon DEF keyboard_interrupt

(* The interrupt handler of the serial port serves both queues.             *)
LEMMA SerialInterruptStep ==
    ASSUME SerialIInv, serial_interrupt
    PROVE  SerialIInv'
<1> DEFINE tx == q["tx"]
           rx == q["rx"]
           recv == ~ intq_full(rx) /\ rbr # NULL
           xmit == ~ intq_empty(tx) /\ thr = NULL
           rx2 == IF recv THEN Put(rx, rbr) ELSE rx
           tx2 == IF xmit THEN Take(tx) ELSE tx
<1>1. Queues /\ Others /\ Places /\ IerFollowsQueues
  BY Zenon DEF SerialIInv
<1>2. /\ UNCHANGED <<mode, console, pc, at, panicked, printed, arrived>>
      /\ rbr' = (IF recv THEN NULL ELSE rbr) /\ ier' = IER(q'["tx"], q'["rx"])
      /\ q' = [q EXCEPT !["rx"] = rx2, !["tx"] = tx2]
      /\ asleep' = asleep \ ((IF recv THEN {rx.not_empty} ELSE {})
                             \cup (IF xmit THEN {tx.not_full} ELSE {}))
  BY Zenon DEF serial_interrupt
<1>3. thre' \in BOOLEAN
  BY Zenon DEF serial_interrupt
<1>4. rx \in Queue /\ tx \in Queue /\ q \in [Sides -> Queue] /\ rbr \in Nat \cup {NULL}
  BY <1>1, Zenon DEF Queues, Sides
<1>5. /\ rx2 \in Queue /\ rx2.lock = rx.lock /\ rx2.lock_waiters = rx.lock_waiters
      /\ recv => rx2.not_empty = NULL
  <2>1. CASE recv
    BY <1>4, <2>1, PutFields, Zenon
  <2>2. CASE ~ recv
    BY <1>4, <2>2, Zenon
  <2> QED
    BY <2>1, <2>2, Zenon
<1>6. /\ tx2 \in Queue /\ tx2.lock = tx.lock /\ tx2.lock_waiters = tx.lock_waiters
      /\ xmit => tx2.not_full = NULL
  BY <1>4, TakeFields, Zenon
<1>7. (~ recv => rx2 = rx) /\ (~ xmit => tx2 = tx)
  BY Zenon
<1> HIDE DEF rx2, tx2
<1>8. q'["rx"] = rx2 /\ q'["tx"] = tx2
  BY <1>2, <1>4, Zenon DEF Sides
<1>9. /\ rx.not_empty \in {NULL} \cup InWait("rx") /\ tx.not_full \in {NULL} \cup InWait("tx")
      /\ (InWait("tx") \cup InLock("tx")) \cap (InWait("rx") \cup InLock("rx")) = {}
      /\ NULL \notin InWait("tx") \cup InLock("tx") /\ NULL \notin InWait("rx") \cup InLock("rx")
  BY Members, Waiters, Zenon DEF Sides
<1>10. \A o \in Sides : InWait(o)' = InWait(o) /\ InLock(o)' = InLock(o)
  BY <1>1, <1>2, SameMembers, Zenon DEF Side
<1> HIDE DEF recv, xmit
<1>11. Calm("rx")'
  <2>1. CASE recv
    <3>1. \A u \in InWait("rx") \cup InLock("rx") :
             u \in asleep' <=> u \in asleep /\ u # rx.not_empty
      BY <1>2, <1>9, <2>1, Zenon
    <3> QED
      BY <1>2, <1>5, <1>8, <2>1, <3>1, Waiters, Woken, Zenon DEF Side, Sides
  <2>2. CASE ~ recv
    <3>1. \A u \in InWait("rx") \cup InLock("rx") : u \in asleep <=> u \in asleep'
      BY <1>2, <1>9, <2>2, Zenon
    <3> QED
      BY <1>2, <1>7, <1>8, <1>10, <2>2, <3>1, OtherSide, Zenon DEF Sides
  <2> QED
    BY <2>1, <2>2, Zenon
<1>12. Calm("tx")'
  <2>1. CASE xmit
    <3>1. \A u \in InWait("tx") \cup InLock("tx") :
             u \in asleep' <=> u \in asleep /\ u # tx.not_full
      BY <1>2, <1>9, <2>1, Zenon
    <3> QED
      BY <1>2, <1>6, <1>8, <2>1, <3>1, Waiters, Woken, Zenon DEF Side, Sides
  <2>2. CASE ~ xmit
    <3>1. \A u \in InWait("tx") \cup InLock("tx") : u \in asleep <=> u \in asleep'
      BY <1>2, <1>9, <2>2, Zenon
    <3> QED
      BY <1>2, <1>7, <1>8, <1>10, <2>2, <3>1, OtherSide, Zenon DEF Sides
  <2> QED
    BY <2>1, <2>2, Zenon
<1>13. ier' \in [xmit : BOOLEAN, recv : BOOLEAN]
  BY <1>2, Zenon DEF IER
<1>14. asleep' \subseteq asleep
  BY <1>2, Zenon
<1>15. Queues' /\ Others'
  BY <1>1, <1>2, <1>3, <1>4, <1>5, <1>6, <1>13, <1>14, Zenon DEF Queues, Others
<1>16. Places'
  BY <1>1, <1>2, <1>14, Zenon DEF Places, Booting
<1>17. IerFollowsQueues'
  BY <1>2, IerWritten, Zenon
<1> QED
  BY <1>11, <1>12, <1>15, <1>16, <1>17, Zenon DEF SerialIInv, Sides

(* The wire, and steps of nobody.                                           *)
LEMMA WireStep ==
    ASSUME SerialIInv, Transmit \/ Receive \/ UNCHANGED vars
    PROVE  SerialIInv'
<1>1. Queues /\ Others /\ Places /\ IerFollowsQueues
  BY Zenon DEF SerialIInv
<1>2. UNCHANGED <<q, mode, console, pc, at, asleep, panicked, ier, printed>>
  BY Zenon DEF Transmit, Receive, vars, threads, uart, history
<1>3. /\ thre' \in BOOLEAN /\ rbr' \in Nat \cup {NULL} /\ arrived' \in 0 .. MaxIn
  <2>1. CASE Transmit
    BY <1>1, <2>1, Zenon DEF Transmit, Others, Queues
  <2>2. CASE Receive
    BY <1>1, <2>2, SerialAssumption DEF Receive, Others, Queues
  <2>3. CASE UNCHANGED vars
    BY <1>1, <2>3, Zenon DEF vars, uart, history, Others, Queues
  <2> QED
    BY <2>1, <2>2, <2>3, Zenon
<1>4. \A o \in Sides : Calm(o)'
  BY <1>2, Still, Zenon DEF Side
<1>5. Queues' /\ Others'
  BY <1>1, <1>2, <1>3, Zenon DEF Queues, Others
<1>6. Places' /\ Booting' = Booting
  BY <1>1, <1>2, Zenon DEF Places, Booting
<1>7. IerFollowsQueues'
  BY <1>1, <1>2, <1>6, IerKept, Zenon
<1> QED
  BY <1>4, <1>5, <1>6, <1>7, Zenon DEF SerialIInv
------------------------------------------------------------------------------
LEMMA SerialInductive == SerialIInv /\ [Next]_vars => SerialIInv'
<1> SUFFICES ASSUME SerialIInv, [Next]_vars PROVE SerialIInv'
  BY Zenon
<1>1. ASSUME NEW t \in Threads, InQueue(t) PROVE SerialIInv'
  BY <1>1, GetcStep, PutcStep, LockAcquireStep, Zenon DEF InQueue
<1>2. ASSUME NEW t \in Threads, NewCall(t) PROVE SerialIInv'
  BY <1>2, GetcStep, PutcStep, QuietStep, PanicPutcStep, FlushStep, Zenon DEF NewCall
<1>3. CASE Hardware
  BY <1>3, KeyStep, SerialInterruptStep, WireStep, Zenon DEF Hardware
<1> QED
  BY <1>1, <1>2, <1>3, StartStep, WireStep, Zenon DEF Next

LEMMA SerialInvariant == Spec => []SerialIInv
BY SerialInitially, SerialInductive, PTL DEF Spec

(* Every variable of the driver, the queues and the UART keeps its type:    *)
(* positions stay inside of the ring, whatever path bytes take.             *)
THEOREM SerialTypes == Spec => []TypeOK
<1>1. SerialIInv => TypeOK
  BY TypesFollow, Zenon DEF SerialIInv
<1> QED
  BY <1>1, SerialInvariant, PTL

(* intq_getc () and intq_putc () lose no wakeup: a thread asleep in wait () *)
(* is the one the queue will signal and still has a reason to wait, and one *)
(* asleep for the lock of a queue has somebody who will release it.         *)
THEOREM QueuesLoseNoWakeup == Spec => []NoLostWakeup
<1>1. SerialIInv => NoLostWakeup
  <2> SUFFICES ASSUME SerialIInv PROVE NoLostWakeup
    BY Zenon
  <2>1. asleep \subseteq Threads /\ \A t \in Threads : t \in asleep => at[t] # "none"
    BY Zenon DEF SerialIInv, Others, Places
  <2>2. ASSUME NEW t \in asleep, at[t] = "wait"
        PROVE  q[Side(t)][Waiter(Side(t))] = t /\ MustWait(Side(t), q[Side(t)])
    <3>1. Side(t) \in Sides /\ t \in InWait(Side(t)) \cap asleep
      BY <2>1, <2>2, Zenon DEF Side, Sides, InWait
    <3> QED
      BY <3>1, Zenon DEF SerialIInv, Calm, Orderly
  <2>3. ASSUME NEW t \in asleep, at[t] = "lock"
        PROVE  /\ \E i \in DOMAIN q[Side(t)].lock_waiters : q[Side(t)].lock_waiters[i] = t
               /\ q[Side(t)].lock # NULL \/ \E u \in Threads \ asleep : at[u] = "lock"
    <3>1. Side(t) \in Sides /\ t \in InLock(Side(t)) \cap asleep
      BY <2>1, <2>3, Zenon DEF Side, Sides, InLock
    <3>2. t \in Waiting(q[Side(t)]) /\ Heard(q[Side(t)], asleep, InLock(Side(t)))
      BY <3>1, Zenon DEF SerialIInv, Calm, Orderly
    <3>3. \E i \in DOMAIN q[Side(t)].lock_waiters : q[Side(t)].lock_waiters[i] = t
      BY <3>2 DEF Waiting
    <3> QED
      BY <3>2, <3>3, Zenon DEF Heard, InLock
  <2> QED
    BY <2>1, <2>2, <2>3, Zenon DEF NoLostWakeup
<1> QED
  BY <1>1, SerialInvariant, PTL

(* One thread waits in a queue at a time and holds the lock of the queue    *)
(* while it does: the pointer to a sleeper is never overwritten.            *)
THEOREM QueuesHaveOneWaiter == Spec => []OneWaiter
<1>1. SerialIInv => OneWaiter
  <2> SUFFICES ASSUME SerialIInv, NEW s \in {"tx", "rx"}, NEW t \in Threads
               PROVE  /\ q[s][Waiter(s)] = t => q[s].lock = t /\ t \in asleep
                      /\ q[s].lock = t => at[t] = "wait" \/ panicked = t
                      /\ at[t] = "wait" /\ Side(t) = s => q[s].lock = t
    BY Zenon DEF OneWaiter
  <2>1. Orderly(s, q[s], asleep, InWait(s), InLock(s), panicked)
    BY Zenon DEF SerialIInv, Calm, Sides
  <2> QED
    BY <2>1, Sizes, Zenon DEF Orderly, InWait
<1> QED
  BY <1>1, SerialInvariant, PTL

(* The interrupt enable register is up to date with both queues after every *)
(* step of a thread, an interrupt handler, or the panic.                    *)
THEOREM RegisterFollowsQueues == Spec => []IerFollowsQueues
<1>1. SerialIInv => IerFollowsQueues
  BY Zenon DEF SerialIInv
<1> QED
  BY <1>1, SerialInvariant, PTL
------------------------------------------------------------------------------
(* A queue as a sequence of bytes.                                          *)

(* Where byte i of a queue is whose tail is at a.                           *)
Slot(a, i) == (a + i - 1) % INTQ_BUFSIZE

(* How far it is from slot a to slot h.                                     *)
Dist(h, a) == (h - a) % INTQ_BUFSIZE

LEMMA Around ==
    /\ \A x \in 0 .. INTQ_BUFSIZE - 1 : x % INTQ_BUFSIZE = x
    /\ \A x \in INTQ_BUFSIZE .. 2 * INTQ_BUFSIZE - 1 : x % INTQ_BUFSIZE = x - INTQ_BUFSIZE
    /\ \A x \in 0 - INTQ_BUFSIZE + 1 .. -1 : x % INTQ_BUFSIZE = x + INTQ_BUFSIZE
<1>1. INTQ_BUFSIZE \in Nat /\ INTQ_BUFSIZE > 1
  BY Sizes, Zenon
<1>2. \A x \in 0 .. INTQ_BUFSIZE - 1 : x % INTQ_BUFSIZE = x
  BY <1>1
<1>3. \A x \in INTQ_BUFSIZE .. 2 * INTQ_BUFSIZE - 1 : x % INTQ_BUFSIZE = x - INTQ_BUFSIZE
  BY <1>1
<1>4. \A x \in 0 - INTQ_BUFSIZE + 1 .. -1 : x % INTQ_BUFSIZE = x + INTQ_BUFSIZE
  BY <1>1
<1>5. QED
  BY <1>2, <1>3, <1>4, Zenon

(* The number of bytes, and the slots they are in.                          *)
LEMMA Ring ==
    ASSUME NEW h \in Slots, NEW a \in Slots
    PROVE  /\ Dist(h, a) \in 0 .. INTQ_BUFSIZE - 1
           /\ Dist(h, a) = 0 <=> h = a
           /\ Slot(a, Dist(h, a) + 1) = h
           /\ \A i \in 1 .. Dist(h, a) : Slot(a, i) \in Slots /\ Slot(a, i) # h
           /\ next(h) # a => Dist(next(h), a) = Dist(h, a) + 1
           /\ h # a => /\ Dist(h, next(a)) = Dist(h, a) - 1
                       /\ Slot(a, 1) = a
                       /\ \A i \in 1 .. Dist(h, a) - 1 : Slot(next(a), i) = Slot(a, i + 1)
<1> DEFINE N == INTQ_BUFSIZE
           n == Dist(h, a)
<1>1. N \in Nat /\ N > 1 /\ h \in 0 .. N - 1 /\ a \in 0 .. N - 1
  BY Sizes, Zenon DEF Slots
<1>2. \A x \in Slots : next(x) = IF x = N - 1 THEN 0 ELSE x + 1
  BY <1>1, Around DEF next, Slots
<1>3. n = IF h >= a THEN h - a ELSE h - a + N
  BY <1>1, Around DEF Dist
<1>4. ASSUME NEW i \in 1 .. N, NEW b \in 0 .. N - 1
      PROVE  Slot(b, i) = IF b + i - 1 < N THEN b + i - 1 ELSE b + i - 1 - N
  BY <1>1, <1>4, Around DEF Slot
<1> HIDE DEF n
<1>5. n \in 0 .. N - 1 /\ (n = 0 <=> h = a)
  BY <1>1, <1>3
<1>6. Slot(a, n + 1) = h
  BY <1>1, <1>3, <1>4, <1>5
<1>7. \A i \in 1 .. n : Slot(a, i) \in Slots /\ Slot(a, i) # h
  BY <1>1, <1>3, <1>4, <1>5 DEF Slots
<1>8. next(h) # a => Dist(next(h), a) = n + 1
  BY <1>1, <1>2, <1>3, Around DEF Slots, Dist
<1>9. h # a => Dist(h, next(a)) = n - 1
  BY <1>1, <1>2, <1>3, Around DEF Slots, Dist
<1>10. Slot(a, 1) = a
  BY <1>1, <1>4
<1>11. h # a => \A i \in 1 .. n - 1 : Slot(next(a), i) = Slot(a, i + 1)
  BY <1>1, <1>2, <1>3, <1>4, <1>5 DEF Slots
<1>12. QED
  BY <1>5, <1>6, <1>7, <1>8, <1>9, <1>10, <1>11, Zenon DEF n

LEMMA SameBytes ==
    ASSUME NEW S, NEW b \in Seq(S), NEW c \in Seq(S), Len(b) = Len(c),
           \A i \in 1 .. Len(b) : b[i] = c[i]
    PROVE  b = c
  OBVIOUS

Bytes == Nat \cup {NULL}

LEMMA ContentsIs ==
    ASSUME NEW r \in Queue
    PROVE  /\ Contents(r) \in Seq(Bytes) /\ Len(Contents(r)) = Count(r)
           /\ Count(r) \in 0 .. INTQ_BUFSIZE - 1
           /\ \A i \in 1 .. Count(r) : Contents(r)[i] = r.buf[Slot(r.tail, i)]
           /\ intq_empty(r) <=> Contents(r) = <<>>
<1>1. /\ r.head \in Slots /\ r.tail \in Slots /\ r.buf \in [Slots -> Bytes]
      /\ Count(r) = Dist(r.head, r.tail)
  BY Zenon DEF Queue, Bytes, Count, Dist
<1>2. /\ Count(r) \in 0 .. INTQ_BUFSIZE - 1 /\ (Count(r) = 0 <=> r.head = r.tail)
      /\ \A i \in 1 .. Count(r) : Slot(r.tail, i) \in Slots
  BY <1>1, Ring
<1>3. Contents(r) = [i \in 1 .. Count(r) |-> r.buf[Slot(r.tail, i)]]
  BY Zenon DEF Contents, Slot
<1>4. \A i \in 1 .. Count(r) : r.buf[Slot(r.tail, i)] \in Bytes
  BY <1>1, <1>2, Zenon
<1>5. Count(r) \in Nat
  BY <1>2, Sizes
<1>6. Contents(r) \in Seq(Bytes) /\ Len(Contents(r)) = Count(r)
  BY <1>3, <1>4, <1>5
<1>7. \A i \in 1 .. Count(r) : Contents(r)[i] = r.buf[Slot(r.tail, i)]
  BY <1>3, Zenon
<1>8. Contents(r) = <<>> <=> Count(r) = 0
  BY <1>6
<1>9. QED
  BY <1>2, <1>6, <1>7, <1>8, Zenon DEF intq_empty

(* Locking a queue does not touch its bytes.                                *)
LEMMA SameContents ==
    ASSUME NEW r, NEW r2, r2.buf = r.buf, r2.head = r.head, r2.tail = r.tail
    PROVE  Contents(r2) = Contents(r)
  BY Zenon DEF Contents, Count

(* The end of intq_putc () adds the byte behind the others.                 *)
LEMMA PutContents ==
    ASSUME NEW r \in Queue, NEW byte \in Nat, ~ intq_full(r)
    PROVE  Contents(Put(r, byte)) = Append(Contents(r), byte)
<1> DEFINE p == Put(r, byte)
           n == Count(r)
<1>1. /\ p \in Queue /\ p.head = next(r.head) /\ p.tail = r.tail
      /\ p.buf = [r.buf EXCEPT ![r.head] = byte] /\ byte \in Bytes
  BY PutFields, Zenon DEF Put, Queue, Bytes
<1>2. /\ r.head \in Slots /\ r.tail \in Slots /\ r.buf \in [Slots -> Bytes]
      /\ next(r.head) # r.tail
      /\ n = Dist(r.head, r.tail) /\ Count(p) = Dist(p.head, p.tail)
  BY Zenon DEF Queue, Bytes, intq_full, Count, Dist
<1>3. /\ Count(p) = n + 1 /\ Slot(r.tail, n + 1) = r.head /\ n \in 0 .. INTQ_BUFSIZE - 1
      /\ \A i \in 1 .. n : Slot(r.tail, i) \in Slots /\ Slot(r.tail, i) # r.head
  BY <1>1, <1>2, Ring
<1>4. /\ Contents(r) \in Seq(Bytes) /\ Len(Contents(r)) = n
      /\ \A i \in 1 .. n : Contents(r)[i] = r.buf[Slot(r.tail, i)]
  BY ContentsIs, Zenon
<1>5. /\ Contents(p) \in Seq(Bytes) /\ Len(Contents(p)) = Count(p)
      /\ \A i \in 1 .. Count(p) : Contents(p)[i] = p.buf[Slot(p.tail, i)]
  BY <1>1, ContentsIs, Zenon
<1>6. /\ p.buf[r.head] = byte
      /\ \A i \in 1 .. n : p.buf[Slot(r.tail, i)] = r.buf[Slot(r.tail, i)]
  BY <1>1, <1>2, <1>3, Zenon
<1> HIDE DEF p, n
<1>7. n \in Nat /\ n + 1 \in 1 .. n + 1 /\ \A i \in 1 .. n + 1 : i \in 1 .. n \/ i = n + 1
  BY <1>3, Sizes
<1>8. /\ Append(Contents(r), byte) \in Seq(Bytes) /\ Len(Append(Contents(r), byte)) = n + 1
      /\ Append(Contents(r), byte)[n + 1] = byte
      /\ \A i \in 1 .. n : Append(Contents(r), byte)[i] = Contents(r)[i]
  BY <1>1, <1>4, <1>7
<1>9. ASSUME NEW i \in 1 .. n + 1 PROVE Contents(p)[i] = Append(Contents(r), byte)[i]
  <2>1. Contents(p)[i] = p.buf[Slot(r.tail, i)]
    BY <1>1, <1>3, <1>5, Zenon
  <2>2. CASE i = n + 1
    BY <1>3, <1>6, <1>8, <2>1, <2>2, Zenon
  <2>3. CASE i \in 1 .. n
    BY <1>4, <1>6, <1>8, <2>1, <2>3, Zenon
  <2>4. QED
    BY <1>7, <2>2, <2>3, Zenon
<1>10. Contents(p) = Append(Contents(r), byte)
  <2>1. Len(Contents(p)) = Len(Append(Contents(r), byte))
    BY <1>3, <1>5, <1>8, Zenon
  <2>2. \A i \in 1 .. Len(Contents(p)) : Contents(p)[i] = Append(Contents(r), byte)[i]
    BY <1>3, <1>5, <1>9, Zenon
  <2>3. QED
    BY <1>5, <1>8, <2>1, <2>2, SameBytes
<1>11. QED
  BY <1>10, Zenon DEF p

(* The end of intq_getc () removes the first byte.                          *)
LEMMA TakeContents ==
    ASSUME NEW r \in Queue, ~ intq_empty(r)
    PROVE  /\ Contents(r) # <<>> /\ r.buf[r.tail] = Head(Contents(r))
           /\ Contents(Take(r)) = Tail(Contents(r))
<1> DEFINE p == Take(r)
           n == Count(r)
<1>1. /\ p \in Queue /\ p.head = r.head /\ p.tail = next(r.tail) /\ p.buf = r.buf
  BY TakeFields, Zenon DEF Take, Queue
<1>2. /\ r.head \in Slots /\ r.tail \in Slots /\ r.head # r.tail
      /\ n = Dist(r.head, r.tail) /\ Count(p) = Dist(p.head, p.tail)
  BY Zenon DEF Queue, intq_empty, Count, Dist
<1>3. /\ Count(p) = n - 1 /\ Slot(r.tail, 1) = r.tail /\ n \in 0 .. INTQ_BUFSIZE - 1
      /\ n # 0
      /\ \A i \in 1 .. n - 1 : Slot(next(r.tail), i) = Slot(r.tail, i + 1)
  BY <1>1, <1>2, Ring
<1>4. /\ Contents(r) \in Seq(Bytes) /\ Len(Contents(r)) = n /\ Contents(r) # <<>>
      /\ \A i \in 1 .. n : Contents(r)[i] = r.buf[Slot(r.tail, i)]
  BY ContentsIs, Zenon
<1>5. /\ Contents(p) \in Seq(Bytes) /\ Len(Contents(p)) = Count(p)
      /\ \A i \in 1 .. Count(p) : Contents(p)[i] = p.buf[Slot(p.tail, i)]
  BY <1>1, ContentsIs, Zenon
<1> HIDE DEF p, n
<1>6. n \in Nat /\ n > 0 /\ 1 \in 1 .. n /\ \A i \in 1 .. n - 1 : i + 1 \in 1 .. n
  BY <1>3, Sizes
<1>7. /\ Tail(Contents(r)) \in Seq(Bytes) /\ Len(Tail(Contents(r))) = n - 1
      /\ Head(Contents(r)) = Contents(r)[1]
      /\ \A i \in 1 .. n - 1 : Tail(Contents(r))[i] = Contents(r)[i + 1]
  BY <1>4, <1>6
<1>8. ASSUME NEW i \in 1 .. n - 1 PROVE Contents(p)[i] = Tail(Contents(r))[i]
  <2>1. Contents(p)[i] = r.buf[Slot(next(r.tail), i)]
    BY <1>1, <1>3, <1>5, Zenon
  <2>2. Tail(Contents(r))[i] = r.buf[Slot(r.tail, i + 1)]
    BY <1>4, <1>6, <1>7, Zenon
  <2>3. QED
    BY <1>3, <2>1, <2>2, Zenon
<1>9. Contents(p) = Tail(Contents(r))
  BY <1>3, <1>5, <1>7, <1>8, SameBytes, Zenon
<1>10. QED
  BY <1>3, <1>4, <1>6, <1>7, <1>9, Zenon DEF p
------------------------------------------------------------------------------
(* The two streams.                                                         *)

Wire == sent \o Held(thr)

OutOK ==
    /\ OutputInOrder
    /\ sent \in Seq(Nat) /\ thr \in Bytes /\ printed \in Nat
    /\ Contents(q["tx"]) \in Seq(Nat)

(* A byte in the receiver was not stored before.                            *)
InOK ==
    /\ InputInOrder
    /\ got \in Seq(Nat) /\ Contents(q["rx"]) \in Seq(Nat) /\ arrived \in Nat
    /\ kept \in Seq(1 .. arrived)
    /\ rbr # NULL => rbr \in 1 .. arrived /\ \A i \in DOMAIN kept : kept[i] # rbr

(* Nothing is queued before the driver uses its queue.                      *)
PollOK == mode # "QUEUE" => Contents(q["tx"]) = <<>>

StreamInv == SerialIInv /\ OutOK /\ InOK /\ PollOK

LEMMA Assoc == \A a, b, c \in Seq(Nat) : (a \o b) \o c = a \o (b \o c)
  OBVIOUS

LEMMA Joins ==
    ASSUME NEW a \in Seq(Nat), NEW b \in Seq(Nat)
    PROVE  /\ a \o b \in Seq(Nat)
           /\ a \o <<>> = a /\ <<>> \o a = a
           /\ a # <<>> => /\ Head(a) \in Nat /\ Tail(a) \in Seq(Nat)
                          /\ a = <<Head(a)>> \o Tail(a)
<1>1. a \o b \in Seq(Nat)
  OBVIOUS
<1>3. a \o <<>> = a /\ <<>> \o a = a
  OBVIOUS
<1>4. a # <<>> => Head(a) \in Nat /\ Tail(a) \in Seq(Nat)
  OBVIOUS
<1>5. a # <<>> => a = <<Head(a)>> \o Tail(a)
  OBVIOUS
<1>6. QED
  BY <1>1, <1>3, <1>4, <1>5, Zenon

LEMMA Singles ==
    ASSUME NEW n \in Nat, NEW a \in Seq(Nat)
    PROVE  <<n>> \in Seq(Nat) /\ <<n>> # <<>> /\ Append(a, n) = a \o <<n>>
  OBVIOUS

LEMMA UpTo ==
    ASSUME NEW n \in Nat
    PROVE  [i \in 1 .. n |-> i] \in Seq(Nat)
           /\ [i \in 1 .. n |-> i] \o <<n + 1>> = [i \in 1 .. n + 1 |-> i]
<1>1. [i \in 1 .. n |-> i] \in Seq(Nat) /\ Len([i \in 1 .. n |-> i]) = n
  OBVIOUS
<1>2. [i \in 1 .. n + 1 |-> i] \in Seq(Nat) /\ Len([i \in 1 .. n + 1 |-> i]) = n + 1
  OBVIOUS
<1> DEFINE a == [i \in 1 .. n |-> i]
           b == [i \in 1 .. n + 1 |-> i]
<1>3. \A i \in 1 .. n : a[i] = i
  OBVIOUS
<1>4. \A i \in 1 .. n + 1 : b[i] = i
  OBVIOUS
<1> HIDE DEF a, b
<1>5. /\ a \o <<n + 1>> \in Seq(Nat) /\ Len(a \o <<n + 1>>) = n + 1
      /\ \A i \in 1 .. n : (a \o <<n + 1>>)[i] = a[i]
      /\ (a \o <<n + 1>>)[n + 1] = n + 1
  BY <1>1 DEF a
<1>6. \A i \in 1 .. n + 1 : (a \o <<n + 1>>)[i] = b[i]
  BY <1>3, <1>4, <1>5
<1>7. a \o <<n + 1>> = b
  BY <1>2, <1>5, <1>6, SameBytes DEF b
<1>8. QED
  BY <1>1, <1>7, Zenon DEF a, b

(* The bytes b leave the queue for the wire and the bytes new enter it.     *)
LEMMA OutMoves ==
    ASSUME OutOK, NEW b \in Seq(Nat), NEW new \in Seq(Nat),
           Wire' = Wire \o b, sent' \in Seq(Nat), thr' \in Bytes,
           Contents(q["tx"])' \in Seq(Nat),
           b \o Contents(q["tx"])' = Contents(q["tx"]) \o new,
           \/ new = <<>> /\ printed' = printed
           \/ new = <<printed + 1>> /\ printed' = printed + 1
    PROVE  OutOK'
<1> DEFINE C  == Contents(q["tx"])
           C2 == Contents(q["tx"])'
           P  == [i \in 1 .. printed |-> i]
<1>1. /\ C \in Seq(Nat) /\ C2 \in Seq(Nat) /\ P \in Seq(Nat) /\ printed \in Nat
      /\ P \o <<printed + 1>> = [i \in 1 .. printed + 1 |-> i]
  BY UpTo, Zenon DEF OutOK
<1>2. Wire \in Seq(Nat)
  <2>1. sent \in Seq(Nat) /\ Held(thr) \in Seq(Nat)
    <3>1. CASE thr = NULL
      BY <3>1 DEF OutOK, Held
    <3>2. CASE thr \in Nat
      BY <3>2, Singles, SerialAssumption DEF OutOK, Held
    <3>3. QED
      BY <3>1, <3>2, Zenon DEF OutOK, Bytes
  <2>2. QED
    BY <2>1, Joins, Zenon DEF Wire
<1>3. Wire \o C = P
  BY Zenon DEF OutOK, OutputInOrder, Wire
<1>4. Wire' \o C2 = P \o new
  <2> HIDE DEF C, C2, P
  <2>1. Wire' \o C2 = Wire \o (b \o C2)
    BY <1>1, <1>2, Assoc, Zenon DEF C2
  <2>2. b \o C2 = C \o new
    BY Zenon DEF C, C2
  <2>3. Wire \o (C \o new) = (Wire \o C) \o new
    BY <1>1, <1>2, Assoc, ZenonT(40)
  <2>4. QED
    BY <1>3, <2>1, <2>2, <2>3, Zenon
<1>5. P \o new = [i \in 1 .. printed' |-> i]
  <2>1. CASE new = <<>> /\ printed' = printed
    <3>1. P \o <<>> = P
      BY <1>1, Joins, Zenon
    <3>2. QED
      BY <2>1, <3>1, Zenon
  <2>2. CASE new = <<printed + 1>> /\ printed' = printed + 1
    BY <1>1, <2>2, Zenon
  <2>3. QED
    BY <2>1, <2>2, Zenon
<1>6. OutputInOrder'
  BY <1>4, <1>5, Zenon DEF OutputInOrder, Wire
<1>7. printed' \in Nat
  BY <1>1
<1>8. QED
  BY <1>6, <1>7, Zenon DEF OutOK

(* Nothing happens to the output.                                           *)
LEMMA OutStays ==
    ASSUME OutOK, UNCHANGED <<sent, thr, printed>>,
           Contents(q["tx"])' = Contents(q["tx"])
    PROVE  OutOK'
  BY Zenon DEF OutOK, OutputInOrder

(* putc_poll () of some bytes.                                              *)
LEMMA Polls ==
    ASSUME OutOK, NEW b \in Seq(Nat), putc_poll(b)
    PROVE  Wire' = Wire \o b /\ sent' \in Seq(Nat) /\ thr' \in Bytes
<1> DEFINE f == SubSeq(b, 1, Len(b) - 1)
           e == b[Len(b)]
<1>1. sent \in Seq(Nat) /\ Held(thr) \in Seq(Nat) /\ b # <<>>
  <2>1. CASE thr = NULL
    BY <2>1 DEF OutOK, Held, putc_poll
  <2>2. CASE thr \in Nat
    BY <2>2, Singles, SerialAssumption DEF OutOK, Held, putc_poll
  <2>3. QED
    BY <2>1, <2>2, Zenon DEF OutOK, Bytes
<1>2. Len(b) \in Nat /\ Len(b) > 0
  BY <1>1
<1>3. f \in Seq(Nat) /\ e \in Nat /\ f \o <<e>> = b
  <2>1. /\ f \in Seq(Nat) /\ Len(f) = Len(b) - 1 /\ e \in Nat
        /\ \A i \in 1 .. Len(b) - 1 : f[i] = b[i]
    <3>1. e \in Nat
      BY <1>2
    <3>2. f \in Seq(Nat) /\ Len(f) = Len(b) - 1
      <4>2. \A i \in 1 .. Len(b) - 1 : b[i] \in Nat
        BY <1>2
      <4>3. f = [i \in 1 .. Len(b) - 1 |-> b[i]]
        BY <1>2
      <4>4. Len(b) - 1 \in Nat
        BY <1>2
      <4> HIDE DEF f
      <4>5. QED
        BY <4>2, <4>3, <4>4
    <3>3. \A i \in 1 .. Len(b) - 1 : f[i] = b[i]
      BY <1>2
    <3>4. QED
      BY <3>1, <3>2, <3>3, Zenon
  <2> HIDE DEF f
  <2>2. /\ f \o <<e>> \in Seq(Nat) /\ Len(f \o <<e>>) = Len(b)
        /\ (f \o <<e>>)[Len(b)] = e
        /\ \A i \in 1 .. Len(b) - 1 : (f \o <<e>>)[i] = f[i]
    BY <1>2, <2>1
  <2>3. \A i \in 1 .. Len(b) : (f \o <<e>>)[i] = b[i]
    BY <1>2, <2>1, <2>2
  <2>4. f \o <<e>> = b
    BY <2>2, <2>3, SameBytes
  <2>5. QED
    BY <2>1, <2>4, Zenon
<1>4. sent' = (sent \o Held(thr)) \o f /\ thr' = e
  BY Zenon DEF putc_poll
<1> HIDE DEF f, e
<1>5. Held(thr') = <<e>> /\ <<e>> \in Seq(Nat) /\ thr' \in Bytes
  BY <1>3, <1>4, SerialAssumption, Singles DEF Held, Bytes
<1>6. sent \o Held(thr) \in Seq(Nat)
  BY <1>1, Joins, Zenon
<1>7. ((sent \o Held(thr)) \o f) \o <<e>> = (sent \o Held(thr)) \o (f \o <<e>>)
  BY <1>3, <1>5, <1>6, Assoc, Zenon
<1>8. sent' \in Seq(Nat)
  BY <1>3, <1>4, <1>6, Joins, Zenon
<1>9. Wire' = Wire \o b
  BY <1>3, <1>4, <1>5, <1>7, Zenon DEF Wire
<1>10. QED
  BY <1>5, <1>8, <1>9, Zenon

(* The bytes b are read from the buffer and the bytes new enter it.         *)
LEMMA InFlows ==
    ASSUME InOK, NEW b \in Seq(Nat), NEW new \in Seq(Nat), got' = got \o b,
           Contents(q["rx"])' \in Seq(Nat),
           b \o Contents(q["rx"])' = Contents(q["rx"]) \o new
    PROVE  got' \in Seq(Nat) /\ got' \o Contents(q["rx"])' = kept \o new
<1> DEFINE C  == Contents(q["rx"])
           C2 == Contents(q["rx"])'
<1>1. C \in Seq(Nat) /\ C2 \in Seq(Nat) /\ got \in Seq(Nat) /\ got \o C = kept
  BY Zenon DEF InOK, InputInOrder
<1>2. b \o C2 = C \o new
  BY Zenon
<1>3. got' \in Seq(Nat)
  BY <1>1, Joins, Zenon
<1> HIDE DEF C, C2
<1>4. got' \o C2 = got \o (b \o C2)
  BY <1>1, Assoc, ZenonT(40)
<1>5. got \o (C \o new) = (got \o C) \o new
  BY <1>1, Assoc, ZenonT(40)
<1>6. QED
  BY <1>1, <1>2, <1>3, <1>4, <1>5, Zenon DEF C2

(* Bytes are numbered as they arrive, so what a handler stores is new.      *)
LEMMA KeptFresh ==
    ASSUME InOK, NEW k, k \in 1 .. arrived', arrived' \in Nat, arrived <= arrived',
           \A i \in DOMAIN kept : kept[i] # k
    PROVE  /\ Append(kept, k) \in Seq(1 .. arrived')
           /\ \A i, j \in DOMAIN Append(kept, k) :
                 i # j => Append(kept, k)[i] # Append(kept, k)[j]
           /\ \A x : x # k /\ (\A i \in DOMAIN kept : kept[i] # x)
                 => \A i \in DOMAIN Append(kept, k) : Append(kept, k)[i] # x
<1>1. /\ arrived \in Nat /\ kept \in Seq(1 .. arrived)
      /\ \A i, j \in DOMAIN kept : i # j => kept[i] # kept[j]
  BY Zenon DEF InOK, InputInOrder
<1>2. kept \in Seq(1 .. arrived')
  BY <1>1
<1>3. /\ Append(kept, k) \in Seq(1 .. arrived')
      /\ DOMAIN Append(kept, k) = 1 .. Len(kept) + 1 /\ DOMAIN kept = 1 .. Len(kept)
      /\ Len(kept) \in Nat
      /\ Append(kept, k)[Len(kept) + 1] = k
      /\ \A i \in 1 .. Len(kept) : Append(kept, k)[i] = kept[i]
  BY <1>2
<1>4. \A i \in 1 .. Len(kept) + 1 : i \in 1 .. Len(kept) \/ i = Len(kept) + 1
  BY <1>3
<1>5. ASSUME NEW i \in DOMAIN Append(kept, k), NEW j \in DOMAIN Append(kept, k), i # j
      PROVE  Append(kept, k)[i] # Append(kept, k)[j]
  BY <1>1, <1>3, <1>4, <1>5, Zenon
<1>6. ASSUME NEW x, x # k, \A i \in DOMAIN kept : kept[i] # x,
             NEW i \in DOMAIN Append(kept, k)
      PROVE  Append(kept, k)[i] # x
  BY <1>3, <1>4, <1>6, Zenon
<1>7. QED
  BY <1>3, <1>5, <1>6, Zenon

(* Nothing happens to the input.                                            *)
LEMMA InStays ==
    ASSUME InOK, UNCHANGED <<got, kept, rbr, arrived>>,
           Contents(q["rx"])' = Contents(q["rx"])
    PROVE  InOK'
  BY ZenonT(40) DEF InOK, InputInOrder

(* intq_putc () by a handler.                                               *)
LEMMA InStores ==
    ASSUME SerialIInv, InOK, NEW k \in Nat, ~ intq_full(q["rx"]),
           q'["rx"] = Put(q["rx"], k), kept' = Append(kept, k), UNCHANGED got,
           k \in 1 .. arrived', arrived' \in Nat, arrived <= arrived',
           \A i \in DOMAIN kept : kept[i] # k,
           rbr' = NULL \/ (rbr' = rbr /\ k # rbr)
    PROVE  InOK'
<1> DEFINE C == Contents(q["rx"])
<1>1. q["rx"] \in Queue /\ C \in Seq(Nat) /\ got \in Seq(Nat) /\ <<k>> \in Seq(Nat)
  BY Singles, Zenon DEF InOK, SerialIInv, Queues, Sides
<1>2. Contents(q'["rx"]) = Append(C, k) /\ Append(C, k) = C \o <<k>>
  BY <1>1, PutContents, Singles, Zenon
<1>3. C \o <<k>> \in Seq(Nat) /\ <<>> \o (C \o <<k>>) = C \o <<k>> /\ got \o <<>> = got
  BY <1>1, Joins
<1>4. Contents(q["rx"])' = C \o <<k>>
  BY <1>2, Zenon
<1>5. <<>> \in Seq(Nat)
  OBVIOUS
<1>6. got' \in Seq(Nat) /\ got' \o Contents(q["rx"])' = kept \o <<k>>
  BY <1>1, <1>3, <1>4, <1>5, InFlows
<1>7. /\ kept' \in Seq(1 .. arrived')
      /\ \A i, j \in DOMAIN kept' : i # j => kept'[i] # kept'[j]
      /\ \A x : x # k /\ (\A i \in DOMAIN kept : kept[i] # x)
            => \A i \in DOMAIN kept' : kept'[i] # x
  BY KeptFresh
<1>8. kept' = kept \o <<k>>
  BY DEF InOK
<1>9. rbr' # NULL => rbr' \in 1 .. arrived' /\ \A i \in DOMAIN kept' : kept'[i] # rbr'
  <2>1. SUFFICES ASSUME rbr' # NULL PROVE rbr' \in 1 .. arrived' /\ \A i \in DOMAIN kept' : kept'[i] # rbr'
    BY Zenon
  <2>2. rbr' = rbr /\ k # rbr /\ rbr \in 1 .. arrived /\ \A i \in DOMAIN kept : kept[i] # rbr
    BY <2>1, Zenon DEF InOK
  <2>3. rbr \in 1 .. arrived'
    BY <2>2 DEF InOK
  <2>4. QED
    BY <1>7, <2>2, <2>3, Zenon
<1>10. QED
  BY <1>3, <1>4, <1>6, <1>7, <1>8, <1>9, Zenon DEF InOK, InputInOrder

(* intq_getc () by a reader.                                                *)
LEMMA InReads ==
    ASSUME InOK, NEW r \in Queue, Contents(r) = Contents(q["rx"]), ~ intq_empty(r),
           q'["rx"] = Take(r), got' = Append(got, r.buf[r.tail]),
           UNCHANGED <<kept, rbr, arrived>>
    PROVE  InOK'
<1> DEFINE C == Contents(q["rx"])
<1>1. C \in Seq(Nat) /\ got \in Seq(Nat) /\ kept \in Seq(1 .. arrived)
  BY Zenon DEF InOK
<1>2. C # <<>> /\ r.buf[r.tail] = Head(C) /\ Contents(q'["rx"]) = Tail(C)
  BY TakeContents, Zenon
<1>3. Contents(q["rx"])' = Tail(C)
  BY <1>2, Zenon
<1> HIDE DEF C
<1>4. Head(C) \in Nat /\ Tail(C) \in Seq(Nat) /\ C = <<Head(C)>> \o Tail(C) /\ C \o <<>> = C
  BY <1>1, <1>2, Joins, Zenon
<1>5. <<Head(C)>> \in Seq(Nat) /\ got' = got \o <<Head(C)>>
  BY <1>1, <1>2, <1>4, Singles, Zenon
<1>6. <<>> \in Seq(Nat) /\ kept \o <<>> = kept
  BY <1>1
<1>7. <<Head(C)>> \o Contents(q["rx"])' = Contents(q["rx"]) \o <<>>
  BY <1>3, <1>4, Zenon DEF C
<1>8. got' \in Seq(Nat) /\ got' \o Contents(q["rx"])' = kept
  BY <1>3, <1>4, <1>5, <1>6, <1>7, InFlows
<1>9. QED
  BY <1>3, <1>4, <1>8, Zenon DEF InOK, InputInOrder

(* intq_putc () by a printing thread.                                       *)
LEMMA OutStores ==
    ASSUME OutOK, NEW r \in Queue, Contents(r) = Contents(q["tx"]), ~ intq_full(r),
           q'["tx"] = Put(r, printed + 1), printed' = printed + 1, UNCHANGED <<sent, thr>>
    PROVE  OutOK'
<1> DEFINE C == Contents(q["tx"])
<1>1. /\ C \in Seq(Nat) /\ printed + 1 \in Nat /\ sent \in Seq(Nat) /\ thr \in Bytes
  BY DEF OutOK
<1>2. Contents(q'["tx"]) = Append(C, printed + 1)
  BY <1>1, PutContents, Zenon
<1>3. Contents(q["tx"])' = Append(C, printed + 1)
  BY <1>2, Zenon
<1>4. OutputInOrder /\ Held(thr) \in Seq(Nat)
  <2>1. CASE thr = NULL
    BY <2>1 DEF OutOK, Held
  <2>2. CASE thr \in Nat
    BY <2>2, Singles, SerialAssumption DEF OutOK, Held
  <2>3. QED
    BY <2>1, <2>2, Zenon DEF OutOK, Bytes
<1>5. Wire \in Seq(Nat) /\ <<>> \in Seq(Nat) /\ <<printed + 1>> \in Seq(Nat)
  BY <1>1, <1>4 DEF Wire
<1>6. Wire' = Wire /\ Wire \o <<>> = Wire
  <2>1. Wire' = Wire
    BY Zenon DEF Wire, Held
  <2>2. QED
    BY <1>5, <2>1, Joins, Zenon
<1>7. Append(C, printed + 1) = C \o <<printed + 1>> /\ C \o <<printed + 1>> \in Seq(Nat)
  BY <1>1, <1>5, Singles, Joins, Zenon
<1>8. <<>> \o (C \o <<printed + 1>>) = C \o <<printed + 1>>
  BY <1>7, Joins, Zenon
<1>9. QED
  BY <1>1, <1>3, <1>5, <1>6, <1>7, <1>8, OutMoves

(* The loops of intq_getc () and intq_putc () touch no byte.                *)
LEMMA LoopedBytes ==
    ASSUME SerialIInv, NEW t \in Threads, t \notin asleep, at[t] # "lock",
           NEW s \in Sides, s = Side(t)
    PROVE  Looping(t, q[s]) \in Queue /\ Contents(Looping(t, q[s])) = Contents(q[s])
<1>1. /\ Looping(t, q[s]) \in Queue /\ q[s] \in Queue
      /\ Looping(t, q[s]).head = q[s].head /\ Looping(t, q[s]).tail = q[s].tail
  BY Looped, Zenon DEF SerialIInv, Queues
<1>2. Looping(t, q[s]).buf = q[s].buf
  BY <1>1, Zenon DEF Looping, Unlock, Queue
<1>3. QED
  BY <1>1, <1>2, SameContents, Zenon

LEMMA JoinedBytes ==
    ASSUME NEW s \in Sides, NEW r \in Queue, NEW t \in Threads
    PROVE  Contents(Joined(s, r, t)) = Contents(r)
<1>1. Joined(s, r, t).head = r.head /\ Joined(s, r, t).tail = r.tail
  BY JoinedFields, Zenon
<1>2. Joined(s, r, t).buf = r.buf
  <2>1. CASE s = "tx"
    BY <2>1, Zenon DEF Joined, Waiter, Queue
  <2>2. CASE s = "rx"
    BY <2>2, Zenon DEF Joined, Waiter, Queue
  <2>3. QED
    BY <2>1, <2>2, Zenon DEF Sides
<1>3. QED
  BY <1>1, <1>2, SameContents, Zenon
------------------------------------------------------------------------------
(* The steps.                                                               *)

LEMMA PutcStreams ==
    ASSUME StreamInv, NEW t \in Threads, serial_putc(t)
    PROVE  OutOK' /\ InOK' /\ PollOK'
<1> DEFINE r == Looping(t, q["tx"])
<1>1. /\ pc[t] = "print" /\ t \notin asleep /\ at[t] # "lock" /\ Side(t) = "tx"
      /\ mode = "QUEUE" /\ mode' = mode
      /\ UNCHANGED <<rbr, arrived, kept, got>>
  BY Zenon DEF serial_putc, Runs, Side
<1>2. /\ SerialIInv /\ OutOK /\ InOK /\ q \in [Sides -> Queue] /\ "tx" \in Sides /\ "rx" \in Sides
      /\ "tx" # "rx"
  BY Zenon DEF StreamInv, SerialIInv, Queues, Sides
<1>3. r \in Queue /\ Contents(r) = Contents(q["tx"])
  BY <1>1, <1>2, LoopedBytes, Zenon
<1>4. PollOK'
  BY <1>1, Zenon DEF PollOK
<1>5. CASE ~ intq_full(r) /\ q' = [q EXCEPT !["tx"] = Put(r, printed + 1)]
           /\ printed' = printed + 1 /\ NoPoll
  <2>1. q'["tx"] = Put(r, printed + 1) /\ q'["rx"] = q["rx"]
    BY <1>2, <1>5, Zenon
  <2> HIDE DEF r
  <2>2. OutOK'
    BY <1>2, <1>3, <1>5, <2>1, OutStores, Zenon DEF NoPoll
  <2>3. InOK'
    BY <1>1, <1>2, <2>1, InStays, Zenon
  <2>4. QED
    BY <1>4, <2>2, <2>3, Zenon
<1>6. CASE Sleep(t, "tx", r, LetIn(t, q["tx"])) /\ UNCHANGED <<printed, sent, thr>>
  <2>1. q'["tx"] = Joined("tx", r, t) /\ q'["rx"] = q["rx"]
    BY <1>2, <1>6, Zenon DEF Sleep, Joined
  <2> HIDE DEF r
  <2>2. Contents(q["tx"])' = Contents(q["tx"])
    <3>1. Contents(Joined("tx", r, t)) = Contents(r)
      BY <1>2, <1>3, JoinedBytes, Zenon
    <3>2. QED
      BY <1>3, <2>1, <3>1, Zenon
  <2>3. QED
    BY <1>1, <1>2, <1>4, <1>6, <2>1, <2>2, OutStays, InStays, Zenon
<1>7. QED
  BY <1>5, <1>6, Zenon DEF serial_putc

LEMMA GetcStreams ==
    ASSUME StreamInv, NEW t \in Threads, input_getc(t)
    PROVE  OutOK' /\ InOK' /\ PollOK'
<1> DEFINE r == Looping(t, q["rx"])
<1>1. /\ pc[t] = "run" /\ t \notin asleep /\ at[t] # "lock" /\ Side(t) = "rx"
      /\ mode = "QUEUE" /\ mode' = mode
      /\ UNCHANGED <<rbr, printed, arrived, kept>>
  BY Zenon DEF input_getc, Runs, Side, Booting
<1>2. /\ SerialIInv /\ OutOK /\ InOK /\ q \in [Sides -> Queue] /\ "tx" \in Sides /\ "rx" \in Sides
      /\ "tx" # "rx"
  BY Zenon DEF StreamInv, SerialIInv, Queues, Sides
<1>3. r \in Queue /\ Contents(r) = Contents(q["rx"])
  BY <1>1, <1>2, LoopedBytes, Zenon
<1>4. PollOK'
  BY <1>1, Zenon DEF PollOK
<1>5. CASE ~ intq_empty(r) /\ q' = [q EXCEPT !["rx"] = Take(r)]
           /\ got' = Append(got, r.buf[r.tail]) /\ NoPoll
  <2>1. q'["rx"] = Take(r) /\ q'["tx"] = q["tx"]
    BY <1>2, <1>5, Zenon
  <2> HIDE DEF r
  <2>2. InOK'
    BY <1>1, <1>2, <1>3, <1>5, <2>1, InReads, Zenon
  <2>3. OutOK'
    BY <1>1, <1>2, <1>5, <2>1, OutStays, Zenon DEF NoPoll
  <2>4. QED
    BY <1>4, <2>2, <2>3, Zenon
<1>6. CASE Sleep(t, "rx", r, LetIn(t, q["rx"])) /\ UNCHANGED <<got, sent, thr>>
  <2>1. q'["rx"] = Joined("rx", r, t) /\ q'["tx"] = q["tx"]
    BY <1>2, <1>6, Zenon DEF Sleep, Joined
  <2> HIDE DEF r
  <2>2. Contents(q["rx"])' = Contents(q["rx"])
    <3>1. Contents(Joined("rx", r, t)) = Contents(r)
      BY <1>2, <1>3, JoinedBytes, Zenon
    <3>2. QED
      BY <1>3, <2>1, <3>1, Zenon
  <2>3. QED
    BY <1>1, <1>2, <1>4, <1>6, <2>1, <2>2, OutStays, InStays, Zenon
<1>7. QED
  BY <1>5, <1>6, Zenon DEF input_getc

(* A step that moves no byte.                                               *)
LEMMA NoByte ==
    ASSUME StreamInv, UNCHANGED history, UNCHANGED <<thr, rbr>>,
           mode' = mode \/ mode' = "QUEUE",
           \A s \in Sides : Contents(q[s])' = Contents(q[s])
    PROVE  OutOK' /\ InOK' /\ PollOK'
<1>1. /\ OutOK /\ InOK /\ PollOK /\ UNCHANGED <<printed, arrived, sent, kept, got>>
      /\ Contents(q["tx"])' = Contents(q["tx"]) /\ Contents(q["rx"])' = Contents(q["rx"])
  BY Zenon DEF StreamInv, history, Sides
<1>2. QED
  BY <1>1, OutStays, InStays, Zenon DEF PollOK

LEMMA LockAcquireStreams ==
    ASSUME StreamInv, NEW t \in Threads, LockAcquire(t)
    PROVE  OutOK' /\ InOK' /\ PollOK'
<1>1. PICK s \in Sides :
         \/ Sleep(t, s, q[s], {})
         \/ q' = [q EXCEPT ![s].lock = t]
  BY Zenon DEF LockAcquire, Sides
<1>2. q \in [Sides -> Queue] /\ UNCHANGED history /\ UNCHANGED <<thr, rbr, mode>>
  BY Zenon DEF StreamInv, SerialIInv, Queues, LockAcquire, uart
<1>3. ASSUME NEW o \in Sides PROVE Contents(q[o])' = Contents(q[o])
  <2>1. CASE o # s
    BY <1>1, <1>2, <2>1, Zenon DEF Sleep
  <2>2. CASE o = s /\ Sleep(t, s, q[s], {})
    <3>1. q'[s] = Joined(s, q[s], t)
      BY <1>2, <2>2, Zenon DEF Sleep, Joined
    <3>2. Contents(Joined(s, q[s], t)) = Contents(q[s])
      BY <1>2, JoinedBytes, Zenon
    <3>3. QED
      BY <2>2, <3>1, <3>2, Zenon
  <2>3. CASE o = s /\ q' = [q EXCEPT ![s].lock = t]
    <3>1. q'[s] = [q[s] EXCEPT !.lock = t] /\ q[s] \in Queue
      BY <1>2, <2>3, Zenon
    <3>2. q'[s].buf = q[s].buf /\ q'[s].head = q[s].head /\ q'[s].tail = q[s].tail
      BY <3>1, Zenon DEF Queue
    <3>3. QED
      BY <2>3, <3>2, SameContents, Zenon
  <2>4. QED
    BY <1>1, <2>1, <2>2, <2>3, Zenon
<1>4. QED
  BY <1>2, <1>3, NoByte, Zenon

LEMMA PolledStreams ==
    ASSUME StreamInv, NEW t \in Threads, PutPolled(t)
    PROVE  OutOK' /\ InOK' /\ PollOK'
<1> DEFINE C == Contents(q["tx"])
           b == <<printed + 1>>
<1>1. /\ OutOK /\ InOK /\ C = <<>> /\ printed' = printed + 1 /\ putc_poll(b)
      /\ q' = q /\ UNCHANGED <<rbr, arrived, kept, got>>
  BY Zenon DEF StreamInv, PollOK, PutPolled
<1>2. printed + 1 \in Nat /\ b \in Seq(Nat) /\ <<>> \in Seq(Nat)
  BY <1>1 DEF OutOK
<1>3. Contents(q["tx"])' = <<>>
  BY <1>1, Zenon
<1>4. b \o <<>> = b /\ <<>> \o b = b
  BY <1>2, Joins, Zenon
<1>5. Wire' = Wire \o b /\ sent' \in Seq(Nat) /\ thr' \in Bytes
  BY <1>1, <1>2, Polls
<1> HIDE DEF C
<1>6. b \o Contents(q["tx"])' = Contents(q["tx"]) \o b
  BY <1>1, <1>3, <1>4, Zenon DEF C
<1>7. OutOK'
  BY <1>1, <1>2, <1>3, <1>5, <1>6, OutMoves
<1>8. InOK'
  BY <1>1, InStays, Zenon
<1>9. QED
  BY <1>3, <1>7, <1>8, Zenon DEF PollOK

(* The oldest byte of a full queue goes to putc_poll () to make room.       *)
LEMMA PanicPutcStreams ==
    ASSUME StreamInv, NEW t \in Threads, PanicPutc(t)
    PROVE  OutOK' /\ InOK' /\ PollOK'
<1> DEFINE tx == q["tx"]
           C  == Contents(tx)
           new == <<printed + 1>>
<1>1. /\ OutOK /\ InOK /\ mode = "QUEUE" /\ printed' = printed + 1
      /\ UNCHANGED <<mode, rbr, arrived, kept, got>>
      /\ q \in [Sides -> Queue] /\ tx \in Queue /\ "tx" # "rx"
  BY Zenon DEF StreamInv, SerialIInv, Queues, Sides, PanicPutc
<1>2. printed + 1 \in Nat /\ new \in Seq(Nat) /\ C \in Seq(Nat)
  BY <1>1 DEF OutOK
<1>3. q'["rx"] = q["rx"]
  BY <1>1, Zenon DEF PanicPutc, Sides
<1>4. InOK' /\ PollOK'
  BY <1>1, <1>3, InStays, Zenon DEF PollOK
<1>5. CASE ~ intq_full(tx)
  <2>1. q'["tx"] = Put(tx, printed + 1) /\ UNCHANGED <<sent, thr>>
    BY <1>1, <1>5, Zenon DEF PanicPutc, NoPoll, Sides
  <2>2. OutOK'
    BY <1>1, <1>5, <2>1, OutStores, Zenon
  <2>3. QED
    BY <1>4, <2>2, Zenon
<1>6. CASE intq_full(tx)
  <2> DEFINE r == Take(tx)
             e == tx.buf[tx.tail]
             b == <<e>>
  <2>1. q'["tx"] = Put(r, printed + 1) /\ putc_poll(b)
    BY <1>1, <1>6, Zenon DEF PanicPutc, Sides
  <2>2. r \in Queue /\ r.head = tx.head /\ r.tail = next(tx.tail)
    BY <1>1, TakeFields, Zenon
  <2>3. ~ intq_empty(tx) /\ ~ intq_full(r)
    <3>1. /\ tx.head \in Slots /\ tx.tail \in Slots /\ next(tx.head) = tx.tail
          /\ next(tx.head) # tx.head
      BY <1>1, <1>6, Sizes, Zenon DEF Queue, intq_full
    <3>2. next(next(tx.head)) # next(tx.head)
      BY <3>1, Sizes, Zenon
    <3>3. QED
      BY <2>2, <3>1, <3>2, Zenon DEF intq_empty, intq_full
  <2>4. C # <<>> /\ e = Head(C) /\ Contents(r) = Tail(C)
    BY <1>1, <2>3, TakeContents, Zenon
  <2>5. Contents(Put(r, printed + 1)) = Append(Contents(r), printed + 1)
    BY <1>2, <2>2, <2>3, PutContents, Zenon
  <2> HIDE DEF C, r, e, tx
  <2>6. /\ e \in Nat /\ Tail(C) \in Seq(Nat) /\ C = b \o Tail(C) /\ b \in Seq(Nat)
    BY <1>2, <2>4, Joins, Singles, Zenon
  <2>7. Contents(q["tx"])' = Tail(C) \o new /\ Tail(C) \o new \in Seq(Nat)
    <3>1. Contents(q["tx"])' = Append(Tail(C), printed + 1)
      BY <2>1, <2>4, <2>5, Zenon
    <3>2. Append(Tail(C), printed + 1) = Tail(C) \o new
      BY <1>2, <2>6, Singles, Zenon
    <3>3. Tail(C) \o new \in Seq(Nat)
      BY <1>2, <2>6, Joins, Zenon
    <3>4. QED
      BY <3>1, <3>2, <3>3, Zenon
  <2>8. b \o (Tail(C) \o new) = (b \o Tail(C)) \o new
    BY <1>2, <2>6, Assoc, Zenon
  <2>9. b \o Contents(q["tx"])' = Contents(q["tx"]) \o new
    BY <2>6, <2>7, <2>8, Zenon DEF C, tx
  <2>10. Wire' = Wire \o b /\ sent' \in Seq(Nat) /\ thr' \in Bytes
    BY <1>1, <2>1, <2>6, Polls
  <2>11. OutOK'
    BY <1>1, <1>2, <2>6, <2>7, <2>9, <2>10, OutMoves
  <2>12. QED
    BY <1>4, <2>11, Zenon
<1>7. QED
  BY <1>5, <1>6, Zenon

LEMMA FlushStreams ==
    ASSUME StreamInv, NEW t \in Threads, serial_flush(t)
    PROVE  OutOK' /\ InOK' /\ PollOK'
<1> DEFINE tx == q["tx"]
           C  == Contents(tx)
<1>1. /\ OutOK /\ InOK /\ PollOK /\ UNCHANGED <<mode, rbr, printed, arrived, kept, got>>
      /\ q \in [Sides -> Queue] /\ tx \in Queue /\ "tx" # "rx" /\ C \in Seq(Nat)
      /\ printed \in Nat
  BY Zenon DEF StreamInv, SerialIInv, Queues, Sides, serial_flush, OutOK
<1>2. /\ q'["rx"] = q["rx"] /\ q'["tx"] \in Queue
      /\ q'["tx"].tail = tx.head /\ q'["tx"].head = tx.head
  <2>1. NULL \in Nobody /\ tx.not_full \in Nobody
    BY <1>1, Zenon DEF Queue, Nobody
  <2>2. \E x \in Nobody : q' = [q EXCEPT !["tx"].tail = tx.head, !["tx"].not_full = x]
    BY <2>1, Zenon DEF serial_flush
  <2>3. PICK x \in Nobody : q' = [q EXCEPT !["tx"].tail = tx.head, !["tx"].not_full = x]
    BY <2>2, Zenon
  <2>4. q'["rx"] = q["rx"] /\ q'["tx"] = [tx EXCEPT !.tail = tx.head, !.not_full = x]
    BY <1>1, <2>3 DEF Sides
  <2>5. QED
    BY <1>1, <2>4, Zenon DEF Queue
<1>3. Contents(q["tx"])' = <<>>
  <2>1. intq_empty(q'["tx"])
    BY <1>2, Zenon DEF intq_empty
  <2>2. Contents(q'["tx"]) = <<>>
    BY <1>2, <2>1, ContentsIs, Zenon
  <2>3. QED
    BY <2>2, Zenon
<1>4. InOK' /\ PollOK'
  BY <1>1, <1>2, <1>3, InStays, Zenon DEF PollOK
<1>5. CASE intq_empty(tx)
  <2>1. C = <<>> /\ UNCHANGED <<sent, thr>>
    BY <1>1, <1>5, ContentsIs, Zenon DEF serial_flush, NoPoll
  <2>2. OutOK'
    BY <1>1, <1>3, <2>1, OutStays, Zenon
  <2>3. QED
    BY <1>4, <2>2, Zenon
<1>6. CASE ~ intq_empty(tx)
  <2>1. putc_poll(C)
    BY <1>6, Zenon DEF serial_flush
  <2> HIDE DEF C
  <2>2. Wire' = Wire \o C /\ sent' \in Seq(Nat) /\ thr' \in Bytes
    BY <1>1, <2>1, Polls
  <2>3. <<>> \in Seq(Nat)
    OBVIOUS
  <2>4. C \o Contents(q["tx"])' = Contents(q["tx"]) \o <<>>
    BY <1>3, Zenon DEF C
  <2>5. OutOK'
    BY <1>1, <1>3, <2>2, <2>3, <2>4, OutMoves
  <2>6. QED
    BY <1>4, <2>5, Zenon
<1>7. QED
  BY <1>5, <1>6, Zenon

(* A byte arrives, in the receiver or at a full buffer.                     *)
LEMMA InArrives ==
    ASSUME InOK, UNCHANGED <<got, kept>>, Contents(q["rx"])' = Contents(q["rx"]),
           arrived' = arrived + 1, rbr' = rbr \/ rbr' = arrived + 1
    PROVE  InOK'
<1>1. /\ arrived \in Nat /\ kept \in Seq(1 .. arrived) /\ InputInOrder'
      /\ got' \in Seq(Nat) /\ Contents(q["rx"])' \in Seq(Nat)
      /\ rbr # NULL => rbr \in 1 .. arrived /\ \A i \in DOMAIN kept : kept[i] # rbr
  BY ZenonT(40) DEF InOK, InputInOrder
<1>2. arrived' \in Nat /\ 1 .. arrived \subseteq 1 .. arrived' /\ arrived + 1 \in 1 .. arrived'
  BY <1>1
<1>3. kept' \in Seq(1 .. arrived')
  BY <1>1, <1>2
<1>4. \A i \in DOMAIN kept : kept[i] \in 1 .. arrived
  BY <1>1
<1>5. \A i \in DOMAIN kept : kept[i] # arrived + 1
  BY <1>1, <1>4
<1>6. rbr' # NULL => rbr' \in 1 .. arrived' /\ \A i \in DOMAIN kept' : kept'[i] # rbr'
  BY <1>1, <1>2, <1>5, Zenon
<1>7. QED
  BY <1>1, <1>2, <1>3, <1>6, Zenon DEF InOK

LEMMA FreshArrival ==
    ASSUME InOK
    PROVE  /\ arrived + 1 \in Nat /\ arrived + 1 \in 1 .. arrived + 1
           /\ arrived <= arrived + 1 /\ arrived + 1 # rbr
           /\ \A i \in DOMAIN kept : kept[i] # arrived + 1
<1>1. arrived \in Nat /\ kept \in Seq(1 .. arrived) /\ (rbr # NULL => rbr \in 1 .. arrived)
  BY Zenon DEF InOK
<1>2. \A i \in DOMAIN kept : kept[i] \in 1 .. arrived
  BY <1>1
<1>3. arrived + 1 # NULL
  BY <1>1, SerialAssumption
<1>4. QED
  BY <1>1, <1>2, <1>3

LEMMA KeyStreams ==
    ASSUME StreamInv, keyboard_interrupt
    PROVE  OutOK' /\ InOK' /\ PollOK'
<1>1. /\ SerialIInv /\ OutOK /\ InOK /\ PollOK /\ UNCHANGED <<mode, rbr, printed, got, sent, thr>>
      /\ arrived' = arrived + 1 /\ q \in [Sides -> Queue] /\ "tx" # "rx"
  BY Zenon DEF StreamInv, SerialIInv, Queues, Sides, keyboard_interrupt, NoPoll
<1>2. q'["tx"] = q["tx"]
  BY <1>1, Zenon DEF keyboard_interrupt, Sides
<1>3. OutOK' /\ PollOK'
  BY <1>1, <1>2, OutStays, Zenon DEF PollOK
<1>4. CASE ~ intq_full(q["rx"])
  <2>1. q'["rx"] = Put(q["rx"], arrived + 1) /\ kept' = Append(kept, arrived + 1)
    BY <1>1, <1>4, Zenon DEF keyboard_interrupt, Sides
  <2>2. /\ arrived + 1 \in Nat /\ arrived + 1 \in 1 .. arrived' /\ arrived' \in Nat
        /\ arrived <= arrived' /\ arrived + 1 # rbr
        /\ \A i \in DOMAIN kept : kept[i] # arrived + 1
    BY <1>1, FreshArrival, Zenon
  <2>3. InOK'
    BY <1>1, <1>4, <2>1, <2>2, InStores
  <2>4. QED
    BY <1>3, <2>3, Zenon
<1>5. CASE intq_full(q["rx"])
  <2>1. q' = q /\ kept' = kept
    BY <1>5, Zenon DEF keyboard_interrupt
  <2>2. InOK'
    BY <1>1, <2>1, InArrives, Zenon
  <2>3. QED
    BY <1>3, <2>2, Zenon
<1>6. QED
  BY <1>4, <1>5, Zenon

LEMMA SerialInterruptStreams ==
    ASSUME StreamInv, serial_interrupt
    PROVE  OutOK' /\ InOK' /\ PollOK'
<1> DEFINE tx == q["tx"]
           rx == q["rx"]
           C  == Contents(tx)
           recv == ~ intq_full(rx) /\ rbr # NULL
           xmit == ~ intq_empty(tx) /\ thr = NULL
<1>1. /\ SerialIInv /\ OutOK /\ InOK /\ PollOK /\ UNCHANGED <<mode, printed, arrived, sent, got>>
      /\ q \in [Sides -> Queue] /\ tx \in Queue /\ rx \in Queue /\ "tx" # "rx"
  BY Zenon DEF StreamInv, SerialIInv, Queues, Sides, serial_interrupt
<1>2. /\ q'["rx"] = IF recv THEN Put(rx, rbr) ELSE rx
      /\ q'["tx"] = IF xmit THEN Take(tx) ELSE tx
  BY <1>1 DEF serial_interrupt, Sides
<1>3. /\ kept' = IF recv THEN Append(kept, rbr) ELSE kept
      /\ rbr' = IF recv THEN NULL ELSE rbr
      /\ thr' = IF xmit THEN tx.buf[tx.tail] ELSE thr
  BY Zenon DEF serial_interrupt
<1>4. InOK'
  <2>1. CASE recv
    <3>1. /\ ~ intq_full(q["rx"]) /\ q'["rx"] = Put(q["rx"], rbr)
          /\ kept' = Append(kept, rbr) /\ rbr' = NULL
      BY <1>2, <1>3, <2>1, Zenon
    <3>2. /\ rbr \in 1 .. arrived /\ arrived \in Nat
          /\ \A i \in DOMAIN kept : kept[i] # rbr
      BY <1>1, <2>1, Zenon DEF InOK
    <3>3. rbr \in Nat /\ rbr \in 1 .. arrived' /\ arrived' \in Nat /\ arrived <= arrived'
      BY <1>1, <3>2
    <3>4. QED
      BY <1>1, <3>1, <3>2, <3>3, InStores
  <2>2. CASE ~ recv
    BY <1>1, <1>2, <1>3, <2>2, InStays, Zenon
  <2>3. QED
    BY <2>1, <2>2, Zenon
<1>5. CASE xmit
  <2> DEFINE e == tx.buf[tx.tail]
             b == <<e>>
  <2>1. C # <<>> /\ e = Head(C) /\ Contents(Take(tx)) = Tail(C)
    BY <1>1, <1>5, TakeContents, Zenon
  <2>2. C \in Seq(Nat) /\ sent \in Seq(Nat) /\ printed \in Nat
    BY <1>1, Zenon DEF OutOK
  <2>3. Contents(q["tx"])' = Tail(C)
    BY <1>2, <1>5, <2>1, Zenon
  <2>4. thr = NULL /\ thr' = e
    BY <1>3, <1>5, Zenon
  <2> HIDE DEF C, e, tx
  <2>5. e \in Nat /\ Tail(C) \in Seq(Nat) /\ C = b \o Tail(C)
    BY <2>1, <2>2, Joins, Zenon
  <2>6. b \in Seq(Nat) /\ <<>> \in Seq(Nat) /\ e # NULL
    BY <2>5, SerialAssumption
  <2>7. Held(thr) = <<>> /\ Held(thr)' = b /\ sent \o <<>> = sent
    BY <2>2, <2>4, <2>6, Joins, Zenon DEF Held
  <2>8. Wire' = Wire \o b
    BY <1>1, <2>7, Zenon DEF Wire
  <2>9. C \o <<>> = C
    BY <2>2, Joins, Zenon
  <2>10. b \o Contents(q["tx"])' = Contents(q["tx"]) \o <<>>
    BY <2>3, <2>5, <2>9, Zenon DEF C, tx
  <2>11. sent' \in Seq(Nat) /\ thr' \in Bytes /\ Contents(q["tx"])' \in Seq(Nat)
    BY <1>1, <2>2, <2>3, <2>4, <2>5, Zenon DEF Bytes
  <2>12. OutOK'
    BY <1>1, <2>6, <2>8, <2>10, <2>11, OutMoves
  <2>13. mode # "QUEUE" => FALSE
    BY <1>1, <2>1, Zenon DEF PollOK, C, tx
  <2>14. QED
    BY <1>1, <1>4, <2>12, <2>13, Zenon DEF PollOK
<1>6. CASE ~ xmit
  <2>1. q'["tx"] = q["tx"] /\ thr' = thr
    BY <1>2, <1>3, <1>6, Zenon
  <2>2. QED
    BY <1>1, <1>4, <2>1, OutStays, Zenon DEF PollOK
<1>7. QED
  BY <1>5, <1>6, Zenon

LEMMA WireStreams ==
    ASSUME StreamInv, Transmit \/ Receive
    PROVE  OutOK' /\ InOK' /\ PollOK'
<1>1. /\ OutOK /\ InOK /\ PollOK /\ UNCHANGED <<q, mode, printed, kept, got>>
  BY Zenon DEF StreamInv, Transmit, Receive
<1>2. CASE Transmit
  <2>1. /\ thr # NULL /\ sent' = Append(sent, thr) /\ thr' = NULL
        /\ UNCHANGED <<rbr, arrived>>
    BY <1>2, Zenon DEF Transmit
  <2>2. sent \in Seq(Nat) /\ thr \in Nat
    BY <1>1, <2>1, Zenon DEF OutOK, Bytes
  <2>3. sent' = sent \o <<thr>> /\ sent' \in Seq(Nat) /\ NULL \in Bytes
    <3>1. Append(sent, thr) = sent \o <<thr>> /\ <<thr>> \in Seq(Nat)
      BY <2>2, Singles, Zenon
    <3>2. sent \o <<thr>> \in Seq(Nat)
      BY <2>2, <3>1, Joins, Zenon
    <3>3. QED
      BY <2>1, <3>1, <3>2, Zenon DEF Bytes
  <2>4. sent' \o <<>> = sent'
    BY <2>3, Joins, Zenon
  <2>5. Held(thr)' = <<>> /\ Held(thr) = <<thr>>
    BY <2>1, Zenon DEF Held
  <2>6. sent' \o Held(thr)' = sent \o Held(thr)
    BY <2>3, <2>4, <2>5, Zenon
  <2>7. OutOK'
    BY <1>1, <2>1, <2>3, <2>6, Zenon DEF OutOK, OutputInOrder
  <2>8. QED
    BY <1>1, <2>1, <2>7, InStays, Zenon DEF PollOK
<1>3. CASE Receive
  <2>1. arrived' = arrived + 1 /\ rbr' = arrived + 1 /\ UNCHANGED <<sent, thr>>
    BY <1>3, Zenon DEF Receive
  <2>2. QED
    BY <1>1, <2>1, OutStays, InArrives, Zenon DEF PollOK
<1>4. QED
  BY <1>2, <1>3, Zenon

(* Steps that move no byte.                                                 *)
LEMMA QuietStreams ==
    ASSUME StreamInv,
           \/ \E t \in Threads : acquire_console(t) \/ release_console(t) \/ debug_panic(t)
           \/ serial_init_queue \/ EnableQueue \/ UNCHANGED vars
    PROVE  OutOK' /\ InOK' /\ PollOK'
<1>1. /\ UNCHANGED history /\ UNCHANGED <<thr, rbr>> /\ q' = q
      /\ mode' = mode \/ mode' = "QUEUE"
  BY Zenon DEF acquire_console, release_console, debug_panic, serial_init_queue, EnableQueue,
               NoPoll, vars, uart, history
<1>2. \A s \in Sides : Contents(q[s])' = Contents(q[s])
  BY <1>1, Zenon
<1>3. QED
  BY <1>1, <1>2, NoByte, Zenon

LEMMA StreamsInductive == StreamInv /\ [Next]_vars => StreamInv'
<1> SUFFICES ASSUME StreamInv, [Next]_vars PROVE StreamInv'
  BY Zenon
<1>1. SerialIInv'
  BY SerialInductive, Zenon DEF StreamInv
<1>2. ASSUME NEW t \in Threads, InQueue(t) PROVE OutOK' /\ InOK' /\ PollOK'
  BY <1>2, GetcStreams, PutcStreams, LockAcquireStreams, Zenon DEF InQueue
<1>3. ASSUME NEW t \in Threads, NewCall(t) PROVE OutOK' /\ InOK' /\ PollOK'
  BY <1>3, GetcStreams, PutcStreams, PolledStreams, PanicPutcStreams, FlushStreams,
     QuietStreams, Zenon DEF NewCall
<1>4. ASSUME Hardware PROVE OutOK' /\ InOK' /\ PollOK'
  BY <1>4, KeyStreams, SerialInterruptStreams, WireStreams, Zenon DEF Hardware
<1>5. OutOK' /\ InOK' /\ PollOK'
  BY <1>2, <1>3, <1>4, QuietStreams, Zenon DEF Next
<1> QED
  BY <1>1, <1>5, Zenon DEF StreamInv

LEMMA StreamsInitially == Init => StreamInv
<1> SUFFICES ASSUME Init PROVE StreamInv
  BY Zenon
<1>1. SerialIInv
  BY SerialInitially, Zenon
<1>2. /\ thr = NULL /\ rbr = NULL /\ printed = 0 /\ arrived = 0
      /\ sent = <<>> /\ kept = <<>> /\ got = <<>>
      /\ q = [s \in {"tx", "rx"} |-> NoQueue]
  BY Zenon DEF Init
<1>3. ASSUME NEW s \in Sides PROVE Contents(q[s]) = <<>>
  <2>1. q[s] = NoQueue /\ q[s] \in Queue
    BY <1>1, <1>2, <1>3, Zenon DEF Sides, SerialIInv, Queues
  <2>2. intq_empty(q[s])
    BY <2>1 DEF NoQueue, intq_empty
  <2>3. QED
    BY <2>1, <2>2, ContentsIs, Zenon
<1>4. Contents(q["tx"]) = <<>> /\ Contents(q["rx"]) = <<>>
  BY <1>3, Zenon DEF Sides
<1>5. Held(thr) = <<>>
  BY <1>2, Zenon DEF Held
<1>6. <<>> \o <<>> = <<>> /\ <<>> = [i \in 1 .. 0 |-> i] /\ <<>> \in Seq(Nat)
  OBVIOUS
<1>7. OutOK
  BY <1>2, <1>4, <1>5, <1>6 DEF OutOK, OutputInOrder, Bytes
<1>8. InOK
  BY <1>2, <1>4, <1>6 DEF InOK, InputInOrder
<1> QED
  BY <1>1, <1>4, <1>7, <1>8, Zenon DEF StreamInv, PollOK

(* Bytes travel once and in order in both directions, for every size of the *)
(* queues and any number of threads.  What was sent, the byte in the UART   *)
(* and the ring of txq are together exactly what was printed, also across   *)
(* the polled output of a panic and the flush; what threads have read and   *)
(* the ring of input.c are together exactly what the handlers stored.       *)
THEOREM StreamsKeepOrder == Spec => []StreamsInOrder
<1>1. Spec => []StreamInv
  BY StreamsInitially, StreamsInductive, PTL DEF Spec
<1>2. StreamInv => StreamsInOrder
  BY Zenon DEF StreamInv, OutOK, InOK, StreamsInOrder
<1> QED
  BY <1>1, <1>2, PTL
==============================================================================
