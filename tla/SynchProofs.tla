----------------------------- MODULE SynchProofs -----------------------------
(***************************************************************************)
(* Semaphores, locks and condition variables are correct for every number of *)
(* threads, locks, semaphores and condition variables, and no wakeup is     *)
(* lost: the value of a semaphore with sleeping waiters is covered by       *)
(* threads that sema_up () has woken and that are about to test it.         *)
(***************************************************************************)
EXTENDS SynchLemmas, FiniteSetTheorems

(* sema_down () when the value is positive.                                 *)
LEMMA DownTakesInv ==
    ASSUME IInv, NEW t \in Threads, sema_down(t), value[arg[t]] # 0
    PROVE  IInv'
<1>1. /\ current = t /\ pc[t] \in {"down", "waiting"} /\ FrameOK(t)
      /\ UNCHANGED <<sched, waiters, holder, cond_waiters>>
      /\ value' = [value EXCEPT ![arg[t]] = value[arg[t]] - 1]
      /\ Return(t, ret[t]) /\ status[t] = "RUNNING"
  BY Zenon DEF IInv, PcOK, SchedInv, RunQueueConsistent, sema_down, At
<1>2. /\ pc' = [pc EXCEPT ![t] = ret[t]]
      /\ ret[t] # "run" => UNCHANGED <<arg, ret, cnd>>
      /\ ret[t] = "run" => /\ arg' = [arg EXCEPT ![t] = NULL]
                           /\ ret' = [ret EXCEPT ![t] = "run"]
                           /\ cnd' = [cnd EXCEPT ![t] = NULL]
  BY <1>1, Zenon DEF Return
<1>3. arg[t] \in AllSemas /\ ret[t] \in {"run", "hold", "cond_reacquire"}
  BY <1>1, Zenon DEF FrameOK, AllSemas
<1>4. TypeOK'
  <2>1. value' \in [AllSemas -> Nat]
    BY <1>1, <1>3 DEF IInv, TypeOK
  <2>2. /\ pc' \in [Threads -> Pcs] /\ arg' \in [Threads -> AllSemas \cup {NULL}]
        /\ ret' \in [Threads -> Rets] /\ cnd' \in [Threads -> Conds \cup {NULL}]
    BY <1>2, <1>3, Zenon DEF IInv, TypeOK, Pcs, Rets
  <2>3. QED
    BY <1>1, <2>1, <2>2, Zenon DEF IInv, TypeOK, SchedTypeOK, sched
<1>5. /\ \A u \in Threads \ {t} : /\ pc'[u] = pc[u] /\ arg'[u] = arg[u]
                               /\ ret'[u] = ret[u] /\ cnd'[u] = cnd[u]
      /\ pc'[t] = ret[t]
      /\ ret[t] # "run" => arg'[t] = arg[t] /\ cnd'[t] = cnd[t] /\ ret'[t] = ret[t]
  BY <1>2, Zenon DEF IInv, TypeOK
<1>6. FrameOK(t)' /\ HoldsAt(t)'
  BY <1>1, <1>3, <1>5, Zenon DEF FrameOK, HoldsAt
<1>7. MutualExclusion'
  <2>1. CASE ret[t] = "hold"
    <3>1. arg[t] \in Locks
      BY <1>1, <2>1, SynchAssumption, Zenon DEF FrameOK
    <3>3. PICK l \in Locks : l = arg[t]
      BY <3>1, Zenon
    <3>4. /\ InWindow(t, l)' /\ ~ InWindow(t, l) /\ value[l] # 0
          /\ value' = [value EXCEPT ![l] = value[l] - 1]
          /\ \A m \in Locks, u \in Threads :
                (u # t \/ m # l) => (InWindow(u, m)' <=> InWindow(u, m))
      BY <1>1, <1>5, <2>1, <3>3, Zenon DEF InWindow
    <3>5. QED
      BY <1>1, <3>4, NewOwner, Zenon
  <2>2. CASE ret[t] # "hold"
    <3>1. arg[t] \notin Locks
      BY <1>1, <2>2, SynchAssumption, Zenon DEF FrameOK
    <3>2. \A m \in Locks : value'[m] = value[m]
      BY <1>1, <3>1, Zenon DEF IInv, TypeOK, AllSemas
    <3>3. \A m \in Locks, u \in Threads : InWindow(u, m)' <=> InWindow(u, m)
      BY <1>1, <1>3, <1>5, <2>2, Zenon DEF InWindow
    <3>4. QED
      BY <1>1, <3>2, <3>3, SameOwners, Zenon DEF IInv, MutualExclusion, Owns, Gone, sched
  <2>3. QED
    BY <2>1, <2>2, Zenon
<1>8. QED
  BY <1>1, <1>3, <1>4, <1>5, <1>6, <1>7, LocalStep, Zenon
------------------------------------------------------------------------------
(* sema_down () when the value is 0: the thread goes to sleep.              *)
LEMMA DownSleepsInv ==
    ASSUME IInv, NEW t \in Threads, sema_down(t), value[arg[t]] = 0
    PROVE  IInv'
<1>1. /\ current = t /\ pc[t] \in {"down", "waiting"} /\ FrameOK(t)
      /\ thread_block /\ pc' = [pc EXCEPT ![t] = "waiting"]
      /\ waiters' = [waiters EXCEPT ![arg[t]] = Append(waiters[arg[t]], t)]
      /\ UNCHANGED <<value, holder, cond_waiters, arg, ret, cnd>>
      /\ status[t] = "RUNNING"
  BY Zenon DEF IInv, PcOK, SchedInv, RunQueueConsistent, sema_down, At, Return
<1>2. SchedInv'
  BY <1>1, GiveUpInv, Zenon DEF IInv
<1>3. /\ t # idle_thread /\ arg[t] \in AllSemas
      /\ status'[t] = "BLOCKED" /\ KeepsClass(Threads \ {idle_thread, t})
      /\ \A u \in Threads : pc'[u] = IF u = t THEN "waiting" ELSE pc[u]
  BY <1>1, SwitchClasses, Zenon DEF IInv, FrameOK, AllSemas, TypeOK
<1>4. /\ \A s \in AllSemas : ~ InSeq(t, waiters[s])
      /\ waiters[arg[t]] \in Seq(Threads) /\ NoDuplicates(waiters[arg[t]])
  BY <1>1, <1>3, Zenon DEF IInv, ElemExclusive, TypeOK
<1>5. /\ Append(waiters[arg[t]], t) \in Seq(Threads)
      /\ NoDuplicates(Append(waiters[arg[t]], t))
      /\ \A u : InSeq(u, Append(waiters[arg[t]], t)) <=> InSeq(u, waiters[arg[t]]) \/ u = t
  BY <1>3, <1>4, AppendFresh
<1>6. \A s \in AllSemas :
         waiters'[s] = IF s = arg[t] THEN Append(waiters[arg[t]], t) ELSE waiters[s]
  BY <1>1, <1>3, Zenon DEF IInv, TypeOK
<1>7. TypeOK'
  <2>1. waiters' \in [AllSemas -> Seq(Threads)] /\ pc' \in [Threads -> Pcs]
    BY <1>1, <1>3, <1>5, Zenon DEF IInv, TypeOK, Pcs
  <2>2. QED
    BY <1>1, <1>2, <2>1, Zenon DEF IInv, TypeOK, SchedInv
<1>8. PcOK'
  <2>1. \A u \in Threads : FrameOK(u)'
    BY <1>1, <1>3 DEF IInv, PcOK, FrameOK
  <2>2. \A u \in Threads : CreateOK(u)'
    <3>1. \A u \in Threads : pc[u] = "create" => arg[u] # t /\ u # t
      BY <1>1, Zenon DEF IInv, PcOK, CreateOK
    <3>2. QED
      BY <1>1, <1>3, <3>1 DEF IInv, PcOK, CreateOK, KeepsClass, Blocked
  <2>3. \A u \in Threads : status'[u] \in {"FREE", "DYING"} => pc'[u] = "run"
    BY <1>2, <1>3, Zenon DEF IInv, PcOK, KeepsClass, Gone, SchedInv, RunQueueConsistent
  <2>4. \A u, v \in Threads :
           pc'[u] = "create" /\ pc'[v] = "create" /\ arg'[u] = arg'[v] => u = v
    BY <1>1, <1>3 DEF IInv, PcOK
  <2>5. QED
    BY <2>1, <2>2, <2>3, <2>4, Zenon DEF PcOK
<1>9. ElemExclusive'
  <2>1. \A s \in AllSemas : NoDuplicates(waiters'[s])
    BY <1>5, <1>6, Zenon DEF IInv, ElemExclusive
  <2>2. \A s \in AllSemas, u \in Threads :
           InSeq(u, waiters'[s]) <=> InSeq(u, waiters[s]) \/ (s = arg[t] /\ u = t)
    BY <1>5, <1>6, Zenon
  <2>3. \A s \in AllSemas, u \in Threads :
           InSeq(u, waiters[s]) => /\ u \in Threads \ {idle_thread, t} /\ Blocked(u)
                                   /\ pc[u] = "waiting" /\ arg[u] = s
    BY <1>4 DEF IInv, ElemExclusive, Blocked, PcOK, FrameOK
  <2>4. \A s \in AllSemas, u \in Threads :
           InSeq(u, waiters'[s]) => /\ status'[u] = "BLOCKED"
                                    /\ pc'[u] = "waiting" /\ arg'[u] = s
    BY <1>1, <1>3, <2>2, <2>3 DEF KeepsClass, Blocked
  <2>5. ASSUME NEW u \in Threads \ {idle_thread}, status'[u] = "BLOCKED"
        PROVE  \/ arg'[u] \in AllSemas /\ InSeq(u, waiters'[arg'[u]])
               \/ \E v \in Threads : pc'[v] = "create" /\ arg'[v] = u
    <3>1. CASE u = t
      BY <1>1, <1>3, <2>2, <3>1, Zenon
    <3>2. CASE u # t
      <4>1. status[u] = "BLOCKED"
        BY <1>3, <2>5, <3>2, Zenon DEF KeepsClass, Blocked
      <4>2. CASE arg[u] \in AllSemas /\ InSeq(u, waiters[arg[u]])
        BY <1>1, <2>2, <4>2, Zenon
      <4>3. CASE \E v \in Threads : pc[v] = "create" /\ arg[v] = u
        BY <1>1, <1>3, <4>3, Zenon
      <4>4. QED
        BY <4>1, <4>2, <4>3, Zenon DEF IInv, ElemExclusive
    <3>3. QED
      BY <3>1, <3>2, Zenon
  <2>6. QED
    BY <2>1, <2>4, <2>5, Zenon DEF ElemExclusive
<1>10. MutualExclusion'
  <2>1. \A m \in Locks, u \in Threads : InWindow(u, m)' <=> InWindow(u, m)
    BY <1>1, <1>3 DEF InWindow
  <2>2. \A u \in Threads : Gone(u)' => Gone(u)
    BY <1>2, <1>3, Zenon DEF KeepsClass, Gone, SchedInv, RunQueueConsistent
  <2>3. QED
    BY <1>1, <2>1, <2>2, SameOwners, Zenon DEF IInv, MutualExclusion, Owns
<1>11. StillHolds'
  BY <1>1, <1>3 DEF IInv, StillHolds, HoldsAt
<1>12. QED
  BY <1>2, <1>7, <1>8, <1>9, <1>10, <1>11, Zenon DEF IInv

(* Preemption, yielding, exiting and the idle loop.                         *)
LEMMA SwitchStep ==
    ASSUME IInv, SchedInv', UNCHANGED <<value, waiters, holder, cond_waiters, arg, ret, cnd>>,
           pc' \in [Threads -> Pcs], pc'[idle_thread] \in {"hlt", "loop"},
           \A u \in Threads \ {idle_thread} :
              /\ pc'[u] = pc[u]
              /\ Blocked(u)' <=> Blocked(u)
              /\ Gone(u)' => Gone(u) \/ (pc[u] = "run" /\ \A l \in Locks : holder[l] # u)
    PROVE  IInv'
<1>1. TypeOK'
  BY Zenon DEF IInv, TypeOK, SchedInv
<1>2. \A u \in Threads : ~ (Gone(u)' /\ u = idle_thread)
  BY Zenon DEF SchedInv, RunQueueConsistent, Gone
<1>3. PcOK'
  <2>1. \A u \in Threads : FrameOK(u)'
    BY DEF IInv, PcOK, FrameOK
  <2>2. \A u \in Threads : pc'[u] = "create" <=> pc[u] = "create"
    BY SchedulerAssumption, Zenon DEF IInv, PcOK, FrameOK
  <2>3. \A u \in Threads : CreateOK(u)'
    BY <2>2, Zenon DEF IInv, PcOK, CreateOK, Blocked
  <2>4. \A u \in Threads : status'[u] \in {"FREE", "DYING"} => pc'[u] = "run"
    BY <1>2, Zenon DEF IInv, PcOK, Gone
  <2>5. QED
    BY <2>1, <2>2, <2>3, <2>4, Zenon DEF IInv, PcOK
<1>4. ElemExclusive'
  <2>1. \A u \in Threads : /\ pc'[u] = "create" <=> pc[u] = "create"
                           /\ pc[u] = "waiting" => pc'[u] = "waiting" /\ u # idle_thread
    BY SchedulerAssumption, Zenon DEF IInv, PcOK, FrameOK
  <2>2. waiters' = waiters /\ arg' = arg /\ ElemExclusive
    BY Zenon DEF IInv
  <2>3. \A s \in AllSemas : NoDuplicates(waiters[s])'
    BY <2>2 DEF ElemExclusive, NoDuplicates
  <2>4. ASSUME NEW s \in AllSemas, NEW t \in Threads, InSeq(t, waiters[s])'
        PROVE  status'[t] = "BLOCKED" /\ pc'[t] = "waiting" /\ arg'[t] = s
    <3>1. InSeq(t, waiters[s])
      BY <2>2, <2>4, Zenon DEF InSeq
    <3>2. status[t] = "BLOCKED" /\ pc[t] = "waiting" /\ arg[t] = s
      BY <2>2, <3>1 DEF ElemExclusive
    <3>3. QED
      BY <2>1, <2>2, <3>2, Zenon DEF Blocked
  <2>5. ASSUME NEW t \in Threads \ {idle_thread}, status'[t] = "BLOCKED"
        PROVE  \/ arg'[t] \in AllSemas /\ InSeq(t, waiters[arg[t]])'
               \/ \E u \in Threads : pc'[u] = "create" /\ arg'[u] = t
    <3>1. status[t] = "BLOCKED"
      BY <2>5, Zenon DEF Blocked
    <3>2. \/ arg[t] \in AllSemas /\ InSeq(t, waiters[arg[t]])
          \/ \E u \in Threads : pc[u] = "create" /\ arg[u] = t
      BY <2>2, <3>1, Zenon DEF ElemExclusive
    <3>3. QED
      BY <2>1, <2>2, <3>2, Zenon DEF InSeq
  <2>6. QED
    BY <2>3, <2>4, <2>5 DEF ElemExclusive
<1>5. MutualExclusion'
  <2>1. \A m \in Locks, u \in Threads : InWindow(u, m)' <=> InWindow(u, m)
    BY SchedulerAssumption, Zenon DEF IInv, PcOK, FrameOK, InWindow
  <2>2. \A m \in Locks, u \in Threads : Owns(u, m)' <=> Owns(u, m)
    BY <2>1, Zenon DEF Owns
  <2>3. ASSUME NEW m \in Locks, NEW u \in Threads, Owns(u, m)
        PROVE  ~ Gone(u)'
    BY <1>2, <2>3, Zenon DEF IInv, MutualExclusion, Owns, InWindow, Gone
  <2>4. QED
    BY <2>1, <2>2, <2>3, Zenon DEF IInv, MutualExclusion, Gone
<1>6. StillHolds'
  <2>1. ASSUME NEW u \in Threads PROVE HoldsAt(u)'
    BY SchedulerAssumption, Zenon DEF IInv, StillHolds, HoldsAt
  <2>2. QED
    BY <2>1, Zenon DEF StillHolds
<1>7. QED
  BY <1>1, <1>3, <1>4, <1>5, <1>6, Zenon DEF IInv

(* The owner of a lock ups its semaphore.                                   *)
LEMMA OwnerLeaves ==
    ASSUME IInv, NEW t \in Threads, NEW l \in Locks, InWindow(t, l),
           UNCHANGED holder, value' = [value EXCEPT ![l] = value[l] + 1],
           \A u \in Threads : Gone(u)' => Gone(u),
           ~ InWindow(t, l)',
           \A m \in Locks, u \in Threads : (u # t \/ m # l) => (InWindow(u, m)' <=> InWindow(u, m))
    PROVE  MutualExclusion'
<1>1. /\ value[l] = 0 /\ holder[l] # t /\ Owns(t, l)
      /\ \A u \in Threads : Owns(u, l) => u = t
  BY Zenon DEF IInv, MutualExclusion, Owns
<1>2. value'[l] = 1 /\ \A m \in Locks : m # l => value'[m] = value[m]
  BY <1>1 DEF IInv, TypeOK, AllSemas
<1>3. \A m \in Locks, u \in Threads : Owns(u, m)' <=> Owns(u, m) /\ ~ (u = t /\ m = l)
  BY <1>1, Zenon DEF Owns, IInv, MutualExclusion
<1>4. ASSUME NEW m \in Locks
      PROVE  /\ \A u, v \in Threads : Owns(u, m)' /\ Owns(v, m)' => u = v
             /\ value'[m] = IF \E u \in Threads : Owns(u, m)' THEN 0 ELSE 1
             /\ \A u \in Threads : Owns(u, m)' => ~ Gone(u)'
             /\ \A u \in Threads : ~ (holder'[m] = u /\ InWindow(u, m)')
  <2>1. CASE m = l
    <3>1. \A u \in Threads : ~ Owns(u, m)'
      BY <1>1, <1>3, <2>1, Zenon
    <3>2. \A u \in Threads : ~ (holder'[m] = u /\ InWindow(u, m)')
      BY <3>1, Zenon DEF Owns
    <3>3. QED
      BY <1>2, <2>1, <3>1, <3>2, Zenon
  <2>2. CASE m # l
    <3>1. \A u \in Threads : /\ Owns(u, m)' <=> Owns(u, m)
                             /\ InWindow(u, m)' <=> InWindow(u, m)
                             /\ Gone(u)' => Gone(u)
      BY <1>3, <2>2, Zenon
    <3>2. value'[m] = value[m] /\ holder'[m] = holder[m]
      BY <1>2, <2>2, Zenon
    <3>3. /\ \A u, v \in Threads : Owns(u, m) /\ Owns(v, m) => u = v
          /\ value[m] = IF \E u \in Threads : Owns(u, m) THEN 0 ELSE 1
          /\ \A u \in Threads : Owns(u, m) => ~ Gone(u)
          /\ \A u \in Threads : ~ (holder[m] = u /\ InWindow(u, m))
      BY Zenon DEF IInv, MutualExclusion, Gone
    <3>4. QED
      BY <3>1, <3>2, <3>3, Zenon
  <2>3. QED
    BY <2>1, <2>2, Zenon
<1>5. QED
  BY <1>4, Zenon DEF MutualExclusion, Gone

(* sema_up (), by a thread or by an interrupt handler.                      *)
LEMMA UpStep ==
    ASSUME IInv, NEW s \in AllSemas, Up(s), UNCHANGED <<holder, cond_waiters>>,
           /\ pc' \in [Threads -> Pcs] /\ arg' \in [Threads -> AllSemas \cup {NULL}]
           /\ ret' \in [Threads -> Rets] /\ cnd' \in [Threads -> Conds \cup {NULL}],
           \A u \in Threads : FrameOK(u)' /\ HoldsAt(u)',
           \A u \in Threads : /\ pc'[u] = "waiting" <=> pc[u] = "waiting"
                              /\ pc'[u] = "create" <=> pc[u] = "create"
                              /\ pc[u] = "run" => pc'[u] = "run"
                              /\ pc[u] \in {"waiting", "create"} => arg'[u] = arg[u],
           MutualExclusion'
    PROVE  IInv'
<1>1. /\ value' = [value EXCEPT ![s] = value[s] + 1]
      /\ waiters' \in [AllSemas -> Seq(Threads)]
      /\ \A x \in AllSemas : NoDuplicates(waiters'[x])
      /\ \A x \in AllSemas, t \in Threads :
            InSeq(t, waiters'[x]) <=> InSeq(t, waiters[x]) /\ status'[t] = "BLOCKED"
      /\ \A t \in Threads : status'[t] = "BLOCKED" => status[t] = "BLOCKED"
      /\ \A t \in Threads : status[t] = "BLOCKED" /\ pc[t] = "run" => status'[t] = "BLOCKED"
      /\ \A t \in Threads : Gone(t)' <=> Gone(t)
      /\ [SchedNext]_sched
  BY UpEffect, Zenon
<1>2. SchedInv'
  BY <1>1, SchedNextInv, Zenon DEF IInv
<1>3. TypeOK'
  <2>1. value' \in [AllSemas -> Nat]
    BY <1>1 DEF IInv, TypeOK
  <2>2. QED
    BY <1>1, <1>2, <2>1, Zenon DEF IInv, TypeOK, SchedInv
<1>4. PcOK'
  <2>1. \A u \in Threads : CreateOK(u)'
    BY <1>1 DEF IInv, PcOK, CreateOK
  <2>2. \A u \in Threads : status'[u] \in {"FREE", "DYING"} => pc'[u] = "run"
    BY <1>1, Zenon DEF IInv, PcOK, Gone
  <2>3. \A u, v \in Threads :
           pc'[u] = "create" /\ pc'[v] = "create" /\ arg'[u] = arg'[v] => u = v
    BY Zenon DEF IInv, PcOK
  <2>4. QED
    BY <2>1, <2>2, <2>3, Zenon DEF PcOK
<1>5. ElemExclusive'
  <2>1. \A x \in AllSemas, u \in Threads :
           InSeq(u, waiters'[x]) => /\ status'[u] = "BLOCKED"
                                    /\ pc'[u] = "waiting" /\ arg'[u] = x
    <3>1. ASSUME NEW x \in AllSemas, NEW u \in Threads, InSeq(u, waiters'[x])
          PROVE  status'[u] = "BLOCKED" /\ pc'[u] = "waiting" /\ arg'[u] = x
      <4>1. InSeq(u, waiters[x]) /\ status'[u] = "BLOCKED"
        BY <1>1, <3>1, Zenon
      <4>2. pc[u] = "waiting" /\ arg[u] = x
        BY <3>1, <4>1 DEF IInv, ElemExclusive
      <4>3. QED
        BY <4>1, <4>2, Zenon
    <3>2. QED
      BY <3>1, Zenon
  <2>2. ASSUME NEW u \in Threads \ {idle_thread}, status'[u] = "BLOCKED"
        PROVE  \/ arg'[u] \in AllSemas /\ InSeq(u, waiters'[arg'[u]])
               \/ \E v \in Threads : pc'[v] = "create" /\ arg'[v] = u
    <3>1. status[u] = "BLOCKED"
      BY <1>1, <2>2, Zenon
    <3>2. CASE arg[u] \in AllSemas /\ InSeq(u, waiters[arg[u]])
      <4>1. pc[u] = "waiting" /\ arg'[u] = arg[u]
        BY <3>2, Zenon DEF IInv, ElemExclusive
      <4>2. QED
        BY <1>1, <2>2, <3>2, <4>1, Zenon
    <3>3. CASE \E v \in Threads : pc[v] = "create" /\ arg[v] = u
      BY <3>3, Zenon
    <3>4. QED
      BY <3>1, <3>2, <3>3, Zenon DEF IInv, ElemExclusive
  <2>3. QED
    BY <1>1, <2>1, <2>2, Zenon DEF ElemExclusive
<1>6. QED
  BY <1>2, <1>3, <1>4, <1>5, Zenon DEF IInv, PcOK, StillHolds

LEMMA sema_upInv ==
    ASSUME IInv, NEW t \in Threads, sema_up(t)
    PROVE  IInv'
<1>1. /\ current = t /\ pc[t] = "up" /\ FrameOK(t) /\ HoldsAt(t)
      /\ Up(arg[t]) /\ Return(t, ret[t]) /\ UNCHANGED <<holder, cond_waiters>>
  BY Zenon DEF IInv, PcOK, StillHolds, sema_up, At
<1>2. /\ pc' = [pc EXCEPT ![t] = ret[t]]
      /\ ret[t] # "run" => UNCHANGED <<arg, ret, cnd>>
      /\ ret[t] = "run" => /\ arg' = [arg EXCEPT ![t] = NULL]
                           /\ ret' = [ret EXCEPT ![t] = "run"]
                           /\ cnd' = [cnd EXCEPT ![t] = NULL]
  BY <1>1, Zenon DEF Return
<1>3. arg[t] \in AllSemas /\ ret[t] \in {"run", "cond_sleep", "broadcast"} /\ t # idle_thread
  BY <1>1, SynchAssumption, Zenon DEF FrameOK, AllSemas
<1>4. /\ pc' \in [Threads -> Pcs] /\ arg' \in [Threads -> AllSemas \cup {NULL}]
      /\ ret' \in [Threads -> Rets] /\ cnd' \in [Threads -> Conds \cup {NULL}]
  BY <1>2, <1>3, Zenon DEF IInv, TypeOK, Pcs, Rets
<1>5. /\ \A u \in Threads \ {t} : /\ pc'[u] = pc[u] /\ arg'[u] = arg[u]
                               /\ ret'[u] = ret[u] /\ cnd'[u] = cnd[u]
      /\ pc'[t] = ret[t]
      /\ ret[t] # "run" => arg'[t] = arg[t] /\ cnd'[t] = cnd[t] /\ ret'[t] = ret[t]
  BY <1>2, Zenon DEF IInv, TypeOK
<1>6. \A u \in Threads : FrameOK(u)' /\ HoldsAt(u)'
  <2>1. FrameOK(t)' /\ HoldsAt(t)'
    BY <1>1, <1>3, <1>5, Zenon DEF FrameOK, HoldsAt
  <2>2. ASSUME NEW u \in Threads \ {t} PROVE FrameOK(u)' /\ HoldsAt(u)'
    BY <1>1, <1>5 DEF IInv, PcOK, StillHolds, FrameOK, HoldsAt
  <2>3. QED
    BY <2>1, <2>2, Zenon
<1>7. /\ \A u \in Threads : Gone(u)' => Gone(u)
      /\ value' = [value EXCEPT ![arg[t]] = value[arg[t]] + 1]
  BY <1>1, <1>3, UpEffect, Zenon
<1>8. MutualExclusion'
  <2>1. CASE arg[t] \in Locks
    <3>1. PICK l \in Locks : l = arg[t]
      BY <2>1, Zenon
    <3>2. /\ InWindow(t, l) /\ ~ InWindow(t, l)'
          /\ \A m \in Locks, u \in Threads :
                (u # t \/ m # l) => (InWindow(u, m)' <=> InWindow(u, m))
      BY <1>1, <1>3, <1>5, <3>1, Zenon DEF InWindow
    <3>3. QED
      BY <1>1, <1>7, <3>1, <3>2, OwnerLeaves, Zenon
  <2>2. CASE arg[t] \notin Locks
    <3>1. \A m \in Locks : value'[m] = value[m]
      BY <1>7, <2>2, Zenon DEF IInv, TypeOK, AllSemas
    <3>2. \A m \in Locks, u \in Threads : InWindow(u, m)' <=> InWindow(u, m)
      BY <1>1, <1>3, <1>5, <2>2, Zenon DEF InWindow
    <3>3. QED
      BY <1>1, <1>7, <3>1, <3>2, SameOwners, Zenon DEF IInv, MutualExclusion, Owns
  <2>3. QED
    BY <2>1, <2>2, Zenon
<1>9. QED
  <2>1. \A u \in Threads : /\ pc'[u] = "waiting" <=> pc[u] = "waiting"
                           /\ pc'[u] = "create" <=> pc[u] = "create"
                           /\ pc[u] = "run" => pc'[u] = "run"
                           /\ pc[u] \in {"waiting", "create"} => arg'[u] = arg[u]
    BY <1>1, <1>3, <1>5, Zenon
  <2>2. PICK s \in AllSemas : s = arg[t]
    BY <1>3, Zenon
  <2>3. QED
    BY <1>1, <1>4, <1>6, <1>8, <2>1, <2>2, UpStep, Zenon

(* An interrupt may end the hlt of the idle thread and moves no other.      *)
LEMMA EndHaltEffect ==
    ASSUME IInv, EndHalt
    PROVE  /\ pc' \in [Threads -> Pcs] /\ pc'[idle_thread] \in {"hlt", "loop"}
           /\ \A u \in Threads \ {idle_thread} : pc'[u] = pc[u]
<1>1. pc \in [Threads -> Pcs] /\ pc[idle_thread] \in {"hlt", "loop"}
  BY SchedulerAssumption, Zenon DEF IInv, TypeOK, PcOK, FrameOK
<1>2. QED
  BY <1>1, SchedulerAssumption, Zenon DEF EndHalt, Pcs

LEMMA device_interruptInv ==
    ASSUME IInv, NEW s \in Semas, device_interrupt(s)
    PROVE  IInv'
<1>1. /\ Up(s) /\ s \in AllSemas /\ s \notin Locks
      /\ UNCHANGED <<holder, cond_waiters, arg, ret, cnd>>
  BY SynchAssumption, Zenon DEF device_interrupt, AllSemas
<1>2. /\ pc' \in [Threads -> Pcs] /\ pc'[idle_thread] \in {"hlt", "loop"}
      /\ pc[idle_thread] \in {"hlt", "loop"}
      /\ \A u \in Threads \ {idle_thread} : pc'[u] = pc[u]
  BY EndHaltEffect, SchedulerAssumption, Zenon DEF device_interrupt, IInv, PcOK, FrameOK
<1>3. \A u \in Threads : FrameOK(u)' /\ HoldsAt(u)'
  BY <1>1, <1>2 DEF IInv, PcOK, StillHolds, FrameOK, HoldsAt
<1>4. \A u \in Threads : /\ pc'[u] = "waiting" <=> pc[u] = "waiting"
                         /\ pc'[u] = "create" <=> pc[u] = "create"
                         /\ pc[u] = "run" => pc'[u] = "run"
                         /\ pc[u] \in {"waiting", "create"} => arg'[u] = arg[u]
  BY <1>1, <1>2, Zenon
<1>5. MutualExclusion'
  <2>1. value' = [value EXCEPT ![s] = value[s] + 1] /\ \A u \in Threads : Gone(u)' => Gone(u)
    BY <1>1, UpEffect, Zenon
  <2>2. \A m \in Locks : value'[m] = value[m]
    BY <1>1, <2>1, Zenon DEF IInv, TypeOK, AllSemas
  <2>3. \A m \in Locks, u \in Threads : InWindow(u, m)' <=> InWindow(u, m)
    BY <1>1, <1>2, Zenon DEF InWindow
  <2>4. QED
    BY <1>1, <2>1, <2>2, <2>3, SameOwners, Zenon DEF IInv, MutualExclusion, Owns
<1>6. TypeOK
  BY Zenon DEF IInv
<1>7. /\ arg' \in [Threads -> AllSemas \cup {NULL}]
      /\ ret' \in [Threads -> Rets] /\ cnd' \in [Threads -> Conds \cup {NULL}]
  BY <1>1, <1>6, Zenon DEF TypeOK
<1>8. QED
  BY <1>1, <1>2, <1>3, <1>4, <1>5, <1>7, UpStep, Zenon
------------------------------------------------------------------------------
LEMMA YieldInv ==
    ASSUME IInv, NEW t \in Threads, Yield(t)
    PROVE  IInv'
<1>1. thread_yield /\ UNCHANGED <<value, waiters, holder, cond_waiters, pc, arg, ret, cnd>>
  BY Zenon DEF Yield, synch
<1>2. SchedInv' /\ KeepsClass(Threads \ {idle_thread})
  BY <1>1, GiveUpInv, SwitchClasses, Zenon DEF IInv
<1>3. pc \in [Threads -> Pcs] /\ pc[idle_thread] \in {"hlt", "loop"}
  BY SchedulerAssumption, Zenon DEF IInv, TypeOK, PcOK, FrameOK
<1>4. QED
  BY <1>1, <1>2, <1>3, SwitchStep, Zenon DEF KeepsClass

LEMMA thread_exitInv ==
    ASSUME IInv, NEW t \in Threads, thread_exit(t)
    PROVE  IInv'
<1>1. /\ thread_die /\ UNCHANGED <<value, waiters, holder, cond_waiters, pc, arg, ret, cnd>>
      /\ current = t /\ pc[t] = "run" /\ \A l \in Locks : holder[l] # t
  BY Zenon DEF thread_exit, At, synch
<1>2. /\ SchedInv' /\ KeepsClass(Threads \ {idle_thread, t})
      /\ status'[t] \in {"FREE", "DYING"} /\ status[t] = "RUNNING"
  BY <1>1, GiveUpInv, SwitchClasses, Zenon DEF IInv, SchedInv, RunQueueConsistent
<1>3. pc \in [Threads -> Pcs] /\ pc[idle_thread] \in {"hlt", "loop"}
  BY SchedulerAssumption, Zenon DEF IInv, TypeOK, PcOK, FrameOK
<1>4. \A u \in Threads \ {idle_thread} :
         /\ Blocked(u)' <=> Blocked(u)
         /\ Gone(u)' => Gone(u) \/ (pc[u] = "run" /\ \A l \in Locks : holder[l] # u)
  BY <1>1, <1>2, Zenon DEF KeepsClass, Blocked, Gone
<1>5. QED
  BY <1>1, <1>2, <1>3, <1>4, SwitchStep, Zenon

LEMMA idleInv ==
    ASSUME IInv, idle
    PROVE  IInv'
<1>1. /\ thread_block /\ UNCHANGED <<value, waiters, holder, cond_waiters, arg, ret, cnd>>
      /\ current = idle_thread /\ pc' = [pc EXCEPT ![idle_thread] = "hlt"]
  BY Zenon DEF idle, At, Goto
<1>2. SchedInv' /\ KeepsClass(Threads \ {idle_thread})
  <2>1. SchedInv' /\ KeepsClass(Threads \ {idle_thread, current})
    BY <1>1, GiveUpInv, SwitchClasses, Zenon DEF IInv
  <2>2. QED
    BY <1>1, <2>1, Zenon DEF KeepsClass
<1>3. /\ pc' \in [Threads -> Pcs] /\ pc'[idle_thread] = "hlt"
      /\ \A u \in Threads \ {idle_thread} : pc'[u] = pc[u]
  BY <1>1, SchedulerAssumption, Zenon DEF IInv, TypeOK, Pcs
<1>4. QED
  BY <1>1, <1>2, <1>3, SwitchStep, Zenon DEF KeepsClass

LEMMA timer_interruptInv ==
    ASSUME IInv, timer_interrupt
    PROVE  IInv'
<1>1. /\ thread_tick /\ EndHalt
      /\ UNCHANGED <<value, waiters, holder, cond_waiters, arg, ret, cnd>>
  BY Zenon DEF timer_interrupt
<1>2. SchedInv' /\ KeepsClass(Threads \ {idle_thread})
  BY <1>1, SchedNextInv, SwitchClasses, Zenon DEF IInv, SchedNext
<1>3. QED
  BY <1>1, <1>2, EndHaltEffect, SwitchStep, Zenon DEF KeepsClass
------------------------------------------------------------------------------
LEMMA thread_createInv ==
    ASSUME IInv, NEW t \in Threads, NEW n \in Threads, thread_create(t, n)
    PROVE  IInv'
<1>1. /\ current = t /\ pc[t] = "run" /\ status[n] = "FREE" /\ init_thread(n)
      /\ status' = [status EXCEPT ![n] = "BLOCKED"] /\ current' = current
      /\ pc' = [pc EXCEPT ![t] = "create"] /\ arg' = [arg EXCEPT ![t] = n]
      /\ UNCHANGED <<value, waiters, holder, cond_waiters, ret, cnd>>
  BY Zenon DEF thread_create, At, Goto, init_thread
<1>2. status[t] = "RUNNING" /\ n # t /\ n # idle_thread /\ t # idle_thread /\ pc[n] = "run"
  BY <1>1, SchedulerAssumption, Zenon DEF IInv, SchedInv, RunQueueConsistent, PcOK, FrameOK
<1>3. SchedInv'
  BY <1>1, SchedNextInv, Zenon DEF IInv, SchedNext
<1>4. /\ \A u \in Threads \ {t} : pc'[u] = pc[u] /\ arg'[u] = arg[u]
      /\ pc'[t] = "create" /\ arg'[t] = n
      /\ \A u \in Threads \ {n} : status'[u] = status[u]
      /\ status'[n] = "BLOCKED"
  BY <1>1, Zenon DEF IInv, TypeOK, SchedTypeOK
<1>5. TypeOK'
  <2>1. pc' \in [Threads -> Pcs] /\ arg' \in [Threads -> AllSemas \cup {NULL}]
    BY <1>1, Zenon DEF IInv, TypeOK, Pcs, AllSemas
  <2>2. QED
    BY <1>1, <1>3, <2>1, Zenon DEF IInv, TypeOK, SchedInv
<1>6. PcOK'
  <2>1. \A u \in Threads : FrameOK(u)'
    BY <1>1, <1>2, <1>4 DEF IInv, PcOK, FrameOK
  <2>2. \A u \in Threads : CreateOK(u)'
    BY <1>1, <1>2, <1>4 DEF IInv, PcOK, CreateOK
  <2>3. \A u \in Threads : status'[u] \in {"FREE", "DYING"} => pc'[u] = "run"
    BY <1>1, <1>2, <1>4 DEF IInv, PcOK
  <2>4. \A u, v \in Threads :
           pc'[u] = "create" /\ pc'[v] = "create" /\ arg'[u] = arg'[v] => u = v
    BY <1>1, <1>2, <1>4 DEF IInv, PcOK, CreateOK
  <2>5. QED
    BY <2>1, <2>2, <2>3, <2>4, Zenon DEF PcOK
<1>7. ElemExclusive'
  <2>1. \A s \in AllSemas, u \in Threads :
           InSeq(u, waiters'[s]) => status'[u] = "BLOCKED" /\ pc'[u] = "waiting" /\ arg'[u] = s
    BY <1>1, <1>2, <1>4 DEF IInv, ElemExclusive
  <2>2. ASSUME NEW u \in Threads \ {idle_thread}, status'[u] = "BLOCKED"
        PROVE  \/ arg'[u] \in AllSemas /\ InSeq(u, waiters'[arg'[u]])
               \/ \E v \in Threads : pc'[v] = "create" /\ arg'[v] = u
    <3>1. CASE u = n
      BY <1>4, <3>1, Zenon
    <3>2. CASE u # n
      BY <1>1, <1>2, <1>4, <2>2, <3>2 DEF IInv, ElemExclusive
    <3>3. QED
      BY <3>1, <3>2, Zenon
  <2>3. QED
    BY <1>1, <2>1, <2>2 DEF IInv, ElemExclusive
<1>8. MutualExclusion'
  <2>1. \A m \in Locks, u \in Threads : Owns(u, m)' <=> Owns(u, m)
    BY <1>1, <1>4, Zenon DEF Owns, InWindow
  <2>2. \A m \in Locks, u \in Threads : InWindow(u, m)' <=> InWindow(u, m)
    BY <1>1, <1>4, Zenon DEF InWindow
  <2>3. QED
    BY <1>1, <1>4, <2>1, <2>2, Zenon DEF IInv, MutualExclusion
<1>9. StillHolds'
  BY <1>1, <1>4, Zenon DEF IInv, StillHolds, HoldsAt
<1>10. QED
  BY <1>3, <1>5, <1>6, <1>7, <1>8, <1>9, Zenon DEF IInv

LEMMA StartThreadInv ==
    ASSUME IInv, NEW t \in Threads, StartThread(t)
    PROVE  IInv'
<1>1. PICK n \in Threads \ {idle_thread} :
         arg[t] = n /\ status[n] = "BLOCKED" /\ pc[n] = "run"
  BY Zenon DEF StartThread, At, IInv, PcOK, CreateOK
<1>2. /\ current = t /\ pc[t] = "create" /\ thread_unblock(n)
      /\ status' = [status EXCEPT ![n] = "READY"]
      /\ pc' = [pc EXCEPT ![t] = "run"] /\ arg' = [arg EXCEPT ![t] = NULL]
      /\ ret' = [ret EXCEPT ![t] = "run"] /\ cnd' = [cnd EXCEPT ![t] = NULL]
      /\ UNCHANGED <<value, waiters, holder, cond_waiters>>
  BY <1>1, Zenon DEF StartThread, At, Return, thread_unblock
<1>3. SchedInv' /\ n # t /\ t # idle_thread
  BY <1>1, <1>2, SchedNextInv, Zenon DEF IInv, SchedNext, PcOK, FrameOK
<1>4. /\ \A u \in Threads \ {t} : /\ pc'[u] = pc[u] /\ arg'[u] = arg[u]
                               /\ ret'[u] = ret[u] /\ cnd'[u] = cnd[u]
      /\ pc'[t] = "run"
      /\ \A u \in Threads \ {n} : status'[u] = status[u]
      /\ status'[n] = "READY"
  BY <1>2, Zenon DEF IInv, TypeOK, SchedTypeOK
<1>5. TypeOK'
  <2>1. /\ pc' \in [Threads -> Pcs] /\ arg' \in [Threads -> AllSemas \cup {NULL}]
        /\ ret' \in [Threads -> Rets] /\ cnd' \in [Threads -> Conds \cup {NULL}]
    BY <1>2, Zenon DEF IInv, TypeOK, Pcs, Rets
  <2>2. QED
    BY <1>2, <1>3, <2>1, Zenon DEF IInv, TypeOK, SchedInv
<1>6. \A u \in Threads : pc[u] = "create" /\ u # t => arg[u] # n
  BY <1>1, <1>2, Zenon DEF IInv, PcOK
<1>7. PcOK'
  <2>1. \A u \in Threads : FrameOK(u)'
    BY <1>2, <1>3, <1>4 DEF IInv, PcOK, FrameOK
  <2>2. \A u \in Threads : CreateOK(u)'
    BY <1>2, <1>3, <1>4, <1>6 DEF IInv, PcOK, CreateOK
  <2>3. \A u \in Threads : status'[u] \in {"FREE", "DYING"} => pc'[u] = "run"
    BY <1>4, Zenon DEF IInv, PcOK
  <2>4. \A u, v \in Threads :
           pc'[u] = "create" /\ pc'[v] = "create" /\ arg'[u] = arg'[v] => u = v
    <3>1. \A u \in Threads : pc'[u] = "create" => pc[u] = "create" /\ arg'[u] = arg[u]
      BY <1>4, Zenon
    <3>2. QED
      BY <3>1, Zenon DEF IInv, PcOK
  <2>5. QED
    BY <2>1, <2>2, <2>3, <2>4, Zenon DEF PcOK
<1>8. ElemExclusive'
  <2>1. \A s \in AllSemas, u \in Threads :
           InSeq(u, waiters'[s]) => status'[u] = "BLOCKED" /\ pc'[u] = "waiting" /\ arg'[u] = s
    BY <1>1, <1>2, <1>4 DEF IInv, ElemExclusive
  <2>2. ASSUME NEW u \in Threads \ {idle_thread}, status'[u] = "BLOCKED"
        PROVE  \/ arg'[u] \in AllSemas /\ InSeq(u, waiters'[arg'[u]])
               \/ \E v \in Threads : pc'[v] = "create" /\ arg'[v] = u
    <3>1. u # n /\ status[u] = "BLOCKED" /\ u # t
      BY <1>2, <1>4, <2>2, Zenon DEF IInv, SchedInv, RunQueueConsistent
    <3>2. QED
      BY <1>1, <1>2, <1>4, <3>1 DEF IInv, ElemExclusive
  <2>3. QED
    BY <1>2, <2>1, <2>2, SMTT(30) DEF IInv, ElemExclusive
<1>9. MutualExclusion'
  <2>1. \A m \in Locks, u \in Threads : InWindow(u, m)' <=> InWindow(u, m)
    BY <1>2, <1>4, Zenon DEF InWindow
  <2>2. \A m \in Locks, u \in Threads : Owns(u, m)' <=> Owns(u, m)
    BY <1>2, <2>1, Zenon DEF Owns
  <2>3. QED
    BY <1>2, <1>4, <2>1, <2>2, Zenon DEF IInv, MutualExclusion
<1>10. StillHolds'
  BY <1>2, <1>4 DEF IInv, StillHolds, HoldsAt
<1>11. QED
  BY <1>3, <1>5, <1>7, <1>8, <1>9, <1>10, Zenon DEF IInv
------------------------------------------------------------------------------
LEMMA InitInv == Init => IInv
<1> SUFFICES ASSUME Init PROVE IInv
  BY Zenon
<1> USE SchedulerAssumption, SynchAssumption
<1>1. SchedInv
  BY SchedInitInv, Zenon DEF Init
<1>2. TypeOK
  BY <1>1 DEF Init, TypeOK, SchedInv, Pcs, Rets, AllSemas
<1>3. PcOK
  BY Zenon DEF Init, SchedInit, PcOK, FrameOK, CreateOK
<1>4. ElemExclusive
  BY DEF Init, SchedInit, ElemExclusive, NoDuplicates, InSeq
<1>5. MutualExclusion
  <2>1. \A l \in Locks : value[l] = 1 /\ holder[l] = NULL
    BY Zenon DEF Init, AllSemas
  <2>2. \A l \in Locks, t \in Threads : ~ Owns(t, l) /\ ~ InWindow(t, l)
    BY <2>1, Zenon DEF Init, Owns, InWindow
  <2>3. QED
    BY <2>1, <2>2, Zenon DEF MutualExclusion
<1>6. StillHolds
  BY Zenon DEF Init, StillHolds, HoldsAt
<1>7. QED
  BY <1>1, <1>2, <1>3, <1>4, <1>5, <1>6, Zenon DEF IInv

LEMMA sema_downInv ==
    ASSUME IInv, NEW t \in Threads, sema_down(t)
    PROVE  IInv'
<1>1. CASE value[arg[t]] = 0
  BY <1>1, DownSleepsInv, Zenon
<1>2. CASE value[arg[t]] # 0
  BY <1>2, DownTakesInv, Zenon
<1>3. QED
  BY <1>1, <1>2, Zenon

LEMMA NextInv == IInv /\ [Next]_vars => IInv'
<1> SUFFICES ASSUME IInv, [Next]_vars PROVE IInv'
  BY Zenon
<1>1. ASSUME NEW t \in Threads, InCall(t) PROVE IInv'
  BY <1>1, sema_downInv, sema_upInv, SetHolderInv, CondReleaseInv, CondSleepInv,
     CondReacquireInv, BroadcastStepInv, StartThreadInv, Zenon DEF InCall
<1>2. ASSUME NEW t \in Threads, NewCall(t) PROVE IInv'
  <2>1. ASSUME NEW s \in Semas, CallDown(t, s) \/ CallUp(t, s) \/ sema_try_down(t, s)
        PROVE  IInv'
    BY <2>1, CallDownInv, CallUpInv, sema_try_downInv, Zenon
  <2>2. ASSUME NEW l \in Locks,
               lock_acquire(t, l) \/ lock_try_acquire(t, l) \/ lock_release(t, l)
        PROVE  IInv'
    BY <2>2, lock_acquireInv, lock_try_acquireInv, lock_releaseInv, Zenon
  <2>3. ASSUME NEW c \in Conds, cond_wait(t, c) \/ cond_signal(t, c) \/ cond_broadcast(t, c)
        PROVE  IInv'
    BY <2>3, cond_waitInv, cond_signalInv, cond_broadcastInv, Zenon
  <2>4. QED
    BY <1>2, <2>1, <2>2, <2>3, thread_createInv, YieldInv, thread_exitInv, Zenon DEF NewCall
<1>3. ASSUME idle \/ Interrupt PROVE IInv'
  BY <1>3, idleInv, timer_interruptInv, device_interruptInv, Zenon DEF Interrupt
<1>4. ASSUME UNCHANGED vars PROVE IInv'
  <2> USE <1>4 DEF vars, sched, synch
  <2>1. SchedInv'
    BY SchedNextInv, Zenon DEF IInv
  <2>2. TypeOK'
    BY <2>1, Zenon DEF IInv, TypeOK, SchedInv
  <2>3. PcOK' /\ StillHolds'
    <3>1. \A u \in Threads : /\ FrameOK(u)' <=> FrameOK(u)
                             /\ CreateOK(u)' <=> CreateOK(u)
                             /\ HoldsAt(u)' <=> HoldsAt(u)
      BY DEF FrameOK, CreateOK, HoldsAt
    <3>2. pc' = pc /\ arg' = arg /\ status' = status
      BY Zenon
    <3>3. QED
      BY <3>1, <3>2, Zenon DEF IInv, PcOK, StillHolds
  <2>4. ElemExclusive'
    BY Zenon DEF IInv, ElemExclusive
  <2>5. MutualExclusion'
    <3>1. \A l \in Locks, u \in Threads : /\ Owns(u, l)' <=> Owns(u, l)
                                          /\ InWindow(u, l)' <=> InWindow(u, l)
      BY Zenon DEF Owns, InWindow
    <3>2. \A u \in Threads : Gone(u)' => Gone(u)
      BY Zenon DEF Gone
    <3>3. \A l \in Locks, u \in Threads : ~ (holder[l] = u /\ InWindow(u, l))'
      BY <3>1, Zenon DEF IInv, MutualExclusion
    <3>4. QED
      BY <3>1, <3>2, <3>3, SameOwners, Zenon
  <2>6. QED
    BY <2>1, <2>2, <2>3, <2>4, <2>5, Zenon DEF IInv
<1>5. QED
  BY <1>1, <1>2, <1>3, <1>4, Zenon DEF Next

LEMMA SynchInvariant == Spec => []IInv
  BY InitInv, NextInv, PTL DEF Spec

(* Every step is a step of the scheduler or leaves it alone.                *)
LEMMA NextSched == IInv /\ [Next]_vars => [SchedNext]_sched
<1> SUFFICES ASSUME IInv, [Next]_vars PROVE [SchedNext]_sched
  BY Zenon
<1>1. ASSUME NEW t \in Threads, InCall(t) PROVE [SchedNext]_sched
  <2>1. ASSUME sema_down(t) PROVE [SchedNext]_sched
    BY <2>1, Zenon DEF sema_down, SchedNext
  <2>2. ASSUME sema_up(t) PROVE [SchedNext]_sched
    <3>1. arg[t] \in AllSemas /\ Up(arg[t])
      BY <2>2, SynchAssumption, Zenon DEF sema_up, At, IInv, PcOK, FrameOK, AllSemas
    <3>2. QED
      BY <3>1, UpEffect, Zenon
  <2>3. ASSUME StartThread(t) PROVE [SchedNext]_sched
    BY <2>3, Zenon DEF StartThread, At, IInv, PcOK, CreateOK, SchedNext
  <2>4. QED
    BY <1>1, <2>1, <2>2, <2>3, Zenon
    DEF InCall, SetHolder, CondRelease, CondSleep, CondReacquire, BroadcastStep
<1>2. ASSUME NEW t \in Threads, NewCall(t) PROVE [SchedNext]_sched
  <2>1. ASSUME NEW n \in Threads, thread_create(t, n) PROVE [SchedNext]_sched
    BY <2>1, Zenon DEF thread_create, SchedNext
  <2>2. ASSUME Yield(t) \/ thread_exit(t) PROVE [SchedNext]_sched
    BY <2>2, Zenon DEF Yield, thread_exit, SchedNext
  <2>3. QED
    BY <1>2, <2>1, <2>2, Zenon
    DEF NewCall, CallDown, CallUp, sema_try_down, lock_acquire, lock_try_acquire,
        lock_release, cond_wait, cond_signal, cond_broadcast
<1>3. ASSUME idle \/ Interrupt PROVE [SchedNext]_sched
  <2>1. ASSUME NEW s \in Semas, device_interrupt(s) PROVE [SchedNext]_sched
    BY <2>1, UpEffect, Zenon DEF device_interrupt, AllSemas
  <2>2. QED
    BY <1>3, <2>1, Zenon DEF idle, Interrupt, timer_interrupt, SchedNext
<1>4. ASSUME UNCHANGED vars PROVE [SchedNext]_sched
  BY <1>4, Zenon DEF vars
<1>5. QED
  BY <1>1, <1>2, <1>3, <1>4, Zenon DEF Next
------------------------------------------------------------------------------
(* Every variable keeps its type, whatever calls the threads make.          *)
THEOREM SynchTypes == Spec => []TypeOK
  BY SynchInvariant, PTL DEF IInv

(* Composed with semaphores, locks and condition variables, the scheduler   *)
(* is used only through its own operations: thread_unblock () meets only    *)
(* blocked threads and never the idle thread, so what SchedulerCorrect says *)
(* of thread.c alone holds of the composition.                              *)
THEOREM SynchUsesScheduler == Spec => SchedSpec
<1>1. Init => SchedInit
  BY Zenon DEF Init
<1>2. QED
  BY <1>1, SynchInvariant, NextSched, PTL DEF Spec, SchedSpec

(* Exactly the current thread is running and the run queue holds each ready *)
(* thread once, in every state the synchronisation calls can produce.       *)
THEOREM SynchRunQueue == Spec => []RunQueueConsistent
  BY SynchUsesScheduler, SchedulerCorrect, PTL

(* lock_acquire (), lock_try_acquire (), lock_release () and cond_wait ()   *)
(* never let two threads own a lock, and keep semaphore and holder in step. *)
THEOREM LocksExclude == Spec => []MutualExclusion
  BY SynchInvariant, PTL DEF IInv

(* The one list element of a thread is never on two lists, and a blocked    *)
(* thread is always where sema_up () or its creator will find it.           *)
THEOREM ListElementExclusive == Spec => []ElemExclusive
  BY SynchInvariant, PTL DEF IInv

(* The ASSERTs reached after a point of preemption hold: lock_release () in *)
(* cond_wait (), cond_signal () in cond_broadcast (), thread_unblock () in  *)
(* sema_up () and thread_create ().                                         *)
THEOREM AssertionsNeverFail == Spec => []AssertionsHold
<1>1. IInv => AssertionsHold
  <2> SUFFICES ASSUME IInv PROVE AssertionsHold
    BY Zenon
  <2>1. \A s \in AllSemas : waiters[s] # <<>> => status[Head(waiters[s])] = "BLOCKED"
    BY FirstWaiter, Zenon
  <2>2. QED
    BY <2>1, Zenon DEF IInv, PcOK, CreateOK, StillHolds, HoldsAt, AssertionsHold
<1>2. QED
  BY <1>1, SynchInvariant, PTL

(* u is among those woken, in the terms the scheduler's steps preserve.     *)
OnItsWay(u, s) == pc[u] = "waiting" /\ arg[u] = s /\ ~ Blocked(u) /\ ~ Gone(u)

Enough(s) == waiters[s] # <<>> => value[s] <= Cardinality(Woken(s))

WokenOnTheWay ==
    \A s \in AllSemas : \A u : u \in Woken(s) <=> u \in Threads /\ OnItsWay(u, s)

LEMMA WokenIs == TypeOK => WokenOnTheWay
  BY Zenon DEF WokenOnTheWay, Woken, OnItsWay, Blocked, Gone, TypeOK, SchedTypeOK, Statuses

(* The sizes of two sets of threads that differ by at most one.             *)
LEMMA Counting ==
    ASSUME NEW v \in Nat, NEW W \in SUBSET Threads, NEW W2 \in SUBSET Threads,
           v <= Cardinality(W)
    PROVE  /\ W \subseteq W2 => v <= Cardinality(W2)
           /\ \A h \in W2 : W \subseteq W2 /\ h \notin W => v + 1 <= Cardinality(W2)
           /\ \A t : W \ {t} \subseteq W2 => v - 1 <= Cardinality(W2)
<1>1. IsFiniteSet(W) /\ IsFiniteSet(W2)
  BY SynchAssumption, FS_Subset, Zenon
<1>2. Cardinality(W) \in Nat /\ Cardinality(W2) \in Nat
  BY <1>1, FS_CardinalityType, Zenon
<1>3. ASSUME W \subseteq W2 PROVE v <= Cardinality(W2)
  <2>1. Cardinality(W) <= Cardinality(W2)
    BY <1>1, <1>3, FS_Subset, Zenon
  <2>2. QED
    BY <1>2, <2>1
<1>4. ASSUME NEW h \in W2, W \subseteq W2, h \notin W PROVE v + 1 <= Cardinality(W2)
  <2>1. Cardinality(W \cup {h}) = Cardinality(W) + 1
    BY <1>1, <1>4, FS_AddElement, Zenon
  <2>2. W \cup {h} \in SUBSET W2
    BY <1>4, Zenon
  <2>3. Cardinality(W \cup {h}) <= Cardinality(W2)
    BY <1>1, <2>2, FS_Subset, Zenon
  <2>4. QED
    BY <1>2, <2>1, <2>3
<1>5. ASSUME NEW t, W \ {t} \subseteq W2 PROVE v - 1 <= Cardinality(W2)
  <2>1. Cardinality(W \ {t}) \in {Cardinality(W), Cardinality(W) - 1}
    BY <1>1, FS_RemoveElement, Zenon
  <2>2. Cardinality(W \ {t}) <= Cardinality(W2)
    BY <1>1, <1>5, FS_Subset, Zenon
  <2>3. QED
    BY <1>2, <2>1, <2>2
<1>6. QED
  BY <1>3, <1>4, <1>5, Zenon
------------------------------------------------------------------------------
(* What a step may do at one semaphore.                                     *)

(* Nobody is woken, and the value does not grow.                            *)
LEMMA StaysEnough ==
    ASSUME IInv, IInv', NEW s \in AllSemas, Enough(s),
           \/ waiters'[s] = <<>>
           \/ value'[s] = 0
           \/ /\ waiters'[s] = waiters[s] /\ value'[s] = value[s]
              /\ \A u \in Threads : OnItsWay(u, s) => OnItsWay(u, s)'
           \/ /\ waiters'[s] = waiters[s] /\ value'[s] = value[s] - 1
              /\ \E t : \A u \in Threads : OnItsWay(u, s) /\ u # t => OnItsWay(u, s)'
    PROVE  Enough(s)'
<1>1. WokenOnTheWay /\ WokenOnTheWay'
  BY WokenIs, PTL DEF IInv
<1>2. /\ Woken(s) \in SUBSET Threads /\ Woken(s)' \in SUBSET Threads
      /\ value[s] \in Nat
  BY Zenon DEF Woken, IInv, TypeOK
<1>3. SUFFICES ASSUME waiters'[s] # <<>> PROVE value'[s] <= Cardinality(Woken(s)')
  BY Zenon DEF Enough
<1>4. CASE value'[s] = 0
  <2>1. 0 <= Cardinality(Woken(s)')
    <3>1. IsFiniteSet(Woken(s)')
      BY <1>2, SynchAssumption, FS_Subset, Zenon
    <3>2. Cardinality(Woken(s)') \in Nat
      BY <3>1, FS_CardinalityType, Zenon
    <3>3. QED
      BY <3>2
  <2>2. QED
    BY <1>4, <2>1, Zenon
<1>5. CASE /\ waiters'[s] = waiters[s] /\ value'[s] = value[s]
           /\ \A u \in Threads : OnItsWay(u, s) => OnItsWay(u, s)'
  <2>1. Woken(s) \subseteq Woken(s)'
    BY <1>1, <1>5, Zenon DEF WokenOnTheWay
  <2>2. QED
    BY <1>2, <1>3, <1>5, <2>1, Counting, Zenon DEF Enough
<1>6. CASE /\ waiters'[s] = waiters[s] /\ value'[s] = value[s] - 1
           /\ \E t : \A u \in Threads : OnItsWay(u, s) /\ u # t => OnItsWay(u, s)'
  <2>1. PICK t : \A u \in Threads : OnItsWay(u, s) /\ u # t => OnItsWay(u, s)'
    BY <1>6, Zenon
  <2>2. Woken(s) \ {t} \subseteq Woken(s)'
    BY <1>1, <2>1, Zenon DEF WokenOnTheWay
  <2>3. QED
    BY <1>2, <1>3, <1>6, <2>2, Counting, Zenon DEF Enough
<1>7. QED
  BY <1>3, <1>4, <1>5, <1>6, Zenon

(* sema_up () increments the value, and its first waiter, if there is one,  *)
(* joins the woken.                                                         *)
LEMMA UpEnough ==
    ASSUME IInv, IInv', NoLostWakeup, NEW s \in AllSemas, Up(s),
           \A u \in Threads : pc[u] = "waiting" => pc'[u] = "waiting" /\ arg'[u] = arg[u]
    PROVE  NoLostWakeup'
<1>1. /\ value' = [value EXCEPT ![s] = value[s] + 1]
      /\ \A u \in Threads : Blocked(u)' => Blocked(u)
      /\ \A u \in Threads : Gone(u)' <=> Gone(u)
  BY UpEffect, Zenon DEF Blocked
<1>2. \A x \in AllSemas, u \in Threads : OnItsWay(u, x) => OnItsWay(u, x)'
  BY <1>1, Zenon DEF OnItsWay
<1>3. /\ value \in [AllSemas -> Nat] /\ waiters \in [AllSemas -> Seq(Threads)]
      /\ status \in [Threads -> Statuses]
      /\ \A x \in AllSemas : Enough(x)
  BY Zenon DEF IInv, TypeOK, SchedTypeOK, NoLostWakeup, Enough
<1>4. ASSUME NEW x \in AllSemas, x # s PROVE Enough(x)'
  <2>1. waiters'[x] = waiters[x] /\ value'[x] = value[x]
    BY <1>1, <1>3, <1>4, Zenon DEF Up
  <2>2. QED
    BY <1>2, <1>3, <2>1, StaysEnough, Zenon
<1>5. CASE waiters[s] = <<>>
  <2>1. waiters'[s] = <<>>
    BY <1>5, Zenon DEF Up
  <2>2. Enough(s)'
    BY <2>1, Zenon DEF Enough
  <2>3. QED
    BY <1>4, <2>2, Zenon DEF NoLostWakeup, Enough
<1>6. CASE waiters[s] # <<>>
  <2>1. PICK h \in Threads : h = Head(waiters[s])
    BY <1>6, FirstWaiter, Zenon
  <2>2. /\ h \in Threads /\ status[h] = "BLOCKED" /\ pc[h] = "waiting" /\ arg[h] = s
        /\ thread_unblock(h)
    BY <1>6, <2>1, FirstWaiter, Zenon DEF Up
  <2>3. status'[h] = "READY"
    BY <1>3, <2>2, Zenon DEF thread_unblock
  <2>4. ~ OnItsWay(h, s) /\ OnItsWay(h, s)'
    BY <2>2, <2>3, Zenon DEF OnItsWay, Blocked, Gone
  <2>5. WokenOnTheWay /\ WokenOnTheWay'
    BY WokenIs, PTL DEF IInv
  <2>6. Woken(s) \subseteq Woken(s)' /\ h \in Woken(s)' /\ h \notin Woken(s)
    BY <1>2, <2>2, <2>4, <2>5, Zenon DEF WokenOnTheWay
  <2>7. /\ Woken(s) \in SUBSET Threads /\ Woken(s)' \in SUBSET Threads
        /\ value[s] \in Nat /\ value[s] <= Cardinality(Woken(s))
        /\ value'[s] = value[s] + 1
    BY <1>1, <1>3, <1>6, Zenon DEF Woken, Enough
  <2>8. value'[s] <= Cardinality(Woken(s)')
    BY <2>6, <2>7, Counting, Zenon
  <2>9. QED
    BY <1>4, <2>8, Zenon DEF NoLostWakeup, Enough
<1>7. QED
  BY <1>5, <1>6, Zenon
------------------------------------------------------------------------------
(* One turn of the loop of sema_down ().                                    *)

LEMMA DownEnough ==
    ASSUME IInv, IInv', NoLostWakeup, NEW t \in Threads, sema_down(t)
    PROVE  NoLostWakeup'
<1>1. /\ current = t /\ pc[t] \in {"down", "waiting"} /\ FrameOK(t)
      /\ arg[t] \in AllSemas
  BY ZenonT(40) DEF sema_down, At, IInv, PcOK, FrameOK, AllSemas
<1>2. PICK s \in AllSemas : s = arg[t]
  BY <1>1, Zenon
<1>3. /\ value \in [AllSemas -> Nat] /\ waiters \in [AllSemas -> Seq(Threads)]
      /\ pc \in [Threads -> Pcs] /\ arg \in [Threads -> AllSemas \cup {NULL}]
      /\ \A x \in AllSemas : Enough(x)
  BY Zenon DEF IInv, TypeOK, NoLostWakeup, Enough
<1>4. CASE value[s] = 0
  <2>1. /\ waiters' = [waiters EXCEPT ![s] = Append(waiters[s], t)]
        /\ thread_block /\ pc' = [pc EXCEPT ![t] = "waiting"]
        /\ value' = value /\ arg' = arg
    BY <1>2, <1>4, Zenon DEF sema_down, Return
  <2>2. /\ t # idle_thread
        /\ KeepsClass(Threads \ {idle_thread, t}) /\ pc[idle_thread] # "waiting"
    BY <1>1, <2>1, SwitchClasses, SchedulerAssumption, Zenon DEF IInv, FrameOK, PcOK
  <2>3. ASSUME NEW x \in AllSemas, x # s PROVE Enough(x)'
    <3>1. waiters'[x] = waiters[x] /\ value'[x] = value[x]
      BY <1>3, <2>1, <2>3, Zenon
    <3>2. \A u \in Threads : OnItsWay(u, x) => u \in Threads \ {idle_thread, t}
      BY <1>2, <2>2, <2>3, Zenon DEF OnItsWay
    <3>3. \A u \in Threads \ {t} : pc'[u] = pc[u]
      BY <1>3, <2>1, Zenon
    <3>4. \A u \in Threads : OnItsWay(u, x) => OnItsWay(u, x)'
      BY <2>1, <2>2, <3>2, <3>3, Zenon DEF OnItsWay, KeepsClass
    <3>5. QED
      BY <1>3, <3>1, <3>4, StaysEnough, Zenon
  <2>4. Enough(s)'
    BY <1>3, <1>4, <2>1, StaysEnough, Zenon
  <2>5. QED
    BY <2>3, <2>4, Zenon DEF NoLostWakeup, Enough
<1>5. CASE value[s] # 0
  <2>1. /\ value' = [value EXCEPT ![s] = value[s] - 1] /\ UNCHANGED <<waiters, sched>>
        /\ \A u \in Threads \ {t} : pc'[u] = pc[u] /\ arg'[u] = arg[u]
    BY <1>2, <1>3, <1>5, Zenon DEF sema_down, Return
  <2>2. \A x \in AllSemas, u \in Threads : OnItsWay(u, x) /\ u # t => OnItsWay(u, x)'
    BY <2>1, Zenon DEF OnItsWay, Blocked, Gone, sched
  <2>3. ASSUME NEW x \in AllSemas, x # s PROVE Enough(x)'
    <3>1. waiters'[x] = waiters[x] /\ value'[x] = value[x]
      BY <1>3, <2>1, <2>3, Zenon
    <3>2. \A u \in Threads : OnItsWay(u, x) => OnItsWay(u, x)'
      BY <1>2, <2>2, <2>3, Zenon DEF OnItsWay
    <3>3. QED
      BY <1>3, <3>1, <3>2, StaysEnough, Zenon
  <2>4. Enough(s)'
    <3>1. waiters'[s] = waiters[s] /\ value'[s] = value[s] - 1
      BY <1>3, <2>1, Zenon
    <3>2. QED
      BY <1>3, <2>2, <3>1, StaysEnough, Zenon
  <2>5. QED
    BY <2>3, <2>4, Zenon DEF NoLostWakeup, Enough
<1>6. QED
  BY <1>4, <1>5, Zenon
------------------------------------------------------------------------------
(* All the other steps wake nobody and leave the woken where they are.      *)

LEMMA QuietEnough ==
    ASSUME IInv, IInv', NoLostWakeup,
           \A x \in AllSemas :
              \/ value'[x] = 0
              \/ waiters'[x] = waiters[x] /\ value'[x] \in {value[x], value[x] - 1},
           \A u \in Threads :
              pc[u] = "waiting" /\ ~ Blocked(u) /\ ~ Gone(u) =>
                 /\ pc'[u] = "waiting" /\ arg'[u] = arg[u]
                 /\ ~ Blocked(u)' /\ ~ Gone(u)'
    PROVE  NoLostWakeup'
<1>1. \A x \in AllSemas, u \in Threads : OnItsWay(u, x) => OnItsWay(u, x)'
  BY Zenon DEF OnItsWay
<1>2. ASSUME NEW x \in AllSemas PROVE Enough(x)'
  <2>1. Enough(x)
    BY Zenon DEF NoLostWakeup, Enough
  <2>2. CASE value'[x] = 0
    BY <2>1, <2>2, StaysEnough, Zenon
  <2>3. CASE waiters'[x] = waiters[x] /\ value'[x] \in {value[x], value[x] - 1}
    BY <1>1, <2>1, <2>3, StaysEnough, Zenon
  <2>4. QED
    BY <2>2, <2>3, Zenon
<1>3. QED
  BY <1>2, Zenon DEF NoLostWakeup, Enough

(* A thread goes on in its call, or makes one, without a switch.            *)
LEMMA LocalEnough ==
    ASSUME IInv, IInv', NoLostWakeup, NEW t \in Threads, pc[t] # "waiting",
           UNCHANGED sched,
           \A u \in Threads \ {t} : pc'[u] = pc[u] /\ arg'[u] = arg[u],
           \A x \in AllSemas :
              \/ value'[x] = 0
              \/ waiters'[x] = waiters[x] /\ value'[x] \in {value[x], value[x] - 1}
    PROVE  NoLostWakeup'
<1>1. ASSUME NEW u \in Threads, pc[u] = "waiting", ~ Blocked(u), ~ Gone(u)
      PROVE  /\ pc'[u] = "waiting" /\ arg'[u] = arg[u]
             /\ ~ Blocked(u)' /\ ~ Gone(u)'
  BY <1>1, Zenon DEF Blocked, Gone, sched
<1>2. QED
  BY <1>1, QuietEnough, Zenon

(* Preemption, yielding, exiting and the idle loop.                         *)
LEMMA SwitchEnough ==
    ASSUME IInv, IInv', NoLostWakeup, UNCHANGED <<value, waiters, arg>>,
           \A u \in Threads \ {idle_thread} :
              /\ pc'[u] = pc[u]
              /\ pc[u] = "waiting" => (Blocked(u)' <=> Blocked(u)) /\ (Gone(u)' <=> Gone(u))
    PROVE  NoLostWakeup'
<1>1. pc[idle_thread] # "waiting"
  BY SchedulerAssumption, Zenon DEF IInv, PcOK, FrameOK
<1>2. QED
  BY <1>1, QuietEnough, Zenon

(* A step inside a call.                                                    *)
LEMMA InCallEnough ==
    ASSUME IInv, IInv', NoLostWakeup, NEW t \in Threads, InCall(t)
    PROVE  NoLostWakeup'
<1>1. /\ pc \in [Threads -> Pcs] /\ arg \in [Threads -> AllSemas \cup {NULL}]
      /\ status \in [Threads -> Statuses]
  BY Zenon DEF IInv, TypeOK, SchedTypeOK
<1>2. CASE sema_up(t)
  <2>1. arg[t] \in AllSemas /\ Up(arg[t]) /\ pc[t] = "up" /\ Return(t, ret[t])
    BY <1>2, Zenon DEF sema_up, At, IInv, PcOK, FrameOK, AllSemas
  <2>2. \A u \in Threads : pc[u] = "waiting" => pc'[u] = "waiting" /\ arg'[u] = arg[u]
    BY <1>1, <2>1, Zenon DEF Return
  <2>3. QED
    BY <2>1, <2>2, UpEnough, Zenon
<1>3. CASE SetHolder(t) \/ CondRelease(t) \/ CondSleep(t) \/ CondReacquire(t) \/ BroadcastStep(t)
  <2>1. pc[t] # "waiting" /\ UNCHANGED <<sched, value, waiters>>
    BY <1>3, Zenon DEF SetHolder, CondRelease, CondSleep, CondReacquire, BroadcastStep, At
  <2>2. \A u \in Threads \ {t} : pc'[u] = pc[u] /\ arg'[u] = arg[u]
    BY <1>1, <1>3, Zenon
    DEF SetHolder, CondRelease, CondSleep, CondReacquire, BroadcastStep, Return, Release,
        Signal, Call
  <2>3. QED
    BY <2>1, <2>2, LocalEnough, Zenon
<1>4. CASE StartThread(t)
  <2>1. /\ pc[t] = "create" /\ pc[arg[t]] = "run" /\ arg[t] \in Threads
        /\ thread_unblock(arg[t]) /\ UNCHANGED <<value, waiters>>
    BY <1>4, Zenon DEF StartThread, At, IInv, PcOK, CreateOK
  <2>2. \A u \in Threads \ {t} : pc'[u] = pc[u] /\ arg'[u] = arg[u]
    BY <1>1, <1>4, Zenon DEF StartThread, Return
  <2>3. \A u \in Threads : pc[u] = "waiting" => status'[u] = status[u]
    BY <1>1, <2>1, Zenon DEF thread_unblock
  <2>4. \A u \in Threads : pc[u] = "waiting" /\ ~ Blocked(u) /\ ~ Gone(u) =>
           /\ pc'[u] = "waiting" /\ arg'[u] = arg[u]
           /\ ~ Blocked(u)' /\ ~ Gone(u)'
    BY <2>1, <2>2, <2>3, Zenon DEF Blocked, Gone
  <2>5. QED
    BY <2>1, <2>4, QuietEnough, Zenon
<1>5. QED
  BY <1>2, <1>3, <1>4, DownEnough, Zenon DEF InCall

(* A thread in its own code makes a call.                                   *)
LEMMA NewCallEnough ==
    ASSUME IInv, IInv', NoLostWakeup, NEW t \in Threads, NewCall(t)
    PROVE  NoLostWakeup'
<1>1. /\ pc \in [Threads -> Pcs] /\ arg \in [Threads -> AllSemas \cup {NULL}]
      /\ value \in [AllSemas -> Nat] /\ waiters \in [AllSemas -> Seq(Threads)]
      /\ status \in [Threads -> Statuses]
  BY Zenon DEF IInv, TypeOK, SchedTypeOK
<1>2. ASSUME NEW s \in Semas, CallDown(t, s) \/ CallUp(t, s) \/ sema_try_down(t, s)
      PROVE  NoLostWakeup'
  <2>1. pc[t] = "run" /\ UNCHANGED <<sched, waiters>>
    BY <1>2, Zenon DEF CallDown, CallUp, sema_try_down, At
  <2>2. \A u \in Threads \ {t} : pc'[u] = pc[u] /\ arg'[u] = arg[u]
    BY <1>1, <1>2, Zenon DEF CallDown, CallUp, sema_try_down, Call
  <2>3. \A x \in AllSemas : value'[x] \in {value[x], value[x] - 1}
    BY <1>1, <1>2, Zenon DEF CallDown, CallUp, sema_try_down
  <2>4. QED
    BY <2>1, <2>2, <2>3, LocalEnough, Zenon
<1>3. ASSUME NEW l \in Locks,
             lock_acquire(t, l) \/ lock_try_acquire(t, l) \/ lock_release(t, l)
      PROVE  NoLostWakeup'
  <2>1. pc[t] = "run" /\ UNCHANGED <<sched, waiters>>
    BY <1>3, Zenon DEF lock_acquire, lock_try_acquire, lock_release, At
  <2>2. \A u \in Threads \ {t} : pc'[u] = pc[u] /\ arg'[u] = arg[u]
    BY <1>1, <1>3, Zenon
    DEF lock_acquire, lock_try_acquire, lock_release, Release, Call, Goto
  <2>3. \A x \in AllSemas : value'[x] \in {value[x], value[x] - 1}
    BY <1>1, <1>3, Zenon DEF lock_acquire, lock_try_acquire, lock_release
  <2>4. QED
    BY <2>1, <2>2, <2>3, LocalEnough, Zenon
<1>4. ASSUME NEW c \in Conds, cond_wait(t, c) \/ cond_signal(t, c) \/ cond_broadcast(t, c)
      PROVE  NoLostWakeup'
  <2>1. pc[t] = "run" /\ UNCHANGED sched
    BY <1>4, Zenon DEF cond_wait, cond_signal, cond_broadcast, At
  <2>2. \A u \in Threads \ {t} : pc'[u] = pc[u] /\ arg'[u] = arg[u]
    BY <1>1, <1>4, Zenon DEF cond_wait, cond_signal, cond_broadcast, Signal, Call, Goto
  <2>3. \A x \in AllSemas : \/ value'[x] = 0
                            \/ waiters'[x] = waiters[x] /\ value'[x] = value[x]
    BY <1>1, <1>4, Zenon DEF cond_wait, cond_signal, cond_broadcast, sema_init
  <2>4. QED
    BY <2>1, <2>2, <2>3, LocalEnough, Zenon
<1>5. ASSUME NEW n \in Threads, thread_create(t, n) PROVE NoLostWakeup'
  <2>1. /\ pc[t] = "run" /\ Gone(n) /\ UNCHANGED <<value, waiters>>
        /\ \A u \in Threads \ {t} : pc'[u] = pc[u] /\ arg'[u] = arg[u]
        /\ \A u \in Threads \ {n} : status'[u] = status[u]
    BY <1>1, <1>5, Zenon DEF thread_create, At, Goto, init_thread, Gone
  <2>2. \A u \in Threads : pc[u] = "waiting" /\ ~ Blocked(u) /\ ~ Gone(u) =>
           /\ pc'[u] = "waiting" /\ arg'[u] = arg[u]
           /\ ~ Blocked(u)' /\ ~ Gone(u)'
    BY <2>1, Zenon DEF Blocked, Gone
  <2>3. QED
    BY <2>1, <2>2, QuietEnough, Zenon
<1>6. CASE Yield(t) \/ thread_exit(t)
  <2>1. /\ current = t /\ pc[t] = "run" /\ UNCHANGED <<value, waiters, pc, arg>>
        /\ thread_yield \/ thread_die
    BY <1>6, Zenon DEF Yield, thread_exit, At, synch
  <2>2. KeepsClass(Threads \ {idle_thread, t})
    BY <2>1, SwitchClasses, Zenon DEF IInv, KeepsClass
  <2>3. QED
    BY <2>1, <2>2, SwitchEnough, Zenon DEF KeepsClass
<1>7. QED
  BY <1>2, <1>3, <1>4, <1>5, <1>6, Zenon DEF NewCall

LEMMA NextEnough == IInv /\ IInv' /\ NoLostWakeup /\ [Next]_vars => NoLostWakeup'
<1> SUFFICES ASSUME IInv, IInv', NoLostWakeup, [Next]_vars PROVE NoLostWakeup'
  BY Zenon
<1>1. CASE idle
  <2>1. /\ thread_block /\ current = idle_thread /\ UNCHANGED <<value, waiters, arg>>
        /\ \A u \in Threads \ {idle_thread} : pc'[u] = pc[u]
    BY <1>1, Zenon DEF idle, At, Goto, IInv, TypeOK
  <2>2. KeepsClass(Threads \ {idle_thread, current})
    BY <2>1, SwitchClasses, Zenon DEF IInv
  <2>3. QED
    BY <2>1, <2>2, SwitchEnough, Zenon DEF KeepsClass
<1>2. CASE timer_interrupt
  <2>1. /\ thread_tick /\ UNCHANGED <<value, waiters, arg>>
        /\ \A u \in Threads \ {idle_thread} : pc'[u] = pc[u]
    BY <1>2, EndHaltEffect, Zenon DEF timer_interrupt
  <2>2. KeepsClass(Threads \ {idle_thread})
    BY <2>1, SwitchClasses, Zenon DEF IInv
  <2>3. QED
    BY <2>1, <2>2, SwitchEnough, Zenon DEF KeepsClass
<1>3. ASSUME NEW s \in Semas, device_interrupt(s) PROVE NoLostWakeup'
  <2>1. /\ s \in AllSemas /\ Up(s) /\ arg' = arg
        /\ \A u \in Threads \ {idle_thread} : pc'[u] = pc[u]
    BY <1>3, EndHaltEffect, Zenon DEF device_interrupt, AllSemas
  <2>2. pc[idle_thread] # "waiting"
    BY SchedulerAssumption, Zenon DEF IInv, PcOK, FrameOK
  <2>3. QED
    BY <2>1, <2>2, UpEnough, Zenon
<1>4. CASE UNCHANGED vars
  <2>1. UNCHANGED <<value, waiters, arg, pc, status>>
    BY <1>4, Zenon DEF vars, sched, synch
  <2>2. QED
    BY <2>1, SwitchEnough, Zenon DEF Blocked, Gone
<1>5. QED
  BY <1>1, <1>2, <1>3, <1>4, InCallEnough, NewCallEnough, Zenon DEF Next, Interrupt

(* sema_up () wakes one waiter and increments, but the woken thread tests   *)
(* again and may find the value taken.  For every number of threads, and    *)
(* however their calls and interrupts interleave, threads never sleep on a  *)
(* positive semaphore without as many others on their way to it.            *)
THEOREM WakeupsReachWaiters == Spec => []NoLostWakeup
<1>1. Init => NoLostWakeup
  BY Zenon DEF Init, NoLostWakeup
<1>2. QED
  BY <1>1, NextEnough, SynchInvariant, PTL DEF Spec
==============================================================================
