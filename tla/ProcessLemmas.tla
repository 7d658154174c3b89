---------------------------- MODULE ProcessLemmas ----------------------------
(***************************************************************************)
(* The inductive invariant of Process, what list.c does to a list of nodes, *)
(* and the steps of process.c that keep the invariant, process_execute ()   *)
(* excepted.                                                                *)
(***************************************************************************)
EXTENDS Process, TLAPS

Elems(s) == {s[i] : i \in 1 .. Len(s)}

(* Tids are handed out once.  A node outlives its thread, or the thread its *)
(* node, but as long as both exist tid_node is the node.                    *)
Identities ==
    /\ \A t \in Threads : Live(t) => th[t].tid < next_tid
    /\ \A t, u \in Threads : Live(t) /\ Live(u) /\ th[t].tid = th[u].tid => t = u
    /\ \A n \in Nodes : node[n] # NULL => node[n].tid < next_tid /\ node[n].tid \notin reaped
    /\ \A m, n \in Nodes : node[m] # NULL /\ node[n] # NULL /\ node[m].tid = node[n].tid => m = n
    /\ \A k \in reaped : k < next_tid
    /\ \A t \in Threads, n \in Nodes :
          Live(t) /\ node[n] # NULL /\ node[n].tid = th[t].tid => th[t].tid_node = n

(* What is on a child list was created by the owner of the list, has been   *)
(* loaded, and is not there twice.                                          *)
ListOf(t) ==
    Live(t) =>
       /\ Once(th[t].child_nodes)
       /\ \A n \in Elems(th[t].child_nodes) :
             node[n] # NULL /\ node[n].loaded = TRUE /\ parent[node[n].tid] = th[t].tid

(* process_execute () of t is about to put n on the list of t.              *)
Expects(t, n) ==
    /\ node[n] # NULL /\ node[n].tid = loc[t].tid /\ parent[node[n].tid] = th[t].tid
    /\ n \notin Elems(th[t].child_nodes)

(* Where a thread is and what its local variables point to.                 *)
CallOf(t) ==
    /\ pc[t] \in {"lookup", "get_node"} => \E n \in Nodes : Expects(t, n)
    /\ pc[t] \in {"get_node", "load_wait"} => loc[t].child \in Threads
    /\ pc[t] \in {"load_wait", "loaded"} => loc[t].node \in Nodes /\ Expects(t, loc[t].node)
    /\ pc[t] \in {"wait", "mark"} => loc[t].node \in Nodes
    /\ pc[t] = "wait" => loc[t].node \in Elems(th[t].child_nodes)
    /\ pc[t] = "load" => /\ OwnNode(t) /\ node[th[t].tid_node].loaded = FALSE
                         /\ th[t].load_sema = 0

Ending == {"free_children", "signal", "die"}

(* main has no node, and its page is never freed; any other thread has one, *)
(* and the flag that says so stands until it frees the nodes of its         *)
(* children.                                                                *)
PageOf(t) ==
    /\ t = main => Live(t) /\ th[t].tid_node = NULL /\ pc[t] \notin Ending \cup {"load"}
    /\ t # main /\ Live(t) => /\ th[t].tid_node # NULL
                              /\ pc[t] \notin Ending => th[t].tid_node_exists = TRUE

(* The exit status on its way from the process to its node.                 *)
StatusSet(n, k) ==
    /\ given[k] # NULL
    /\ \/ node[n].exit_status = given[k]
       \/ node[n].exit_status = -2 /\ given[k] = -1

StatusFinal(n, k) == given[k] # NULL /\ node[n].exit_status = Reported(given[k])

EndOf(t) ==
    Live(t) /\ OwnNode(t) =>
       /\ pc[t] # "die" => node[th[t].tid_node].sema = 0
       /\ pc[t] \notin Ending \cup {"exit"} => node[th[t].tid_node].exit_status = -2
       /\ pc[t] = "exit" => StatusSet(th[t].tid_node, th[t].tid)
       /\ pc[t] \in Ending => StatusFinal(th[t].tid_node, th[t].tid)
       /\ pc[t] \notin {"signal", "die"} => node[th[t].tid_node].child = t

Signalled(n) == node[n] # NULL /\ node[n].sema > 0 => StatusFinal(n, node[n].tid)

(* An inductive invariant: types, tids, then what holds of each thread and  *)
(* each node.                                                               *)
IInv ==
    /\ TypeOK /\ Identities
    /\ \A t \in Threads : ListOf(t) /\ CallOf(t) /\ PageOf(t) /\ EndOf(t)
    /\ \A n \in Nodes : Signalled(n)

------------------------------------------------------------------------------
(* The lists of nodes.                                                      *)

(* list_push_back () of a node that is not on the list.                     *)
LEMMA ListAppend ==
    ASSUME NEW q \in Seq(Nodes), NEW x \in Nodes
    PROVE  /\ Append(q, x) \in Seq(Nodes)
           /\ Elems(Append(q, x)) = Elems(q) \cup {x}
           /\ Once(q) /\ x \notin Elems(q) => Once(Append(q, x))
<1>1. /\ Append(q, x) \in Seq(Nodes) /\ Len(Append(q, x)) = Len(q) + 1
      /\ Append(q, x)[Len(q) + 1] = x
      /\ \A i \in 1 .. Len(q) : Append(q, x)[i] = q[i]
      /\ Len(q) \in Nat
  OBVIOUS
<1>2. Elems(Append(q, x)) = Elems(q) \cup {x}
  <2>1. \A i \in 1 .. Len(q) + 1 : i \in 1 .. Len(q) \/ i = Len(q) + 1
    BY <1>1
  <2>2. Len(q) + 1 \in 1 .. Len(q) + 1 /\ \A i \in 1 .. Len(q) : i \in 1 .. Len(q) + 1
    BY <1>1
  <2>3. QED
    BY <1>1, <2>1, <2>2, Zenon DEF Elems
<1>3. ASSUME Once(q), x \notin Elems(q)
      PROVE  Once(Append(q, x))
  BY <1>1, <1>3 DEF Once, Elems
<1>4. QED
  BY <1>1, <1>2, <1>3, Zenon

(* list_pop_front ().                                                       *)
LEMMA ListTail ==
    ASSUME NEW q \in Seq(Nodes), q # <<>>
    PROVE  /\ Head(q) \in Nodes /\ Head(q) \in Elems(q) /\ Tail(q) \in Seq(Nodes)
           /\ Elems(Tail(q)) \subseteq Elems(q)
           /\ Once(q) => Once(Tail(q)) /\ Head(q) \notin Elems(Tail(q))
<1>1. /\ Head(q) \in Nodes /\ Tail(q) \in Seq(Nodes) /\ Len(Tail(q)) = Len(q) - 1
      /\ \A i \in 1 .. Len(Tail(q)) : Tail(q)[i] = q[i+1]
  OBVIOUS
<1>2. Len(q) \in Nat \ {0} /\ Head(q) = q[1] /\ 1 \in 1 .. Len(q)
  OBVIOUS
<1>3. \A i \in 1 .. Len(Tail(q)) : i + 1 \in 1 .. Len(q) /\ i + 1 # 1
  BY <1>1, <1>2
<1>4. Head(q) \in Elems(q)
  BY <1>2, Zenon DEF Elems
<1>5. Elems(Tail(q)) \subseteq Elems(q)
  BY <1>1, <1>3, Zenon DEF Elems
<1>6. ASSUME Once(q)
      PROVE  Once(Tail(q)) /\ Head(q) \notin Elems(Tail(q))
  <2>1. \A i, j \in 1 .. Len(Tail(q)) : Tail(q)[i] = Tail(q)[j] => i = j
    BY <1>1, <1>2, <1>3, <1>6 DEF Once
  <2>2. \A i \in 1 .. Len(Tail(q)) : Tail(q)[i] # Head(q)
    BY <1>1, <1>2, <1>3, <1>6, Zenon DEF Once
  <2>3. QED
    BY <2>1, <2>2, Zenon DEF Once, Elems
<1>7. QED
  BY <1>1, <1>4, <1>5, <1>6, Zenon

(* list_remove ().                                                          *)
LEMMA ListRemove ==
    ASSUME NEW q \in Seq(Nodes), NEW x \in Elems(q)
    PROVE  /\ Without(q, x) \in Seq(Nodes)
           /\ Elems(Without(q, x)) \subseteq Elems(q)
           /\ Elems(q) \subseteq Elems(Without(q, x)) \cup {x}
           /\ Once(q) => Once(Without(q, x)) /\ x \notin Elems(Without(q, x))
<1> DEFINE i == CHOOSE i \in 1 .. Len(q) : q[i] = x
           r == Without(q, x)
<1>1. i \in 1 .. Len(q) /\ q[i] = x /\ Len(q) \in Nat
  BY DEF Elems
<1>2. r = [j \in 1 .. Len(q) - 1 |-> IF j < i THEN q[j] ELSE q[j + 1]]
  BY Zenon DEF Without
<1> HIDE DEF i, r
<1>3. /\ r \in Seq(Nodes) /\ Len(r) = Len(q) - 1
      /\ \A j \in 1 .. Len(q) - 1 : r[j] = IF j < i THEN q[j] ELSE q[j + 1]
  BY <1>1, <1>2
<1>4. Elems(r) \subseteq Elems(q)
  BY <1>1, <1>3 DEF Elems
<1>5. ASSUME Once(q)
      PROVE  Once(r) /\ x \notin Elems(r)
  <2>1. \A j, k \in 1 .. Len(q) - 1 : r[j] = r[k] => j = k
    BY <1>1, <1>3, <1>5 DEF Once
  <2>2. \A j \in 1 .. Len(q) - 1 : r[j] # x
    BY <1>1, <1>3, <1>5 DEF Once
  <2>3. QED
    BY <1>3, <2>1, <2>2, Zenon DEF Once, Elems
<1>6. ASSUME NEW j \in 1 .. Len(q), j # i
      PROVE  q[j] \in Elems(r)
  <2>1. CASE j < i
    <3>1. j \in 1 .. Len(q) - 1 /\ r[j] = q[j]
      BY <1>1, <1>3, <2>1
    <3>2. QED
      BY <1>3, <3>1, Zenon DEF Elems
  <2>2. CASE ~ (j < i)
    <3>1. j - 1 \in 1 .. Len(q) - 1 /\ ~ (j - 1 < i) /\ (j - 1) + 1 = j
      BY <1>1, <1>6, <2>2
    <3>2. r[j - 1] = q[j]
      BY <1>3, <3>1, Zenon
    <3>3. QED
      BY <1>3, <3>1, <3>2, Zenon DEF Elems
  <2>3. QED
    BY <2>1, <2>2, Zenon
<1>7. Elems(q) \subseteq Elems(r) \cup {x}
  BY <1>1, <1>6, Zenon DEF Elems
<1>8. QED
  BY <1>3, <1>4, <1>5, <1>7, Zenon DEF r
------------------------------------------------------------------------------
LEMMA InitInvariant == Init => IInv
<1> SUFFICES ASSUME Init PROVE IInv
  BY Zenon
<1>1. NewThread(1, NULL) \in Thread /\ NoLocals \in Locals
  BY ProcessAssumption DEF NewThread, NoLocals, Thread, Locals, Tids
<1>2. /\ NewThread(1, NULL) # NULL /\ th[main] = NewThread(1, NULL) /\ pc[main] = "user"
      /\ \A t \in Threads \ {main} : th[t] = NULL /\ pc[t] = "none"
      /\ \A n \in Nodes : node[n] = NULL
  BY <1>1, ProcessAssumption, Zenon DEF Init
<1>3. TypeOK
  BY <1>1, <1>2, ProcessAssumption DEF Init, TypeOK, Pcs, Tids
<1>4. /\ th[main].tid = 1 /\ th[main].tid_node = NULL /\ th[main].child_nodes = <<>>
      /\ next_tid = 2 /\ reaped = {}
  BY <1>2 DEF NewThread, Init
<1>5. Identities
  BY <1>2, <1>4 DEF Identities, Live
<1>6. \A t \in Threads : ListOf(t) /\ CallOf(t) /\ PageOf(t)
  <2>1. Once(<<>>) /\ Elems(<<>>) = {}
    BY DEF Once, Elems
  <2>2. \A t \in Threads : ListOf(t)
    BY <1>2, <1>4, <2>1, Zenon DEF ListOf, Live
  <2>3. \A t \in Threads : CallOf(t) /\ PageOf(t)
    BY <1>2, <1>4, Zenon DEF CallOf, PageOf, Live, Ending
  <2>4. QED
    BY <2>2, <2>3, Zenon
<1>7. \A t \in Threads : EndOf(t)
  BY <1>2, <1>4, Zenon DEF EndOf, Live, OwnNode
<1>8. \A n \in Nodes : Signalled(n)
  BY <1>2, Zenon DEF Signalled
<1>9. QED
  BY <1>3, <1>5, <1>6, <1>7, <1>8, Zenon DEF IInv

(* A step that creates and frees nothing and leaves the lists as they are.  *)
SameShape ==
    /\ \A u \in Threads :
          /\ th'[u] = NULL <=> th[u] = NULL
          /\ th[u] # NULL =>
                /\ th'[u].tid = th[u].tid
                /\ th'[u].tid_node = th[u].tid_node
                /\ th'[u].child_nodes = th[u].child_nodes
    /\ \A n \in Nodes :
          /\ node'[n] = NULL <=> node[n] = NULL
          /\ node[n] # NULL => node'[n].tid = node[n].tid
    /\ UNCHANGED <<next_tid, parent, reaped>>

(* An access to freed memory, or such a step that does not change the mark  *)
(* `loaded' of a node.                                                      *)
KeepsShape ==
    fault' = "none" =>
       SameShape /\ \A n \in Nodes : node[n] # NULL => node'[n].loaded = node[n].loaded

(* An access to freed memory ends the behaviour.                            *)
LEMMA FaultStep ==
    ASSUME IInv, NEW what \in {"null node", "freed node", "freed thread"}, Fault(what)
    PROVE  IInv' /\ KeepsShape
<1>1. UNCHANGED <<th, node, pc, loc, next_tid, parent, given, ran, denied, reaped, refused>>
  BY Zenon DEF Fault, history
<1>2. TypeOK'
  BY <1>1, Zenon DEF IInv, TypeOK, Fault
<1>3. Identities'
  BY <1>1, Zenon DEF IInv, Identities, Live
<1>4. \A u \in Threads : ListOf(u)' /\ CallOf(u)' /\ PageOf(u)'
  <2>1. \A u \in Threads : ListOf(u)' /\ PageOf(u)'
    BY <1>1, Zenon DEF IInv, ListOf, PageOf, Live
  <2>2. \A u \in Threads : CallOf(u)'
    BY <1>1, Zenon DEF IInv, CallOf, Expects, OwnNode
  <2>3. QED
    BY <2>1, <2>2, Zenon
<1>5. \A u \in Threads : EndOf(u)'
  BY <1>1, Zenon DEF IInv, EndOf, OwnNode, StatusSet, StatusFinal, Live
<1>6. \A n \in Nodes : Signalled(n)'
  BY <1>1, Zenon DEF IInv, Signalled, StatusFinal
<1>7. KeepsShape
  BY Zenon DEF Fault, KeepsShape
<1>8. QED
  BY <1>2, <1>3, <1>4, <1>5, <1>6, <1>7, Zenon DEF IInv
------------------------------------------------------------------------------
LEMMA ShapeKept ==
    ASSUME TypeOK, Identities, SameShape
    PROVE  /\ Identities'
           /\ \A u \in Threads : th[u] # NULL => (OwnNode(u)' <=> OwnNode(u))
           /\ \A u \in Threads, n \in Nodes :
                 th[u] # NULL /\ loc'[u] = loc[u] => (Expects(u, n)' <=> Expects(u, n))
<1>1. Identities'
  BY DEF Identities, SameShape, Live
<1>2. \A u \in Threads :
         th[u] # NULL => th[u].child_nodes \in Seq(Nodes) /\ th[u].tid_node \in Nodes \cup {NULL}
  BY Zenon DEF TypeOK, Thread
<1>3. \A u \in Threads : th[u] # NULL => (OwnNode(u)' <=> OwnNode(u))
  BY <1>2 DEF SameShape, OwnNode
<1>4. \A u \in Threads, n \in Nodes :
         th[u] # NULL /\ loc'[u] = loc[u] => (Expects(u, n)' <=> Expects(u, n))
  BY DEF SameShape, Expects, Elems
<1>5. QED
  BY <1>1, <1>3, <1>4, Zenon

(* A step of t that changes no field another thread relies on: besides its  *)
(* own fields it touches the node made for it and the marks `loaded' of its *)
(* own node and `waiting' of any.                                           *)
OwnStep(t) ==
    /\ \A u \in Threads \ {t} :
          /\ pc'[u] = pc[u] /\ loc'[u] = loc[u]
          /\ th[u] # NULL => th'[u].tid_node_exists = th[u].tid_node_exists
          /\ pc[u] = "load" => th'[u].load_sema = th[u].load_sema
    /\ \A n \in Nodes :
          /\ node[n] # NULL /\ node[n].loaded = TRUE => node'[n].loaded = TRUE
          /\ node[n] # NULL /\ node[n].tid # th[t].tid =>
                /\ node'[n].exit_status = node[n].exit_status
                /\ node'[n].child = node[n].child
                /\ node'[n].loaded = node[n].loaded
                /\ node'[n].sema = node[n].sema
    /\ \A k \in Tids \ {th[t].tid} : given'[k] = given[k]

(* Such a step preserves the invariant if it does so for t and its node.    *)
LEMMA OwnStepKeeps ==
    ASSUME IInv, SameShape, NEW t \in Threads, th[t] # NULL, OwnStep(t), TypeOK',
           CallOf(t)', PageOf(t)', EndOf(t)',
           \A n \in Nodes : node[n] # NULL /\ node[n].tid = th[t].tid => Signalled(n)'
    PROVE  IInv'
<1>1. /\ Identities'
      /\ \A u \in Threads : th[u] # NULL => (OwnNode(u)' <=> OwnNode(u))
      /\ \A u \in Threads, n \in Nodes :
            th[u] # NULL /\ loc'[u] = loc[u] => (Expects(u, n)' <=> Expects(u, n))
  BY ShapeKept, Zenon DEF IInv
<1>2. \A u \in Threads : ListOf(u)'
  <2> TAKE u \in Threads
  <2>1. ListOf(u) /\ (th[u] # NULL => th[u].child_nodes \in Seq(Nodes))
    BY Zenon DEF IInv, TypeOK, Thread
  <2>2. \A n \in Elems(th[u].child_nodes) : th[u] # NULL => n \in Nodes
    BY <2>1 DEF Elems
  <2>3. QED
    BY <2>1, <2>2, Zenon DEF ListOf, Live, SameShape, OwnStep
<1>3. ASSUME NEW u \in Threads, u # t, th[u] # NULL
      PROVE  /\ th[u].tid # th[t].tid /\ th[u].tid \in Tids
             /\ OwnNode(u) => th[u].tid_node \in Nodes /\ node[th[u].tid_node].tid # th[t].tid
  <2>1. th[u].tid # th[t].tid
    BY <1>3, Zenon DEF IInv, Identities, Live
  <2>2. th[u].tid \in Tids /\ th[u].tid_node \in Nodes \cup {NULL}
    BY <1>3, Zenon DEF IInv, TypeOK, Thread
  <2>3. QED
    BY <2>1, <2>2, Zenon DEF OwnNode
<1>4. ASSUME NEW u \in Threads, u # t, th[u] = NULL
      PROVE  CallOf(u)' /\ PageOf(u)' /\ EndOf(u)'
  BY <1>4, Zenon DEF IInv, TypeOK, CallOf, PageOf, EndOf, OwnStep, SameShape, Live
<1>5. ASSUME NEW u \in Threads, u # t, th[u] # NULL
      PROVE  CallOf(u)'
  <2>1. CallOf(u) /\ pc'[u] = pc[u] /\ loc'[u] = loc[u]
    BY <1>5, Zenon DEF IInv, OwnStep
  <2>2. th'[u].child_nodes = th[u].child_nodes /\ th'[u].tid_node = th[u].tid_node
    BY <1>5, Zenon DEF SameShape
  <2>3. CASE pc[u] \in {"lookup", "get_node"}
    BY <1>1, <1>5, <2>1, <2>3, Zenon DEF CallOf
  <2>4. CASE pc[u] \in {"load_wait", "loaded"}
    BY <1>1, <1>5, <2>1, <2>4, Zenon DEF CallOf
  <2>5. CASE pc[u] \in {"wait", "mark"}
    BY <2>1, <2>2, <2>5, Zenon DEF CallOf
  <2>6. CASE pc[u] = "load"
    BY <1>1, <1>3, <1>5, <2>1, <2>2, <2>6 DEF CallOf, OwnStep, OwnNode
  <2>7. QED
    BY <2>1, <2>3, <2>4, <2>5, <2>6, Zenon DEF CallOf
<1>6. ASSUME NEW u \in Threads, u # t, th[u] # NULL
      PROVE  PageOf(u)'
  BY <1>6, ZenonT(40) DEF IInv, PageOf, OwnStep, SameShape, Live
<1>7. ASSUME NEW u \in Threads, u # t, th[u] # NULL
      PROVE  EndOf(u)'
  <2>1. EndOf(u) /\ pc'[u] = pc[u] /\ th'[u].tid_node = th[u].tid_node /\ th'[u].tid = th[u].tid
    BY <1>7, Zenon DEF IInv, OwnStep, SameShape
  <2>2. CASE ~ OwnNode(u)
    BY <1>1, <1>7, <2>2, Zenon DEF EndOf
  <2>3. CASE OwnNode(u)
    <3>1. /\ node'[th[u].tid_node].exit_status = node[th[u].tid_node].exit_status
          /\ node'[th[u].tid_node].child = node[th[u].tid_node].child
          /\ node'[th[u].tid_node].sema = node[th[u].tid_node].sema
          /\ given'[th[u].tid] = given[th[u].tid]
      BY <1>3, <1>7, <2>3, Zenon DEF OwnStep, OwnNode
    <3>2. QED
      BY <1>7, <2>1, <2>3, <3>1, Zenon DEF EndOf, Live, StatusSet, StatusFinal
  <2>4. QED
    BY <2>2, <2>3, Zenon
<1>8. \A n \in Nodes : Signalled(n)'
  <2> TAKE n \in Nodes
  <2>1. CASE node[n] = NULL
    BY <2>1, Zenon DEF Signalled, SameShape
  <2>2. CASE node[n] # NULL /\ node[n].tid # th[t].tid
    <3>1. node[n].tid \in Tids /\ Signalled(n)
      BY <2>2, Zenon DEF IInv, TypeOK, TidStatus
    <3>2. QED
      BY <2>2, <3>1 DEF Signalled, StatusFinal, SameShape, OwnStep
  <2>3. QED
    BY <2>1, <2>2, Zenon
<1>9. QED
  BY <1>1, <1>2, <1>4, <1>5, <1>6, <1>7, <1>8, Zenon DEF IInv
------------------------------------------------------------------------------
(* The steps of process_execute () after thread_create ().                  *)

LEMMA LookupStep ==
    ASSUME IInv, NEW t \in Threads, Lookup(t)
    PROVE  IInv' /\ SameShape
<1>0. /\ pc[t] = "lookup" /\ th[t] # NULL
      /\ UNCHANGED <<th, node, next_tid, fault, parent, given, ran, reaped, refused>>
      /\ loc \in [Threads -> Locals] /\ pc \in [Threads -> Pcs]
  BY Zenon DEF Lookup, At, IInv, TypeOK
<1>1. PICK n \in Nodes : Expects(t, n)
  BY <1>0, Zenon DEF IInv, CallOf
<1>2. loc[t].tid \in Tids /\ loc[t] \in Locals
  BY <1>0, <1>1, Zenon DEF IInv, TypeOK, Expects, TidStatus
<1>3. /\ pc' \in [Threads -> Pcs] /\ pc'[t] \in {"user", "get_node"}
      /\ \A u \in Threads \ {t} : pc'[u] = pc[u] /\ loc'[u] = loc[u]
      /\ loc' \in [Threads -> Locals]
      /\ pc'[t] = "get_node" => loc'[t].child \in Threads /\ loc'[t].tid = loc[t].tid
      /\ denied' \subseteq denied \cup Tids
  <2>1. CASE get_thread_by_tid(loc[t].tid) = {}
    <3>1. /\ pc' = [pc EXCEPT ![t] = "user"] /\ loc' = [loc EXCEPT ![t] = NoLocals]
          /\ denied' = denied \cup {loc[t].tid}
      BY <2>1, Zenon DEF Lookup, SysReturn, Goto
    <3>2. NoLocals \in Locals
      BY Zenon DEF NoLocals, Locals
    <3>3. QED
      BY <1>0, <1>2, <3>1, <3>2, Zenon DEF Pcs
  <2>2. CASE get_thread_by_tid(loc[t].tid) # {}
    <3>1. pc' = [pc EXCEPT ![t] = "get_node"] /\ denied' = denied
      BY <2>2, Zenon DEF Lookup, Goto
    <3>2. PICK c \in Threads : loc' = [loc EXCEPT ![t].child = c]
      BY <2>2, Zenon DEF Lookup, get_thread_by_tid
    <3>3. loc' \in [Threads -> Locals] /\ loc'[t].child = c /\ loc'[t].tid = loc[t].tid
      BY <1>0, <1>2, <3>2, Zenon DEF Locals
    <3>4. QED
      BY <1>0, <3>1, <3>2, <3>3, Zenon DEF Pcs
  <2>3. QED
    BY <2>1, <2>2, Zenon
<1>4. TypeOK'
  <2>1. \A u \in Threads : pc'[u] = "none" <=> th'[u] = NULL
    BY <1>0, <1>3, Zenon DEF IInv, TypeOK
  <2>2. {ran, denied, reaped, refused}' \subseteq SUBSET Tids
    BY <1>0, <1>3, Zenon DEF IInv, TypeOK
  <2>3. QED
    BY <1>0, <1>3, <2>1, <2>2, Zenon DEF IInv, TypeOK
<1>5. SameShape /\ OwnStep(t)
  BY <1>0, <1>3, Zenon DEF SameShape, OwnStep
<1>6. CallOf(t)'
  <2>1. pc'[t] = "get_node" => Expects(t, n)'
    BY <1>0, <1>1, <1>3, Zenon DEF Expects
  <2>2. QED
    BY <1>0, <1>3, <2>1, Zenon DEF CallOf
<1>7. PageOf(t)' /\ EndOf(t)'
  <2>1. PageOf(t) /\ EndOf(t)
    BY Zenon DEF IInv
  <2>2. QED
    BY <1>0, <1>3, <2>1, Zenon DEF PageOf, EndOf, Live, Ending, OwnNode
<1>8. \A m \in Nodes : Signalled(m)'
  BY <1>0, Zenon DEF IInv, Signalled, StatusFinal
<1>9. QED
  BY <1>0, <1>4, <1>5, <1>6, <1>7, <1>8, OwnStepKeeps, Zenon

LEMMA GetNodeStep ==
    ASSUME IInv, NEW t \in Threads, GetNode(t)
    PROVE  IInv'
<1>1. CASE ~ ChildPage(t)
  BY <1>1, FaultStep, Zenon DEF GetNode
<1>2. CASE ChildPage(t)
  <2> DEFINE c == loc[t].child
  <2>0. /\ pc[t] = "get_node" /\ th[t] # NULL /\ c \in Threads
        /\ UNCHANGED <<th, node, next_tid, fault, history>>
        /\ pc' = [pc EXCEPT ![t] = "load_wait"]
        /\ loc' = [loc EXCEPT ![t].node = th[c].tid_node]
        /\ loc \in [Threads -> Locals] /\ pc \in [Threads -> Pcs]
    BY <1>2, Zenon DEF GetNode, Goto, At, IInv, TypeOK, CallOf
  <2>1. PICK n \in Nodes : Expects(t, n)
    BY <2>0, Zenon DEF IInv, CallOf
  <2>2. th[c] # NULL /\ th[c].tid = loc[t].tid
    BY <1>2, Zenon DEF ChildPage
  <2>3. th[c].tid_node = n
    BY <2>0, <2>1, <2>2 DEF IInv, Identities, Expects, Live
  <2>4. /\ loc' \in [Threads -> Locals]
        /\ loc'[t].child = c /\ loc'[t].tid = loc[t].tid /\ loc'[t].node = n
    BY <2>0, <2>3, Zenon DEF Locals
  <2>5. TypeOK'
    <3>1. pc' \in [Threads -> Pcs] /\ \A u \in Threads : pc'[u] = "none" <=> th'[u] = NULL
      BY <2>0, Zenon DEF IInv, TypeOK, Pcs
    <3>2. QED
      BY <2>0, <2>4, <3>1, Zenon DEF IInv, TypeOK, history
  <2>6. SameShape /\ OwnStep(t)
    BY <2>0, Zenon DEF SameShape, OwnStep, history
  <2>7. CallOf(t)'
    <3>1. Expects(t, n)'
      BY <2>0, <2>1, <2>4, Zenon DEF Expects, history
    <3>2. pc'[t] = "load_wait"
      BY <2>0, Zenon
    <3>3. QED
      BY <2>0, <2>4, <3>1, <3>2, Zenon DEF CallOf
  <2>8. PageOf(t)' /\ EndOf(t)'
    <3>1. PageOf(t) /\ EndOf(t) /\ pc'[t] = "load_wait"
      BY <2>0, Zenon DEF IInv
    <3>2. QED
      BY <2>0, <3>1, Zenon DEF PageOf, EndOf, Live, Ending, OwnNode, history
  <2>9. \A m \in Nodes : Signalled(m)'
    BY <2>0, Zenon DEF IInv, Signalled, StatusFinal, history
  <2>10. QED
    BY <2>0, <2>5, <2>6, <2>7, <2>8, <2>9, OwnStepKeeps, Zenon
<1>3. QED
  BY <1>1, <1>2, Zenon

(* sema_down (&child->load_sema) is not executed while the child it belongs *)
(* to is still loading, for that one has not raised it yet.                 *)
LEMMA LoadWaitStep ==
    ASSUME IInv, NEW t \in Threads, LoadWait(t)
    PROVE  IInv' /\ SameShape
<1> DEFINE c == loc[t].child
<1>0. /\ pc[t] = "load_wait" /\ th[t] # NULL /\ c \in Threads
      /\ UNCHANGED <<node, loc, next_tid, fault, history>>
      /\ pc' = [pc EXCEPT ![t] = "loaded"]
      /\ th[c] # NULL => th[c].load_sema > 0
      /\ th' = IF th[c] = NULL THEN th ELSE [th EXCEPT ![c].load_sema = @ - 1]
      /\ pc \in [Threads -> Pcs] /\ th \in [Threads -> {NULL} \cup Thread]
  BY Zenon DEF LoadWait, Goto, At, IInv, TypeOK, CallOf
<1>1. /\ th' \in [Threads -> {NULL} \cup Thread]
      /\ \A u \in Threads :
            /\ th'[u] = NULL <=> th[u] = NULL
            /\ th[u] # NULL =>
                  /\ th'[u].tid = th[u].tid
                  /\ th'[u].tid_node = th[u].tid_node
                  /\ th'[u].child_nodes = th[u].child_nodes
                  /\ th'[u].tid_node_exists = th[u].tid_node_exists
            /\ u # c => th'[u] = th[u]
  <2>1. CASE th[c] = NULL
    BY <1>0, <2>1, Zenon
  <2>2. CASE th[c] # NULL
    <3>1. /\ th[c] \in Thread /\ th[c].load_sema \in 0 .. 1 /\ th[c].load_sema - 1 \in 0 .. 1
      BY <1>0, <2>2 DEF Thread
    <3>2. /\ th'[c] \in Thread /\ th'[c].tid = th[c].tid
          /\ th'[c].tid_node = th[c].tid_node /\ th'[c].child_nodes = th[c].child_nodes
          /\ th'[c].tid_node_exists = th[c].tid_node_exists
          /\ \A u \in Threads \ {c} : th'[u] = th[u]
          /\ th' \in [Threads -> {NULL} \cup Thread]
      BY <1>0, <2>2, <3>1, Zenon DEF Thread
    <3>3. NULL \notin Thread
      BY ProcessAssumption, Zenon
    <3>4. QED
      BY <2>2, <3>2, <3>3, Zenon
  <2>3. QED
    BY <2>1, <2>2, Zenon
<1>2. TypeOK'
  <2>1. pc' \in [Threads -> Pcs] /\ \A u \in Threads : pc'[u] = "none" <=> th'[u] = NULL
    BY <1>0, <1>1, Zenon DEF IInv, TypeOK, Pcs
  <2>2. QED
    BY <1>0, <1>1, <2>1, Zenon DEF IInv, TypeOK, history
<1>3. SameShape
  BY <1>0, <1>1, Zenon DEF SameShape, history
<1>4. pc[c] # "load"
  <2>1. th[c] # NULL => th[c].load_sema # 0
    BY <1>0
  <2>2. CallOf(c) /\ (pc[c] = "load" => th[c] # NULL)
    BY <1>0, Zenon DEF IInv, TypeOK
  <2>3. QED
    BY <2>1, <2>2, Zenon DEF CallOf
<1>5. OwnStep(t)
  BY <1>0, <1>1, <1>4, Zenon DEF OwnStep, history
<1>6. CallOf(t)'
  <2>1. PICK n \in Nodes : n = loc[t].node /\ Expects(t, n)
    BY <1>0, Zenon DEF IInv, CallOf
  <2>2. pc'[t] = "loaded" /\ loc' = loc
    BY <1>0, Zenon
  <2>3. Expects(t, n)'
    BY <1>0, <1>3, <2>1, <2>2, ShapeKept, Zenon DEF IInv
  <2>4. QED
    BY <2>1, <2>2, <2>3, Zenon DEF CallOf
<1>7. PageOf(t)' /\ EndOf(t)'
  <2>1. PageOf(t) /\ EndOf(t) /\ pc'[t] = "loaded"
    BY <1>0, Zenon DEF IInv
  <2>2. QED
    BY <1>0, <1>1, <2>1, Zenon DEF PageOf, EndOf, Live, Ending, OwnNode, history
<1>8. \A m \in Nodes : Signalled(m)'
  BY <1>0, Zenon DEF IInv, Signalled, StatusFinal, history
<1>9. QED
  BY <1>0, <1>2, <1>3, <1>5, <1>6, <1>7, <1>8, OwnStepKeeps, Zenon
------------------------------------------------------------------------------
(* Facts about the node of a thread that are used in every step below.      *)
LEMMA OwnNodeFacts ==
    ASSUME IInv, NEW t \in Threads, th[t] # NULL
    PROVE  /\ th[t] \in Thread /\ th[t].tid \in Tids
           /\ th[t].tid_node \in Nodes \cup {NULL}
           /\ th[t].child_nodes \in Seq(Nodes)
           /\ OwnNode(t) =>
                 /\ th[t].tid_node \in Nodes
                 /\ node[th[t].tid_node] # NULL
                 /\ node[th[t].tid_node] \in TidStatus
                 /\ node[th[t].tid_node].tid = th[t].tid
           /\ \A n \in Nodes : node[n] # NULL /\ node[n].tid = th[t].tid =>
                 OwnNode(t) /\ n = th[t].tid_node
<1>1. /\ th[t] \in Thread /\ th[t].tid \in Tids
      /\ th[t].tid_node \in Nodes \cup {NULL} /\ th[t].child_nodes \in Seq(Nodes)
  BY Zenon DEF IInv, TypeOK, Thread
<1>2. OwnNode(t) => /\ th[t].tid_node \in Nodes
                    /\ node[th[t].tid_node] # NULL
                    /\ node[th[t].tid_node] \in TidStatus
                    /\ node[th[t].tid_node].tid = th[t].tid
  BY <1>1, Zenon DEF IInv, TypeOK, OwnNode
<1>3. \A n \in Nodes : node[n] # NULL /\ node[n].tid = th[t].tid =>
         OwnNode(t) /\ n = th[t].tid_node
  BY ProcessAssumption DEF IInv, Identities, Live, OwnNode
<1>4. QED
  BY <1>1, <1>2, <1>3, Zenon

(* load () succeeded or failed; the new process runs, or goes on to         *)
(* thread_exit () with the status -2 that thread_create () gave its node.   *)
LEMMA StartStep ==
    ASSUME IInv, NEW t \in Threads, start_process(t)
    PROVE  IInv' /\ SameShape
<1> DEFINE o == th[t].tid_node
           k == th[t].tid
<1>0. /\ pc[t] = "load" /\ th[t] # NULL
      /\ UNCHANGED <<loc, next_tid, fault, parent, denied, reaped, refused>>
      /\ th' = [th EXCEPT ![t].load_sema = @ + 1]
      /\ pc \in [Threads -> Pcs] /\ th \in [Threads -> {NULL} \cup Thread]
      /\ node \in [Nodes -> {NULL} \cup TidStatus]
  BY Zenon DEF start_process, At, IInv, TypeOK
<1>1. /\ OwnNode(t) /\ th[t].load_sema = 0 /\ node[o].sema = 0
      /\ node[o].exit_status = -2 /\ node[o].child = t
      /\ t # main /\ th[t].tid_node_exists = TRUE
  BY <1>0, Zenon DEF IInv, CallOf, EndOf, PageOf, Live, Ending
<1>2. /\ th[t] \in Thread /\ k \in Tids /\ o \in Nodes
      /\ node[o] # NULL /\ node[o] \in TidStatus /\ node[o].tid = k
  BY <1>0, <1>1, OwnNodeFacts, Zenon
<1>3. /\ th' \in [Threads -> {NULL} \cup Thread] /\ th'[t] \in Thread
      /\ \A u \in Threads \ {t} : th'[u] = th[u]
      /\ th'[t].tid = k /\ th'[t].tid_node = o
      /\ th'[t].child_nodes = th[t].child_nodes
      /\ th'[t].tid_node_exists = TRUE
  BY <1>0, <1>1, <1>2 DEF Thread
<1>4. th'[t] # NULL
  BY <1>3, ProcessAssumption, Zenon
<1>5. /\ pc' \in [Threads -> Pcs] /\ pc'[t] \in {"user", "exit"}
      /\ \A u \in Threads \ {t} : pc'[u] = pc[u]
      /\ node' \in [Nodes -> {NULL} \cup TidStatus]
      /\ \A n \in Nodes \ {o} : node'[n] = node[n]
      /\ node'[o] \in TidStatus
      /\ node'[o].tid = k /\ node'[o].sema = 0 /\ node'[o].exit_status = -2 /\ node'[o].child = t
      /\ node[o].loaded = TRUE => node'[o].loaded = TRUE
      /\ \A j \in Tids \ {k} : given'[j] = given[j]
      /\ pc'[t] = "exit" => given'[k] = -1
      /\ given' \in [Tids -> Codes \cup {NULL, -1}]
      /\ ran' \subseteq ran \cup Tids
  <2>1. CASE /\ node' = [node EXCEPT ![o].loaded = TRUE]
             /\ Goto(t, "user") /\ ran' = ran \cup {k} /\ UNCHANGED given
    BY <1>0, <1>1, <1>2, <2>1, Zenon DEF Goto, Pcs, TidStatus, IInv, TypeOK
  <2>2. CASE /\ Goto(t, "exit") /\ given' = [given EXCEPT ![k] = -1]
             /\ UNCHANGED <<node, ran>>
    BY <1>0, <1>1, <1>2, <2>2, Zenon DEF Goto, Pcs, IInv, TypeOK
  <2>3. QED
    BY <2>1, <2>2, Zenon DEF start_process
<1>6. node'[o] # NULL
  BY <1>5, ProcessAssumption, Zenon
<1>7. TypeOK'
  <2>1. ASSUME NEW u \in Threads
        PROVE  pc'[u] = "none" <=> th'[u] = NULL
    <3>1. pc[u] = "none" <=> th[u] = NULL
      BY Zenon DEF IInv, TypeOK
    <3>2. CASE u = t
      BY <1>4, <1>5, <3>2, Zenon
    <3>3. CASE u # t
      BY <1>3, <1>5, <3>1, <3>3, Zenon
    <3>4. QED
      BY <3>2, <3>3, Zenon
  <2>2. {ran, denied, reaped, refused}' \subseteq SUBSET Tids
    <3>1. {ran, denied, reaped, refused} \subseteq SUBSET Tids
      BY Zenon DEF IInv, TypeOK
    <3>2. ran' \subseteq Tids
      BY <1>5, <3>1, Zenon
    <3>3. QED
      BY <1>0, <3>1, <3>2, Zenon
  <2>3. QED
    BY <1>0, <1>3, <1>5, <2>1, <2>2, Zenon DEF IInv, TypeOK
<1>8. SameShape /\ OwnStep(t)
  <2>1. SameShape
    BY <1>0, <1>2, <1>3, <1>4, <1>5, <1>6 DEF SameShape
  <2>2. OwnStep(t)
    BY <1>0, <1>2, <1>3, <1>5, Zenon DEF OwnStep
  <2>3. QED
    BY <2>1, <2>2, Zenon
<1>9. CallOf(t)' /\ PageOf(t)'
  BY <1>1, <1>2, <1>3, <1>5, ProcessAssumption DEF CallOf, PageOf, Live, Ending
<1>10. EndOf(t)'
  BY <1>3, <1>5, ProcessAssumption DEF EndOf, StatusSet, Ending
<1>11. ASSUME NEW n \in Nodes, node[n] # NULL, node[n].tid = k
       PROVE  Signalled(n)'
  <2>1. n = o
    BY <1>0, <1>11, OwnNodeFacts, Zenon
  <2>2. QED
    BY <1>5, <2>1 DEF Signalled
<1>12. QED
  BY <1>0, <1>7, <1>8, <1>9, <1>10, <1>11, OwnStepKeeps, Zenon
------------------------------------------------------------------------------
(* process_wait ()                                                          *)

LEMMA WaitStep ==
    ASSUME IInv, NEW t \in Threads, NEW tid \in Tids, process_wait(t, tid)
    PROVE  IInv' /\ KeepsShape
<1> DEFINE found == {n \in ChildNodes(t) : node[n].tid = tid}
<1>0. /\ pc[t] = "user" /\ th[t] # NULL
      /\ UNCHANGED <<th, node, next_tid, fault, parent, given, ran, denied, reaped>>
      /\ loc \in [Threads -> Locals] /\ pc \in [Threads -> Pcs]
      /\ loc[t] \in Locals
  BY Zenon DEF process_wait, At, IInv, TypeOK
<1>1. ChildNodes(t) = Elems(th[t].child_nodes)
  BY Zenon DEF ChildNodes, Elems
<1>2. Elems(th[t].child_nodes) \subseteq Nodes
  BY <1>0, OwnNodeFacts DEF Elems
<1>3. /\ pc' \in [Threads -> Pcs] /\ pc'[t] \in {"user", "wait"}
      /\ \A u \in Threads \ {t} : pc'[u] = pc[u] /\ loc'[u] = loc[u]
      /\ loc' \in [Threads -> Locals]
      /\ pc'[t] = "wait" => loc'[t].node \in Elems(th[t].child_nodes)
      /\ refused' \subseteq refused \cup Tids
  <2>1. CASE /\ refused' = IF found # {} THEN refused \cup {tid} ELSE refused
             /\ UNCHANGED <<pc, loc>>
    BY <1>0, <2>1, Zenon
  <2>2. CASE /\ \E n \in found : ~ node[n].waiting /\ loc' = [loc EXCEPT ![t].node = n, ![t].tid = tid]
             /\ Goto(t, "wait") /\ UNCHANGED refused
    <3>1. PICK n \in found : loc' = [loc EXCEPT ![t].node = n, ![t].tid = tid]
      BY <2>2, Zenon
    <3>2. n \in Nodes /\ n \in Elems(th[t].child_nodes)
      BY <1>1, <1>2, <3>1, Zenon
    <3>3. loc' \in [Threads -> Locals] /\ loc'[t].node = n /\ \A u \in Threads \ {t} : loc'[u] = loc[u]
      BY <1>0, <3>1, <3>2, Zenon DEF Locals
    <3>4. QED
      BY <1>0, <2>2, <3>2, <3>3, Zenon DEF Goto, Pcs
  <2>3. QED
    BY <2>1, <2>2, Zenon DEF process_wait
<1>4. TypeOK'
  <2>1. \A u \in Threads : pc'[u] = "none" <=> th'[u] = NULL
    BY <1>0, <1>3, Zenon DEF IInv, TypeOK
  <2>2. {ran, denied, reaped, refused}' \subseteq SUBSET Tids
    BY <1>0, <1>3, Zenon DEF IInv, TypeOK
  <2>3. QED
    BY <1>0, <1>3, <2>1, <2>2, Zenon DEF IInv, TypeOK
<1>5. SameShape /\ OwnStep(t)
  BY <1>0, <1>3, Zenon DEF SameShape, OwnStep
<1>6. CallOf(t)'
  BY <1>0, <1>2, <1>3, Zenon DEF CallOf
<1>7. PageOf(t)' /\ EndOf(t)'
  <2>1. PageOf(t) /\ EndOf(t)
    BY Zenon DEF IInv
  <2>2. QED
    BY <1>0, <1>3, <2>1, Zenon DEF PageOf, EndOf, Live, Ending, OwnNode
<1>8. \A m \in Nodes : Signalled(m)'
  BY <1>0, Zenon DEF IInv, Signalled, StatusFinal
<1>9. QED
  BY <1>0, <1>4, <1>5, <1>6, <1>7, <1>8, OwnStepKeeps, Zenon DEF KeepsShape

(* The mark process_wait () leaves on a block it has freed may hit the node *)
(* of another process; the invariant does not depend on marks.              *)
LEMMA MarkStep ==
    ASSUME IInv, NEW t \in Threads, Mark(t)
    PROVE  IInv' /\ KeepsShape
<1>0. /\ pc[t] = "mark" /\ th[t] # NULL
      /\ UNCHANGED <<th, next_tid, fault, history>>
      /\ pc' = [pc EXCEPT ![t] = "user"] /\ loc' = [loc EXCEPT ![t] = NoLocals]
      /\ loc \in [Threads -> Locals] /\ pc \in [Threads -> Pcs]
      /\ node \in [Nodes -> {NULL} \cup TidStatus]
  BY Zenon DEF Mark, SysReturn, Goto, At, IInv, TypeOK
<1>1. PICK m \in Nodes : node' = IF node[m] = NULL THEN node ELSE [node EXCEPT ![m].waiting = TRUE]
  BY <1>0, Zenon DEF Mark, IInv, CallOf
<1>2. /\ node' \in [Nodes -> {NULL} \cup TidStatus]
      /\ \A n \in Nodes :
            /\ node'[n] = NULL <=> node[n] = NULL
            /\ node[n] # NULL =>
                  /\ node'[n].tid = node[n].tid
                  /\ node'[n].exit_status = node[n].exit_status
                  /\ node'[n].child = node[n].child
                  /\ node'[n].loaded = node[n].loaded
                  /\ node'[n].sema = node[n].sema
  <2>1. CASE node[m] = NULL
    BY <1>0, <1>1, <2>1, Zenon
  <2>2. CASE node[m] # NULL
    <3>1. /\ node'[m] \in TidStatus /\ node' \in [Nodes -> {NULL} \cup TidStatus]
          /\ node'[m].tid = node[m].tid /\ node'[m].exit_status = node[m].exit_status
          /\ node'[m].child = node[m].child /\ node'[m].loaded = node[m].loaded
          /\ node'[m].sema = node[m].sema
          /\ \A n \in Nodes \ {m} : node'[n] = node[n]
      BY <1>0, <1>1, <2>2, Zenon DEF TidStatus
    <3>2. NULL \notin TidStatus
      BY ProcessAssumption, Zenon
    <3>3. QED
      BY <2>2, <3>1, <3>2, Zenon
  <2>3. QED
    BY <2>1, <2>2, Zenon
<1>3. TypeOK'
  <2>1. NoLocals \in Locals
    BY Zenon DEF NoLocals, Locals
  <2>2. /\ pc' \in [Threads -> Pcs] /\ loc' \in [Threads -> Locals]
        /\ \A u \in Threads : pc'[u] = "none" <=> th'[u] = NULL
    BY <1>0, <2>1, Zenon DEF IInv, TypeOK, Pcs
  <2>3. QED
    BY <1>0, <1>2, <2>2, Zenon DEF IInv, TypeOK, history
<1>4. SameShape
  BY <1>0, <1>2, Zenon DEF SameShape, history
<1>5. OwnStep(t)
  BY <1>0, <1>2, Zenon DEF OwnStep, history
<1>6. pc'[t] = "user"
  BY <1>0, Zenon
<1>7. CallOf(t)' /\ PageOf(t)'
  BY <1>0, <1>6, Zenon DEF IInv, CallOf, PageOf, Ending, Live
<1>8. EndOf(t)'
  <2>1. EndOf(t) /\ (OwnNode(t)' <=> OwnNode(t)) /\ th[t].tid_node \in Nodes \cup {NULL}
    BY <1>0, <1>4, ShapeKept, OwnNodeFacts, Zenon DEF IInv
  <2>2. QED
    BY <1>0, <1>2, <1>6, <2>1, OwnNodeFacts, Zenon DEF EndOf, Live, Ending
<1>9. \A n \in Nodes : Signalled(n)'
  BY <1>0, <1>2, ZenonT(40) DEF IInv, Signalled, StatusFinal, history
<1>10. QED
  BY <1>0, <1>2, <1>3, <1>4, <1>5, <1>7, <1>8, <1>9, OwnStepKeeps, Zenon DEF KeepsShape
------------------------------------------------------------------------------
(* The end of a process.  Until its page is freed it changes the node made  *)
(* for it, and no other.                                                    *)
LEMMA EndStepKeeps ==
    ASSUME IInv, NEW t \in Threads, th[t] # NULL,
           UNCHANGED <<th, loc, next_tid, fault, parent, ran, denied, reaped, refused>>,
           NEW w \in Ending \cup {"exit"}, pc' = [pc EXCEPT ![t] = w],
           w \in Ending => t # main,
           w = "exit" => pc[t] = "user",
           node' \in [Nodes -> {NULL} \cup TidStatus],
           \A n \in Nodes :
              /\ node'[n] = NULL <=> node[n] = NULL
              /\ node[n] # NULL => node'[n].tid = node[n].tid /\ node'[n].loaded = node[n].loaded
              /\ node[n] # NULL /\ node[n].tid # th[t].tid => node'[n] = node[n],
           given' \in [Tids -> Codes \cup {NULL, -1}],
           \A k \in Tids \ {th[t].tid} : given'[k] = given[k],
           EndOf(t)',
           \A n \in Nodes : node[n] # NULL /\ node[n].tid = th[t].tid => Signalled(n)'
    PROVE  IInv' /\ KeepsShape
<1>1. TypeOK'
  <2>1. pc \in [Threads -> Pcs] /\ \A u \in Threads : pc[u] = "none" <=> th[u] = NULL
    BY Zenon DEF IInv, TypeOK
  <2>2. pc' \in [Threads -> Pcs] /\ \A u \in Threads : pc'[u] = "none" <=> th'[u] = NULL
    BY <2>1, Zenon DEF Pcs, Ending
  <2>3. QED
    BY <2>2, Zenon DEF IInv, TypeOK
<1>2. pc'[t] = w
  BY Zenon DEF IInv, TypeOK
<1>3. SameShape
  BY Zenon DEF SameShape
<1>4. OwnStep(t)
  BY Zenon DEF OwnStep, IInv, TypeOK
<1>5. CallOf(t)'
  BY <1>2, Zenon DEF CallOf, Ending
<1>6. PageOf(t)'
  <2>1. PageOf(t)
    BY Zenon DEF IInv
  <2>2. CASE w \in Ending
    BY <1>2, <2>1, <2>2, Zenon DEF PageOf, Live
  <2>3. CASE w = "exit"
    BY <1>2, <2>1, <2>3, Zenon DEF PageOf, Live, Ending
  <2>4. QED
    BY <2>2, <2>3, Zenon
<1>7. QED
  BY <1>1, <1>3, <1>4, <1>5, <1>6, OwnStepKeeps, Zenon DEF KeepsShape

(* What a write to fields of the own node leaves alone.                     *)
LEMMA OwnWrite ==
    ASSUME IInv, NEW t \in Threads, th[t] # NULL, OwnNode(t),
           NEW r \in TidStatus, node' = [node EXCEPT ![th[t].tid_node] = r],
           r.tid = th[t].tid, r.loaded = node[th[t].tid_node].loaded
    PROVE  /\ node' \in [Nodes -> {NULL} \cup TidStatus]
           /\ node'[th[t].tid_node] = r
           /\ \A n \in Nodes :
                 /\ node'[n] = NULL <=> node[n] = NULL
                 /\ node[n] # NULL => node'[n].tid = node[n].tid /\ node'[n].loaded = node[n].loaded
                 /\ node[n] # NULL /\ node[n].tid # th[t].tid => node'[n] = node[n]
<1>1. /\ node \in [Nodes -> {NULL} \cup TidStatus] /\ th[t].tid_node \in Nodes
      /\ node[th[t].tid_node] # NULL /\ node[th[t].tid_node].tid = th[t].tid
  BY OwnNodeFacts, Zenon DEF IInv, TypeOK
<1>2. r # NULL
  BY ProcessAssumption, Zenon
<1>3. QED
  BY <1>1, <1>2, Zenon

(* The exit system call leaves the code in the node.                        *)
LEMMA ExitStep ==
    ASSUME IInv, NEW t \in Threads, NEW code \in Codes, exit_w(t, code)
    PROVE  IInv' /\ KeepsShape
<1> DEFINE o == th[t].tid_node
           k == th[t].tid
<1>0. /\ pc[t] = "user" /\ th[t] # NULL /\ t # main
      /\ given \in [Tids -> Codes \cup {NULL, -1}] /\ node \in [Nodes -> {NULL} \cup TidStatus]
  BY Zenon DEF exit_w, At, IInv, TypeOK
<1>1. th[t].tid_node_exists = TRUE
  BY <1>0, Zenon DEF IInv, PageOf, Live, Ending
<1>2. CASE ~ OwnNode(t)
  <2>1. Fault(NoNode(t)) /\ NoNode(t) \in {"null node", "freed node"}
    BY <1>1, <1>2, Zenon DEF exit_w, NoNode
  <2>2. QED
    BY <2>1, FaultStep, Zenon
<1>3. CASE OwnNode(t)
  <2>1. /\ UNCHANGED <<th, loc, next_tid, fault, parent, ran, denied, reaped, refused>>
        /\ pc' = [pc EXCEPT ![t] = "exit"]
        /\ given' = [given EXCEPT ![k] = code]
        /\ node' = [node EXCEPT ![o].exit_status = code]
    BY <1>1, <1>3, Zenon DEF exit_w, Goto
  <2>2. /\ k \in Tids /\ o \in Nodes /\ node[o] \in TidStatus /\ node[o].tid = k
        /\ node[o].sema = 0 /\ node[o].child = t
    BY <1>0, <1>3, OwnNodeFacts, Zenon DEF IInv, EndOf, Live
  <2>3. PICK r \in TidStatus : /\ node' = [node EXCEPT ![o] = r]
                               /\ r.tid = k /\ r.loaded = node[o].loaded /\ r.exit_status = code
                               /\ r.sema = 0 /\ r.child = t
    <3>1. /\ node'[o] \in TidStatus /\ node' = [node EXCEPT ![o] = node'[o]]
          /\ node'[o].tid = k /\ node'[o].loaded = node[o].loaded /\ node'[o].exit_status = code
          /\ node'[o].sema = 0 /\ node'[o].child = t
      BY <1>0, <2>1, <2>2, Zenon DEF TidStatus
    <3>2. QED
      BY <3>1, Zenon
  <2>4. /\ node' \in [Nodes -> {NULL} \cup TidStatus] /\ node'[o] = r
        /\ \A n \in Nodes :
              /\ node'[n] = NULL <=> node[n] = NULL
              /\ node[n] # NULL => node'[n].tid = node[n].tid /\ node'[n].loaded = node[n].loaded
              /\ node[n] # NULL /\ node[n].tid # th[t].tid => node'[n] = node[n]
    BY <1>0, <1>3, <2>3, OwnWrite, ZenonT(40)
  <2>5. /\ given' \in [Tids -> Codes \cup {NULL, -1}] /\ given'[k] = code
        /\ \A j \in Tids \ {k} : given'[j] = given[j]
    BY <1>0, <2>1, <2>2, Zenon
  <2>6. EndOf(t)'
    <3>1. pc'[t] = "exit" /\ code # NULL /\ th'[t].tid_node = o /\ th'[t].tid = k
      BY <1>0, <2>1, ProcessAssumption, Zenon DEF IInv, TypeOK
    <3>2. QED
      BY <2>3, <2>4, <2>5, <3>1, Zenon DEF EndOf, StatusSet, Ending
  <2>7. ASSUME NEW n \in Nodes, node[n] # NULL, node[n].tid = k
        PROVE  Signalled(n)'
    <3>1. n = o
      BY <1>0, <2>7, OwnNodeFacts, Zenon
    <3>2. QED
      BY <2>3, <2>4, <3>1 DEF Signalled
  <2>8. "exit" \in Ending \cup {"exit"} /\ "exit" \notin Ending
    BY Zenon DEF Ending
  <2>9. QED
    BY <1>0, <2>1, <2>4, <2>5, <2>6, <2>7, <2>8, EndStepKeeps, Zenon
<1>4. QED
  BY <1>2, <1>3, Zenon

(* The end without a status leaves the -2 of thread_create () in the node.  *)
LEMMA KillStep ==
    ASSUME IInv, NEW t \in Threads, kill(t)
    PROVE  IInv' /\ KeepsShape
<1> DEFINE k == th[t].tid
<1>0. /\ pc[t] = "user" /\ th[t] # NULL
      /\ given \in [Tids -> Codes \cup {NULL, -1}] /\ node \in [Nodes -> {NULL} \cup TidStatus]
      /\ UNCHANGED <<th, node, loc, next_tid, fault, parent, ran, denied, reaped, refused>>
      /\ pc' = [pc EXCEPT ![t] = "exit"] /\ pc'[t] = "exit"
      /\ given' = [given EXCEPT ![k] = -1]
      /\ k \in Tids
  BY OwnNodeFacts, Zenon DEF kill, Goto, At, IInv, TypeOK
<1>1. /\ given' \in [Tids -> Codes \cup {NULL, -1}] /\ given'[k] = -1
      /\ \A j \in Tids \ {k} : given'[j] = given[j]
  BY <1>0, Zenon
<1>2. EndOf(t) /\ (OwnNode(t)' <=> OwnNode(t))
  BY <1>0, Zenon DEF IInv, OwnNode
<1>3. EndOf(t)'
  BY <1>0, <1>1, <1>2, ProcessAssumption DEF EndOf, StatusSet, Ending, Live
<1>4. ASSUME NEW n \in Nodes, node[n] # NULL, node[n].tid = k
      PROVE  Signalled(n)'
  <2>1. OwnNode(t) /\ n = th[t].tid_node
    BY <1>0, <1>4, OwnNodeFacts, Zenon
  <2>2. node[n].sema = 0
    BY <1>0, <1>2, <2>1, Zenon DEF EndOf, Live
  <2>3. QED
    BY <1>0, <2>2 DEF Signalled
<1>5. "exit" \in Ending \cup {"exit"} /\ "exit" \notin Ending
  BY Zenon DEF Ending
<1>6. QED
  BY <1>0, <1>1, <1>3, <1>4, <1>5, EndStepKeeps, Zenon

(* process_exit () settles the status the parent will see.                  *)
LEMMA ProcessExitStep ==
    ASSUME IInv, NEW t \in Threads, process_exit(t)
    PROVE  IInv' /\ KeepsShape
<1> DEFINE o == th[t].tid_node
           k == th[t].tid
<1>0. /\ pc[t] = "exit" /\ th[t] # NULL
      /\ given \in [Tids -> Codes \cup {NULL, -1}] /\ node \in [Nodes -> {NULL} \cup TidStatus]
  BY Zenon DEF process_exit, At, IInv, TypeOK
<1>1. CASE ~ OwnNode(t)
  <2>1. Fault(NoNode(t)) /\ NoNode(t) \in {"null node", "freed node"}
    BY <1>1, Zenon DEF process_exit, NoNode
  <2>2. QED
    BY <2>1, FaultStep, Zenon
<1>2. CASE OwnNode(t)
  <2>1. /\ UNCHANGED <<th, loc, next_tid, fault, parent, given, ran, denied, reaped, refused>>
        /\ pc' = [pc EXCEPT ![t] = "free_children"]
        /\ node' = [node EXCEPT ![o].exit_status = IF @ < 0 THEN -1 ELSE @]
    BY <1>2, Zenon DEF process_exit, Goto, history
  <2>2. /\ k \in Tids /\ o \in Nodes /\ node[o] \in TidStatus /\ node[o].tid = k
        /\ node[o].sema = 0 /\ node[o].child = t /\ StatusSet(o, k)
    BY <1>0, <1>2, OwnNodeFacts, Zenon DEF IInv, EndOf, Live
  <2>3. t # main
    BY <1>2, Zenon DEF IInv, PageOf, OwnNode
  <2>4. PICK r \in TidStatus : /\ node' = [node EXCEPT ![o] = r]
                               /\ r.tid = k /\ r.loaded = node[o].loaded
                               /\ r.exit_status = Reported(node[o].exit_status)
                               /\ r.sema = 0 /\ r.child = t
    <3>1. node[o].exit_status \in Codes \cup {-2, -1}
      BY <2>2, Zenon DEF TidStatus
    <3>2. /\ node'[o] \in TidStatus /\ node' = [node EXCEPT ![o] = node'[o]]
          /\ node'[o].tid = k /\ node'[o].loaded = node[o].loaded
          /\ node'[o].exit_status = IF node[o].exit_status < 0 THEN -1 ELSE node[o].exit_status
          /\ node'[o].sema = 0 /\ node'[o].child = t
      BY <1>0, <2>1, <2>2, <3>1, Zenon DEF TidStatus
    <3>3. QED
      BY <3>2, Zenon DEF Reported
  <2>5. /\ node' \in [Nodes -> {NULL} \cup TidStatus] /\ node'[o] = r
        /\ \A n \in Nodes :
              /\ node'[n] = NULL <=> node[n] = NULL
              /\ node[n] # NULL => node'[n].tid = node[n].tid /\ node'[n].loaded = node[n].loaded
              /\ node[n] # NULL /\ node[n].tid # th[t].tid => node'[n] = node[n]
    BY <1>0, <1>2, <2>4, OwnWrite, ZenonT(40)
  <2>6. given[k] # NULL /\ r.exit_status = Reported(given[k])
    BY <2>2, <2>4 DEF StatusSet, Reported
  <2>7. EndOf(t)'
    <3>1. pc'[t] = "free_children" /\ th'[t].tid_node = o /\ th'[t].tid = k /\ given' = given
      BY <1>0, <2>1, Zenon DEF IInv, TypeOK
    <3>2. QED
      BY <2>4, <2>5, <2>6, <3>1, Zenon DEF EndOf, StatusFinal, Ending
  <2>8. ASSUME NEW n \in Nodes, node[n] # NULL, node[n].tid = k
        PROVE  Signalled(n)'
    <3>1. n = o
      BY <1>0, <2>8, OwnNodeFacts, Zenon
    <3>2. QED
      BY <2>4, <2>5, <3>1 DEF Signalled
  <2>9. "free_children" \in Ending \cup {"exit"}
    BY Zenon DEF Ending
  <2>10. QED
    BY <1>0, <2>1, <2>3, <2>5, <2>7, <2>8, <2>9, EndStepKeeps, Zenon
<1>3. QED
  BY <1>1, <1>2, Zenon

(* The node forgets the thread, if it is still there to do so.              *)
LEMMA UnlinkStep ==
    ASSUME IInv, NEW t \in Threads, Unlink(t)
    PROVE  IInv' /\ KeepsShape
<1> DEFINE o == th[t].tid_node
           k == th[t].tid
<1>0. /\ pc[t] = "free_children" /\ th[t] # NULL /\ t # main
      /\ given \in [Tids -> Codes \cup {NULL, -1}] /\ node \in [Nodes -> {NULL} \cup TidStatus]
  BY Zenon DEF Unlink, At, IInv, TypeOK, PageOf, Ending
<1>1. EndOf(t) /\ "signal" \in Ending \cup {"exit"}
  BY Zenon DEF IInv, Ending
<1>2. CASE ~ (~ th[t].tid_node_exists \/ OwnNode(t))
  <2>1. Fault(NoNode(t)) /\ NoNode(t) \in {"null node", "freed node"}
    BY <1>2, Zenon DEF Unlink, NoNode
  <2>2. QED
    BY <2>1, FaultStep, Zenon
<1>3. CASE ~ th[t].tid_node_exists
  <2>1. /\ UNCHANGED <<th, node, loc, next_tid, fault, parent, given, ran, denied, reaped, refused>>
        /\ pc' = [pc EXCEPT ![t] = "signal"] /\ pc'[t] = "signal"
    BY <1>0, <1>3, Zenon DEF Unlink, Goto, history, IInv, TypeOK
  <2>2. EndOf(t)'
    BY <1>0, <1>1, <2>1, Zenon DEF EndOf, OwnNode, StatusFinal, Ending, Live
  <2>3. \A n \in Nodes : Signalled(n)'
    BY <2>1, Zenon DEF IInv, Signalled, StatusFinal
  <2>4. QED
    BY <1>0, <1>1, <2>1, <2>2, <2>3, EndStepKeeps, Zenon
<1>4. CASE th[t].tid_node_exists /\ OwnNode(t)
  <2>1. /\ UNCHANGED <<th, loc, next_tid, fault, parent, given, ran, denied, reaped, refused>>
        /\ pc' = [pc EXCEPT ![t] = "signal"]
        /\ node' = [node EXCEPT ![o].child = NULL]
    BY <1>4, Zenon DEF Unlink, Goto, history
  <2>2. /\ k \in Tids /\ o \in Nodes /\ node[o] \in TidStatus /\ node[o].tid = k
        /\ node[o].sema = 0 /\ StatusFinal(o, k)
    BY <1>0, <1>1, <1>4, OwnNodeFacts, Zenon DEF EndOf, Live, Ending
  <2>3. PICK r \in TidStatus : /\ node' = [node EXCEPT ![o] = r]
                               /\ r.tid = k /\ r.loaded = node[o].loaded
                               /\ r.exit_status = node[o].exit_status /\ r.sema = 0
    <3>1. /\ node'[o] \in TidStatus /\ node' = [node EXCEPT ![o] = node'[o]]
          /\ node'[o].tid = k /\ node'[o].loaded = node[o].loaded
          /\ node'[o].exit_status = node[o].exit_status /\ node'[o].sema = 0
      BY <1>0, <2>1, <2>2, Zenon DEF TidStatus
    <3>2. QED
      BY <3>1, Zenon
  <2>4. /\ node' \in [Nodes -> {NULL} \cup TidStatus] /\ node'[o] = r
        /\ \A n \in Nodes :
              /\ node'[n] = NULL <=> node[n] = NULL
              /\ node[n] # NULL => node'[n].tid = node[n].tid /\ node'[n].loaded = node[n].loaded
              /\ node[n] # NULL /\ node[n].tid # th[t].tid => node'[n] = node[n]
    BY <1>0, <1>4, <2>3, OwnWrite, Zenon
  <2>5. EndOf(t)'
    <3>1. pc'[t] = "signal" /\ th'[t].tid_node = o /\ th'[t].tid = k /\ given' = given
      BY <1>0, <2>1, Zenon DEF IInv, TypeOK
    <3>2. QED
      BY <2>2, <2>3, <2>4, <3>1, Zenon DEF EndOf, StatusFinal, Ending
  <2>6. ASSUME NEW n \in Nodes, node[n] # NULL, node[n].tid = k
        PROVE  Signalled(n)'
    <3>1. n = o
      BY <1>0, <2>6, OwnNodeFacts, Zenon
    <3>2. QED
      BY <2>3, <2>4, <3>1 DEF Signalled
  <2>7. QED
    BY <1>0, <1>1, <2>1, <2>4, <2>5, <2>6, EndStepKeeps, Zenon
<1>5. QED
  BY <1>2, <1>3, <1>4, Zenon

(* sema_up () of the node: the status is final by now.                      *)
LEMMA SignalStep ==
    ASSUME IInv, NEW t \in Threads, SignalParent(t)
    PROVE  IInv' /\ KeepsShape
<1> DEFINE o == th[t].tid_node
           k == th[t].tid
<1>0. /\ pc[t] = "signal" /\ th[t] # NULL /\ t # main
      /\ given \in [Tids -> Codes \cup {NULL, -1}] /\ node \in [Nodes -> {NULL} \cup TidStatus]
  BY Zenon DEF SignalParent, At, IInv, TypeOK, PageOf, Ending
<1>1. CASE ~ OwnNode(t)
  <2>1. Fault(NoNode(t)) /\ NoNode(t) \in {"null node", "freed node"}
    BY <1>1, Zenon DEF SignalParent, NoNode
  <2>2. QED
    BY <2>1, FaultStep, Zenon
<1>2. CASE OwnNode(t)
  <2>1. /\ UNCHANGED <<th, loc, next_tid, fault, parent, given, ran, denied, reaped, refused>>
        /\ pc' = [pc EXCEPT ![t] = "die"]
        /\ node' = [node EXCEPT ![o].sema = @ + 1]
    BY <1>2, Zenon DEF SignalParent, Goto, history
  <2>2. /\ k \in Tids /\ o \in Nodes /\ node[o] \in TidStatus /\ node[o].tid = k
        /\ node[o].sema = 0 /\ StatusFinal(o, k)
    BY <1>0, <1>2, OwnNodeFacts, Zenon DEF IInv, EndOf, Live, Ending
  <2>3. PICK r \in TidStatus : /\ node' = [node EXCEPT ![o] = r]
                               /\ r.tid = k /\ r.loaded = node[o].loaded
                               /\ r.exit_status = node[o].exit_status
    <3>1. /\ node'[o] \in TidStatus /\ node' = [node EXCEPT ![o] = node'[o]]
          /\ node'[o].tid = k /\ node'[o].loaded = node[o].loaded
          /\ node'[o].exit_status = node[o].exit_status
      <4>1. node[o].sema + 1 \in 0 .. 1
        BY <2>2
      <4>2. QED
        BY <1>0, <2>1, <2>2, <4>1, Zenon DEF TidStatus
    <3>2. QED
      BY <3>1, Zenon
  <2>4. /\ node' \in [Nodes -> {NULL} \cup TidStatus] /\ node'[o] = r
        /\ \A n \in Nodes :
              /\ node'[n] = NULL <=> node[n] = NULL
              /\ node[n] # NULL => node'[n].tid = node[n].tid /\ node'[n].loaded = node[n].loaded
              /\ node[n] # NULL /\ node[n].tid # th[t].tid => node'[n] = node[n]
    BY <1>0, <1>2, <2>3, OwnWrite, Zenon
  <2>5. EndOf(t)'
    <3>1. pc'[t] = "die" /\ th'[t].tid_node = o /\ th'[t].tid = k /\ given' = given
      BY <1>0, <2>1, Zenon DEF IInv, TypeOK
    <3>2. QED
      BY <2>2, <2>3, <2>4, <3>1, Zenon DEF EndOf, StatusFinal, Ending
  <2>6. ASSUME NEW n \in Nodes, node[n] # NULL, node[n].tid = k
        PROVE  Signalled(n)'
    <3>1. n = o
      BY <1>0, <2>6, OwnNodeFacts, Zenon
    <3>2. QED
      BY <2>1, <2>2, <2>3, <2>4, <3>1, Zenon DEF Signalled, StatusFinal
  <2>7. "die" \in Ending \cup {"exit"}
    BY Zenon DEF Ending
  <2>8. QED
    BY <1>0, <2>1, <2>4, <2>5, <2>6, <2>7, EndStepKeeps, Zenon
<1>3. QED
  BY <1>1, <1>2, Zenon

(* The rest of thread_exit () frees the page; the node stays for the parent. *)
LEMMA ThreadExitStep ==
    ASSUME IInv, NEW t \in Threads, thread_exit(t)
    PROVE  IInv'
<1>0. /\ pc[t] = "die" /\ th[t] # NULL /\ t # main
      /\ UNCHANGED <<node, loc, next_tid, fault, history>>
      /\ th' = [th EXCEPT ![t] = NULL] /\ pc' = [pc EXCEPT ![t] = "none"]
      /\ th \in [Threads -> {NULL} \cup Thread] /\ pc \in [Threads -> Pcs]
  BY Zenon DEF thread_exit, Goto, At, IInv, TypeOK, PageOf, Ending
<1>1. /\ th'[t] = NULL /\ pc'[t] = "none"
      /\ \A u \in Threads \ {t} : th'[u] = th[u] /\ pc'[u] = pc[u]
  BY <1>0, Zenon
<1>2. TypeOK'
  <2>1. /\ th' \in [Threads -> {NULL} \cup Thread] /\ pc' \in [Threads -> Pcs]
        /\ \A u \in Threads : pc'[u] = "none" <=> th'[u] = NULL
    BY <1>0, <1>1, Zenon DEF IInv, TypeOK, Pcs
  <2>2. QED
    BY <1>0, <2>1, Zenon DEF IInv, TypeOK, history
<1>3. Identities'
  BY <1>0, <1>1, Zenon DEF IInv, Identities, Live, history
<1>4. ListOf(t)' /\ CallOf(t)' /\ PageOf(t)' /\ EndOf(t)'
  BY <1>0, <1>1, Zenon DEF ListOf, CallOf, PageOf, EndOf, Live
<1>5. ASSUME NEW u \in Threads, u # t
      PROVE  ListOf(u)' /\ CallOf(u)' /\ PageOf(u)' /\ EndOf(u)'
  <2>1. th'[u] = th[u] /\ pc'[u] = pc[u]
    BY <1>1, <1>5, Zenon
  <2>2. ListOf(u) /\ CallOf(u) /\ PageOf(u) /\ EndOf(u)
    BY Zenon DEF IInv
  <2>3. ListOf(u)' /\ PageOf(u)'
    BY <1>0, <2>1, <2>2 DEF ListOf, PageOf, Live, Once, Elems, history
  <2>4. CallOf(u)'
    BY <1>0, <2>1, <2>2, Zenon DEF CallOf, Expects, OwnNode, Elems, history
  <2>5. EndOf(u)'
    BY <1>0, <2>1, <2>2, Zenon DEF EndOf, OwnNode, Live, StatusSet, StatusFinal, history
  <2>6. QED
    BY <2>3, <2>4, <2>5, Zenon
<1>6. \A n \in Nodes : Signalled(n)'
  BY <1>0, Zenon DEF IInv, Signalled, StatusFinal, history
<1>7. QED
  BY <1>2, <1>3, <1>4, <1>5, <1>6, Zenon DEF IInv
------------------------------------------------------------------------------
(* Steps that change a list.                                                *)

(* A node that the list of t holds belongs to no other list, to no other    *)
(* call of process_execute (), and not to a thread that is still loading.   *)
LEMMA ListedFacts ==
    ASSUME IInv, NEW t \in Threads, th[t] # NULL, NEW n \in Elems(th[t].child_nodes)
    PROVE  /\ n \in Nodes /\ node[n] # NULL /\ node[n].loaded = TRUE
           /\ node[n].tid \in Tids /\ node[n].tid < next_tid
           /\ parent[node[n].tid] = th[t].tid
           /\ \A u \in Threads \ {t} : th[u] # NULL =>
                 n \notin Elems(th[u].child_nodes) /\ ~ Expects(u, n)
           /\ \A u \in Threads : pc[u] = "load" => th[u].tid_node # n
<1>1. n \in Nodes
  BY OwnNodeFacts DEF Elems
<1>2. node[n] # NULL /\ node[n].loaded = TRUE /\ parent[node[n].tid] = th[t].tid
  BY Zenon DEF IInv, ListOf, Live
<1>3. node[n].tid \in Tids /\ node[n].tid < next_tid
  BY <1>1, <1>2, Zenon DEF IInv, TypeOK, TidStatus, Identities
<1>4. ASSUME NEW u \in Threads \ {t}, th[u] # NULL
      PROVE  n \notin Elems(th[u].child_nodes) /\ ~ Expects(u, n)
  <2>1. th[u].tid # th[t].tid
    BY <1>4, Zenon DEF IInv, Identities, Live
  <2>2. n \notin Elems(th[u].child_nodes)
    BY <1>2, <1>4, <2>1, Zenon DEF IInv, ListOf, Live
  <2>3. QED
    BY <1>2, <2>1, <2>2, Zenon DEF Expects
<1>5. \A u \in Threads : pc[u] = "load" => th[u].tid_node # n
  BY <1>2, Zenon DEF IInv, CallOf
<1>6. QED
  BY <1>1, <1>2, <1>3, <1>4, <1>5, Zenon

(* A step that creates no thread and no node leaves the tids unique.        *)
LEMMA IdentitiesKept ==
    ASSUME Identities, next_tid' = next_tid,
           \A u \in Threads :
              /\ th'[u] = NULL <=> th[u] = NULL
              /\ th[u] # NULL => th'[u].tid = th[u].tid /\ th'[u].tid_node = th[u].tid_node,
           \A m \in Nodes :
              node'[m] # NULL => /\ node[m] # NULL /\ node'[m].tid = node[m].tid
                                 /\ node'[m].tid \notin reaped',
           \A k \in reaped' : k < next_tid
    PROVE  Identities'
<1>1. \A u \in Threads : Live(u)' => th'[u].tid < next_tid'
  BY Zenon DEF Identities, Live
<1>2. \A u, v \in Threads : Live(u)' /\ Live(v)' /\ th'[u].tid = th'[v].tid => u = v
  BY DEF Identities, Live
<1>3. \A m \in Nodes : node'[m] # NULL => node'[m].tid < next_tid' /\ node'[m].tid \notin reaped'
  BY Zenon DEF Identities
<1>4. \A m, n \in Nodes :
         node'[m] # NULL /\ node'[n] # NULL /\ node'[m].tid = node'[n].tid => m = n
  BY ZenonT(40) DEF Identities
<1>5. \A u \in Threads, n \in Nodes :
         Live(u)' /\ node'[n] # NULL /\ node'[n].tid = th'[u].tid => th'[u].tid_node = n
  BY Zenon DEF Identities, Live
<1>6. QED
  BY <1>1, <1>2, <1>3, <1>4, <1>5, Zenon DEF Identities

(* t takes n off its list, which becomes q, and frees it.                   *)
Frees(t, n, q) ==
    /\ th[t] # NULL /\ th'[t] # NULL /\ n \in Elems(th[t].child_nodes)
    /\ th'[t].tid = th[t].tid /\ th'[t].tid_node = th[t].tid_node
    /\ th'[t].child_nodes = q /\ q \in Seq(Nodes)
    /\ Once(q) /\ Elems(q) \subseteq Elems(th[t].child_nodes) /\ n \notin Elems(q)
    /\ \A u \in Threads \ {t} : th'[u] = th[u] /\ pc'[u] = pc[u] /\ loc'[u] = loc[u]
    /\ node'[n] = NULL /\ \A m \in Nodes \ {n} : node'[m] = node[m]
    /\ UNCHANGED <<next_tid, parent, given>>
    /\ reaped' \subseteq reaped \cup {node[n].tid}

LEMMA FreeNodeKeeps ==
    ASSUME IInv, NEW t \in Threads, NEW n, NEW q, Frees(t, n, q),
           TypeOK', CallOf(t)', PageOf(t)', EndOf(t)'
    PROVE  IInv'
<1>1. /\ n \in Nodes /\ node[n] # NULL /\ node[n].tid \in Tids /\ node[n].tid < next_tid
      /\ \A u \in Threads \ {t} : th[u] # NULL =>
            n \notin Elems(th[u].child_nodes) /\ ~ Expects(u, n)
      /\ \A u \in Threads : pc[u] = "load" => th[u].tid_node # n
  BY ListedFacts, Zenon DEF Frees
<1>2. /\ node'[n] = NULL /\ \A m \in Nodes \ {n} : node'[m] = node[m]
      /\ UNCHANGED <<next_tid, parent, given>>
  BY Zenon DEF Frees
<1>3. Identities'
  <2>1. \A u \in Threads :
           /\ th'[u] = NULL <=> th[u] = NULL
           /\ th[u] # NULL => th'[u].tid = th[u].tid /\ th'[u].tid_node = th[u].tid_node
    BY Zenon DEF Frees
  <2>2. \A m \in Nodes : node'[m] # NULL => m # n /\ node'[m] = node[m] /\ node[m].tid # node[n].tid
    BY <1>1, <1>2, Zenon DEF IInv, Identities
  <2>3. reaped' \subseteq reaped \cup {node[n].tid} /\ next_tid' = next_tid
    BY Zenon DEF Frees
  <2>4. \A k \in reaped' : k < next_tid
    BY <1>1, <2>3, Zenon DEF IInv, Identities
  <2>5. \A m \in Nodes : node'[m] # NULL => node'[m].tid < next_tid /\ node'[m].tid \notin reaped'
    BY <2>2, <2>3, Zenon DEF IInv, Identities
  <2>6. QED
    BY <1>1, <2>1, <2>2, <2>3, <2>4, <2>5, IdentitiesKept, Zenon DEF IInv
<1>4. ListOf(t)'
  <2>1. \A m \in Elems(q) : m \in Nodes \ {n} /\ m \in Elems(th[t].child_nodes)
    <3>1. q \in Seq(Nodes) /\ Elems(q) \subseteq Elems(th[t].child_nodes) /\ n \notin Elems(q)
      BY Zenon DEF Frees
    <3>2. Elems(q) \subseteq Nodes
      BY <3>1 DEF Elems
    <3>3. QED
      BY <3>1, <3>2, Zenon
  <2>2. ListOf(t) /\ th[t] # NULL /\ th'[t].tid = th[t].tid /\ th'[t].child_nodes = q /\ Once(q)
    BY Zenon DEF IInv, Frees
  <2>3. \A m \in Elems(q) : node'[m] = node[m] /\ parent' = parent
    BY <1>2, <2>1, Zenon
  <2>4. QED
    BY <2>1, <2>2, <2>3, Zenon DEF ListOf, Live
<1>5. ASSUME NEW u \in Threads, u # t, th[u] # NULL
      PROVE  ListOf(u)' /\ CallOf(u)' /\ PageOf(u)' /\ EndOf(u)'
  <2>1. /\ th'[u] = th[u] /\ pc'[u] = pc[u] /\ loc'[u] = loc[u]
        /\ ListOf(u) /\ CallOf(u) /\ PageOf(u) /\ EndOf(u)
    BY <1>5, Zenon DEF IInv, Frees
  <2>2. \A m \in Elems(th[u].child_nodes) : m \in Nodes \ {n}
    BY <1>1, <1>5, OwnNodeFacts DEF Elems
  <2>3. ListOf(u)' /\ PageOf(u)'
    BY <1>2, <2>1, <2>2, Zenon DEF ListOf, PageOf, Live
  <2>4. \A m \in Nodes : Expects(u, m) => Expects(u, m)'
    BY <1>1, <1>2, <1>5, <2>1, Zenon DEF Expects
  <2>5. CallOf(u)'
    <3>1. CASE pc[u] \in {"lookup", "get_node"}
      BY <2>1, <2>4, <3>1, Zenon DEF CallOf
    <3>2. CASE pc[u] \in {"load_wait", "loaded"}
      BY <2>1, <2>4, <3>2, Zenon DEF CallOf
    <3>3. CASE pc[u] \in {"wait", "mark"}
      BY <1>1, <1>2, <2>1, <2>2, <3>3, Zenon DEF CallOf
    <3>4. CASE pc[u] = "load"
      <4>1. th[u].tid_node \in Nodes \ {n} \/ ~ OwnNode(u)
        BY <1>1, <1>5, <3>4, OwnNodeFacts, Zenon
      <4>2. QED
        BY <1>2, <2>1, <3>4, <4>1, Zenon DEF CallOf, OwnNode
    <3>5. QED
      BY <2>1, <3>1, <3>2, <3>3, <3>4, Zenon DEF CallOf
  <2>6. EndOf(u)'
    <3>1. CASE th[u].tid_node = n
      BY <1>2, <2>1, <3>1, Zenon DEF EndOf, OwnNode
    <3>2. CASE th[u].tid_node # n
      <4>1. OwnNode(u)' => OwnNode(u) /\ node'[th[u].tid_node] = node[th[u].tid_node]
        BY <1>2, <1>5, <2>1, <3>2, OwnNodeFacts, Zenon DEF OwnNode
      <4>2. QED
        BY <1>2, <2>1, <4>1, Zenon DEF EndOf, StatusSet, StatusFinal, Live
    <3>3. QED
      BY <3>1, <3>2, Zenon
  <2>7. QED
    BY <2>3, <2>5, <2>6, Zenon
<1>6. ASSUME NEW u \in Threads, u # t, th[u] = NULL
      PROVE  ListOf(u)' /\ CallOf(u)' /\ PageOf(u)' /\ EndOf(u)'
  <2>1. th'[u] = NULL /\ pc'[u] = "none" /\ u # main
    BY <1>6, Zenon DEF IInv, TypeOK, PageOf, Live, Frees
  <2>2. QED
    BY <2>1, Zenon DEF ListOf, CallOf, PageOf, EndOf, Live
<1>7. \A m \in Nodes : Signalled(m)'
  BY <1>1, <1>2, Zenon DEF IInv, Signalled, StatusFinal
<1>8. QED
  BY <1>3, <1>4, <1>5, <1>6, <1>7, Zenon DEF IInv

(* process_wait () takes the node off the list and frees it.                *)
LEMMA ReapStep ==
    ASSUME IInv, NEW t \in Threads, Reap(t)
    PROVE  IInv'
<1>0. /\ pc[t] = "wait" /\ th[t] # NULL /\ loc[t].node \in Elems(th[t].child_nodes)
      /\ loc \in [Threads -> Locals] /\ pc \in [Threads -> Pcs]
      /\ node \in [Nodes -> {NULL} \cup TidStatus] /\ th \in [Threads -> {NULL} \cup Thread]
      /\ UNCHANGED <<next_tid, fault, parent, given, ran, denied, refused>>
      /\ pc' = [pc EXCEPT ![t] = "mark"]
  BY Zenon DEF Reap, Goto, At, IInv, TypeOK, CallOf
<1>1. PICK n \in Elems(th[t].child_nodes) :
         /\ n = loc[t].node
         /\ loc' = [loc EXCEPT ![t].result = node[n].exit_status]
         /\ th' = [th EXCEPT ![t].child_nodes = Without(@, n)]
         /\ node' = [node EXCEPT ![n] = NULL]
         /\ reaped' = reaped \cup {node[n].tid}
  BY <1>0, Zenon DEF Reap
<1>2. /\ n \in Nodes /\ node[n] # NULL /\ node[n].tid \in Tids /\ node[n] \in TidStatus
  BY <1>0, <1>1, ListedFacts, Zenon
<1>3. /\ th[t] \in Thread /\ th[t].child_nodes \in Seq(Nodes) /\ Once(th[t].child_nodes)
  BY <1>0, OwnNodeFacts, Zenon DEF IInv, ListOf, Live
<1>4. PICK q \in Seq(Nodes) :
         /\ q = Without(th[t].child_nodes, n)
         /\ Once(q) /\ Elems(q) \subseteq Elems(th[t].child_nodes) /\ n \notin Elems(q)
  BY <1>3, ListRemove
<1>5. /\ th' \in [Threads -> {NULL} \cup Thread] /\ th'[t] \in Thread
      /\ \A u \in Threads \ {t} : th'[u] = th[u]
      /\ th'[t].tid = th[t].tid /\ th'[t].tid_node = th[t].tid_node
      /\ th'[t].tid_node_exists = th[t].tid_node_exists
      /\ th'[t].child_nodes = q
  BY <1>0, <1>1, <1>3, <1>4, Zenon DEF Thread
<1>6. th'[t] # NULL
  BY <1>5, ProcessAssumption, Zenon
<1>7. /\ loc' \in [Threads -> Locals] /\ loc'[t].node = n
      /\ \A u \in Threads \ {t} : loc'[u] = loc[u]
  <2>1. node[n].exit_status \in Codes \cup {NULL, -2, -1}
    BY <1>2, Zenon DEF TidStatus
  <2>2. QED
    BY <1>0, <1>1, <2>1, SMTT(30) DEF Locals
<1>8. pc'[t] = "mark" /\ \A u \in Threads \ {t} : pc'[u] = pc[u]
  BY <1>0, Zenon
<1>9. TypeOK'
  <2>1. pc' \in [Threads -> Pcs] /\ node' \in [Nodes -> {NULL} \cup TidStatus]
    BY <1>0, <1>1, Zenon DEF Pcs
  <2>2. \A u \in Threads : pc'[u] = "none" <=> th'[u] = NULL
    BY <1>5, <1>6, <1>8, Zenon DEF IInv, TypeOK
  <2>3. {ran, denied, reaped, refused}' \subseteq SUBSET Tids
    <3>1. {ran, denied, reaped, refused} \subseteq SUBSET Tids
      BY Zenon DEF IInv, TypeOK
    <3>2. reaped' \subseteq Tids
      BY <1>1, <1>2, <3>1, Zenon
    <3>3. QED
      BY <1>0, <3>1, <3>2, Zenon
  <2>4. QED
    BY <1>0, <1>5, <1>7, <2>1, <2>2, <2>3, Zenon DEF IInv, TypeOK
<1>10. CallOf(t)'
  BY <1>2, <1>7, <1>8, Zenon DEF CallOf
<1>11. PageOf(t)'
  BY <1>0, <1>5, <1>6, <1>8, Zenon DEF IInv, PageOf, Live, Ending
<1>12. EndOf(t)'
  <2>1. EndOf(t) /\ \A m \in Nodes \ {n} : node'[m] = node[m]
    BY <1>0, <1>1, Zenon DEF IInv
  <2>2. node'[n] = NULL
    BY <1>0, <1>1, <1>2, Zenon
  <2>3. OwnNode(t)' => OwnNode(t) /\ node'[th[t].tid_node] = node[th[t].tid_node]
    BY <1>0, <1>5, <2>1, <2>2, OwnNodeFacts DEF OwnNode
  <2>4. QED
    BY <1>0, <1>5, <1>8, <2>1, <2>3, Zenon DEF EndOf, Live, Ending
<1>13. Frees(t, n, q)
  BY <1>0, <1>1, <1>2, <1>4, <1>5, <1>6, <1>7, <1>8, Zenon DEF Frees
<1>14. QED
  BY <1>9, <1>10, <1>11, <1>12, <1>13, FreeNodeKeeps, Zenon

(* process_exit () frees the node at the front of the list.  The flag it    *)
(* clears is its own: its node still points back to it.                     *)
LEMMA FreeChildStep ==
    ASSUME IInv, NEW t \in Threads, FreeChild(t)
    PROVE  IInv'
<1>0. /\ pc[t] = "free_children" /\ th[t] # NULL /\ t # main /\ th[t].child_nodes # <<>>
      /\ pc \in [Threads -> Pcs]
      /\ node \in [Nodes -> {NULL} \cup TidStatus] /\ th \in [Threads -> {NULL} \cup Thread]
  BY Zenon DEF FreeChild, At, IInv, TypeOK, PageOf, Ending
<1>1. /\ th[t] \in Thread /\ th[t].child_nodes \in Seq(Nodes) /\ Once(th[t].child_nodes)
  BY <1>0, OwnNodeFacts, Zenon DEF IInv, ListOf, Live
<1>2. PICK n \in Elems(th[t].child_nodes) : n = Head(th[t].child_nodes)
  BY <1>0, <1>1, ListTail, Zenon
<1>3. PICK q \in Seq(Nodes) :
         /\ q = Tail(th[t].child_nodes)
         /\ Once(q) /\ Elems(q) \subseteq Elems(th[t].child_nodes) /\ n \notin Elems(q)
  BY <1>0, <1>1, <1>2, ListTail, Zenon
<1>4. n \in Nodes /\ node[n] # NULL
  BY <1>0, ListedFacts, Zenon
<1>5. CASE ~ (node[n].child = NULL \/ OwnNode(t))
  <2>1. Fault(NoNode(t)) /\ NoNode(t) \in {"null node", "freed node"}
    BY <1>2, <1>5, Zenon DEF FreeChild, NoNode
  <2>2. QED
    BY <2>1, FaultStep, Zenon
<1>6. CASE node[n].child = NULL \/ OwnNode(t)
  <2> DEFINE listed == [th EXCEPT ![t].child_nodes = Tail(@)]
  <2>1. /\ th' = IF node[n].child = NULL THEN listed
                 ELSE [listed EXCEPT ![node[th[t].tid_node].child].tid_node_exists = FALSE]
        /\ node' = [node EXCEPT ![n] = NULL]
        /\ UNCHANGED <<pc, loc, next_tid, fault, history>>
    BY <1>2, <1>6, Zenon DEF FreeChild
  <2>2. /\ listed \in [Threads -> {NULL} \cup Thread] /\ listed[t] \in Thread
        /\ \A u \in Threads \ {t} : listed[u] = th[u]
        /\ listed[t].tid = th[t].tid /\ listed[t].tid_node = th[t].tid_node
        /\ listed[t].child_nodes = q
    BY <1>0, <1>1, <1>3, Zenon DEF Thread
  <2>3. OwnNode(t) => node[th[t].tid_node].child = t
    BY <1>0, Zenon DEF IInv, EndOf, Live
  <2> HIDE DEF listed
  <2>4. /\ th' \in [Threads -> {NULL} \cup Thread] /\ th'[t] \in Thread
        /\ \A u \in Threads \ {t} : th'[u] = th[u]
        /\ th'[t].tid = th[t].tid /\ th'[t].tid_node = th[t].tid_node
        /\ th'[t].child_nodes = q
    <3>1. CASE node[n].child = NULL
      BY <2>1, <2>2, <3>1, Zenon
    <3>2. CASE node[n].child # NULL
      <4>1. th' = [listed EXCEPT ![t].tid_node_exists = FALSE]
        BY <1>6, <2>1, <2>3, <3>2, Zenon
      <4>2. QED
        BY <2>2, <4>1, Zenon DEF Thread
    <3>3. QED
      BY <3>1, <3>2, Zenon
  <2>5. th'[t] # NULL
    BY <2>4, ProcessAssumption, Zenon
  <2>6. TypeOK'
    <3>1. node' \in [Nodes -> {NULL} \cup TidStatus]
      BY <1>0, <2>1, Zenon
    <3>2. \A u \in Threads : pc'[u] = "none" <=> th'[u] = NULL
      BY <1>0, <2>1, <2>4, <2>5, Zenon DEF IInv, TypeOK
    <3>3. QED
      BY <2>1, <2>4, <3>1, <3>2, Zenon DEF IInv, TypeOK, history
  <2>7. CallOf(t)' /\ PageOf(t)'
    BY <1>0, <2>1, <2>4, <2>5, Zenon DEF IInv, CallOf, PageOf, Live, Ending
  <2>8. EndOf(t)'
    <3>1. EndOf(t) /\ \A m \in Nodes \ {n} : node'[m] = node[m]
      BY <1>0, <2>1, Zenon DEF IInv
    <3>2. node'[n] = NULL
      BY <1>0, <1>4, <2>1, Zenon
    <3>3. OwnNode(t)' => OwnNode(t) /\ node'[th[t].tid_node] = node[th[t].tid_node]
      BY <1>0, <2>4, <3>1, <3>2, OwnNodeFacts DEF OwnNode
    <3>4. QED
      BY <1>0, <2>1, <2>4, <3>1, <3>3, Zenon DEF EndOf, Live, Ending, StatusFinal, history
  <2>9. \A u \in Threads \ {t} : th'[u] = th[u] /\ pc'[u] = pc[u] /\ loc'[u] = loc[u]
    BY <2>1, <2>4, Zenon
  <2>10. UNCHANGED <<next_tid, parent, given>> /\ reaped' \subseteq reaped \cup {node[n].tid}
    BY <2>1, Zenon DEF history
  <2>11. node'[n] = NULL /\ \A m \in Nodes \ {n} : node'[m] = node[m]
    BY <1>0, <1>4, <2>1, Zenon
  <2>12. Frees(t, n, q)
    BY <1>0, <1>3, <2>4, <2>5, <2>9, <2>10, <2>11, Zenon DEF Frees
  <2>13. QED
    BY <2>6, <2>7, <2>8, <2>12, FreeNodeKeeps, Zenon
<1>7. QED
  BY <1>5, <1>6, Zenon

(* process_execute () puts the node of a child that was loaded on the list. *)
LEMMA LoadCheckStep ==
    ASSUME IInv, NEW t \in Threads, LoadCheck(t)
    PROVE  IInv'
<1>0. /\ pc[t] = "loaded" /\ th[t] # NULL
      /\ loc \in [Threads -> Locals] /\ pc \in [Threads -> Pcs]
      /\ th \in [Threads -> {NULL} \cup Thread]
      /\ UNCHANGED <<node, next_tid, fault, parent, given, ran, reaped, refused>>
      /\ pc' = [pc EXCEPT ![t] = "user"] /\ loc' = [loc EXCEPT ![t] = NoLocals]
  BY Zenon DEF LoadCheck, SysReturn, Goto, At, IInv, TypeOK
<1>1. PICK n \in Nodes : n = loc[t].node /\ Expects(t, n)
  BY <1>0, Zenon DEF IInv, CallOf
<1>2. /\ node[n] # NULL /\ node[n] \in TidStatus /\ node[n].loaded \in BOOLEAN
      /\ parent[node[n].tid] = th[t].tid /\ n \notin Elems(th[t].child_nodes)
      /\ loc[t].tid \in Tids
  BY <1>1, Zenon DEF Expects, IInv, TypeOK, TidStatus
<1>3. /\ th[t] \in Thread /\ th[t].child_nodes \in Seq(Nodes) /\ ListOf(t)
  BY <1>0, OwnNodeFacts, Zenon DEF IInv
<1>4. /\ th' \in [Threads -> {NULL} \cup Thread] /\ th'[t] \in Thread
      /\ \A u \in Threads \ {t} : th'[u] = th[u]
      /\ th'[t].tid = th[t].tid /\ th'[t].tid_node = th[t].tid_node
      /\ th'[t].tid_node_exists = th[t].tid_node_exists
      /\ \/ th'[t].child_nodes = th[t].child_nodes
         \/ th'[t].child_nodes = Append(th[t].child_nodes, n) /\ node[n].loaded = TRUE
      /\ denied' \subseteq denied \cup Tids
  <2>1. CASE ~ node[n].loaded
    BY <1>0, <1>1, <1>2, <1>3, <2>1, Zenon DEF LoadCheck
  <2>2. CASE node[n].loaded
    <3>1. th' = [th EXCEPT ![t].child_nodes = Append(@, n)] /\ denied' = denied
      BY <1>1, <2>2, Zenon DEF LoadCheck
    <3>2. Append(th[t].child_nodes, n) \in Seq(Nodes)
      BY <1>3, ListAppend, Zenon
    <3>3. /\ th' \in [Threads -> {NULL} \cup Thread] /\ th'[t] \in Thread
          /\ \A u \in Threads \ {t} : th'[u] = th[u]
          /\ th'[t].tid = th[t].tid /\ th'[t].tid_node = th[t].tid_node
          /\ th'[t].tid_node_exists = th[t].tid_node_exists
          /\ th'[t].child_nodes = Append(th[t].child_nodes, n)
      BY <1>0, <1>3, <3>1, <3>2, Zenon DEF Thread
    <3>4. node[n].loaded = TRUE
      BY <1>2, <2>2, Zenon
    <3>5. QED
      BY <3>1, <3>3, <3>4, Zenon
  <2>3. QED
    BY <2>1, <2>2, Zenon
<1>5. th'[t] # NULL
  BY <1>4, ProcessAssumption, Zenon
<1>6. /\ pc'[t] = "user" /\ \A u \in Threads \ {t} : pc'[u] = pc[u] /\ loc'[u] = loc[u]
  BY <1>0, Zenon
<1>7. TypeOK'
  <2>1. NoLocals \in Locals
    BY Zenon DEF NoLocals, Locals
  <2>2. pc' \in [Threads -> Pcs] /\ loc' \in [Threads -> Locals]
    BY <1>0, <2>1, Zenon DEF Pcs
  <2>3. \A u \in Threads : pc'[u] = "none" <=> th'[u] = NULL
    BY <1>4, <1>5, <1>6, ZenonT(40) DEF IInv, TypeOK
  <2>4. {ran, denied, reaped, refused}' \subseteq SUBSET Tids
    <3>1. {ran, denied, reaped, refused} \subseteq SUBSET Tids
      BY Zenon DEF IInv, TypeOK
    <3>2. denied' \subseteq Tids
      BY <1>4, <3>1, Zenon
    <3>3. QED
      BY <1>0, <3>1, <3>2, Zenon
  <2>5. QED
    BY <1>0, <1>4, <2>2, <2>3, <2>4, Zenon DEF IInv, TypeOK
<1>8. Identities'
  <2>1. \A u \in Threads :
           /\ th'[u] = NULL <=> th[u] = NULL
           /\ th[u] # NULL => th'[u].tid = th[u].tid /\ th'[u].tid_node = th[u].tid_node
    BY <1>0, <1>4, <1>5, Zenon
  <2>2. QED
    BY <1>0, <2>1, IdentitiesKept, Zenon DEF IInv, Identities
<1>9. ListOf(t)'
  <2>1. CASE th'[t].child_nodes = th[t].child_nodes
    BY <1>0, <1>3, <1>4, <2>1, Zenon DEF ListOf, Live
  <2>2. CASE th'[t].child_nodes = Append(th[t].child_nodes, n) /\ node[n].loaded = TRUE
    <3>1. /\ Elems(Append(th[t].child_nodes, n)) = Elems(th[t].child_nodes) \cup {n}
          /\ Once(Append(th[t].child_nodes, n))
      BY <1>0, <1>2, <1>3, ListAppend, Zenon DEF ListOf, Live
    <3>2. QED
      BY <1>0, <1>2, <1>3, <1>4, <2>2, <3>1 DEF ListOf, Live
  <2>3. QED
    BY <1>4, <2>1, <2>2, Zenon
<1>10. CallOf(t)' /\ PageOf(t)'
  BY <1>0, <1>4, <1>5, <1>6, Zenon DEF IInv, CallOf, PageOf, Live, Ending
<1>11. EndOf(t)'
  BY <1>0, <1>4, <1>6 DEF IInv, EndOf, OwnNode, Live, Ending
<1>12. ASSUME NEW u \in Threads, u # t
       PROVE  ListOf(u)' /\ CallOf(u)' /\ PageOf(u)' /\ EndOf(u)'
  <2>1. /\ th'[u] = th[u] /\ pc'[u] = pc[u] /\ loc'[u] = loc[u]
        /\ ListOf(u) /\ CallOf(u) /\ PageOf(u) /\ EndOf(u)
    BY <1>4, <1>6, <1>12, Zenon DEF IInv
  <2>2. ListOf(u)' /\ PageOf(u)'
    BY <1>0, <2>1, Zenon DEF ListOf, PageOf, Live
  <2>3. CallOf(u)'
    BY <1>0, <2>1, Zenon DEF CallOf, Expects, OwnNode
  <2>4. EndOf(u)'
    BY <1>0, <2>1, Zenon DEF EndOf, OwnNode, Live, StatusSet, StatusFinal
  <2>5. QED
    BY <2>2, <2>3, <2>4, Zenon
<1>13. \A m \in Nodes : Signalled(m)'
  BY <1>0, Zenon DEF IInv, Signalled, StatusFinal
<1>14. QED
  BY <1>7, <1>8, <1>9, <1>10, <1>11, <1>12, <1>13, Zenon DEF IInv
==============================================================================
