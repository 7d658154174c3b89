---------------------------- MODULE ProcessProofs ----------------------------
(***************************************************************************)
(* The child lists of process.c are owned, process_wait () returns what its *)
(* child ended with, and no tid_status node is used after it was freed      *)
(* where processes reap their children: for any number of threads, nodes    *)
(* and tids.                                                                *)
(***************************************************************************)
EXTENDS ProcessLemmas

(* process_execute () of t creates the thread c and its node n with a tid   *)
(* that no thread and no node has had.                                      *)
Creates(t, c, n) ==
    /\ th[c] = NULL /\ node[n] = NULL /\ c # t
    /\ th'[c] \in Thread /\ th'[c] # NULL
    /\ th'[c].tid = next_tid /\ th'[c].tid_node = n /\ th'[c].child_nodes = <<>>
    /\ th'[c].load_sema = 0 /\ th'[c].tid_node_exists = TRUE
    /\ node'[n] \in TidStatus /\ node'[n] # NULL
    /\ node'[n].tid = next_tid /\ node'[n].child = c /\ node'[n].exit_status = -2
    /\ node'[n].loaded = FALSE /\ node'[n].sema = 0
    /\ \A u \in Threads \ {c} : th'[u] = th[u]
    /\ \A m \in Nodes \ {n} : node'[m] = node[m]
    /\ pc'[c] = "load" /\ pc'[t] = "lookup" /\ \A u \in Threads \ {c, t} : pc'[u] = pc[u]
    /\ \A u \in Threads \ {t} : loc'[u] = loc[u]
    /\ loc' \in [Threads -> Locals] /\ loc'[t].tid = next_tid
    /\ th' \in [Threads -> {NULL} \cup Thread] /\ node' \in [Nodes -> {NULL} \cup TidStatus]
    /\ pc' \in [Threads -> Pcs]

LEMMA ExecuteFacts ==
    ASSUME IInv, NEW t \in Threads, process_execute(t)
    PROVE  /\ pc[t] = "user" /\ th[t] # NULL /\ next_tid \in Tids
           /\ UNCHANGED <<fault, given, ran, denied, reaped, refused>>
           /\ next_tid' = next_tid + 1 /\ next_tid' \in 2 .. MaxTid + 1
           /\ parent' \in [Tids -> Tids \cup {0}] /\ parent'[next_tid] = th[t].tid
           /\ \A j \in Tids \ {next_tid} : parent'[j] = parent[j]
           /\ \A u \in Threads : th[u] # NULL => th[u].tid \in Tids /\ th[u].tid # next_tid
           /\ \A m \in Nodes : node[m] # NULL => node[m].tid \in Tids /\ node[m].tid # next_tid
           /\ next_tid \notin reaped
           /\ \E c \in Threads, n \in Nodes : Creates(t, c, n)
<1> DEFINE k == next_tid
<1>0. /\ pc[t] = "user" /\ th[t] # NULL /\ k \in Tids
      /\ loc \in [Threads -> Locals] /\ pc \in [Threads -> Pcs] /\ loc[t] \in Locals
      /\ th \in [Threads -> {NULL} \cup Thread] /\ node \in [Nodes -> {NULL} \cup TidStatus]
      /\ parent \in [Tids -> Tids \cup {0}] /\ next_tid \in 2 .. MaxTid + 1
      /\ UNCHANGED <<fault, given, ran, denied, reaped, refused>>
      /\ parent' = [parent EXCEPT ![k] = th[t].tid]
      /\ next_tid' = k + 1 /\ next_tid' \in 2 .. MaxTid + 1
  <2>1. next_tid \in 2 .. MaxTid + 1 /\ next_tid <= MaxTid /\ next_tid' = next_tid + 1
    BY Zenon DEF process_execute, IInv, TypeOK
  <2>2. next_tid \in Tids /\ next_tid' \in 2 .. MaxTid + 1
    BY <2>1, ProcessAssumption DEF Tids
  <2>3. QED
    BY <2>1, <2>2, Zenon DEF process_execute, At, IInv, TypeOK
<1>1. PICK c \in Threads, n \in Nodes :
         /\ th[c] = NULL /\ node[n] = NULL
         /\ th' = [th EXCEPT ![c] = NewThread(k, n)]
         /\ node' = [node EXCEPT ![n] = NewNode(k, c)]
         /\ pc' = [pc EXCEPT ![t] = "lookup", ![c] = "load"]
         /\ loc' = [loc EXCEPT ![t].tid = k]
  BY Zenon DEF process_execute
<1>2. /\ NewThread(k, n) \in Thread /\ NewThread(k, n).tid = k /\ NewThread(k, n).tid_node = n
      /\ NewThread(k, n).child_nodes = <<>> /\ NewThread(k, n).load_sema = 0
      /\ NewThread(k, n).tid_node_exists = TRUE
  <2>1. n # NULL
    BY ProcessAssumption, Zenon
  <2>2. (n # NULL) = TRUE
    BY <2>1, Zenon
  <2>3. NewThread(k, n) = [tid |-> k, tid_node |-> n, tid_node_exists |-> TRUE,
                           load_sema |-> 0, child_nodes |-> <<>>]
    BY <2>2, Zenon DEF NewThread
  <2>4. QED
    BY <1>0, <2>3 DEF Thread
<1>3. /\ NewNode(k, c) \in TidStatus /\ NewNode(k, c).tid = k /\ NewNode(k, c).child = c
      /\ NewNode(k, c).exit_status = -2 /\ NewNode(k, c).loaded = FALSE
      /\ NewNode(k, c).sema = 0
  BY <1>0 DEF NewNode, TidStatus
<1>4. NewThread(k, n) # NULL /\ NewNode(k, c) # NULL /\ c # t
  BY <1>0, <1>1, <1>2, <1>3, ProcessAssumption, Zenon
<1>5. /\ th'[c] = NewThread(k, n) /\ \A u \in Threads \ {c} : th'[u] = th[u]
      /\ node'[n] = NewNode(k, c) /\ \A m \in Nodes \ {n} : node'[m] = node[m]
      /\ pc'[c] = "load" /\ pc'[t] = "lookup" /\ \A u \in Threads \ {c, t} : pc'[u] = pc[u]
      /\ \A u \in Threads \ {t} : loc'[u] = loc[u]
  BY <1>0, <1>1, <1>4, Zenon
<1>6. loc' \in [Threads -> Locals] /\ loc'[t].tid = k
  BY <1>0, <1>1, Zenon DEF Locals
<1>7. /\ th[t].tid \in Tids /\ parent'[k] = th[t].tid /\ parent' \in [Tids -> Tids \cup {0}]
      /\ \A j \in Tids \ {k} : parent'[j] = parent[j]
  BY <1>0, OwnNodeFacts, Zenon
<1>8. /\ \A u \in Threads : th[u] # NULL => th[u].tid \in Tids /\ th[u].tid # k
      /\ \A m \in Nodes : node[m] # NULL => node[m].tid \in Tids /\ node[m].tid # k
      /\ k \notin reaped
  <2>1. \A u \in Threads : th[u] # NULL => th[u].tid \in Tids /\ th[u].tid < k
    BY OwnNodeFacts, Zenon DEF IInv, Identities, Live
  <2>2. \A m \in Nodes : node[m] # NULL => node[m].tid \in Tids /\ node[m].tid < k
    BY <1>0, Zenon DEF IInv, Identities, TidStatus
  <2>3. \A j \in reaped : j < k
    BY Zenon DEF IInv, Identities
  <2>4. \A j \in Tids : j < k => j # k
    BY <1>0 DEF Tids
  <2>5. ~ (k < k)
    BY <1>0
  <2>6. QED
    BY <2>1, <2>2, <2>3, <2>4, <2>5, Zenon
<1>9. /\ th' \in [Threads -> {NULL} \cup Thread] /\ node' \in [Nodes -> {NULL} \cup TidStatus]
      /\ pc' \in [Threads -> Pcs]
  BY <1>0, <1>1, <1>2, <1>3, Zenon DEF Pcs
<1>10. Creates(t, c, n)
  BY <1>1, <1>2, <1>3, <1>4, <1>5, <1>6, <1>9, Zenon DEF Creates
<1>11. QED
  BY <1>0, <1>7, <1>8, <1>10, Zenon

(* process_execute () creates a thread and its node with a new tid.         *)
LEMMA ExecuteStep ==
    ASSUME IInv, NEW t \in Threads, process_execute(t)
    PROVE  IInv'
<1> DEFINE k == next_tid
<1>0. /\ pc[t] = "user" /\ th[t] # NULL /\ k \in Tids
      /\ UNCHANGED <<fault, given, ran, denied, reaped, refused>>
      /\ next_tid' = k + 1 /\ next_tid' \in 2 .. MaxTid + 1
  BY ExecuteFacts, Zenon
<1>1. PICK c \in Threads, n \in Nodes : Creates(t, c, n)
  BY ExecuteFacts, Zenon
<1>2. th[c] = NULL /\ node[n] = NULL /\ c # t
  BY <1>1, Zenon DEF Creates
<1>3. /\ th'[c] # NULL
      /\ th'[c].tid = k /\ th'[c].tid_node = n /\ th'[c].child_nodes = <<>>
      /\ th'[c].load_sema = 0 /\ th'[c].tid_node_exists = TRUE
  BY <1>1, Zenon DEF Creates
<1>4. /\ node'[n] # NULL /\ node'[n].tid = k /\ node'[n].child = c
      /\ node'[n].exit_status = -2 /\ node'[n].loaded = FALSE /\ node'[n].sema = 0
  BY <1>1, Zenon DEF Creates
<1>5. /\ \A u \in Threads \ {c} : th'[u] = th[u]
      /\ \A m \in Nodes \ {n} : node'[m] = node[m]
      /\ pc'[c] = "load" /\ pc'[t] = "lookup" /\ \A u \in Threads \ {c, t} : pc'[u] = pc[u]
      /\ \A u \in Threads \ {t} : loc'[u] = loc[u]
  BY <1>1, Zenon DEF Creates
<1>6. loc'[t].tid = k
  BY <1>1, Zenon DEF Creates
<1>7. /\ parent'[k] = th[t].tid /\ \A j \in Tids \ {k} : parent'[j] = parent[j]
  BY ExecuteFacts, Zenon
<1>8. /\ \A u \in Threads : th[u] # NULL => th[u].tid \in Tids /\ th[u].tid # k
      /\ \A m \in Nodes : node[m] # NULL => node[m].tid \in Tids /\ node[m].tid # k
      /\ k \notin reaped
  BY ExecuteFacts, Zenon
<1>9. TypeOK'
  <2>1. ASSUME NEW u \in Threads
        PROVE  pc'[u] = "none" <=> th'[u] = NULL
    <3>1. pc[u] = "none" <=> th[u] = NULL
      BY Zenon DEF IInv, TypeOK
    <3>2. CASE u = c
      BY <1>3, <1>5, <3>2, Zenon
    <3>3. CASE u = t
      BY <1>0, <1>2, <1>5, <3>3, Zenon
    <3>4. CASE u \notin {c, t}
      BY <1>5, <3>1, <3>4, Zenon
    <3>5. QED
      BY <3>2, <3>3, <3>4, Zenon
  <2>2. /\ th' \in [Threads -> {NULL} \cup Thread] /\ node' \in [Nodes -> {NULL} \cup TidStatus]
        /\ pc' \in [Threads -> Pcs] /\ loc' \in [Threads -> Locals]
    BY <1>1, Zenon DEF Creates
  <2>3. parent' \in [Tids -> Tids \cup {0}]
    BY ExecuteFacts, Zenon
  <2>4. QED
    BY <1>0, <2>1, <2>2, <2>3, Zenon DEF IInv, TypeOK
<1>10. Identities'
  <2>1. \A j \in Tids : j < k => j < next_tid'
    BY <1>0 DEF Tids
  <2>2. k < next_tid'
    BY <1>0 DEF Tids
  <2>3. reaped \subseteq Tids
    BY Zenon DEF IInv, TypeOK
  <2>4. \A u \in Threads : Live(u)' => th'[u].tid < next_tid'
    BY <1>3, <1>5, <1>8, <2>1, <2>2, Zenon DEF IInv, Identities, Live
  <2>5. \A u, v \in Threads : Live(u)' /\ Live(v)' /\ th'[u].tid = th'[v].tid => u = v
    BY <1>3, <1>5, <1>8 DEF IInv, Identities, Live
  <2>6. \A m \in Nodes : node'[m] # NULL => node'[m].tid < next_tid' /\ node'[m].tid \notin reaped'
    BY <1>0, <1>4, <1>5, <1>8, <2>1, <2>2, Zenon DEF IInv, Identities
  <2>7. \A l, m \in Nodes : node'[l] # NULL /\ node'[m] # NULL /\ node'[l].tid = node'[m].tid => l = m
    BY <1>4, <1>5, <1>8 DEF IInv, Identities
  <2>8. \A j \in reaped' : j < next_tid'
    BY <1>0, <2>1, <2>3, Zenon DEF IInv, Identities
  <2>9. \A u \in Threads, m \in Nodes :
           Live(u)' /\ node'[m] # NULL /\ node'[m].tid = th'[u].tid => th'[u].tid_node = m
    BY <1>3, <1>4, <1>5, <1>8 DEF IInv, Identities, Live
  <2>10. QED
    BY <2>4, <2>5, <2>6, <2>7, <2>8, <2>9, Zenon DEF Identities, Live
<1>11. ListOf(c)' /\ CallOf(c)' /\ PageOf(c)' /\ EndOf(c)'
  <2>1. OwnNode(c)' /\ c # main
    BY <1>2, <1>3, <1>4, <1>5, ProcessAssumption, Zenon DEF OwnNode, IInv, PageOf, Live
  <2>2. Elems(<<>>) = {} /\ Once(<<>>)
    BY DEF Elems, Once
  <2>3. ListOf(c)'
    BY <1>3, <1>5, <2>2, Zenon DEF ListOf
  <2>4. CallOf(c)' /\ PageOf(c)'
    BY <1>3, <1>4, <1>5, <2>1, ProcessAssumption, Zenon DEF CallOf, PageOf
  <2>5. EndOf(c)'
    BY <1>3, <1>4, <1>5, Zenon DEF EndOf, Ending
  <2>6. QED
    BY <2>3, <2>4, <2>5, Zenon
<1>12. ASSUME NEW u \in Threads, u # c, th[u] # NULL
       PROVE  /\ ListOf(u)' /\ EndOf(u)' /\ PageOf(u)'
              /\ u # t => CallOf(u)'
  <2>1. /\ th'[u] = th[u]
        /\ u # t => pc'[u] = pc[u] /\ loc'[u] = loc[u]
        /\ ListOf(u) /\ CallOf(u) /\ PageOf(u) /\ EndOf(u)
        /\ th[u].child_nodes \in Seq(Nodes)
    BY <1>5, <1>12, OwnNodeFacts, Zenon DEF IInv
  <2>2. \A m \in Elems(th[u].child_nodes) :
           m \in Nodes \ {n} /\ node[m] # NULL /\ node[m].tid \in Tids \ {k}
    <3>1. \A m \in Elems(th[u].child_nodes) : m \in Nodes /\ node[m] # NULL
      BY <1>12, <2>1, ListedFacts, Zenon
    <3>2. QED
      BY <1>2, <1>8, <3>1, Zenon
  <2>3. ListOf(u)'
    BY <1>5, <1>7, <2>1, <2>2 DEF ListOf, Live
  <2>4. OwnNode(u) => th[u].tid_node \in Nodes \ {n}
    BY <1>2, <1>12, OwnNodeFacts, Zenon
  <2>5. OwnNode(u)' <=> OwnNode(u)
    <3>1. CASE th[u].tid_node = n
      BY <1>2, <1>4, <1>5, <1>8, <1>12, <2>1, <3>1, Zenon DEF OwnNode
    <3>2. CASE th[u].tid_node # n
      BY <1>5, <1>12, <2>1, <3>2, OwnNodeFacts DEF OwnNode
    <3>3. QED
      BY <3>1, <3>2, Zenon
  <2>6. EndOf(u)'
    <3>1. given' = given /\ (u = t => pc[u] = "user" /\ pc'[u] = "lookup")
      BY <1>0, <1>5, Zenon
    <3>2. OwnNode(u) => node'[th[u].tid_node] = node[th[u].tid_node]
      BY <1>5, <2>4, Zenon
    <3>3. QED
      BY <2>1, <2>5, <3>1, <3>2, Zenon DEF EndOf, Live, StatusSet, StatusFinal, Ending
  <2>7. PageOf(u)'
    BY <1>0, <1>5, <2>1, Zenon DEF PageOf, Live, Ending
  <2>8. ASSUME u # t
        PROVE  CallOf(u)'
    <3>1. pc'[u] = pc[u] /\ loc'[u] = loc[u]
      BY <2>1, <2>8, Zenon
    <3>2. \A m \in Nodes : Expects(u, m) => Expects(u, m)'
      <4> SUFFICES ASSUME NEW m \in Nodes, Expects(u, m)
                   PROVE  Expects(u, m)'
        BY Zenon
      <4>1. node[m] # NULL /\ m # n /\ node[m].tid \in Tids \ {k}
        BY <1>2, <1>8, Zenon DEF Expects
      <4>2. node'[m] = node[m] /\ parent'[node[m].tid] = parent[node[m].tid]
        BY <1>5, <1>7, <4>1, Zenon
      <4>3. QED
        BY <2>1, <3>1, <4>2, Zenon DEF Expects
    <3>3. CASE pc[u] \in {"lookup", "get_node"}
      BY <2>1, <3>1, <3>2, <3>3, Zenon DEF CallOf
    <3>4. CASE pc[u] \in {"load_wait", "loaded"}
      BY <2>1, <3>1, <3>2, <3>4, Zenon DEF CallOf
    <3>5. CASE pc[u] = "load"
      BY <1>5, <2>1, <2>4, <2>5, <3>1, <3>5, Zenon DEF CallOf
    <3>6. QED
      BY <2>1, <3>1, <3>3, <3>4, <3>5, Zenon DEF CallOf
  <2>9. QED
    BY <2>3, <2>6, <2>7, <2>8, Zenon
<1>13. CallOf(t)'
  <2>1. n \notin Elems(th[t].child_nodes)
    BY <1>0, <1>2, ListedFacts, Zenon
  <2>2. Expects(t, n)'
    BY <1>4, <1>2, <1>3, <1>5, <1>6, <1>7, <2>1, Zenon DEF Expects
  <2>3. QED
    BY <1>5, <2>2, Zenon DEF CallOf
<1>14. ASSUME NEW u \in Threads, u # c, th[u] = NULL
       PROVE  ListOf(u)' /\ CallOf(u)' /\ PageOf(u)' /\ EndOf(u)'
  <2>1. th'[u] = NULL /\ pc'[u] = "none" /\ u # main
    BY <1>0, <1>5, <1>14, Zenon DEF IInv, TypeOK, PageOf, Live
  <2>2. QED
    BY <2>1, Zenon DEF ListOf, CallOf, PageOf, EndOf, Live
<1>15. \A m \in Nodes : Signalled(m)'
  BY <1>0, <1>4, <1>5 DEF IInv, Signalled, StatusFinal
<1>16. QED
  BY <1>0, <1>9, <1>10, <1>11, <1>12, <1>13, <1>14, <1>15, Zenon DEF IInv
------------------------------------------------------------------------------
LEMMA StutterStep ==
    ASSUME IInv, UNCHANGED vars
    PROVE  IInv'
<1>1. UNCHANGED <<th, node, pc, loc, next_tid, fault, parent, given, ran, denied, reaped, refused>>
  BY Zenon DEF vars, kernel, history
<1>2. TypeOK' /\ Identities'
  BY <1>1, Zenon DEF IInv, TypeOK, Identities, Live
<1>3. \A u \in Threads : ListOf(u)' /\ CallOf(u)' /\ PageOf(u)'
  BY <1>1 DEF IInv, ListOf, CallOf, PageOf, Expects, OwnNode, Live
<1>4. \A u \in Threads : EndOf(u)'
  BY <1>1, Zenon DEF IInv, EndOf, OwnNode, StatusSet, StatusFinal, Live
<1>5. \A n \in Nodes : Signalled(n)'
  BY <1>1, Zenon DEF IInv, Signalled, StatusFinal
<1>6. QED
  BY <1>2, <1>3, <1>4, <1>5, Zenon DEF IInv

LEMMA NextInvariant == IInv /\ [Next]_vars => IInv'
<1> SUFFICES ASSUME IInv, [Next]_vars PROVE IInv'
  BY Zenon
<1>1. CASE UNCHANGED vars
  BY <1>1, StutterStep, Zenon
<1>2. ASSUME NEW t \in Threads, InKernel(t)
      PROVE  IInv'
  BY <1>2, LookupStep, GetNodeStep, LoadWaitStep, LoadCheckStep, StartStep, ReapStep, MarkStep,
     ProcessExitStep, FreeChildStep, UnlinkStep, SignalStep, ThreadExitStep, Zenon DEF InKernel
<1>3. ASSUME NEW t \in Threads, InUser(t)
      PROVE  IInv'
  BY <1>3, ExecuteStep, WaitStep, ExitStep, KillStep, Zenon DEF InUser
<1>4. QED
  BY <1>1, <1>2, <1>3, Zenon DEF Next

(* The invariant on which the results below rest.                           *)
LEMMA ProcessInvariant == Spec => []IInv
  BY InitInvariant, NextInvariant, PTL DEF Spec

(* For any number of threads, nodes and tids, and with preemption anywhere, *)
(* the child lists of process_execute (), process_wait () and               *)
(* process_exit () hold only nodes that are allocated, each once and on one *)
(* list, and of children of the owner that it has not reaped.               *)
THEOREM ListsOwned == Spec => []ChildListsOwned
<1>1. IInv => ChildListsOwned
  <2> SUFFICES ASSUME IInv PROVE ChildListsOwned
    BY Zenon
  <2>1. \A t \in Threads : ChildNodes(t) = Elems(th[t].child_nodes)
    BY Zenon DEF ChildNodes, Elems
  <2>2. ASSUME NEW t \in Threads, Live(t)
        PROVE  Once(th[t].child_nodes)
    BY <2>2, Zenon DEF IInv, ListOf
  <2>3. ASSUME NEW t \in Threads, Live(t), NEW n \in ChildNodes(t)
        PROVE  node[n] # NULL /\ parent[node[n].tid] = th[t].tid /\ node[n].tid \notin reaped
    <3>1. th[t] # NULL /\ n \in Elems(th[t].child_nodes)
      BY <2>1, <2>3, Zenon DEF Live
    <3>2. n \in Nodes /\ node[n] # NULL /\ parent[node[n].tid] = th[t].tid
      BY <3>1, ListedFacts, Zenon
    <3>3. QED
      BY <3>2, Zenon DEF IInv, Identities
  <2>4. ASSUME NEW t \in Threads, NEW u \in Threads, Live(t), Live(u), t # u
        PROVE  ChildNodes(t) \cap ChildNodes(u) = {}
    <3>1. th[t] # NULL /\ th[u] # NULL /\ u \in Threads \ {t}
      BY <2>4, Zenon DEF Live
    <3>2. \A n \in Elems(th[t].child_nodes) : n \notin Elems(th[u].child_nodes)
      BY <3>1, ListedFacts, Zenon
    <3>3. QED
      BY <2>1, <3>2, Zenon
  <2>5. QED
    BY <2>2, <2>3, <2>4, Zenon DEF ChildListsOwned, IInv
<1>2. QED
  BY <1>1, ProcessInvariant, PTL

(* A step takes a thread from sema_down () of the node to the mark only in  *)
(* process_wait ().                                                         *)
LEMMA ReapOnly ==
    ASSUME IInv, Next, NEW t \in Threads, pc[t] = "wait", pc'[t] = "mark"
    PROVE  Reap(t)
<1>1. pc \in [Threads -> Pcs]
  BY Zenon DEF IInv, TypeOK
<1>2. ASSUME NEW u \in Threads, InKernel(u)
      PROVE  Reap(t)
  <2>1. CASE \/ Lookup(u) \/ GetNode(u) \/ LoadWait(u) \/ LoadCheck(u) \/ start_process(u)
    BY <1>1, <2>1, Zenon DEF Lookup, GetNode, LoadWait, LoadCheck, start_process, At, Goto, SysReturn, Fault
  <2>2. CASE Mark(u) \/ process_exit(u) \/ FreeChild(u) \/ Unlink(u) \/ SignalParent(u) \/ thread_exit(u)
    BY <1>1, <2>2, Zenon DEF Mark, process_exit, FreeChild, Unlink, SignalParent, thread_exit, At, Goto, SysReturn, Fault
  <2>3. CASE Reap(u)
    BY <1>1, <2>3, Zenon DEF Reap, At, Goto
  <2>4. QED
    BY <1>2, <2>1, <2>2, <2>3, Zenon DEF InKernel
<1>3. ASSUME NEW u \in Threads, InUser(u)
      PROVE  Reap(t)
  <2>1. CASE process_execute(u)
    BY <1>1, <2>1, Zenon DEF process_execute, At
  <2>2. CASE \E tid \in Tids : process_wait(u, tid)
    BY <1>1, <2>2, Zenon DEF process_wait, At, Goto
  <2>3. CASE kill(u) \/ \E code \in Codes : exit_w(u, code)
    BY <1>1, <2>3, Zenon DEF kill, exit_w, At, Goto, Fault
  <2>4. QED
    BY <1>3, <2>1, <2>2, <2>3, Zenon DEF InUser
<1>4. QED
  BY <1>2, <1>3, Zenon DEF Next

(* For any number of threads, nodes and tids, a process_wait () that comes  *)
(* back from the semaphore of a node returns the status its own child ended *)
(* with, and no status is returned twice.                                   *)
THEOREM WaitReportsChild == Spec => WaitIsRight
<1>1. ASSUME IInv, Next, NEW t \in Threads, pc[t] = "wait" /\ pc'[t] = "mark"
      PROVE  LET k == node[loc[t].node].tid IN
             /\ parent[k] = th[t].tid
             /\ k \notin reaped
             /\ given[k] # NULL /\ loc'[t].result = Reported(given[k])
  <2>1. Reap(t)
    BY <1>1, ReapOnly, Zenon
  <2>2. PICK n \in Elems(th[t].child_nodes) : n = loc[t].node
    BY <1>1, Zenon DEF IInv, CallOf
  <2>3. th[t] # NULL /\ loc \in [Threads -> Locals]
    BY <1>1, Zenon DEF IInv, TypeOK
  <2>4. n \in Nodes /\ node[n] # NULL /\ parent[node[n].tid] = th[t].tid
    BY <1>1, <2>2, <2>3, ListedFacts, Zenon
  <2>5. node[n].sema > 0 /\ loc' = [loc EXCEPT ![t].result = node[n].exit_status]
    BY <2>1, <2>2, Zenon DEF Reap
  <2>6. given[node[n].tid] # NULL /\ node[n].exit_status = Reported(given[node[n].tid])
    BY <1>1, <2>4, <2>5, Zenon DEF IInv, Signalled, StatusFinal
  <2>7. loc'[t].result = node[n].exit_status
    BY <2>3, <2>5, Zenon DEF Locals
  <2>8. node[n].tid \notin reaped
    BY <1>1, <2>4, Zenon DEF IInv, Identities
  <2>9. QED
    BY <2>2, <2>4, <2>6, <2>7, <2>8, Zenon
<1>2. IInv /\ [Next]_vars =>
         [\A t \in Threads :
            pc[t] = "wait" /\ pc'[t] = "mark" =>
               LET k == node[loc[t].node].tid IN
               /\ parent[k] = th[t].tid
               /\ k \notin reaped
               /\ given[k] # NULL /\ loc'[t].result = Reported(given[k])]_vars
  BY <1>1, Zenon
<1>3. QED
  BY <1>2, ProcessInvariant, PTL DEF Spec, WaitIsRight
------------------------------------------------------------------------------
(* Undisturbed processes.                                                   *)

(* Where the windows are not preempted and every process reaps its children *)
(* before it ends: a thread has its node until it dies, a parent that looks *)
(* for its child finds it loading, and a child that loads is expected.      *)
Undisturbed ==
    Preemptible = {} /\ WaitsForAll = TRUE /\ PowersOff = TRUE

Calm(t) ==
    /\ t # main /\ th[t] # NULL /\ pc[t] # "die" => OwnNode(t)
    /\ pc[t] \in Ending \cup {"exit", "load"} => th[t].child_nodes = <<>>
    /\ pc[t] \in {"lookup", "get_node"} =>
          \E c \in Threads : th[c] # NULL /\ th[c].tid = loc[t].tid /\ pc[c] = "load"
    /\ pc[t] = "get_node" => ChildPage(t)
    /\ pc[t] = "load_wait" =>
          \A c \in Threads : th[c] # NULL /\ th[c].tid = loc[t].tid => c = loc[t].child
    /\ pc[t] = "loaded" =>
          \A c \in Threads : th[c] # NULL /\ th[c].tid = loc[t].tid => pc[c] # "load"
    /\ pc[t] = "load" => Expected(th[t].tid_node)

Listed(n) == \E t \in Threads : th[t] # NULL /\ n \in Elems(th[t].child_nodes)

Kept(n) == node[n] # NULL /\ node[n].loaded = TRUE => Expected(n) \/ Listed(n)

OInv ==
    /\ IInv
    /\ fault = "none" /\ pc[main] # "exit"
    /\ \A t \in Threads : Calm(t)
    /\ \A n \in Nodes : Kept(n)

LEMMA InitOrderly == Init => OInv
<1> SUFFICES ASSUME Init PROVE OInv
  BY Zenon
<1>1. IInv /\ fault = "none" /\ pc[main] = "user"
  BY InitInvariant, ProcessAssumption, Zenon DEF Init
<1>2. \A t \in Threads : pc[t] \in {"user", "none"} /\ (t # main => th[t] = NULL)
  BY Zenon DEF Init
<1>3. \A t \in Threads : Calm(t)
  BY <1>2, Zenon DEF Calm, Ending
<1>4. \A n \in Nodes : Kept(n)
  BY Zenon DEF Init, Kept
<1>5. QED
  BY <1>1, <1>3, <1>4, Zenon DEF OInv

(* While a thread moves, no other one is inside process_execute () between  *)
(* thread_create () and sema_down ().                                       *)
LEMMA Alone ==
    ASSUME Undisturbed, NEW t, NEW w, At(t, w)
    PROVE  \A u \in Threads \ {t} : pc[u] \notin {"lookup", "get_node"}
<1> SUFFICES ASSUME NEW u \in Threads \ {t}, pc[u] \in {"lookup", "get_node"}
             PROVE  FALSE
  BY Zenon
<1>1. "exec" \in InWindow(u)
  BY Zenon DEF InWindow, Windows
<1>2. QED
  BY <1>1, Zenon DEF At, Undisturbed

Calling == {"lookup", "get_node", "load_wait", "loaded"}

(* process_execute () of t will put n on a list.                            *)
ExpectedBy(t, n) ==
    \/ pc[t] \in {"lookup", "get_node"} /\ loc[t].tid = node[n].tid
    \/ pc[t] \in {"load_wait", "loaded"} /\ loc[t].node = n

(* A step of t that leaves the lists alone does not disturb the others.     *)
LEMMA OrderKept ==
    ASSUME OInv, IInv', SameShape, NEW t \in Threads, th[t] # NULL, fault' = "none",
           \A u \in Threads \ {t} : /\ pc[u] \notin {"lookup", "get_node"}
                                    /\ pc'[u] = pc[u] /\ loc'[u] = loc[u],
           pc'[t] # "load",
           \A n \in Nodes : node[n] # NULL /\ ExpectedBy(t, n) => ExpectedBy(t, n)',
           Calm(t)',
           t = main => pc'[t] # "exit",
           \A n \in Nodes : node[n] # NULL /\ node'[n].loaded = TRUE =>
                               node[n].loaded = TRUE \/ Expected(n)
    PROVE  OInv'
<1>1. ASSUME NEW n \in Nodes, node[n] # NULL, Expected(n)
      PROVE  Expected(n)'
  <2>1. PICK v \in Threads : ExpectedBy(v, n)
    BY <1>1, Zenon DEF Expected, ExpectedBy
  <2>2. CASE v = t
    BY <1>1, <2>1, <2>2, Zenon DEF Expected, ExpectedBy
  <2>3. CASE v # t
    <3>1. pc'[v] = pc[v] /\ loc'[v] = loc[v] /\ node'[n].tid = node[n].tid
      BY <1>1, <2>3, Zenon DEF SameShape
    <3>2. QED
      BY <2>1, <3>1, Zenon DEF Expected, ExpectedBy
  <2>4. QED
    BY <2>2, <2>3, Zenon
<1>2. \A u \in Threads : th[u] # NULL => (OwnNode(u)' <=> OwnNode(u))
  BY ShapeKept, Zenon DEF OInv, IInv
<1>3. ASSUME NEW u \in Threads, u # t, th[u] # NULL
      PROVE  Calm(u)'
  <2>1. /\ Calm(u) /\ pc'[u] = pc[u] /\ loc'[u] = loc[u] /\ pc[u] \notin {"lookup", "get_node"}
        /\ th'[u].child_nodes = th[u].child_nodes /\ th'[u].tid_node = th[u].tid_node
    BY <1>3, Zenon DEF OInv, SameShape
  <2>2. u # main /\ pc[u] # "die" => OwnNode(u)'
    BY <1>2, <1>3, <2>1, Zenon DEF Calm
  <2>3. CASE pc[u] = "load"
    <3>1. OwnNode(u) /\ Expected(th[u].tid_node) /\ th[u].child_nodes = <<>>
      BY <2>1, <2>3, Zenon DEF Calm, OInv, IInv, CallOf
    <3>2. PICK n \in Nodes : n = th[u].tid_node /\ node[n] # NULL
      BY <1>3, <3>1, OwnNodeFacts, Zenon DEF OInv
    <3>3. Expected(n)'
      BY <1>1, <3>1, <3>2, Zenon
    <3>4. QED
      BY <2>1, <2>2, <2>3, <3>1, <3>2, <3>3, Zenon DEF Calm
  <2>4. CASE pc[u] = "load_wait"
    <3>1. \A c \in Threads : th'[c] # NULL /\ th'[c].tid = loc'[u].tid => c = loc'[u].child
      BY <2>1, <2>4, Zenon DEF Calm, SameShape
    <3>2. QED
      BY <2>1, <2>2, <2>4, <3>1, Zenon DEF Calm, Ending
  <2>5. CASE pc[u] = "loaded"
    <3>1. \A c \in Threads : th'[c] # NULL /\ th'[c].tid = loc'[u].tid => pc'[c] # "load"
      BY <2>1, <2>5 DEF Calm, SameShape
    <3>2. QED
      BY <2>1, <2>2, <2>5, <3>1, Zenon DEF Calm, Ending
  <2>6. CASE pc[u] \notin {"load", "load_wait", "loaded"}
    BY <2>1, <2>2, <2>6, Zenon DEF Calm
  <2>7. QED
    BY <2>3, <2>4, <2>5, <2>6, Zenon
<1>4. ASSUME NEW u \in Threads, u # t, th[u] = NULL
      PROVE  Calm(u)'
  <2>1. th'[u] = NULL /\ pc'[u] = "none"
    BY <1>4, Zenon DEF SameShape, OInv, IInv, TypeOK
  <2>2. QED
    BY <2>1, Zenon DEF Calm, Ending
<1>6. ASSUME NEW n \in Nodes
      PROVE  Kept(n)'
  <2>1. SUFFICES ASSUME node'[n] # NULL, node'[n].loaded = TRUE
                 PROVE  Expected(n)' \/ Listed(n)'
    BY Zenon DEF Kept
  <2>2. node[n] # NULL
    BY <2>1, Zenon DEF SameShape
  <2>3. Expected(n) \/ Listed(n)
    BY <2>1, <2>2, Zenon DEF OInv, Kept
  <2>4. Listed(n) => Listed(n)'
    BY Zenon DEF Listed, SameShape
  <2>5. QED
    BY <1>1, <2>2, <2>3, <2>4, Zenon
<1>7. pc'[main] # "exit"
  BY ProcessAssumption, Zenon DEF OInv
<1>8. QED
  BY <1>3, <1>4, <1>6, <1>7, Zenon DEF OInv

(* Steps of a thread outside process_execute () that leave the lists alone. *)
LEMMA QuietKeeps ==
    ASSUME OInv, IInv', SameShape, NEW t \in Threads, th[t] # NULL, fault' = "none",
           \A u \in Threads \ {t} : /\ pc[u] \notin {"lookup", "get_node"}
                                    /\ pc'[u] = pc[u] /\ loc'[u] = loc[u],
           pc[t] \notin Calling \cup {"die"}, pc'[t] \notin Calling \cup {"load"},
           pc'[t] \in Ending \cup {"exit"} => th[t].child_nodes = <<>>,
           t = main => pc'[t] # "exit",
           \A n \in Nodes : node[n] # NULL /\ node'[n].loaded = TRUE =>
                               node[n].loaded = TRUE \/ Expected(n)
    PROVE  OInv'
<1>1. Calm(t)'
  <2>1. t # main => OwnNode(t)'
    BY ShapeKept, Zenon DEF OInv, IInv, Calm
  <2>2. th'[t].child_nodes = th[t].child_nodes
    BY Zenon DEF SameShape
  <2>3. QED
    BY <2>1, <2>2, Zenon DEF Calm, Calling
<1>2. \A n \in Nodes : ~ ExpectedBy(t, n)
  BY Zenon DEF ExpectedBy, Calling
<1>3. QED
  BY <1>1, <1>2, OrderKept, Zenon

(* The system calls other than process_execute (), up to the semaphore of a *)
(* node, and the mark that follows.                                         *)
LEMMA OrderlyWait ==
    ASSUME OInv, Undisturbed, NEW t \in Threads,
           Mark(t) \/ \E tid \in Tids : process_wait(t, tid)
    PROVE  OInv'
<1>1. IInv' /\ KeepsShape
  BY MarkStep, WaitStep, Zenon DEF OInv
<1>2. /\ fault' = "none" /\ pc[t] \in {"mark", "user"} /\ pc'[t] \in {"user", "wait"}
      /\ \A u \in Threads \ {t} : pc'[u] = pc[u] /\ loc'[u] = loc[u]
      /\ \E w : At(t, w)
  <2>1. pc \in [Threads -> Pcs] /\ loc \in [Threads -> Locals]
    BY Zenon DEF OInv, IInv, TypeOK
  <2>2. CASE Mark(t)
    BY <2>1, <2>2, Zenon DEF Mark, SysReturn, Goto, At
  <2>3. CASE \E tid \in Tids : process_wait(t, tid)
    BY <2>1, <2>3, Zenon DEF process_wait, Goto, At
  <2>4. QED
    BY <2>2, <2>3, Zenon
<1>3. \A u \in Threads \ {t} : pc[u] \notin {"lookup", "get_node"}
  BY <1>2, Alone, Zenon
<1>4. th[t] # NULL
  BY <1>2, Zenon DEF OInv, IInv, TypeOK
<1>5. QED
  BY <1>1, <1>2, <1>3, <1>4, QuietKeeps, Zenon DEF KeepsShape, Calling, Ending

(* The end of a process that has reaped its children: it still has its node, *)
(* so no step of it faults.                                                 *)
LEMMA OrderlyEnd ==
    ASSUME OInv, Undisturbed, NEW t \in Threads,
           \/ kill(t) \/ \E code \in Codes : exit_w(t, code)
           \/ process_exit(t) \/ Unlink(t) \/ SignalParent(t)
    PROVE  OInv'
<1>1. IInv' /\ KeepsShape
  BY KillStep, ExitStep, ProcessExitStep, UnlinkStep, SignalStep, Zenon DEF OInv
<1>2. pc \in [Threads -> Pcs] /\ Calm(t) /\ PageOf(t)
  BY Zenon DEF OInv, IInv, TypeOK
<1>3. /\ pc[t] \in {"user", "exit", "free_children", "signal"}
      /\ \E w : At(t, w)
  BY Zenon DEF kill, exit_w, process_exit, Unlink, SignalParent, At
<1>4. th[t] # NULL
  BY <1>3, Zenon DEF OInv, IInv, TypeOK
<1>5. t # main /\ OwnNode(t)
  <2>1. t # main
    BY <1>2, Zenon DEF kill, exit_w, process_exit, Unlink, SignalParent, At, MayEnd, Undisturbed,
                OInv, PageOf, Ending
  <2>2. QED
    BY <1>2, <1>3, <1>4, <2>1, Zenon DEF Calm
<1>6. /\ fault' = "none" /\ pc'[t] \in Ending \cup {"exit"}
      /\ \A u \in Threads \ {t} : pc'[u] = pc[u] /\ loc'[u] = loc[u]
      /\ pc[t] = "user" => th[t].child_nodes = <<>>
  <2>1. CASE kill(t)
    BY <1>2, <2>1, Zenon DEF kill, At, Goto, MayEnd, Undisturbed
  <2>2. CASE \E code \in Codes : exit_w(t, code)
    BY <1>2, <1>5, <2>2, Zenon DEF exit_w, At, Goto, MayEnd, Undisturbed
  <2>3. CASE process_exit(t) \/ SignalParent(t)
    BY <1>2, <1>5, <2>3, Zenon DEF process_exit, SignalParent, At, Goto, Ending
  <2>4. CASE Unlink(t)
    BY <1>2, <1>5, <2>4, Zenon DEF Unlink, At, Goto, Ending
  <2>5. QED
    BY <2>1, <2>2, <2>3, <2>4, Zenon
<1>7. th[t].child_nodes = <<>>
  BY <1>2, <1>3, <1>6, Zenon DEF Calm, Ending
<1>8. \A u \in Threads \ {t} : pc[u] \notin {"lookup", "get_node"}
  BY <1>3, Alone, Zenon
<1>9. QED
  BY <1>1, <1>3, <1>4, <1>5, <1>6, <1>7, <1>8, QuietKeeps, Zenon DEF KeepsShape, Calling, Ending

(* start_process (): a parent is waiting to put the node on its list.       *)
LEMMA OrderlyStart ==
    ASSUME OInv, Undisturbed, NEW t \in Threads, start_process(t)
    PROVE  OInv'
<1> DEFINE o == th[t].tid_node
<1>1. IInv' /\ SameShape
  BY StartStep, Zenon DEF OInv
<1>2. /\ pc \in [Threads -> Pcs] /\ Calm(t) /\ PageOf(t) /\ CallOf(t)
      /\ node \in [Nodes -> {NULL} \cup TidStatus]
  BY Zenon DEF OInv, IInv, TypeOK
<1>3. /\ pc[t] = "load" /\ At(t, "load") /\ fault' = "none" /\ pc'[t] \in {"user", "exit"}
      /\ \A u \in Threads \ {t} : pc'[u] = pc[u] /\ loc'[u] = loc[u]
      /\ node' = node \/ node' = [node EXCEPT ![o].loaded = TRUE]
  BY <1>2, Zenon DEF start_process, At, Goto
<1>4. /\ th[t] # NULL /\ t # main /\ th[t].child_nodes = <<>> /\ Expected(o)
      /\ OwnNode(t)
  BY <1>2, <1>3, Zenon DEF OInv, IInv, TypeOK, Calm, PageOf, CallOf
<1>5. o \in Nodes
  BY <1>4, OwnNodeFacts, Zenon DEF OInv
<1>6. \A n \in Nodes : node[n] # NULL /\ node'[n].loaded = TRUE =>
                          node[n].loaded = TRUE \/ Expected(n)
  BY <1>2, <1>3, <1>4, <1>5, Zenon
<1>7. \A u \in Threads \ {t} : pc[u] \notin {"lookup", "get_node"}
  BY <1>3, Alone, Zenon
<1>8. QED
  BY <1>1, <1>3, <1>4, <1>6, <1>7, QuietKeeps, Zenon DEF Calling, Ending

(* process_execute () finds the child it has just created.                  *)
LEMMA OrderlyLookup ==
    ASSUME OInv, Undisturbed, NEW t \in Threads, Lookup(t)
    PROVE  OInv'
<1>1. IInv' /\ SameShape
  BY LookupStep, Zenon DEF OInv
<1>2. /\ pc \in [Threads -> Pcs] /\ loc \in [Threads -> Locals] /\ Calm(t)
      /\ pc[t] = "lookup" /\ At(t, "lookup") /\ th[t] # NULL
      /\ UNCHANGED <<th, node, fault>> /\ fault = "none"
  BY Zenon DEF OInv, IInv, TypeOK, Lookup, At
<1>3. get_thread_by_tid(loc[t].tid) # {}
  BY <1>2, Zenon DEF Calm, get_thread_by_tid
<1>4. PICK c \in Threads : /\ th[c] # NULL /\ th[c].tid = loc[t].tid
                           /\ loc' = [loc EXCEPT ![t].child = c]
                           /\ pc' = [pc EXCEPT ![t] = "get_node"]
  BY <1>3, Zenon DEF Lookup, Goto, get_thread_by_tid
<1>5. /\ loc'[t].child = c /\ loc'[t].tid = loc[t].tid /\ pc'[t] = "get_node"
      /\ \A u \in Threads \ {t} : pc'[u] = pc[u] /\ loc'[u] = loc[u]
  BY <1>2, <1>4, Zenon DEF Locals
<1>6. Calm(t)'
  <2>1. PICK d \in Threads : th[d] # NULL /\ th[d].tid = loc[t].tid /\ pc[d] = "load"
    BY <1>2, Zenon DEF Calm
  <2>2. d # t /\ pc'[d] = "load"
    BY <1>2, <1>5, <2>1, Zenon
  <2>3. ChildPage(t)'
    BY <1>2, <1>4, <1>5, Zenon DEF ChildPage
  <2>4. t # main => OwnNode(t)'
    BY <1>2, Zenon DEF Calm, OwnNode
  <2>5. QED
    BY <1>2, <1>5, <2>1, <2>2, <2>3, <2>4, Zenon DEF Calm, Ending
<1>7. \A n \in Nodes : node[n] # NULL /\ ExpectedBy(t, n) => ExpectedBy(t, n)'
  BY <1>2, <1>5, Zenon DEF ExpectedBy
<1>8. \A u \in Threads \ {t} : pc[u] \notin {"lookup", "get_node"}
  BY <1>2, Alone, Zenon
<1>9. QED
  BY <1>1, <1>2, <1>5, <1>6, <1>7, <1>8, OrderKept, Zenon

(* The child is still there when its node is read.                          *)
LEMMA OrderlyGetNode ==
    ASSUME OInv, Undisturbed, NEW t \in Threads, GetNode(t)
    PROVE  OInv'
<1>1. IInv'
  BY GetNodeStep, Zenon DEF OInv
<1>2. /\ pc \in [Threads -> Pcs] /\ loc \in [Threads -> Locals] /\ Calm(t) /\ CallOf(t)
      /\ pc[t] = "get_node" /\ At(t, "get_node") /\ th[t] # NULL /\ fault = "none"
  BY Zenon DEF OInv, IInv, TypeOK, GetNode, At
<1>3. ChildPage(t)
  BY <1>2, Zenon DEF Calm
<1>4. PICK c \in Threads : /\ c = loc[t].child /\ th[c] # NULL /\ th[c].tid = loc[t].tid
                           /\ loc' = [loc EXCEPT ![t].node = th[c].tid_node]
                           /\ pc' = [pc EXCEPT ![t] = "load_wait"]
                           /\ UNCHANGED <<th, node, fault, next_tid, parent, reaped>>
  BY <1>2, <1>3, Zenon DEF GetNode, Goto, ChildPage, CallOf, history
<1>5. /\ loc'[t].child = c /\ loc'[t].tid = loc[t].tid /\ loc'[t].node = th[c].tid_node
      /\ pc'[t] = "load_wait"
      /\ \A u \in Threads \ {t} : pc'[u] = pc[u] /\ loc'[u] = loc[u]
  BY <1>2, <1>4, Zenon DEF Locals
<1>6. SameShape
  BY <1>4, Zenon DEF SameShape
<1>7. Calm(t)'
  <2>1. \A d \in Threads : th[d] # NULL /\ th[d].tid = loc[t].tid => d = c
    BY <1>4, Zenon DEF OInv, IInv, Identities, Live
  <2>2. t # main => OwnNode(t)'
    BY <1>2, <1>4, Zenon DEF Calm, OwnNode
  <2>3. QED
    BY <1>4, <1>5, <2>1, <2>2, Zenon DEF Calm, Ending
<1>8. \A n \in Nodes : node[n] # NULL /\ ExpectedBy(t, n) => ExpectedBy(t, n)'
  BY <1>2, <1>4, <1>5 DEF ExpectedBy, OInv, IInv, Identities, Live
<1>9. \A u \in Threads \ {t} : pc[u] \notin {"lookup", "get_node"}
  BY <1>2, Alone, Zenon
<1>10. QED
  BY <1>1, <1>2, <1>4, <1>5, <1>6, <1>7, <1>8, <1>9, OrderKept, Zenon

(* Past sema_down () the child has loaded or failed to.                     *)
LEMMA OrderlyLoadWait ==
    ASSUME OInv, Undisturbed, NEW t \in Threads, LoadWait(t)
    PROVE  OInv'
<1>1. IInv' /\ SameShape
  BY LoadWaitStep, Zenon DEF OInv
<1>2. /\ pc \in [Threads -> Pcs] /\ Calm(t) /\ CallOf(t)
      /\ pc[t] = "load_wait" /\ At(t, "load_wait") /\ th[t] # NULL /\ fault = "none"
  BY Zenon DEF OInv, IInv, TypeOK, LoadWait, At
<1>3. PICK c \in Threads : c = loc[t].child /\ (th[c] # NULL => th[c].load_sema > 0)
  BY <1>2, Zenon DEF LoadWait, CallOf
<1>4. UNCHANGED <<loc, node, fault>> /\ pc' = [pc EXCEPT ![t] = "loaded"]
  BY Zenon DEF LoadWait, Goto
<1>5. pc'[t] = "loaded" /\ \A u \in Threads \ {t} : pc'[u] = pc[u] /\ loc'[u] = loc[u]
  BY <1>2, <1>4, Zenon
<1>6. pc[c] # "load"
  <2>1. CallOf(c) /\ (pc[c] = "load" => th[c] # NULL)
    BY Zenon DEF OInv, IInv, TypeOK
  <2>2. th[c] # NULL => th[c].load_sema # 0
    BY <1>3
  <2>3. QED
    BY <2>1, <2>2, Zenon DEF CallOf
<1>7. Calm(t)'
  <2>1. \A d \in Threads : th'[d] # NULL /\ th'[d].tid = loc'[t].tid => d = c
    BY <1>1, <1>2, <1>3, <1>4, Zenon DEF Calm, SameShape
  <2>2. pc'[c] # "load"
    BY <1>5, <1>6, Zenon
  <2>3. t # main => OwnNode(t)'
    BY <1>1, <1>2, ShapeKept, Zenon DEF Calm, OInv, IInv
  <2>4. QED
    BY <1>5, <2>1, <2>2, <2>3, Zenon DEF Calm, Ending
<1>8. \A n \in Nodes : node[n] # NULL /\ ExpectedBy(t, n) => ExpectedBy(t, n)'
  BY <1>2, <1>4, <1>5, Zenon DEF ExpectedBy
<1>9. \A u \in Threads \ {t} : pc[u] \notin {"lookup", "get_node"}
  BY <1>2, Alone, Zenon
<1>10. QED
  BY <1>1, <1>2, <1>4, <1>5, <1>7, <1>8, <1>9, OrderKept, Zenon

(* The node of a child that was loaded goes from process_execute () to the  *)
(* list of its parent.                                                      *)
LEMMA OrderlyLoadCheck ==
    ASSUME OInv, Undisturbed, NEW t \in Threads, LoadCheck(t)
    PROVE  OInv'
<1>1. IInv'
  BY LoadCheckStep, Zenon DEF OInv
<1>2. /\ pc \in [Threads -> Pcs] /\ loc \in [Threads -> Locals] /\ Calm(t) /\ CallOf(t)
      /\ pc[t] = "loaded" /\ At(t, "loaded") /\ th[t] # NULL /\ fault = "none"
      /\ th \in [Threads -> {NULL} \cup Thread] /\ node \in [Nodes -> {NULL} \cup TidStatus]
      /\ UNCHANGED <<node, fault>>
      /\ pc' = [pc EXCEPT ![t] = "user"] /\ loc' = [loc EXCEPT ![t] = NoLocals]
  BY Zenon DEF OInv, IInv, TypeOK, LoadCheck, SysReturn, Goto, At
<1>3. PICK n \in Nodes : n = loc[t].node /\ Expects(t, n)
  BY <1>2, Zenon DEF CallOf
<1>4. th[t] \in Thread /\ th[t].child_nodes \in Seq(Nodes)
  BY <1>2, OwnNodeFacts, Zenon DEF OInv
<1>5. /\ \A u \in Threads \ {t} : th'[u] = th[u] /\ pc'[u] = pc[u] /\ loc'[u] = loc[u]
      /\ pc'[t] = "user"
      /\ th'[t].tid = th[t].tid /\ th'[t].tid_node = th[t].tid_node
      /\ Elems(th[t].child_nodes) \subseteq Elems(th'[t].child_nodes)
      /\ node[n].loaded => n \in Elems(th'[t].child_nodes)
  <2>1. CASE ~ node[n].loaded
    BY <1>2, <1>3, <2>1, Zenon DEF LoadCheck
  <2>2. CASE node[n].loaded
    <3>1. th' = [th EXCEPT ![t].child_nodes = Append(@, n)]
      BY <1>3, <2>2, Zenon DEF LoadCheck
    <3>2. /\ Append(th[t].child_nodes, n) \in Seq(Nodes)
          /\ Elems(Append(th[t].child_nodes, n)) = Elems(th[t].child_nodes) \cup {n}
      BY <1>4, ListAppend, Zenon
    <3>3. /\ \A u \in Threads \ {t} : th'[u] = th[u]
          /\ th'[t].tid = th[t].tid /\ th'[t].tid_node = th[t].tid_node
          /\ th'[t].child_nodes = Append(th[t].child_nodes, n)
      BY <1>2, <1>4, <3>1, <3>2, Zenon DEF Thread
    <3>4. QED
      BY <1>2, <3>2, <3>3, Zenon
  <2>3. QED
    BY <2>1, <2>2, Zenon
<1>6. th'[t] # NULL
  BY <1>1, <1>5, Zenon DEF IInv, TypeOK
<1>7. \A m \in Nodes : Expected(m) /\ m # n => Expected(m)'
  <2> SUFFICES ASSUME NEW m \in Nodes, Expected(m), m # n
               PROVE  Expected(m)'
    BY Zenon
  <2>1. PICK v \in Threads : ExpectedBy(v, m)
    BY Zenon DEF Expected, ExpectedBy
  <2>2. v # t
    BY <1>2, <1>3, <2>1, Zenon DEF ExpectedBy
  <2>3. QED
    BY <1>2, <1>5, <2>1, <2>2, Zenon DEF Expected, ExpectedBy
<1>8. \A u \in Threads \ {t} : pc[u] \notin {"lookup", "get_node"}
  BY <1>2, Alone, Zenon
<1>9. ASSUME NEW u \in Threads, u # t
      PROVE  Calm(u)'
  <2>1. /\ Calm(u) /\ th'[u] = th[u] /\ pc'[u] = pc[u] /\ loc'[u] = loc[u]
        /\ pc[u] \notin {"lookup", "get_node"}
    BY <1>5, <1>8, <1>9, Zenon DEF OInv
  <2>2. u # main /\ th[u] # NULL /\ pc[u] # "die" => OwnNode(u)'
    BY <1>2, <2>1, Zenon DEF Calm, OwnNode
  <2>3. CASE pc[u] = "load"
    <3>1. OwnNode(u) /\ th[u] # NULL /\ Expected(th[u].tid_node) /\ th[u].child_nodes = <<>>
      BY <2>1, <2>3, Zenon DEF Calm, OInv, IInv, CallOf, TypeOK
    <3>2. PICK m \in Nodes : m = th[u].tid_node /\ node[m].tid = th[u].tid
      BY <3>1, OwnNodeFacts, Zenon DEF OInv
    <3>3. m # n
      BY <1>2, <1>3, <2>3, <3>1, <3>2, ZenonT(40) DEF Calm, Expects
    <3>4. Expected(m)'
      BY <1>7, <3>1, <3>2, <3>3, Zenon
    <3>5. QED
      BY <2>1, <2>2, <2>3, <3>1, <3>2, <3>4, Zenon DEF Calm
  <2>4. \A c \in Threads : th'[c] # NULL => th[c] # NULL /\ th'[c].tid = th[c].tid
    BY <1>2, <1>5, Zenon
  <2>5. CASE pc[u] = "load_wait"
    BY <2>1, <2>2, <2>4, <2>5, Zenon DEF Calm, Ending
  <2>6. CASE pc[u] = "loaded"
    <3>1. \A c \in Threads : th'[c] # NULL /\ th'[c].tid = loc'[u].tid => pc'[c] # "load"
      BY <1>5, <2>1, <2>4, <2>6, Zenon DEF Calm
    <3>2. QED
      BY <2>1, <2>2, <2>6, <3>1, Zenon DEF Calm, Ending
  <2>7. CASE pc[u] \notin {"load", "load_wait", "loaded"}
    BY <2>1, <2>2, <2>7, Zenon DEF Calm
  <2>8. QED
    BY <2>3, <2>5, <2>6, <2>7, Zenon
<1>10. Calm(t)'
  <2>1. t # main => OwnNode(t)'
    BY <1>2, <1>5, Zenon DEF Calm, OwnNode
  <2>2. QED
    BY <1>5, <2>1, Zenon DEF Calm, Ending
<1>11. ASSUME NEW m \in Nodes
       PROVE  Kept(m)'
  <2>1. SUFFICES ASSUME node[m] # NULL, node[m].loaded = TRUE
                 PROVE  Expected(m)' \/ Listed(m)'
    BY <1>2, Zenon DEF Kept
  <2>2. Expected(m) \/ Listed(m)
    BY <2>1, Zenon DEF OInv, Kept
  <2>3. Listed(m) => Listed(m)'
    BY <1>5, <1>6, Zenon DEF Listed
  <2>4. CASE m = n
    BY <1>5, <1>6, <2>1, <2>4, Zenon DEF Listed
  <2>5. QED
    BY <1>7, <2>2, <2>3, <2>4, Zenon
<1>12. pc'[main] # "exit"
  BY <1>2, <1>5, ProcessAssumption, Zenon DEF OInv
<1>13. QED
  BY <1>1, <1>2, <1>9, <1>10, <1>11, <1>12, Zenon DEF OInv

(* process_wait () frees the node of a thread that does not use it again.   *)
LEMMA OrderlyReap ==
    ASSUME OInv, Undisturbed, NEW t \in Threads, Reap(t)
    PROVE  OInv'
<1>1. IInv'
  BY ReapStep, Zenon DEF OInv
<1>2. /\ pc \in [Threads -> Pcs] /\ loc \in [Threads -> Locals]
      /\ pc[t] = "wait" /\ At(t, "wait") /\ th[t] # NULL /\ fault = "none" /\ CallOf(t)
      /\ th \in [Threads -> {NULL} \cup Thread] /\ node \in [Nodes -> {NULL} \cup TidStatus]
      /\ UNCHANGED fault /\ pc' = [pc EXCEPT ![t] = "mark"]
  BY Zenon DEF OInv, IInv, TypeOK, Reap, Goto, At
<1>3. PICK n \in Elems(th[t].child_nodes) :
         /\ n = loc[t].node /\ node[n].sema > 0
         /\ loc' = [loc EXCEPT ![t].result = node[n].exit_status]
         /\ th' = [th EXCEPT ![t].child_nodes = Without(@, n)]
         /\ node' = [node EXCEPT ![n] = NULL]
  BY <1>2, Zenon DEF Reap, CallOf
<1>4. /\ th[t] \in Thread /\ th[t].child_nodes \in Seq(Nodes) /\ n \in Nodes /\ node[n] # NULL
  BY <1>2, OwnNodeFacts, ListedFacts, Zenon DEF OInv
<1>5. /\ Without(th[t].child_nodes, n) \in Seq(Nodes)
      /\ Elems(th[t].child_nodes) \subseteq Elems(Without(th[t].child_nodes, n)) \cup {n}
  BY <1>4, ListRemove, Zenon
<1>6. /\ \A u \in Threads \ {t} : th'[u] = th[u] /\ pc'[u] = pc[u] /\ loc'[u] = loc[u]
      /\ pc'[t] = "mark"
      /\ th'[t].tid = th[t].tid /\ th'[t].tid_node = th[t].tid_node
      /\ Elems(th[t].child_nodes) \subseteq Elems(th'[t].child_nodes) \cup {n}
      /\ node'[n] = NULL /\ \A m \in Nodes \ {n} : node'[m] = node[m]
  <2>1. /\ \A u \in Threads \ {t} : th'[u] = th[u]
        /\ th'[t].tid = th[t].tid /\ th'[t].tid_node = th[t].tid_node
        /\ th'[t].child_nodes = Without(th[t].child_nodes, n)
    BY <1>2, <1>3, <1>4, <1>5, Zenon DEF Thread
  <2>2. QED
    BY <1>2, <1>3, <1>4, <1>5, <2>1, Zenon
<1>7. th'[t] # NULL
  BY <1>1, <1>6, Zenon DEF IInv, TypeOK
<1>8. \A m \in Nodes : Expected(m) /\ m # n => Expected(m)'
  <2> SUFFICES ASSUME NEW m \in Nodes, Expected(m), m # n
               PROVE  Expected(m)'
    BY Zenon
  <2>1. PICK v \in Threads : ExpectedBy(v, m)
    BY Zenon DEF Expected, ExpectedBy
  <2>2. v # t
    BY <1>2, <2>1, Zenon DEF ExpectedBy
  <2>3. QED
    BY <1>6, <2>1, <2>2, Zenon DEF Expected, ExpectedBy
<1>9. \A u \in Threads \ {t} : pc[u] \notin {"lookup", "get_node"}
  BY <1>2, Alone, Zenon
<1>10. ASSUME NEW u \in Threads, th[u] # NULL, pc[u] # "die", OwnNode(u)
       PROVE  OwnNode(u)' /\ th[u].tid_node \in Nodes \ {n}
  <2>1. node[th[u].tid_node].sema = 0 /\ th[u].tid_node \in Nodes
    BY <1>10, OwnNodeFacts, Zenon DEF OInv, IInv, EndOf, Live
  <2>2. ~ (0 > 0)
    OBVIOUS
  <2>3. th[u].tid_node # n
    BY <1>3, <2>1, <2>2, Zenon
  <2>4. QED
    BY <1>6, <1>10, <2>1, <2>3 DEF OwnNode
<1>11. ASSUME NEW u \in Threads, u # t
       PROVE  Calm(u)'
  <2>1. /\ Calm(u) /\ th'[u] = th[u] /\ pc'[u] = pc[u] /\ loc'[u] = loc[u]
        /\ pc[u] \notin {"lookup", "get_node"}
    BY <1>6, <1>9, <1>11, Zenon DEF OInv
  <2>2. u # main /\ th[u] # NULL /\ pc[u] # "die" => OwnNode(u)'
    BY <1>10, <2>1, Zenon DEF Calm
  <2>3. CASE pc[u] = "load"
    <3>1. OwnNode(u) /\ th[u] # NULL /\ Expected(th[u].tid_node) /\ th[u].child_nodes = <<>>
      BY <2>1, <2>3, Zenon DEF Calm, OInv, IInv, CallOf, TypeOK
    <3>2. PICK m \in Nodes : m = th[u].tid_node /\ m # n
      BY <1>10, <2>3, <3>1, Zenon
    <3>3. Expected(m)'
      BY <1>8, <3>1, <3>2, Zenon
    <3>4. QED
      BY <2>1, <2>2, <2>3, <3>1, <3>2, <3>3, Zenon DEF Calm
  <2>4. \A c \in Threads : th'[c] # NULL => th[c] # NULL /\ th'[c].tid = th[c].tid
    BY <1>2, <1>6, Zenon
  <2>5. CASE pc[u] = "load_wait"
    BY <2>1, <2>2, <2>4, <2>5, Zenon DEF Calm, Ending
  <2>6. CASE pc[u] = "loaded"
    <3>1. \A c \in Threads : th'[c] # NULL /\ th'[c].tid = loc'[u].tid => pc'[c] # "load"
      BY <1>6, <2>1, <2>4, <2>6, Zenon DEF Calm
    <3>2. QED
      BY <2>1, <2>2, <2>6, <3>1, Zenon DEF Calm, Ending
  <2>7. CASE pc[u] \notin {"load", "load_wait", "loaded"}
    BY <2>1, <2>2, <2>7, Zenon DEF Calm
  <2>8. QED
    BY <2>3, <2>5, <2>6, <2>7, Zenon
<1>12. Calm(t)'
  <2>1. t # main => OwnNode(t)'
    BY <1>2, <1>10, Zenon DEF OInv, Calm
  <2>2. QED
    BY <1>6, <2>1, Zenon DEF Calm, Ending
<1>13. ASSUME NEW m \in Nodes
       PROVE  Kept(m)'
  <2>1. CASE m = n
    BY <1>6, <2>1, Zenon DEF Kept
  <2>2. CASE m # n
    <3>1. node'[m] = node[m]
      BY <1>6, <2>2, Zenon
    <3>2. Listed(m) => Listed(m)'
      BY <1>6, <1>7, <2>2, Zenon DEF Listed
    <3>3. QED
      BY <1>8, <2>2, <3>1, <3>2, Zenon DEF OInv, Kept
  <2>3. QED
    BY <2>1, <2>2, Zenon
<1>14. pc'[main] # "exit"
  BY <1>2, <1>6, ProcessAssumption, Zenon DEF OInv
<1>15. QED
  BY <1>1, <1>2, <1>11, <1>12, <1>13, <1>14, Zenon DEF OInv

(* A thread that dies has reaped its children: its list is empty.           *)
LEMMA OrderlyThreadExit ==
    ASSUME OInv, Undisturbed, NEW t \in Threads, thread_exit(t)
    PROVE  OInv'
<1>1. IInv'
  BY ThreadExitStep, Zenon DEF OInv
<1>2. /\ pc[t] = "die" /\ At(t, "die") /\ th[t] # NULL /\ fault = "none" /\ UNCHANGED <<node, loc, fault>>
      /\ th'[t] = NULL /\ pc'[t] = "none"
      /\ \A u \in Threads \ {t} : th'[u] = th[u] /\ pc'[u] = pc[u]
  BY Zenon DEF OInv, IInv, TypeOK, thread_exit, Goto, At
<1>3. Elems(th[t].child_nodes) = {}
  <2>1. th[t].child_nodes = <<>>
    BY <1>2, Zenon DEF OInv, Calm, Ending
  <2>2. QED
    BY <2>1 DEF Elems
<1>4. \A m \in Nodes : Expected(m) => Expected(m)'
  <2> SUFFICES ASSUME NEW m \in Nodes, Expected(m)
               PROVE  Expected(m)'
    BY Zenon
  <2>1. PICK v \in Threads : ExpectedBy(v, m)
    BY Zenon DEF Expected, ExpectedBy
  <2>2. QED
    BY <1>2, <2>1, Zenon DEF Expected, ExpectedBy
<1>5. \A u \in Threads \ {t} : pc[u] \notin {"lookup", "get_node"}
  BY <1>2, Alone, Zenon
<1>6. ASSUME NEW u \in Threads, u # t
      PROVE  Calm(u)'
  <2>1. /\ Calm(u) /\ th'[u] = th[u] /\ pc'[u] = pc[u] /\ loc' = loc
        /\ pc[u] \notin {"lookup", "get_node"}
    BY <1>2, <1>5, <1>6, Zenon DEF OInv
  <2>2. u # main /\ th[u] # NULL /\ pc[u] # "die" => OwnNode(u)'
    BY <1>2, <2>1, Zenon DEF Calm, OwnNode
  <2>3. CASE pc[u] = "load"
    <3>1. OwnNode(u) /\ th[u] # NULL /\ Expected(th[u].tid_node) /\ th[u].child_nodes = <<>>
      BY <2>1, <2>3, Zenon DEF Calm, OInv, IInv, CallOf, TypeOK
    <3>2. PICK m \in Nodes : m = th[u].tid_node
      BY <3>1, OwnNodeFacts, Zenon DEF OInv
    <3>3. Expected(m)'
      BY <1>4, <3>1, <3>2, Zenon
    <3>4. QED
      BY <2>1, <2>2, <2>3, <3>1, <3>2, <3>3, Zenon DEF Calm
  <2>4. \A c \in Threads : th'[c] # NULL => c # t /\ th'[c] = th[c] /\ pc'[c] = pc[c]
    BY <1>2, Zenon
  <2>5. CASE pc[u] \in {"load_wait", "loaded"}
    BY <2>1, <2>2, <2>4, <2>5, Zenon DEF Calm, Ending
  <2>6. CASE pc[u] \notin {"load", "load_wait", "loaded"}
    BY <2>1, <2>2, <2>6, Zenon DEF Calm
  <2>7. QED
    BY <2>3, <2>5, <2>6, Zenon
<1>7. Calm(t)'
  BY <1>2, Zenon DEF Calm, Ending
<1>8. ASSUME NEW m \in Nodes
      PROVE  Kept(m)'
  <2>1. Listed(m) => Listed(m)'
    BY <1>2, <1>3, Zenon DEF Listed
  <2>2. QED
    BY <1>2, <1>4, <2>1, Zenon DEF OInv, Kept
<1>9. pc'[main] # "exit"
  BY <1>2, ProcessAssumption, Zenon DEF OInv
<1>10. QED
  BY <1>1, <1>2, <1>6, <1>7, <1>8, <1>9, Zenon DEF OInv

(* process_execute () expects the thread it creates.                        *)
LEMMA OrderlyExecute ==
    ASSUME OInv, Undisturbed, NEW t \in Threads, process_execute(t)
    PROVE  OInv'
<1> DEFINE k == next_tid
<1>0. IInv' /\ IInv
  BY ExecuteStep, Zenon DEF OInv
<1>1. /\ pc[t] = "user" /\ At(t, "user") /\ th[t] # NULL /\ fault' = "none"
  BY <1>0, ExecuteFacts, Zenon DEF OInv, process_execute, At
<1>2. PICK c \in Threads, n \in Nodes : Creates(t, c, n)
  BY <1>0, ExecuteFacts, Zenon
<1>3. /\ th[c] = NULL /\ node[n] = NULL /\ c # t
      /\ th'[c] # NULL /\ th'[c].tid = k /\ th'[c].tid_node = n /\ th'[c].child_nodes = <<>>
      /\ node'[n] # NULL /\ node'[n].tid = k /\ node'[n].loaded = FALSE
  BY <1>2, Zenon DEF Creates
<1>4. /\ \A u \in Threads \ {c} : th'[u] = th[u]
      /\ \A m \in Nodes \ {n} : node'[m] = node[m]
      /\ pc'[c] = "load" /\ pc'[t] = "lookup" /\ \A u \in Threads \ {c, t} : pc'[u] = pc[u]
      /\ \A u \in Threads \ {t} : loc'[u] = loc[u]
      /\ loc'[t].tid = k
  BY <1>2, Zenon DEF Creates
<1>5. \A m \in Nodes : node[m] # NULL => node[m].tid # k
  BY <1>0, ExecuteFacts, Zenon
<1>6. \A m \in Nodes : node[m] # NULL /\ Expected(m) => Expected(m)'
  <2> SUFFICES ASSUME NEW m \in Nodes, node[m] # NULL, Expected(m)
               PROVE  Expected(m)'
    BY Zenon
  <2>1. PICK v \in Threads : ExpectedBy(v, m)
    BY Zenon DEF Expected, ExpectedBy
  <2>2. pc[c] = "none"
    BY <1>0, <1>3, Zenon DEF IInv, TypeOK
  <2>3. v \notin {c, t} /\ m # n
    BY <1>1, <1>3, <2>1, <2>2, Zenon DEF ExpectedBy
  <2>4. pc'[v] = pc[v] /\ loc'[v] = loc[v] /\ node'[m] = node[m]
    BY <1>4, <2>3, Zenon
  <2>5. QED
    BY <2>1, <2>4, Zenon DEF Expected, ExpectedBy
<1>7. \A u \in Threads \ {t} : pc[u] \notin {"lookup", "get_node"}
  BY <1>1, Alone, Zenon
<1>8. ASSUME NEW u \in Threads, u # c, th[u] # NULL, OwnNode(u)
      PROVE  OwnNode(u)' /\ th[u].tid_node \in Nodes /\ node[th[u].tid_node] # NULL
  <2>1. th[u].tid_node \in Nodes /\ node[th[u].tid_node] # NULL
    BY <1>0, <1>8, OwnNodeFacts, Zenon
  <2>2. QED
    BY <1>3, <1>4, <1>8, <2>1 DEF OwnNode
<1>9. ASSUME NEW u \in Threads, u \notin {c, t}
      PROVE  Calm(u)'
  <2>1. /\ Calm(u) /\ th'[u] = th[u] /\ pc'[u] = pc[u] /\ loc'[u] = loc[u]
        /\ pc[u] \notin {"lookup", "get_node"}
    BY <1>4, <1>7, <1>9, Zenon DEF OInv
  <2>2. u # main /\ th[u] # NULL /\ pc[u] # "die" => OwnNode(u)'
    BY <1>8, <1>9, <2>1, Zenon DEF Calm
  <2>3. CASE pc[u] = "load"
    <3>1. OwnNode(u) /\ th[u] # NULL /\ Expected(th[u].tid_node) /\ th[u].child_nodes = <<>>
      BY <1>0, <2>1, <2>3, Zenon DEF Calm, IInv, CallOf, TypeOK
    <3>2. PICK m \in Nodes : m = th[u].tid_node /\ node[m] # NULL
      BY <1>8, <1>9, <3>1, Zenon
    <3>3. Expected(m)'
      BY <1>6, <3>1, <3>2, Zenon
    <3>4. QED
      BY <2>1, <2>2, <2>3, <3>1, <3>2, <3>3, Zenon DEF Calm
  <2>4. CASE pc[u] \in {"load_wait", "loaded"}
    <3>1. PICK m \in Nodes : m = loc[u].node /\ Expects(u, m)
      BY <1>0, <2>4, Zenon DEF IInv, CallOf
    <3>2. loc[u].tid # k
      BY <1>5, <3>1, Zenon DEF Expects
    <3>3. \A d \in Threads : th'[d] # NULL /\ th'[d].tid = loc'[u].tid =>
             d # c /\ th'[d] = th[d] /\ (pc[d] # "load" => pc'[d] # "load")
      BY <1>3, <1>4, <2>1, <3>2, Zenon
    <3>4. QED
      BY <2>1, <2>2, <2>4, <3>3, Zenon DEF Calm, Ending
  <2>5. CASE pc[u] \notin {"load", "load_wait", "loaded"}
    BY <2>1, <2>2, <2>5, Zenon DEF Calm
  <2>6. QED
    BY <2>3, <2>4, <2>5, Zenon
<1>10. Calm(t)'
  <2>1. t # main => OwnNode(t)'
    BY <1>1, <1>3, <1>8, Zenon DEF OInv, Calm
  <2>2. QED
    BY <1>3, <1>4, <2>1, Zenon DEF Calm, Ending
<1>11. Calm(c)'
  <2>1. Expected(n)'
    BY <1>3, <1>4, Zenon DEF Expected
  <2>2. OwnNode(c)'
    BY <1>3, ProcessAssumption, Zenon DEF OwnNode
  <2>3. QED
    BY <1>3, <1>4, <2>1, <2>2, Zenon DEF Calm
<1>12. ASSUME NEW m \in Nodes
       PROVE  Kept(m)'
  <2>1. CASE m = n
    BY <1>3, <2>1, Zenon DEF Kept
  <2>2. CASE m # n
    <3>1. node'[m] = node[m]
      BY <1>4, <2>2, Zenon
    <3>2. Listed(m) => Listed(m)'
      BY <1>3, <1>4, Zenon DEF Listed
    <3>3. QED
      BY <1>6, <3>1, <3>2, Zenon DEF OInv, Kept
  <2>3. QED
    BY <2>1, <2>2, Zenon
<1>13. pc'[main] # "exit"
  BY <1>4, ProcessAssumption, Zenon DEF OInv
<1>14. QED
  BY <1>0, <1>1, <1>9, <1>10, <1>11, <1>12, <1>13, Zenon DEF OInv

LEMMA OrderlyStutter ==
    ASSUME OInv, UNCHANGED vars
    PROVE  OInv'
<1>1. UNCHANGED <<th, node, pc, loc, next_tid, fault, parent, reaped>>
  BY Zenon DEF vars, kernel, history
<1>2. IInv'
  BY StutterStep, Zenon DEF OInv
<1>3. \A n \in Nodes : Expected(n)' <=> Expected(n)
  BY <1>1, Zenon DEF Expected
<1>4. \A t \in Threads : Calm(t)'
  BY <1>1 DEF OInv, Calm, OwnNode, ChildPage, Expected
<1>5. \A n \in Nodes : Kept(n)'
  BY <1>1, <1>3, Zenon DEF OInv, Kept, Listed
<1>6. QED
  BY <1>1, <1>2, <1>4, <1>5, Zenon DEF OInv

LEMMA NextOrderly == Undisturbed /\ OInv /\ [Next]_vars => OInv'
<1> SUFFICES ASSUME Undisturbed, OInv, [Next]_vars PROVE OInv'
  BY Zenon
<1>1. CASE UNCHANGED vars
  BY <1>1, OrderlyStutter, Zenon
<1>2. ASSUME NEW t \in Threads, InKernel(t)
      PROVE  OInv'
  <2>1. ~ FreeChild(t)
    BY Zenon DEF FreeChild, At, OInv, Calm, Ending
  <2>2. QED
    BY <1>2, <2>1, OrderlyLookup, OrderlyGetNode, OrderlyLoadWait, OrderlyLoadCheck, OrderlyStart,
       OrderlyReap, OrderlyWait, OrderlyEnd, OrderlyThreadExit, Zenon DEF InKernel
<1>3. ASSUME NEW t \in Threads, InUser(t)
      PROVE  OInv'
  BY <1>3, OrderlyExecute, OrderlyWait, OrderlyEnd, Zenon DEF InUser
<1>4. QED
  BY <1>1, <1>2, <1>3, Zenon DEF Next

(* Where process_execute () and process_wait () are not preempted in the    *)
(* three windows, every process reaps its children before it ends, and      *)
(* shutdown () does not return, no thread page and no tid_status node is    *)
(* used after it was freed, and no node of a loaded program is lost: for    *)
(* any number of threads, nodes and tids.                                   *)
THEOREM OrderlyNodesSafe == Undisturbed => (Spec => []NodesSafe)
<1> SUFFICES ASSUME Undisturbed PROVE Spec => []NodesSafe
  BY Zenon
<1>1. OInv => NodesSafe
  <2> SUFFICES ASSUME OInv PROVE NodesSafe
    BY Zenon
  <2>1. ASSUME NEW n \in Nodes, node[n] # NULL, node[n].loaded
        PROVE  Expected(n) \/ \E t \in Threads : Live(t) /\ n \in ChildNodes(t)
    <3>1. node[n].loaded = TRUE
      BY <2>1, Zenon DEF OInv, IInv, TypeOK, TidStatus
    <3>2. \A t \in Threads : ChildNodes(t) = Elems(th[t].child_nodes)
      BY Zenon DEF ChildNodes, Elems
    <3>3. QED
      BY <2>1, <3>1, <3>2, Zenon DEF OInv, Kept, Listed, Live
  <2>2. QED
    BY <2>1, Zenon DEF OInv, NodesSafe, NoFault, NodeNotLost
<1>2. OInv /\ [Next]_vars => OInv'
  BY NextOrderly, Zenon
<1>3. QED
  BY <1>1, <1>2, InitOrderly, PTL DEF Spec
==============================================================================
