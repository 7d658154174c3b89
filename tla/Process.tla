------------------------------- MODULE Process -------------------------------
(***************************************************************************)
(* The life of user processes: process_execute, start_process, process_wait *)
(* and process_exit of userprog/process.c, the exec, wait and exit system   *)
(* calls, and the tid_status nodes through which parent and child talk.     *)
(*                                                                          *)
(* Threads interleave arbitrarily, as preemption allows; a semaphore is its *)
(* value, which the module Synch justifies.  Memory is explicit: a thread   *)
(* page and a node can be freed and handed out again.  An access through a  *)
(* pointer to memory that is free, or belongs to somebody else by now, sets *)
(* `fault' and ends the behaviour: what follows is undefined.               *)
(***************************************************************************)
EXTENDS Integers, Sequences

CONSTANTS Threads,       \* pages for struct thread
          main,          \* the initial thread, which runs the command line
          Nodes,         \* heap blocks for struct tid_status
          Codes,         \* what programs pass to exit ()
          MaxTid,        \* bound on the tids handed out
          Preemptible,   \* the windows below in which a thread is preempted
          WaitsForAll,   \* every process reaps its children before it ends
          PowersOff,     \* shutdown () at the end of main () does not return
          NULL

(* Three stretches of code are explored with and without preemption.        *)
Windows == {"exec",   \* process_execute () from thread_create () to sema_down ()
            "load",   \* that sema_down (), once the child is gone
            "wait"}   \* process_wait () from free () to its end

Tids == 1 .. MaxTid

TID_ERROR == -1

(* struct thread, struct tid_status and the local variables of the system   *)
(* calls.                                                                   *)
Thread ==
    [tid : Tids, tid_node : Nodes \cup {NULL}, tid_node_exists : BOOLEAN,
     load_sema : 0 .. 1, child_nodes : Seq(Nodes)]

TidStatus ==
    [tid : Tids, child : Threads \cup {NULL}, exit_status : Codes \cup {-2, -1},
     loaded : BOOLEAN, waiting : BOOLEAN, sema : 0 .. 1]

Locals ==
    [child : Threads \cup {NULL}, node : Nodes \cup {NULL}, tid : Tids \cup {0},
     result : Codes \cup {NULL, -2, -1}]

ASSUME ProcessAssumption ==
    /\ main \in Threads /\ MaxTid \in Nat \ {0} /\ Codes \subseteq Int
    /\ Preemptible \subseteq Windows
    /\ WaitsForAll \in BOOLEAN /\ PowersOff \in BOOLEAN
    /\ NULL \notin Threads \cup Nodes \cup Int \cup Thread \cup TidStatus

VARIABLES th,        \* struct thread of a page in use, NULL for a free page
          node,      \* struct tid_status of a block in use, NULL for a free one
          pc, loc,   \* where a thread is in the kernel, and its local variables
          next_tid,
          fault

(* What happened, by tid: who created it, what it ended with, which ones    *)
(* loaded, for which process_execute () returned TID_ERROR, which were      *)
(* reaped, and which process_wait () refused although still to be reaped.   *)
VARIABLES parent, given, ran, denied, reaped, refused

kernel  == <<th, node, pc, loc, next_tid, fault>>
history == <<parent, given, ran, denied, reaped, refused>>
vars    == <<kernel, history>>

NoLocals == [child |-> NULL, node |-> NULL, tid |-> 0, result |-> NULL]

(* init_thread () zeroes the struct: the main thread has no node.           *)
NewThread(tid, n) ==
    [tid |-> tid, tid_node |-> n, tid_node_exists |-> n # NULL,
     load_sema |-> 0, child_nodes |-> <<>>]

NewNode(tid, t) ==
    [tid |-> tid, child |-> t, exit_status |-> -2,
     loaded |-> FALSE, waiting |-> FALSE, sema |-> 0]

Init ==
    /\ th = [t \in Threads |-> IF t = main THEN NewThread(1, NULL) ELSE NULL]
    /\ node = [n \in Nodes |-> NULL]
    /\ pc = [t \in Threads |-> IF t = main THEN "user" ELSE "none"]
    /\ loc = [t \in Threads |-> NoLocals]
    /\ next_tid = 2 /\ fault = "none"
    /\ parent = [k \in Tids |-> 0] /\ given = [k \in Tids |-> NULL]
    /\ ran = {} /\ denied = {} /\ reaped = {} /\ refused = {}

(* The page the local variable `child' points to still holds that thread.   *)
ChildPage(t) ==
    LET c == loc[t].child IN th[c] # NULL /\ th[c].tid = loc[t].tid

InWindow(t) == {w \in Windows : \/ w = "exec" /\ pc[t] \in {"lookup", "get_node"}
                                \/ w = "load" /\ pc[t] = "load_wait" /\ ~ ChildPage(t)
                                \/ w = "wait" /\ pc[t] = "mark"}

(* t executes at `where'; nobody else is inside a window that this model    *)
(* does not preempt.                                                        *)
At(t, where) ==
    /\ fault = "none" /\ pc[t] = where
    /\ \A u \in Threads \ {t} : InWindow(u) \subseteq Preemptible

Goto(t, where) == pc' = [pc EXCEPT ![t] = where]

(* Back to the program that made the system call.                           *)
SysReturn(t) ==
    /\ Goto(t, "user")
    /\ loc' = [loc EXCEPT ![t] = NoLocals]

Fault(what) ==
    /\ fault' = what
    /\ UNCHANGED <<th, node, pc, loc, next_tid, history>>

(* The node cur->tid_node points to is still the one made for this thread.  *)
OwnNode(t) ==
    LET n == th[t].tid_node IN n # NULL /\ node[n] # NULL /\ node[n].tid = th[t].tid

NoNode(t) == IF th[t].tid_node = NULL THEN "null node" ELSE "freed node"
------------------------------------------------------------------------------
(* process_execute ()                                                       *)

(* Up to the end of thread_create (): the thread and its node exist and may *)
(* be scheduled.  Memory does not run out within the bounds of the model.   *)
process_execute(t) ==
    /\ At(t, "user")
    /\ next_tid <= MaxTid
    /\ \E c \in Threads, n \in Nodes :
          /\ th[c] = NULL /\ node[n] = NULL
          /\ th' = [th EXCEPT ![c] = NewThread(next_tid, n)]
          /\ node' = [node EXCEPT ![n] = NewNode(next_tid, c)]
          /\ pc' = [pc EXCEPT ![t] = "lookup", ![c] = "load"]
          /\ loc' = [loc EXCEPT ![t].tid = next_tid]
    /\ parent' = [parent EXCEPT ![next_tid] = th[t].tid]
    /\ next_tid' = next_tid + 1
    /\ UNCHANGED <<fault, given, ran, denied, reaped, refused>>

get_thread_by_tid(tid) == {c \in Threads : th[c] # NULL /\ th[c].tid = tid}

Lookup(t) ==
    /\ At(t, "lookup")
    /\ IF get_thread_by_tid(loc[t].tid) = {}
       THEN SysReturn(t) /\ denied' = denied \cup {loc[t].tid}
       ELSE /\ Goto(t, "get_node")
            /\ \E c \in get_thread_by_tid(loc[t].tid) : loc' = [loc EXCEPT ![t].child = c]
            /\ UNCHANGED denied
    /\ UNCHANGED <<th, node, next_tid, fault, parent, given, ran, reaped, refused>>

GetNode(t) ==
    /\ At(t, "get_node")
    /\ IF ChildPage(t)
       THEN /\ Goto(t, "load_wait")
            /\ loc' = [loc EXCEPT ![t].node = th[loc[t].child].tid_node]
            /\ UNCHANGED <<th, node, next_tid, fault, history>>
       ELSE Fault("freed thread")

(* sema_down (&child->load_sema).  A child that has ended by the time its   *)
(* parent tests the semaphore again leaves a freed page, which palloc fills *)
(* with 0xcc, so that the value is not zero; or the page holds another      *)
(* thread already, and it is that thread's semaphore.                       *)
LoadWait(t) ==
    LET c == loc[t].child IN
    /\ At(t, "load_wait")
    /\ th[c] # NULL => th[c].load_sema > 0
    /\ th' = IF th[c] = NULL THEN th ELSE [th EXCEPT ![c].load_sema = @ - 1]
    /\ Goto(t, "loaded")
    /\ UNCHANGED <<node, loc, next_tid, fault, history>>

LoadCheck(t) ==
    /\ At(t, "loaded")
    /\ IF node[loc[t].node].loaded
       THEN /\ th' = [th EXCEPT ![t].child_nodes = Append(@, loc[t].node)]
            /\ UNCHANGED denied
       ELSE /\ denied' = denied \cup {loc[t].tid}
            /\ UNCHANGED th
    /\ SysReturn(t)
    /\ UNCHANGED <<node, next_tid, fault, parent, given, ran, reaped, refused>>

(* Fault: the parent is not told.                                           *)
start_process_NoUp(t) ==
    /\ At(t, "load")
    /\ \/ /\ node' = [node EXCEPT ![th[t].tid_node].loaded = TRUE]
          /\ Goto(t, "user")
          /\ ran' = ran \cup {th[t].tid}
          /\ UNCHANGED given
       \/ /\ Goto(t, "exit")
          /\ given' = [given EXCEPT ![th[t].tid] = -1]
          /\ UNCHANGED <<node, ran>>
    /\ UNCHANGED <<th, loc, next_tid, fault, parent, denied, reaped, refused>>

(* start_process (): load () succeeds or not, and the parent is told.       *)
start_process(t) ==
    /\ At(t, "load")
    /\ th' = [th EXCEPT ![t].load_sema = @ + 1]
    /\ \/ /\ node' = [node EXCEPT ![th[t].tid_node].loaded = TRUE]
          /\ Goto(t, "user")
          /\ ran' = ran \cup {th[t].tid}
          /\ UNCHANGED given
       \/ /\ Goto(t, "exit")
          /\ given' = [given EXCEPT ![th[t].tid] = -1]
          /\ UNCHANGED <<node, ran>>
    /\ UNCHANGED <<loc, next_tid, fault, parent, denied, reaped, refused>>
------------------------------------------------------------------------------
(* process_wait ()                                                          *)

ChildNodes(t) == {th[t].child_nodes[i] : i \in 1 .. Len(th[t].child_nodes)}

(* The search of the list; -1 at once for a tid that is not there or whose  *)
(* node is marked as waited for.                                            *)
process_wait(t, tid) ==
    /\ At(t, "user")
    /\ LET found == {n \in ChildNodes(t) : node[n].tid = tid} IN
       \/ /\ \A n \in found : node[n].waiting
          /\ refused' = IF found # {} THEN refused \cup {tid} ELSE refused
          /\ UNCHANGED <<pc, loc>>
       \/ /\ \E n \in found : ~ node[n].waiting /\ loc' = [loc EXCEPT ![t].node = n, ![t].tid = tid]
          /\ Goto(t, "wait")
          /\ UNCHANGED refused
    /\ UNCHANGED <<th, node, next_tid, fault, parent, given, ran, denied, reaped>>

(* list_remove () of the element through which n is on the list.            *)
Without(list, n) ==
    LET i == CHOOSE i \in 1 .. Len(list) : list[i] = n
    IN  [j \in 1 .. Len(list) - 1 |-> IF j < i THEN list[j] ELSE list[j + 1]]

(* Fault: the node is freed but stays on the list.                          *)
Reap_NoRemove(t) ==
    LET n == loc[t].node IN
    /\ At(t, "wait")
    /\ node[n].sema > 0
    /\ loc' = [loc EXCEPT ![t].result = node[n].exit_status]
    /\ node' = [node EXCEPT ![n] = NULL]
    /\ reaped' = reaped \cup {node[n].tid}
    /\ Goto(t, "mark")
    /\ UNCHANGED <<th, next_tid, fault, parent, given, ran, denied, refused>>

(* Fault: process_wait () does not wait for the semaphore.                  *)
Reap_NoSemaDown(t) ==
    LET n == loc[t].node IN
    /\ At(t, "wait")
    /\ loc' = [loc EXCEPT ![t].result = node[n].exit_status]
    /\ th' = [th EXCEPT ![t].child_nodes = Without(@, n)]
    /\ node' = [node EXCEPT ![n] = NULL]
    /\ reaped' = reaped \cup {node[n].tid}
    /\ Goto(t, "mark")
    /\ UNCHANGED <<next_tid, fault, parent, given, ran, denied, refused>>

(* sema_down () of the node, then unlink and free it.  The child does not   *)
(* touch the node after its sema_up ().                                     *)
Reap(t) ==
    LET n == loc[t].node IN
    /\ At(t, "wait")
    /\ node[n].sema > 0
    /\ loc' = [loc EXCEPT ![t].result = node[n].exit_status]
    /\ th' = [th EXCEPT ![t].child_nodes = Without(@, n)]
    /\ node' = [node EXCEPT ![n] = NULL]
    /\ reaped' = reaped \cup {node[n].tid}
    /\ Goto(t, "mark")
    /\ UNCHANGED <<next_tid, fault, parent, given, ran, denied, refused>>

(* child_tid_node->waiting = 1, after the block was freed.                  *)
Mark(t) ==
    LET n == loc[t].node IN
    /\ At(t, "mark")
    /\ node' = IF node[n] = NULL THEN node ELSE [node EXCEPT ![n].waiting = TRUE]
    /\ SysReturn(t)
    /\ UNCHANGED <<th, next_tid, fault, history>>
------------------------------------------------------------------------------
(* The end of a process.                                                    *)

(* A program may end with children it never waited for unless WaitsForAll;  *)
(* main () ends with thread_exit () if shutdown () comes back.              *)
MayEnd(t) ==
    /\ t = main => ~ PowersOff
    /\ WaitsForAll => th[t].child_nodes = <<>>

exit_w(t, code) ==
    /\ At(t, "user") /\ MayEnd(t) /\ t # main
    /\ IF ~ th[t].tid_node_exists \/ OwnNode(t)
       THEN /\ node' = IF th[t].tid_node_exists
                       THEN [node EXCEPT ![th[t].tid_node].exit_status = code] ELSE node
            /\ Goto(t, "exit")
            /\ given' = [given EXCEPT ![th[t].tid] = code]
            /\ UNCHANGED <<th, loc, next_tid, fault, parent, ran, denied, reaped, refused>>
       ELSE Fault(NoNode(t))

(* thread_exit () without a status: kill () of exception.c, a system call   *)
(* that rejects its arguments, or the end of main ().                       *)
kill(t) ==
    /\ At(t, "user") /\ MayEnd(t)
    /\ Goto(t, "exit")
    /\ given' = [given EXCEPT ![th[t].tid] = -1]
    /\ UNCHANGED <<th, node, loc, next_tid, fault, parent, ran, denied, reaped, refused>>

(* Fault: the status -2 of thread_create () is left in place.               *)
process_exit_KeepsStatus(t) ==
    /\ At(t, "exit")
    /\ IF OwnNode(t) THEN /\ Goto(t, "free_children")
                         /\ UNCHANGED <<th, node, loc, next_tid, fault, history>>
                    ELSE Fault(NoNode(t))

(* process_exit (): the exit status, if none was set.                       *)
process_exit(t) ==
    /\ At(t, "exit")
    /\ IF OwnNode(t)
       THEN /\ node' = [node EXCEPT ![th[t].tid_node].exit_status = IF @ < 0 THEN -1 ELSE @]
            /\ Goto(t, "free_children")
            /\ UNCHANGED <<th, loc, next_tid, fault, history>>
       ELSE Fault(NoNode(t))

(* One turn of the loop that frees the nodes of the children.  The flag it  *)
(* clears is reached through cur->tid_node.                                 *)
FreeChild(t) ==
    /\ At(t, "free_children") /\ th[t].child_nodes # <<>>
    /\ LET n      == Head(th[t].child_nodes)
           listed == [th EXCEPT ![t].child_nodes = Tail(@)]
       IN IF node[n].child = NULL \/ OwnNode(t)
          THEN /\ th' = IF node[n].child = NULL THEN listed
                        ELSE [listed EXCEPT ![node[th[t].tid_node].child].tid_node_exists = FALSE]
               /\ node' = [node EXCEPT ![n] = NULL]
               /\ UNCHANGED <<pc, loc, next_tid, fault, history>>
          ELSE Fault(NoNode(t))

Unlink(t) ==
    /\ At(t, "free_children") /\ th[t].child_nodes = <<>>
    /\ IF ~ th[t].tid_node_exists \/ OwnNode(t)
       THEN /\ node' = IF th[t].tid_node_exists
                       THEN [node EXCEPT ![th[t].tid_node].child = NULL] ELSE node
            /\ Goto(t, "signal")
            /\ UNCHANGED <<th, loc, next_tid, fault, history>>
       ELSE Fault(NoNode(t))

SignalParent(t) ==
    /\ At(t, "signal")
    /\ IF OwnNode(t)
       THEN /\ node' = [node EXCEPT ![th[t].tid_node].sema = @ + 1]
            /\ Goto(t, "die")
            /\ UNCHANGED <<th, loc, next_tid, fault, history>>
       ELSE Fault(NoNode(t))

(* The rest of thread_exit (): off all_list, and the page is freed.         *)
thread_exit(t) ==
    /\ At(t, "die")
    /\ th' = [th EXCEPT ![t] = NULL]
    /\ Goto(t, "none")
    /\ UNCHANGED <<node, loc, next_tid, fault, history>>
------------------------------------------------------------------------------
(* A step of the kernel on behalf of t, after its system call or its end.   *)
InKernel(t) ==
    \/ Lookup(t) \/ GetNode(t) \/ LoadWait(t) \/ LoadCheck(t) \/ start_process(t)
    \/ Reap(t) \/ Mark(t)
    \/ process_exit(t) \/ FreeChild(t) \/ Unlink(t) \/ SignalParent(t) \/ thread_exit(t)

(* What the program does next.                                              *)
InUser(t) ==
    \/ process_execute(t)
    \/ \E tid \in Tids : process_wait(t, tid)
    \/ \E code \in Codes : exit_w(t, code)
    \/ kill(t)

Next == \E t \in Threads : InKernel(t) \/ InUser(t)

Spec == Init /\ [][Next]_vars

(* The scheduler gives every thread that is not blocked the CPU again; what *)
(* a program does in user mode, and whether it ever ends, is not assumed.   *)
FairSpec == Spec /\ \A t \in Threads : WF_vars(InKernel(t))
------------------------------------------------------------------------------
Pcs == {"none", "user", "lookup", "get_node", "load_wait", "loaded", "load",
        "wait", "mark", "exit", "free_children", "signal", "die"}

TypeOK ==
    /\ th \in [Threads -> {NULL} \cup Thread]
    /\ node \in [Nodes -> {NULL} \cup TidStatus]
    /\ pc \in [Threads -> Pcs] /\ \A t \in Threads : pc[t] = "none" <=> th[t] = NULL
    /\ loc \in [Threads -> Locals]
    /\ next_tid \in 2 .. MaxTid + 1
    /\ fault \in {"none", "null node", "freed node", "freed thread"}
    /\ parent \in [Tids -> Tids \cup {0}] /\ given \in [Tids -> Codes \cup {NULL, -1}]
    /\ {ran, denied, reaped, refused} \subseteq SUBSET Tids

Live(t) == th[t] # NULL

(* What process_wait () reports for a process that ended with this code.    *)
Reported(code) == IF code < 0 THEN -1 ELSE code

(* A process_wait () that returns a status returns that of its own child,   *)
(* which has ended, and it does so once for each child, although nodes and  *)
(* thread pages are recycled meanwhile.                                     *)
WaitIsRight ==
    [][\A t \in Threads :
          pc[t] = "wait" /\ pc'[t] = "mark" =>
             LET k == node[loc[t].node].tid IN
             /\ parent[k] = th[t].tid
             /\ k \notin reaped
             /\ given[k] # NULL /\ loc'[t].result = Reported(given[k])]_vars

(* No element is on the list twice.                                         *)
Once(s) == \A i, j \in 1 .. Len(s) : s[i] = s[j] => i = j

(* Nobody frees a node twice or finds a stranger's: the nodes on child      *)
(* lists are allocated, each is on one list once, and belongs to a process  *)
(* that the owner of the list created and has not reaped.  All variables    *)
(* have their types.                                                        *)
ChildListsOwned ==
    /\ TypeOK
    /\ \A t \in Threads : Live(t) =>
          /\ Once(th[t].child_nodes)
          /\ \A n \in ChildNodes(t) :
                node[n] # NULL /\ parent[node[n].tid] = th[t].tid /\ node[n].tid \notin reaped
    /\ \A t, u \in Threads :
          Live(t) /\ Live(u) /\ t # u => ChildNodes(t) \cap ChildNodes(u) = {}

(* process_execute () has not come back to the list yet.                    *)
Expected(n) == \E t \in Threads : \/ pc[t] \in {"lookup", "get_node"} /\ loc[t].tid = node[n].tid
                                  \/ pc[t] \in {"load_wait", "loaded"} /\ loc[t].node = n

(* Where nothing preempts the three windows and every process reaps its     *)
(* children, no pointer is used after its target was freed.                 *)
NoFault == fault = "none"

(* Then, too, the node of a program that was loaded is never lost: until it *)
(* is freed its parent is alive and has it on its list, or will put it      *)
(* there.                                                                   *)
NodeNotLost ==
    \A n \in Nodes :
       node[n] # NULL /\ node[n].loaded =>
          Expected(n) \/ \E t \in Threads : Live(t) /\ n \in ChildNodes(t)

(* Every process_execute () returns: the child reports that it was loaded   *)
(* or not, whatever becomes of it.                                          *)
ExecReturns == \A t \in Threads : pc[t] = "load_wait" ~> pc[t] # "load_wait"

(* A parent in process_wait () is woken once its child has begun to end.    *)
WaitReturns ==
    \A t \in Threads :
       (pc[t] = "wait" /\ given[node[loc[t].node].tid] # NULL) ~> pc[t] # "wait"
------------------------------------------------------------------------------
(* The comments of the code state more than it does.                        *)

(* The comment on process_execute () (process.c:34): it "returns the new    *)
(* process's thread id, or TID_ERROR if the thread cannot be created", also *)
(* when the new thread exits before it returns.                             *)
ExecReportsChild == denied \cap ran = {}

(* The comment on process_wait () (process.c:143): -1 at once only for a    *)
(* tid that is not a child of the caller or has been waited for before.     *)
ChildNotRefused == refused = {}

(* The comment in process_exit () (process.c:231): the loop frees the nodes *)
(* of the children and signals "to living children, that the deallocation   *)
(* has occured", which tid_node_exists is for.                              *)
OrphansAreTold ==
    \A t \in Threads :
       Live(t) /\ th[t].tid_node # NULL /\ ~ OwnNode(t) => ~ th[t].tid_node_exists

(* No tid_status node or thread is used after it was freed, and no node of  *)
(* a loaded program is lost.                                                *)
NodesSafe == NoFault /\ NodeNotLost

(* process_execute () and process_wait () return to their callers.          *)
CallsReturn == ExecReturns /\ WaitReturns
==============================================================================
