---------------------------- MODULE BlockDevice ----------------------------
(***************************************************************************)
(* What block_read () and block_write () promise to their callers: sectors  *)
(* that are read and written one request at a time, without a lock of the   *)
(* caller's ("Internally synchronizes accesses to block devices, so         *)
(* external per-block device locking is unneeded", block.c:118).  A disk    *)
(* may lose a write it has acknowledged, and a failed request never         *)
(* returns.                                                                 *)
(***************************************************************************)
CONSTANTS Callers, Places, CellValues
VARIABLES cells,   \* content of each place
          req      \* request of each caller: none, asked or done

NoRequest == [st |-> "none", place |-> <<>>, val |-> 0]
Request == [st : {"read", "write", "done"}, place : Places, val : CellValues]

BlockInit == /\ cells \in [Places -> CellValues]
             /\ req = [c \in Callers |-> NoRequest]

Ask(c) == /\ req[c].st \in {"none", "got"}
          /\ req' = [req EXCEPT ![c] = req'[c]]
          /\ req'[c] \in Request /\ req'[c].st # "done"
          /\ UNCHANGED cells
\* The value read stays in the caller's buffer.
Read(c) == /\ req[c].st = "read"
           /\ req' = [req EXCEPT ![c] = [@ EXCEPT !.st = "got", !.val = cells[req[c].place]]]
           /\ UNCHANGED cells
Store(c) == /\ req[c].st = "write"
            /\ req' = [req EXCEPT ![c].st = "done"]
            /\ cells' \in {cells, [cells EXCEPT ![req[c].place] = req[c].val]}
Acknowledge(c) == /\ req[c].st = "done"
                  /\ req' = [req EXCEPT ![c] = NoRequest]
                  /\ UNCHANGED cells

BlockNext == \/ UNCHANGED <<cells, req>>
             \/ \E c \in Callers : Ask(c) \/ Read(c) \/ Store(c) \/ Acknowledge(c)
BlockSpec == BlockInit /\ [][BlockNext]_<<cells, req>>
=============================================================================
