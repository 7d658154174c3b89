------------------------------ MODULE MCProcess ------------------------------
(***************************************************************************)
(* Small instances of Process: main and a few pages and nodes, so few that  *)
(* both are recycled.                                                       *)
(***************************************************************************)
EXTENDS Process, TLC

(* One code a program may mean as a failure and one it may mean as success. *)
SomeCodes == {-5, 7}

Recycled == Permutations(Threads \ {main}) \cup Permutations(Nodes)
==============================================================================
