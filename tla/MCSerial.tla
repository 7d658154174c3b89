------------------------------ MODULE MCSerial ------------------------------
(***************************************************************************)
(* Small instances of Serial: two threads that print and read, and queues   *)
(* that hold two bytes.                                                     *)
(***************************************************************************)
EXTENDS Serial
=============================================================================
