------------------------------- MODULE MCDisk --------------------------------
(***************************************************************************)
(* What may be plugged into the channel of Disk: a slave with empty,        *)
(* foreign, oversized and good entries, a disk with two overlapping and an  *)
(* extended partition beside one that is too large, and no disk at all.     *)
(***************************************************************************)
EXTENDS Disk

Part(type, offset, size) == [type |-> type, offset |-> offset, size |-> size]
Devices(a, b) == [d \in {0, 1} |-> IF d = 0 THEN a ELSE b]
MCSetups == {
  [kind |-> Devices("none", "ata"),
   table |-> Devices(<<>>, <<Part("empty", 0, 1), Part("foreign", 1, 7), Part("filesys", 1, 1), Part("filesys", 1, 2)>>)],
  [kind |-> Devices("ata", "huge"),
   table |-> Devices(<<Part("filesys", 0, 1), Part("foreign", 0, 2), Part("extended", 1, 1)>>, <<>>)],
  [kind |-> Devices("atapi", "none"), table |-> Devices(<<>>, <<>>)] }
====
