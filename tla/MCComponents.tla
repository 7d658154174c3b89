---------------------------- MODULE MCComponents -----------------------------
(***************************************************************************)
(* The components that work on data of their own, checked side by side: the *)
(* serial port, the keyboard and the display, the memory allocators, lists, *)
(* hash tables, bitmaps, library routines, the scanner, the loader, the     *)
(* data of an inode and the archive commands.  They share no state.  part   *)
(* names the one whose behaviour it is, the others stay in one of their     *)
(* initial states.                                                          *)
(***************************************************************************)
EXTENDS Serial, Keyboard, Vga, MCScanner, Memory, Lists, HashTable, Bitmaps, Library, Loader, InodeIO, Fsutil

VARIABLE part

MCPrinted == {-512, -8, 0, 7, 10, 511}
MCListKey == [e \in ListElems |-> IF e = "c" THEN 2 ELSE 1]
MCHashKey == [e \in HashElems |-> CASE e \in {"a", "b"} -> 1 [] e = "c" -> 2 [] e = "d" -> 3
                                    [] e = "e" -> 6 [] e = "f" -> 7 [] e = "g" -> 8]
MCHashOf == [k \in 1 .. 8 |-> k]

Phdr(t, o, v, f, m, w) ==
  [type |-> t, offset |-> o, vaddr |-> v, filesz |-> f, memsz |-> m, writable |-> w]
OtherTypes == {Phdr(t, 0, 32, 1, 1, TRUE) : t \in {"ignored", "refused"}}
FirstHeaders ==
  OtherTypes \cup {Phdr("PT_LOAD", o, v, f, m, TRUE) :
                     o \in {0, 4, 36, 100}, v \in {0, 32, 36, 100, 128, 188, 192, 228},
                     f \in {0, 1, 28, 33}, m \in {0, 1, 28, 33, 92, 188, 220, 224}}
SecondHeaders == OtherTypes \cup {Phdr("PT_LOAD", 0, 64, 1, 33, FALSE),
                                  Phdr("PT_LOAD", 4, 132, 4, 4, FALSE)}
OneHeader == Phdr("PT_LOAD", 0, 128, 1, 1, TRUE)
ArgumentLengths == {s \in UNION {[1 .. n -> 1 .. 14] : n \in 1 .. 3} :
                      FoldLeft(LAMBDA x, y : x + y + 1, 0, s) <= 32}
MCLoads ==
  {[valid |-> TRUE, readable |-> r, phdrs |-> <<a, b>>, argv |-> <<1>>] :
     a \in FirstHeaders, b \in SecondHeaders, r \in {1, 2}}
    \cup {[valid |-> TRUE, readable |-> 1, phdrs |-> h, argv |-> a] :
            h \in {<<>>, <<OneHeader>>}, a \in ArgumentLengths}
    \cup {[valid |-> FALSE, readable |-> 1, phdrs |-> <<>>, argv |-> <<>>]}

Followed(s, n) == s \o [i \in 1 .. n |-> Zeros]
MCArchives ==
  {Followed(<<Header("regular", "a", 3), Data(<<1, 2>>), Data(<<3, 9>>),
              Header("directory", "d", 0), Header("regular", "b", 2), Data(<<5, 6>>)>>, 2),
   Followed(<<Header("regular", "a", 0)>>, 4),
   <<Header("regular", "a", 4), Data(<<1, 2>>)>>,
   <<Header("regular", "a", 1), Data(<<1, 2>>), [kind |-> "other"]>>}
------------------------------------------------------------------------------
Parts == {"serial", "keyboard", "vga", "scanner", "memory", "lists", "hash", "bitmap",
          "library", "loader", "inode", "fsutil"}
Rests(p) == part # p

MCInit ==
  /\ part \in Parts
  /\ Init /\ KbdInit /\ MemInit /\ ListInit /\ HashInit
  /\ Rests("vga") => cursor = 0
  /\ VgaInit
  /\ IF Rests("bitmap")
     THEN bit_cnt = 0 /\ elems = <<>> /\ bmfile = <<>> /\ on = {} /\ scanned = <<>>
     ELSE BmInit
  /\ Rests("inode") => flen = 0 /\ deny_write_cnt = 0
  /\ IoInit
  /\ Rests("fsutil") => archive = Followed(<<Header("regular", "a", 0)>>, 4) /\ stray = FALSE
  /\ UtInit
  /\ IF Rests("scanner")
     THEN /\ input = [text |-> "", expect |-> Nothing] /\ outside = FALSE
          /\ place = 1 /\ spans = <<>> /\ tokens = <<>> /\ EOFFLG = FALSE
     ELSE ScanInit
  /\ IF Rests("loader")
     THEN /\ exe = [valid |-> FALSE, readable |-> 1, phdrs |-> <<>>, argv |-> <<>>]
          /\ ldpc = "open" /\ hdr = 1 /\ seg = NoSegment
          /\ image = NoMemory /\ esp = PHYS_BASE /\ pushed = <<>>
     ELSE LoadInit
  /\ IF Rests("library") THEN call = [f |-> "none", x |-> <<>>] /\ done = FALSE /\ answer = <<>>
     ELSE LibInit

\* The components other than p, and part, stay as they are.
Stay(p) ==
  /\ part = p /\ UNCHANGED part
  /\ p # "serial" => UNCHANGED vars
  /\ p # "keyboard" => UNCHANGED kbdVars
  /\ p # "vga" => UNCHANGED vgaVars
  /\ p # "scanner" => UNCHANGED scanVars
  /\ p # "memory" => UNCHANGED memVars
  /\ p # "lists" => UNCHANGED listVars
  /\ p # "hash" => UNCHANGED hashVars
  /\ p # "bitmap" => UNCHANGED bmVars
  /\ p # "library" => UNCHANGED libVars
  /\ p # "loader" => UNCHANGED ldVars
  /\ p # "inode" => UNCHANGED ioVars
  /\ p # "fsutil" => UNCHANGED utVars
MCNext ==
  \/ Stay("serial") /\ Next
  \/ Stay("keyboard") /\ KbdNext
  \/ Stay("vga") /\ VgaNext
  \/ Stay("scanner") /\ ScanNext
  \/ Stay("memory") /\ MemNext
  \/ Stay("lists") /\ ListNext
  \/ Stay("hash") /\ HashNext
  \/ Stay("bitmap") /\ BmNext
  \/ Stay("library") /\ LibNext
  \/ Stay("loader") /\ LoadNext
  \/ Stay("inode") /\ IoNext
  \/ Stay("fsutil") /\ UtNext
allVars == <<part, vars, kbdVars, vgaVars, scanVars, memVars, listVars, hashVars, bmVars,
             libVars, ldVars, ioVars, utVars>>
MCSpec == MCInit /\ [][MCNext]_allVars
=============================================================================
