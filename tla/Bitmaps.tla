------------------------------- MODULE Bitmaps -------------------------------
(***************************************************************************)
(* lib/kernel/bitmap.c: bits kept in elements of ELEM_BITS bits, the last   *)
(* of them used in part; file is what bitmap_write put in a file, whose      *)
(* bits past the last one a reader must not take in.  on is the set of       *)
(* numbers of the bits that are to be true.                                 *)
(***************************************************************************)
EXTENDS Integers, Sequences, FiniteSets, FiniteSetsExt, Bitwise

CONSTANTS ELEM_BITS, BitCounts

VARIABLES bit_cnt, elems, bmfile, on, scanned
bmVars == <<bit_cnt, elems, bmfile, on, scanned>>

BM_ERROR == -1
elem_idx(i) == i \div ELEM_BITS
bit_mask(i) == 2 ^ (i % ELEM_BITS)
bm_elem_cnt(n) == (n + ELEM_BITS - 1) \div ELEM_BITS
AllOnes == 2 ^ ELEM_BITS - 1
last_mask(n) == IF n % ELEM_BITS # 0 THEN 2 ^ (n % ELEM_BITS) - 1 ELSE AllOnes
Elements == 0 .. bm_elem_cnt(bit_cnt) - 1
BitNumbers == 0 .. bit_cnt - 1

bm_mark(es, i) == [es EXCEPT ![elem_idx(i)] = @ | bit_mask(i)]
bm_reset(es, i) == [es EXCEPT ![elem_idx(i)] = @ & (AllOnes - bit_mask(i))]
bm_flip(es, i) == [es EXCEPT ![elem_idx(i)] = @ ^^ bit_mask(i)]
bm_set(es, i, value) == IF value THEN bm_mark(es, i) ELSE bm_reset(es, i)
bm_test(es, i) == (es[elem_idx(i)] & bit_mask(i)) # 0
BmLast(first, cnt) == first + cnt - 1
RECURSIVE bm_set_from(_, _, _, _)
bm_set_from(es, i, last, value) ==
  IF i > last THEN es ELSE bm_set_from(bm_set(es, i, value), i + 1, last, value)
bm_set_multiple(es, first, cnt, value) == bm_set_from(es, first, BmLast(first, cnt), value)
bm_count(es, first, cnt, value) == Cardinality({i \in first .. first + cnt - 1 : bm_test(es, i) = value})
bm_contains(es, first, cnt, value) == \E i \in first .. first + cnt - 1 : bm_test(es, i) = value
bm_none(es, first, cnt) == ~ bm_contains(es, first, cnt, TRUE)
bm_all(es, first, cnt) == ~ bm_contains(es, first, cnt, FALSE)
\* Fault: the last place for the group is left out.
LastGroup_short(cnt) == bit_cnt - cnt - 1
LastGroup(cnt) == bit_cnt - cnt
bm_scan(es, first, cnt, value) ==
  LET places == {i \in first .. LastGroup(cnt) : ~ bm_contains(es, i, cnt, ~ value)}
  IN IF cnt <= bit_cnt /\ places # {} THEN Min(places) ELSE BM_ERROR

BmInit == /\ bit_cnt \in BitCounts
          /\ elems = [e \in Elements |-> 0]
          /\ bmfile \in [Elements -> {0, AllOnes}]
          /\ on = {} /\ scanned = <<>>
bitmap_set == \E i \in BitNumbers, v \in BOOLEAN :
  /\ elems' = bm_set(elems, i, v)
  /\ on' = IF v THEN on \cup {i} ELSE on \ {i}
  /\ scanned' = <<>> /\ UNCHANGED <<bit_cnt, bmfile>>
bitmap_flip == \E i \in BitNumbers :
  /\ elems' = bm_flip(elems, i)
  /\ on' = IF i \in on THEN on \ {i} ELSE on \cup {i}
  /\ scanned' = <<>> /\ UNCHANGED <<bit_cnt, bmfile>>
bitmap_set_multiple == \E first \in 0 .. bit_cnt : \E cnt \in 0 .. bit_cnt - first, v \in BOOLEAN :
  /\ elems' = bm_set_multiple(elems, first, cnt, v)
  /\ on' = IF v THEN on \cup (first .. first + cnt - 1) ELSE on \ (first .. first + cnt - 1)
  /\ scanned' = <<>> /\ UNCHANGED <<bit_cnt, bmfile>>
bitmap_scan_and_flip == \E first \in 0 .. bit_cnt, cnt \in 0 .. bit_cnt + 1, v \in BOOLEAN :
  LET idx == bm_scan(elems, first, cnt, v)
  IN /\ elems' = IF idx = BM_ERROR THEN elems ELSE bm_set_multiple(elems, idx, cnt, ~ v)
     /\ on' = CASE idx = BM_ERROR -> on
                [] v -> on \ (idx .. idx + cnt - 1)
                [] OTHER -> on \cup (idx .. idx + cnt - 1)
     /\ scanned' = <<on, first, cnt, v, idx>>
     /\ UNCHANGED <<bit_cnt, bmfile>>
\* The file may hold anything in the bits past the last one.
bitmap_read ==
  /\ bit_cnt > 0
  /\ elems' = [bmfile EXCEPT ![bm_elem_cnt(bit_cnt) - 1] = @ & last_mask(bit_cnt)]
  /\ on' = {i \in BitNumbers : (bmfile[elem_idx(i)] & bit_mask(i)) # 0}
  /\ scanned' = <<>> /\ UNCHANGED <<bit_cnt, bmfile>>
bitmap_write == /\ bmfile' = elems /\ scanned' = <<>> /\ UNCHANGED <<bit_cnt, elems, on>>
BmNext == \/ bitmap_set \/ bitmap_flip \/ bitmap_set_multiple \/ bitmap_scan_and_flip
          \/ bitmap_read \/ bitmap_write
BmSpec == BmInit /\ [][BmNext]_bmVars
---------------------------------------------------------------------------
\* Through every operation, and a write to a file and back, the bits that test true are the
\* ones that were set, the unused bits of the last element stay false, and bitmap_count,
\* bitmap_none and bitmap_all agree.
BitsMatch ==
  /\ \A i \in BitNumbers : bm_test(elems, i) = (i \in on)
  /\ \A e \in Elements : elems[e] = SumSet({bit_mask(i) : i \in {j \in on : elem_idx(j) = e}})
  /\ \A first \in 0 .. bit_cnt : \A cnt \in 0 .. bit_cnt - first :
       LET here == on \cap (first .. first + cnt - 1)
       IN /\ bm_count(elems, first, cnt, TRUE) = Cardinality(here)
          /\ bm_none(elems, first, cnt) = (here = {})
          /\ bm_all(elems, first, cnt) = (Cardinality(here) = cnt)
\* bitmap_scan_and_flip takes "the first group of CNT consecutive bits in B at or after START
\* that are all set to VALUE" and no other, and fails only when there is none.
FirstGroupFound ==
  scanned # <<>> =>
    LET Group(i) == i .. i + scanned[3] - 1
        fits(i) == /\ Group(i) \subseteq BitNumbers
                   /\ \A j \in Group(i) : (j \in scanned[1]) = scanned[4]
    IN IF scanned[5] = BM_ERROR THEN \A i \in scanned[2] .. bit_cnt : ~ fits(i)
       ELSE /\ scanned[5] >= scanned[2] /\ fits(scanned[5])
            /\ \A i \in scanned[2] .. scanned[5] - 1 : ~ fits(i)
            /\ on = IF scanned[4] THEN scanned[1] \ Group(scanned[5]) ELSE scanned[1] \cup Group(scanned[5])

\* bitmap.c stores the bits it was given and finds groups of them.
BitmapConsistent == BitsMatch /\ FirstGroupFound
=============================================================================
