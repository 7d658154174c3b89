------------------------------ MODULE HashTable ------------------------------
(***************************************************************************)
(* The hash tables of lib/kernel/hash.c: buckets whose number follows the   *)
(* number of elements, with rehashing that may fail for want of memory.     *)
(***************************************************************************)
EXTENDS Integers, Sequences, FiniteSets, SequencesExt, FiniteSetsExt, Folds, Bitwise

CONSTANTS HashElems, HashKey,    \* elements, and the key each one has
          HashOf,                \* hash function, on keys
          MinBuckets,            \* 4 in the code
          BEST_ELEMS_PER_BUCKET  \* 2 in the code

ASSUME HashAssumption ==
  /\ HashKey \in [HashElems -> Nat] /\ \A k \in Range(HashKey) : HashOf[k] \in Nat
  /\ MinBuckets \in Nat \ {0} /\ BEST_ELEMS_PER_BUCKET \in Nat \ {0}

VARIABLES buckets,     \* h->buckets, from index 0
          elem_cnt,
          stored       \* the elements put in and not taken out again

hashVars == <<buckets, elem_cnt, stored>>

bucket_cnt(b) == Cardinality(DOMAIN b)
Empty(n) == [i \in 0 .. n - 1 |-> <<>>]
HashInit == buckets = Empty(MinBuckets) /\ elem_cnt = 0 /\ stored = {}

find_bucket(b, e) == HashOf[HashKey[e]] & (bucket_cnt(b) - 1)

SameKey(x, y) == ~ (HashKey[x] < HashKey[y]) /\ ~ (HashKey[y] < HashKey[x])
find_elem(bucket, e) == SelectSeq(bucket, LAMBDA x : SameKey(x, e))
Missing(b, e) == find_elem(b[find_bucket(b, e)], e) = <<>>
Old(b, e) == Head(find_elem(b[find_bucket(b, e)], e))

insert_elem(b, e) == [b EXCEPT ![find_bucket(b, e)] = <<e>> \o @]
remove_elem(b, e) == [b EXCEPT ![find_bucket(b, e)] = SelectSeq(@, LAMBDA x : x # e)]

RECURSIVE FloorPower2(_)
\* turn_off_least_1bit until one bit is left.
FloorPower2(n) == IF n <= 1 THEN n ELSE 2 * FloorPower2(n \div 2)

BucketsFor(cnt) == FloorPower2(Max({cnt \div BEST_ELEMS_PER_BUCKET, MinBuckets}))

\* rehash with CNT elements: every element goes to the front of its new bucket; if
\* malloc fails the buckets stay.
rehash(b, cnt) ==
  LET n == BucketsFor(cnt)
      all == FoldLeft(LAMBDA s, i : s \o b[i - 1], <<>>, [i \in 1 .. bucket_cnt(b) |-> i])
  IN IF n = bucket_cnt(b) THEN {b}
     ELSE {b, FoldLeft(LAMBDA nb, e : insert_elem(nb, e), Empty(n), all)}

hash_insert(e) ==
  LET new == Missing(buckets, e)
      b == IF new THEN insert_elem(buckets, e) ELSE buckets
  IN /\ elem_cnt' = IF new THEN elem_cnt + 1 ELSE elem_cnt
     /\ buckets' \in rehash(b, elem_cnt')
     /\ stored' = IF \E x \in stored : HashKey[x] = HashKey[e] THEN stored ELSE stored \cup {e}

Without(b, e) == IF Missing(b, e) THEN b ELSE remove_elem(b, Old(b, e))
\* Fault: hash_replace leaves the old element in its bucket.
Replaced_kept(b, e) == b
Replaced(b, e) == Without(b, e)
hash_replace(e) ==
  /\ elem_cnt' = IF Missing(buckets, e) THEN elem_cnt + 1 ELSE elem_cnt
  /\ buckets' \in rehash(insert_elem(Replaced(buckets, e), e), elem_cnt')
  /\ stored' = {x \in stored : HashKey[x] # HashKey[e]} \cup {e}

hash_delete(e) ==
  /\ ~ Missing(buckets, e)
  /\ elem_cnt' = elem_cnt - 1
  /\ buckets' \in rehash(Without(buckets, e), elem_cnt')
  /\ stored' = {x \in stored : HashKey[x] # HashKey[e]}

hash_clear ==
  /\ buckets' = Empty(bucket_cnt(buckets)) /\ elem_cnt' = 0 /\ stored' = {}

\* hash_first and hash_next: the elements in the order of the iteration.  The iterator
\* stands before element i of bucket n.
RECURSIVE hash_next(_, _)
hash_next(n, i) ==
  IF i <= Len(buckets[n]) THEN <<buckets[n][i]>> \o hash_next(n, i + 1)
  ELSE IF n + 1 >= bucket_cnt(buckets) THEN <<>> ELSE hash_next(n + 1, 1)
Iteration == hash_next(0, 1)

HashNext == \/ \E e \in HashElems : hash_insert(e) \/ hash_replace(e) \/ hash_delete(e)
            \/ hash_clear
HashSpec == HashInit /\ [][HashNext]_hashVars

---------------------------------------------------------------------------
\* The table holds what was put in: every element, and no other, can be found by its
\* key, after any growing and shrinking, with memory or without, and elem_cnt is their number.
TableHoldsStored ==
  /\ elem_cnt = Cardinality(stored)
  /\ \A e \in stored : ~ Missing(buckets, e) /\ Old(buckets, e) = e
  /\ UNION {Range(buckets[b]) : b \in DOMAIN buckets} = stored

\* hash_next returns every element of the table once.
IterationComplete ==
  /\ Range(Iteration) = stored
  /\ Len(Iteration) = Cardinality(stored)

\* hash.c finds and enumerates what was put in, through every rehash ().
TableConsistent == TableHoldsStored /\ IterationComplete
=============================================================================
