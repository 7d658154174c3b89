-------------------------------- MODULE Lists --------------------------------
(***************************************************************************)
(* The doubly linked lists of lib/kernel/list.c, as pointers: every element *)
(* has a next and a prev field, and a list is a head and a tail element.    *)
(* Each operation is the function from the pointers before to the pointers  *)
(* after; the sequences that the lists stand for are kept beside them.      *)
(***************************************************************************)
EXTENDS Integers, Sequences, FiniteSets, SequencesExt, FiniteSetsExt

CONSTANTS ListElems,   \* elements that a list may hold
          ListKey      \* what LESS compares

ListIds == {"l", "m"}
HeadOf(l) == <<l, "head">>
TailOf(l) == <<l, "tail">>
NullPtr == <<>>
Cells == {<<e>> : e \in ListElems} \cup {HeadOf(l) : l \in ListIds}
           \cup {TailOf(l) : l \in ListIds}

ASSUME ListAssumption == ListKey \in [ListElems -> Int]

VARIABLES ptr,    \* [next, prev] of every cell
          view    \* the sequence each list stands for

listVars == <<ptr, view>>

less(x, y) == ListKey[x[1]] < ListKey[y[1]]
Put2(p, c, next, prev) == [p EXCEPT ![c] = [next |-> next, prev |-> prev]]
SetNext(p, c, x) == [p EXCEPT ![c].next = x]
SetPrev(p, c, x) == [p EXCEPT ![c].prev = x]

---------------------------------------------------------------------------
list_insert(p, before, e) ==
  SetPrev(SetNext(Put2(p, e, before, p[before].prev), p[before].prev, e), before, e)

list_remove(p, e) == SetPrev(SetNext(p, p[e].prev, p[e].next), p[e].next, p[e].prev)

\* Fault: the pieces around the range are joined after it has been moved.
list_splice_late(p, before, first, stop) ==
  IF first = stop THEN p
  ELSE LET last == p[stop].prev
           b == p[before].prev
           p2 == SetNext(SetPrev(p, first, b), last, before)
           p3 == SetPrev(SetNext(p2, b, first), before, last)
       IN SetPrev(SetNext(p3, p3[first].prev, p3[last].next), p3[last].next, p3[first].prev)
list_splice(p, before, first, stop) ==
  IF first = stop THEN p
  ELSE LET last == p[stop].prev
           p1 == SetPrev(SetNext(p, p[first].prev, p[last].next), p[last].next, p[first].prev)
           b == p1[before].prev
           p2 == SetNext(SetPrev(p1, first, b), last, before)
       IN SetPrev(SetNext(p2, b, first), before, last)

RECURSIVE SwapAll(_, _, _)
\* The loop of list_reverse from e: swaps the two pointers and goes on to the old next.
SwapAll(p, e, end) ==
  IF e = end THEN p
  ELSE LET q == Put2(p, e, p[e].prev, p[e].next) IN SwapAll(q, q[e].prev, end)
list_reverse(p, l) ==
  IF p[HeadOf(l)].next = TailOf(l) THEN p
  ELSE LET p1 == SwapAll(p, p[HeadOf(l)].next, TailOf(l))
           first == p1[TailOf(l)].prev
           last == p1[HeadOf(l)].next
           p2 == SetPrev(SetNext(p1, HeadOf(l), first), TailOf(l), last)
       IN SetNext(SetPrev(p2, first, p2[last].next), last, p2[first].prev)

RECURSIVE find_end_of_run(_, _, _), inplace_merge(_, _, _, _), sort_pass(_, _, _, _)
RECURSIVE list_sort(_, _)
find_end_of_run(p, a, b) ==
  LET n == p[a].next IN IF n = b \/ less(n, p[n].prev) THEN n ELSE find_end_of_run(p, n, b)

BelongsBefore(x, y) == less(x, y)
inplace_merge(p, a0, a1b0, b1) ==
  IF a0 = a1b0 \/ a1b0 = b1 THEN p
  ELSE IF ~ BelongsBefore(a1b0, a0) THEN inplace_merge(p, p[a0].next, a1b0, b1)
  ELSE LET n == p[a1b0].next
       IN inplace_merge(list_splice(p, a0, p[n].prev, n), a0, n, b1)
\* One pass over the list from a0: the pointers and the number of runs output.
sort_pass(p, l, a0, runs) ==
  IF a0 = TailOf(l) THEN <<p, runs>>
  ELSE LET a1b0 == find_end_of_run(p, a0, TailOf(l))
       IN IF a1b0 = TailOf(l) THEN <<p, runs + 1>>
          ELSE LET b1 == find_end_of_run(p, a1b0, TailOf(l))
               IN sort_pass(inplace_merge(p, a0, a1b0, b1), l, b1, runs + 1)
list_sort(p, l) ==
  LET r == sort_pass(p, l, p[HeadOf(l)].next, 0)
  IN IF r[2] > 1 THEN list_sort(r[1], l) ELSE r[1]

RECURSIVE Place(_, _, _, _), unique_from(_, _, _, _), best(_, _, _, _, _)
Place(p, e, x, end) == IF e = end \/ less(x, e) THEN e ELSE Place(p, p[e].next, x, end)
list_insert_ordered(p, l, x) == list_insert(p, Place(p, p[HeadOf(l)].next, x, TailOf(l)), x)

\* The loop of list_unique: equal neighbours go to the end of the list d.
unique_from(p, e, l, d) ==
  LET n == p[e].next
  IN IF n = TailOf(l) THEN p
     ELSE IF ~ less(e, n) /\ ~ less(n, e)
     THEN unique_from(list_insert(list_remove(p, n), TailOf(d), n), e, l, d)
     ELSE unique_from(p, n, l, d)
list_unique(p, l, d) ==
  IF p[HeadOf(l)].next = TailOf(l) THEN p ELSE unique_from(p, p[HeadOf(l)].next, l, d)

\* list_max takes e when less (max, e), list_min when less (e, min).
Better(max, x, y) == IF max THEN less(x, y) ELSE less(y, x)
best(p, l, max, x, e) ==
  IF e = TailOf(l) THEN x
  ELSE best(p, l, max, IF Better(max, x, e) THEN e ELSE x, p[e].next)
list_max_min(p, l, max) ==
  LET b == p[HeadOf(l)].next
  IN IF b = TailOf(l) THEN b ELSE best(p, l, max, b, p[b].next)

---------------------------------------------------------------------------
list_init == [c \in Cells |->
  IF \E l \in ListIds : c = HeadOf(l) THEN [next |-> TailOf(c[1]), prev |-> NullPtr]
  ELSE IF \E l \in ListIds : c = TailOf(c[1]) THEN [next |-> NullPtr, prev |-> HeadOf(c[1])]
  ELSE [next |-> NullPtr, prev |-> NullPtr]]
ListInit == ptr = list_init /\ view = [l \in ListIds |-> <<>>]

InLists == UNION {Range(view[l]) : l \in ListIds}
Outside == {<<e>> : e \in ListElems} \ InLists
Other(l) == CHOOSE m \in ListIds : m # l
SortedSeq(s) == \A i, j \in DOMAIN s : i < j => ~ less(s[j], s[i])
\* The one stable ordering of s.
StableSort(s) == SortSeq([i \in DOMAIN s |-> <<s[i], i>>],
  LAMBDA x, y : less(x[1], y[1]) \/ (~ less(y[1], x[1]) /\ x[2] < y[2]))
Firsts(s) == [i \in DOMAIN s |-> s[i][1]]
Repeats(s) == {i \in DOMAIN s : i > 1 /\ ListKey[s[i][1]] = ListKey[s[i - 1][1]]}
Pick(s, I) == [k \in 1 .. Cardinality(I) |->
                 s[CHOOSE i \in I : Cardinality({j \in I : j < i}) = k - 1]]

\* list_insert, list_push_front, list_push_back: at any place.
Insert(l, e) == \E i \in 1 .. Len(view[l]) + 1 :
  /\ ptr' = list_insert(ptr, IF i > Len(view[l]) THEN TailOf(l) ELSE view[l][i], e)
  /\ view' = [view EXCEPT ![l] = InsertAt(@, i, e)]
\* list_remove, list_pop_front, list_pop_back.
RemoveElem(l) == \E i \in DOMAIN view[l] :
  /\ ptr' = list_remove(ptr, view[l][i])
  /\ view' = [view EXCEPT ![l] = RemoveAt(@, i)]
\* A range of one list into the other.
Splice(l) == \E i \in DOMAIN view[l] : \E j \in i .. Len(view[l]) + 1 :
  \E k \in 1 .. Len(view[Other(l)]) + 1 :
  LET m == Other(l)
      cellAt(x, n) == IF n > Len(view[x]) THEN TailOf(x) ELSE view[x][n]
  IN /\ ptr' = list_splice(ptr, cellAt(m, k), cellAt(l, i), cellAt(l, j))
     /\ view' = [view EXCEPT
          ![l] = SubSeq(@, 1, i - 1) \o SubSeq(@, j, Len(@)),
          ![m] = SubSeq(@, 1, k - 1) \o SubSeq(view[l], i, j - 1) \o SubSeq(@, k, Len(@))]
Reorder(l) ==
  \/ /\ ptr' = list_reverse(ptr, l) /\ view' = [view EXCEPT ![l] = Reverse(@)]
  \/ /\ ptr' = list_sort(ptr, l) /\ view' = [view EXCEPT ![l] = Firsts(StableSort(@))]
InsertOrdered(l, e) ==
  /\ SortedSeq(view[l])
  /\ ptr' = list_insert_ordered(ptr, l, e)
  /\ view' = [view EXCEPT ![l] = Firsts(StableSort(Append(@, e)))]
Unique(l) ==
  /\ ptr' = list_unique(ptr, l, Other(l))
  /\ view' = [view EXCEPT ![l] = Pick(@, DOMAIN @ \ Repeats(@)),
                          ![Other(l)] = @ \o Pick(view[l], Repeats(view[l]))]
ListNext == \E l \in ListIds :
  \/ \E e \in Outside : Insert(l, e) \/ InsertOrdered(l, e)
  \/ RemoveElem(l) \/ Splice(l) \/ Reorder(l) \/ Unique(l)
ListSpec == ListInit /\ [][ListNext]_listVars

---------------------------------------------------------------------------
\* The pointers of every list are the sequence it stands for, in both directions,
\* after any series of operations; sorting is stable and list_unique moves exactly
\* the later ones of equal neighbours.
PointersMatchView ==
  \A l \in ListIds :
    LET s == <<HeadOf(l)>> \o view[l] \o <<TailOf(l)>>
    IN \A i \in 1 .. Len(s) - 1 : ptr[s[i]].next = s[i + 1] /\ ptr[s[i + 1]].prev = s[i]

\* "If there is more than one maximum, returns the one that appears earlier in the
\* list" (list.c:489), likewise for the minimum, and the tail for an empty list.
ExtremesAreFirst ==
  \A l \in ListIds, max \in BOOLEAN :
    LET s == view[l]
        r == list_max_min(ptr, l, max)
    IN IF s = <<>> THEN r = TailOf(l)
       ELSE \E i \in DOMAIN s :
              /\ r = s[i]
              /\ \A j \in DOMAIN s : IF max THEN ~ less(s[i], s[j]) ELSE ~ less(s[j], s[i])
              /\ \A j \in 1 .. i - 1 : IF max THEN less(s[j], s[i]) ELSE less(s[i], s[j])

\* list.c keeps the pointers of every list and finds the extremes on it.
ListsConsistent == PointersMatchView /\ ExtremesAreFirst
=============================================================================
