------------------------------- MODULE Numbers -------------------------------
(***************************************************************************)
(* lib/stdlib.c (atoi, heap sort, binary search) and lib/arithmetic.c       *)
(* (64-bit division from 32-bit instructions).  HalfBits is the width of a  *)
(* machine word: 32 in the code.                                            *)
(***************************************************************************)
EXTENDS Integers, Sequences, Strings

CONSTANTS HalfBits, IntLimit    \* an int is in -IntLimit .. IntLimit - 1

ASSUME NumbersAssumption == HalfBits \in {2, 4, 8, 16} /\ IntLimit > 0

---------------------------------------------------------------------------
\* 64-bit division.
b32 == 2^HalfBits
b64 == b32 * b32
Trap == -1
\* The divl instruction, which traps when the quotient does not fit.
divl(n, d) == IF d = 0 \/ n \div d >= b32 THEN Trap ELSE n \div d

RECURSIVE nlz_steps(_, _, _)
\* Shifts by half of the width, a quarter, ... while the upper part is zero.
nlz_steps(x, step, n) ==
  IF step = 0 THEN n
  ELSE IF x < 2^(HalfBits - step) THEN nlz_steps(x * 2^step, step \div 2, n + step)
  ELSE nlz_steps(x, step \div 2, n)
nlz(x) == nlz_steps(x, HalfBits \div 2, 0)

\* Fault: the estimate is not corrected.
Corrected_not(q, n, d) == q
\* The estimate q of n / d is exact or one too large; uint64_t arithmetic.
Corrected(q, n, d) == IF (n - (q - 1) * d) % b64 < d THEN q - 1 ELSE q
udiv64(n, d) ==
  IF d \div b32 = 0
  THEN LET n1 == n \div b32
           n0 == n % b32
       IN divl(b32 * (n1 % d) + n0, d) + b32 * (n1 \div d)
  ELSE IF n < d THEN 0
  ELSE LET s == nlz(d \div b32)
           dn == ((d * 2^s) % b64) \div b32
           q == divl(n \div 2, dn) \div 2^(HalfBits - 1 - s)
       IN Corrected(q, n, d)
\* The result type is uint32_t.
umod64(n, d) == (n - d * udiv64(n, d)) % b32

Abs(n) == IF n >= 0 THEN n ELSE -n
AsSigned(n) == IF n >= b64 \div 2 THEN n - b64 ELSE n
Signed(n, d, q) == IF (n < 0) = (d < 0) THEN AsSigned(q) ELSE AsSigned((-q) % b64)
sdiv64(n, d) == Signed(n, d, udiv64(Abs(n), Abs(d)))

---------------------------------------------------------------------------
\* atoi, on character codes.
isspace(c) == c \in {32, 12, 10, 13, 9, 11}
isdigit(c) == c \in 48 .. 57
RECURSIVE atoi_digits(_, _, _), SkipSpace(_, _)
SkipSpace(s, i) == IF isspace(CharAt(s, i)) THEN SkipSpace(s, i + 1) ELSE i
WrapInt(v) == ((v + IntLimit) % (2 * IntLimit)) - IntLimit
\* The value is built up as a negative one.
atoi_digits(s, i, v) ==
  IF isdigit(CharAt(s, i)) THEN atoi_digits(s, i + 1, WrapInt(v * 10 - (s[i] - 48))) ELSE v
AfterSpace(s) == SkipSpace(s, 1)
atoi(s) ==
  LET i == AfterSpace(s)
      negative == CharAt(s, i) = 45
      v == atoi_digits(s, IF CharAt(s, i) \in {43, 45} THEN i + 1 ELSE i, 0)
  IN IF negative THEN v ELSE WrapInt(-v)

---------------------------------------------------------------------------
\* sort: a heap in the array, 1-based.
do_swap(a, i, j) == [a EXCEPT ![i] = a[j], ![j] = a[i]]
RECURSIVE heapify(_, _, _), BuildHeap(_, _), SortHeap(_, _)
\* The index of the largest element among i and its children.
Larger(a, i, cnt) ==
  LET m == IF 2 * i <= cnt /\ a[2 * i] > a[i] THEN 2 * i ELSE i
  IN IF 2 * i + 1 <= cnt /\ a[2 * i + 1] > a[m] THEN 2 * i + 1 ELSE m
heapify(a, i, cnt) ==
  LET max == Larger(a, i, cnt)
  IN IF max = i THEN a ELSE heapify(do_swap(a, i, max), max, cnt)
BuildHeap(a, i) == IF i = 0 THEN a ELSE BuildHeap(heapify(a, i, Len(a)), i - 1)
SortHeap(a, i) == IF i <= 1 THEN a ELSE SortHeap(heapify(do_swap(a, 1, i), 1, i - 1), i - 1)
sort(a) == SortHeap(BuildHeap(a, Len(a) \div 2), Len(a))

RECURSIVE search(_, _, _, _)
UpperHalf(first, middle) == middle + 1
\* Positions first .. last - 1 are left.
search(key, a, first, last) ==
  IF first >= last THEN 0
  ELSE LET middle == first + (last - first) \div 2
       IN IF key < a[middle] THEN search(key, a, first, middle)
          ELSE IF key > a[middle] THEN search(key, a, UpperHalf(first, middle), last)
          ELSE middle
binary_search(key, a) == search(key, a, 1, Len(a) + 1)
=============================================================================
