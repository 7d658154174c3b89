------------------------------- MODULE Strings -------------------------------
(***************************************************************************)
(* lib/string.c, loop by loop.  A string is a sequence of character codes   *)
(* without its null terminator; a position is an index and 0 is the null    *)
(* pointer.  Memory is a function from addresses to bytes.                  *)
(***************************************************************************)
EXTENDS Integers, Sequences, SequencesExt

NUL == 0
CharAt(s, i) == IF i <= Len(s) THEN s[i] ELSE NUL

RECURSIVE CopyUp(_, _, _, _), CopyDown(_, _, _, _), strchr(_, _, _)
\* memcpy, and memmove to a lower address; memmove to a higher one.
CopyUp(m, d, s, n) == IF n = 0 THEN m ELSE CopyUp([m EXCEPT ![d] = m[s]], d + 1, s + 1, n - 1)
CopyDown(m, d, s, n) ==
  IF n = 0 THEN m ELSE CopyDown([m EXCEPT ![d + n - 1] = m[s + n - 1]], d, s, n - 1)

memmove(m, d, s, n) == IF d < s THEN CopyUp(m, d, s, n) ELSE CopyDown(m, d, s, n)

\* The first i on at which s has c, also for c = NUL.
strchr(s, i, c) ==
  IF CharAt(s, i) = c THEN i ELSE IF CharAt(s, i) = NUL THEN 0 ELSE strchr(s, i + 1, c)

RECURSIVE memcmp(_, _, _, _, _), strcmp(_, _, _), Span(_, _, _, _), strrchr_from(_, _, _, _)
\* N bytes of a from i and of b from j.
memcmp(a, i, b, j, n) ==
  IF n = 0 THEN 0
  ELSE IF CharAt(a, i) # CharAt(b, j) THEN IF CharAt(a, i) > CharAt(b, j) THEN 1 ELSE -1
  ELSE memcmp(a, i + 1, b, j + 1, n - 1)

Differ(a, b) == IF a < b THEN -1 ELSE IF a > b THEN 1 ELSE 0
strcmp(a, b, i) ==
  IF CharAt(a, i) # NUL /\ CharAt(a, i) = CharAt(b, i) THEN strcmp(a, b, i + 1)
  ELSE Differ(CharAt(a, i), CharAt(b, i))

\* strspn (IN = TRUE) and strcspn: the length of the initial part in, or not in, SET.
Span(s, i, set, in) ==
  IF CharAt(s, i) = NUL \/ ((strchr(set, 1, s[i]) # 0) # in) THEN i - 1 ELSE Span(s, i + 1, set, in)
strspn(s, skip) == Span(s, 1, skip, TRUE)
strcspn(s, stop) == Span(s, 1, stop, FALSE)
strpbrk(s, stop) == IF strcspn(s, stop) = Len(s) THEN 0 ELSE strcspn(s, stop) + 1
strrchr_from(s, c, i, p) ==
  IF CharAt(s, i) = NUL THEN p ELSE strrchr_from(s, c, i + 1, IF s[i] = c THEN i ELSE p)
strrchr(s, c) == strrchr_from(s, c, 1, 0)

RECURSIVE strstr_from(_, _, _)
LastPlace(haystack, needle) == Len(haystack) - Len(needle) + 1
strstr_from(haystack, needle, i) ==
  IF i > LastPlace(haystack, needle) THEN 0
  ELSE IF memcmp(haystack, i, needle, 1, Len(needle)) = 0 THEN i
  ELSE strstr_from(haystack, needle, i + 1)
strstr(haystack, needle) == strstr_from(haystack, needle, 1)

RECURSIVE SkipTo(_, _, _, _)
\* s++ while being a delimiter (or the end of the string) is IS.
SkipTo(s, i, delimiters, is) ==
  IF (strchr(delimiters, 1, CharAt(s, i)) # 0) # is \/ (is /\ CharAt(s, i) = NUL) THEN i
  ELSE SkipTo(s, i + 1, delimiters, is)
\* *save_ptr: after the delimiter that becomes a null byte, or at the end.
Saved(s, stop) == IF CharAt(s, stop) # NUL THEN stop + 1 ELSE stop
strtok_r(s, pos, delimiters) ==
  LET token == SkipTo(s, pos, delimiters, TRUE)
      stop == SkipTo(s, token, delimiters, FALSE)
  IN IF CharAt(s, token) = NUL THEN [token |-> <<>>, found |-> FALSE, save |-> token]
     ELSE [token |-> SubSeq(s, token, stop - 1), found |-> TRUE, save |-> Saved(s, stop)]

RECURSIVE Tokens(_, _, _)
\* The idiom of its callers: for (token = strtok_r (s, ...); token; token = strtok_r (NULL...)).
Tokens(s, pos, delimiters) ==
  LET t == strtok_r(s, pos, delimiters)
  IN IF ~ t.found \/ pos > Len(s) THEN <<>> ELSE <<t.token>> \o Tokens(s, t.save, delimiters)

\* A buffer of bytes, from address 1; strings in it end at the first NUL.
RECURSIVE StoreAt(_, _, _), strnlen_from(_, _, _)
StoreAt(m, d, s) == IF s = <<>> THEN m ELSE StoreAt([m EXCEPT ![d] = Head(s)], d + 1, Tail(s))
strnlen_from(m, maxlen, n) ==
  IF n >= maxlen \/ m[n + 1] = NUL THEN n ELSE strnlen_from(m, maxlen, n + 1)
InBuffer(m) == SubSeq(m, 1, strnlen_from(m, Len(m), 0))

Room(size, len) == size - len - 1
CopyCnt(src, room) == IF Len(src) < room THEN Len(src) ELSE room
strlcpy(m, src, size) ==
  IF size = 0 THEN m
  ELSE LET n == CopyCnt(src, Room(size, 0)) IN StoreAt(m, 1, Append(SubSeq(src, 1, n), NUL))
strlcat(m, src, size) ==
  LET len == Len(InBuffer(m))
      n == CopyCnt(src, Room(size, len))
  IN IF size > 0 /\ len < size THEN StoreAt(m, len + 1, Append(SubSeq(src, 1, n), NUL)) ELSE m
=============================================================================
