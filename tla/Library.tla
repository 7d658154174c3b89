------------------------------- MODULE Library -------------------------------
(***************************************************************************)
(* Calls of the library functions: a call with its arguments is made, and   *)
(* then its answer is there.  The properties compare every answer with what *)
(* the function is to compute.                                              *)
(***************************************************************************)
EXTENDS Integers, Sequences, FiniteSets, SequencesExt, FiniteSetsExt, Functions,
        Strings, Numbers, Format, Ustar

CONSTANTS Alphabet,      \* characters of the strings, NUL not among them
          MaxLen,        \* length of the strings
          MaxWidth,      \* field widths
          Printed        \* integers that are printed

VARIABLES call, done, answer
libVars == <<call, done, answer>>

ASSUME LibraryAssumption ==
  /\ Alphabet \subseteq 1 .. 255 /\ MaxLen \in Nat /\ MaxWidth \in Nat /\ Printed \subseteq Int

Texts(n) == BoundedSeq(Alphabet, n)
Call(f, args) == [f |-> f, x |-> args]
Conv(flags, width, precision) == [flags |-> flags, width |-> width, precision |-> precision]
Unused == 99

NameChars == {Dot, Slash, 97}
StringCalls ==
  \/ \E d \in 1 .. MaxLen, s \in 1 .. MaxLen, n \in 0 .. 3 : call = Call("memmove", <<d, s, n>>)
  \/ \E s \in Texts(MaxLen), t \in Texts(MaxLen - 1) : call = Call("compare", <<s, t>>)
  \/ \E s \in Texts(MaxLen + 1), d \in Texts(2) : call = Call("tokens", <<s, d>>)
  \/ \E s, t \in Texts(MaxLen - 1), n \in 0 .. MaxLen + 2 : call = Call("strlcat", <<s, t, n>>)
NumberCalls ==
  \/ \E d \in 1 .. b64 - 1 : call = Call("divide", d)
  \/ \E s \in BoundedSeq(1 .. 3, MaxLen + 3) : call = Call("sort", s)
FormatCalls ==
  \/ \E v \in Printed, f \in SUBSET Flags, w \in 0 .. MaxWidth, p \in -1 .. 3 :
       call = Call("integer", <<v, f, w, p>>)
  \/ \E f \in BoundedSeq({Minus, Plus, Space, Zero}, 2), w \in 0 .. MaxWidth, p \in -1 .. 2,
       star \in BOOLEAN, n \in 0 .. MaxWidth + 1 : call = Call("printf", <<f, w, p, star, n>>)
  \/ \E o \in 0 .. 4, n \in 0 .. 9 : call = Call("hex_dump", <<o, n>>)
  \/ \E n \in 0 .. 200 : call = Call("human", <<n>>)
UstarCalls ==
  \/ \E n \in BoundedSeq(NameChars, NameLen), t \in {Regular, Directory}, s \in {0, 7, 8, 2047} :
       call = Call("archive", <<n, t, s>>)
  \/ \E s \in [1 .. SizeLen -> {48, 55, NUL, Space, 97}] : call = Call("octal", s)

Memory0 == [i \in 1 .. MaxLen + 3 |-> i]
Buffer0 == [i \in 1 .. 2 * MaxLen + 3 |-> Unused]
\* The text of a number in a format string, or a star.
Text(n, star) == IF star THEN <<Star>> ELSE IF n = 0 THEN <<>> ELSE <<48 + n>>
FormatText(f, w, p, star) ==
  <<Percent>> \o f \o Text(w, star) \o (IF p < 0 THEN <<>> ELSE <<Dot>> \o Text(p, star)) \o <<100>>
FormatArgs(w, p, star) == (IF star THEN IF p < 0 THEN <<w>> ELSE <<w, p>> ELSE <<>>) \o <<-7>>

Answer(f, x) ==
  CASE f = "memmove" -> memmove(Memory0, x[1], x[2], x[3])
    [] f = "compare" -> <<strcmp(x[1], x[2], 1), strstr(x[1], x[2]), strpbrk(x[1], x[2]),
                          strspn(x[1], x[2])>>
    [] f = "tokens" -> Tokens(x[1], 1, x[2])
    [] f = "strlcat" -> strlcat(strlcpy(Buffer0, x[1], x[3]), x[2], x[3])
    [] f = "divide" -> [n \in 0 .. b64 - 1 |-> <<udiv64(n, x), umod64(n, x),
                                                 sdiv64(AsSigned(n), AsSigned(x))>>]
    [] f = "sort" -> sort(x)
    [] f = "integer" -> <<format_integer(Abs(x[1]), TRUE, x[1] < 0, base_d,
                                         Conv(Settled(x[2]), x[3], x[4])),
                          format_integer(Abs(x[1]), FALSE, FALSE, base_o,
                                         Conv(Settled(x[2]), x[3], x[4])),
                          format_integer(Abs(x[1]), FALSE, FALSE, base_x,
                                         Conv(Settled(x[2]), x[3], x[4]))>>
    [] f = "printf" ->
         vsnprintf(Buffer0, x[5], vprintf(FormatText(x[1], x[2], x[3], x[4]), 1,
                                          FormatArgs(x[2], x[3], x[4])))
    [] f = "hex_dump" -> hex_dump(x[1], x[2], 4)
    [] f = "human" -> HumanSize(x[1], 0, 4, 3)
    [] f = "archive" -> ustar_make_header(x[1], x[2], x[3])
    [] f = "octal" -> <<parse_octal_field(x)>>

LibInit == /\ StringCalls \/ NumberCalls \/ FormatCalls \/ UstarCalls
           /\ done = FALSE /\ answer = <<>>
Return == /\ ~ done
          /\ done' = TRUE
          /\ answer' = Answer(call.f, call.x)
          /\ UNCHANGED call
LibNext == Return
LibSpec == LibInit /\ [][LibNext]_libVars

Answered(f) == done /\ call.f = f
---------------------------------------------------------------------------
\* memmove: "which are allowed to overlap": every byte of the source, as it was before
\* the call, is at its place, and nothing else has changed.
OverlapCopied ==
  Answered("memmove") =>
    LET d == call.x[1]
        s == call.x[2]
        n == call.x[3]
    IN \A i \in DOMAIN answer :
         answer[i] = IF i \in d .. d + n - 1 THEN Memory0[s + i - d] ELSE Memory0[i]

Precedes(s, t) == \/ IsStrictPrefix(s, t)
                  \/ \E i \in 1 .. Len(s) \cap DOMAIN t :
                       /\ SubSeq(s, 1, i - 1) = SubSeq(t, 1, i - 1) /\ s[i] < t[i]
FirstOf(S) == IF S = {} THEN 0 ELSE Min(S)
\* strcmp is the lexicographic order; strstr and strpbrk return the first of all
\* matches, and strspn the longest prefix.
StringsSearched ==
  Answered("compare") =>
    LET s == call.x[1]
        t == call.x[2]
    IN /\ answer[1] = IF Precedes(s, t) THEN -1 ELSE IF s = t THEN 0 ELSE 1
       /\ answer[2] = FirstOf({i \in 1 .. Len(s) + 1 : IsPrefix(t, SubSeq(s, i, Len(s)))})
       /\ answer[3] = FirstOf({i \in DOMAIN s : s[i] \in Range(t)})
       /\ answer[4] = FirstOf({i \in DOMAIN s : s[i] \notin Range(t)} \cup {Len(s) + 1}) - 1

\* strtok_r: "The returned tokens will never be length 0"; they have no delimiters in
\* them, a delimiter or the end comes after each, and no other character is lost.
TokensSplit ==
  Answered("tokens") =>
    LET s == call.x[1]
        plain(q) == SelectSeq(q, LAMBDA c : c \notin Range(call.x[2]))
        starts == {i \in DOMAIN s : /\ s[i] \notin Range(call.x[2])
                                    /\ i = 1 \/ s[i - 1] \in Range(call.x[2])}
    IN /\ FlattenSeq(answer) = plain(s)
       /\ \A i \in DOMAIN answer : answer[i] # <<>>
       /\ Len(answer) = Cardinality(starts)

\* strlcpy and strlcat with the size of the buffer: never a byte beyond it, always a
\* terminator, and as much of the two strings as fits.
BuffersTerminated ==
  Answered("strlcat") =>
    LET n == call.x[3]
        whole == call.x[1] \o call.x[2]
        fits == IF Len(whole) < n THEN Len(whole) ELSE n - 1
    IN /\ \A i \in n + 1 .. Len(answer) : answer[i] = Unused
       /\ n > 0 => InBuffer(answer) = SubSeq(whole, 1, fits) /\ answer[fits + 1] = NUL

\* udiv64: the quotient, for every pair of operands, without a divide trap.  umod64
\* returns uint32_t: the remainder is right as far as it fits.
UnsignedDivision ==
  Answered("divide") =>
    \A n \in DOMAIN answer : /\ answer[n][1] = n \div call.x
                             /\ answer[n][2] = (n % call.x) % b32

\* sdiv64: the quotient rounded towards zero, also for the most negative dividend,
\* except the one whose quotient does not exist.
SignedDivision ==
  Answered("divide") =>
    \A m \in DOMAIN answer :
      LET n == AsSigned(m)
          d == AsSigned(call.x)
          q == Abs(n) \div Abs(d)
      IN (n # -(b64 \div 2) \/ d # -1) => answer[m][3] = IF (n < 0) = (d < 0) THEN q ELSE -q

\* sort: a sorted permutation of the array, in which binary_search then finds every
\* element that is there and no other.
SortedAndFound ==
  Answered("sort") =>
    /\ \A i \in 1 .. Len(answer) - 1 : answer[i] <= answer[i + 1]
    /\ \A v \in 1 .. 3 : Len(SelectSeq(answer, LAMBDA y : y = v))
                           = Len(SelectSeq(call.x, LAMBDA y : y = v))
    /\ \A key \in 0 .. 4 : LET p == binary_search(key, answer)
                           IN IF key \in Range(answer) THEN answer[p] = key ELSE p = 0

RECURSIVE ValueOf(_, _)
DigitValue(c) == IF c <= 57 THEN c - 48 ELSE c - 87
\* What digits, with commas between them, stand for.
ValueOf(s, base) ==
  IF s = <<>> THEN 0
  ELSE IF Last(s) = Comma THEN ValueOf(Front(s), base)
  ELSE ValueOf(Front(s), base) * base + DigitValue(Last(s))
Digital(s) == SelectSeq(s, LAMBDA c : isdigit(c) \/ c \in 97 .. 102)
\* format_integer: what is printed with any flags, width and precision reads back as
\* the same number, by atoi if there are no groups, and is never narrower than the field.
PrintedReadsBack ==
  Answered("integer") =>
    LET v == call.x[1]
        blank == v = 0 /\ call.x[4] = 0
    IN /\ Group \notin call.x[2] => atoi(answer[1]) = v
       /\ \A k \in 1 .. 3 : ValueOf(Digital(answer[k]), <<10, 8, 16>>[k]) = Abs(v)
       /\ \A k \in 1 .. 3 : Len(answer[k]) >= call.x[3]
       /\ \A k \in 1 .. 3 : Len(answer[k]) > call.x[3] => Space \notin Range(Tail(answer[k]))
       /\ (blank /\ call.x[3] = 0 /\ {Plus, Space} \cap call.x[2] = {}) => answer[1] = <<>>

\* printf: -7 under a conversion with flags, width and precision, given as digits or by
\* stars, is printed as the standard says, and vsnprintf keeps to its buffer.
PrintfInBuffer ==
  Answered("printf") =>
    LET f == Range(call.x[1])
        w == call.x[2]
        p == IF call.x[3] < 0 THEN 1 ELSE call.x[3]
        body == Dup(48, p - 1) \o <<55>>
        pad == w - 1 - Len(body)
        whole == IF Minus \in f THEN <<Minus>> \o body \o Dup(Space, pad)
                 ELSE IF Zero \in f /\ call.x[3] < 0 THEN <<Minus>> \o Dup(48, pad) \o body
                 ELSE Dup(Space, pad) \o <<Minus>> \o body
        n == call.x[5]
    IN /\ \A i \in n + 1 .. Len(answer) : answer[i] = Unused
       /\ n > 0 => InBuffer(answer) = SubSeq(whole, 1, IF Len(whole) < n THEN Len(whole) ELSE n - 1)

\* hex_dump: the lines show every byte once, in order, at the column of its offset.
DumpCoversBytes ==
  Answered("hex_dump") =>
    FlattenSeq([k \in DOMAIN answer |->
                  [i \in 1 .. answer[k].to - answer[k].from |-> answer[k].line + answer[k].from + i - 1]])
      = [i \in 1 .. call.x[2] |-> call.x[1] + i - 1]

\* print_human_readable_size: a unit that exists, and the largest that leaves 1 or more.
HumanUnits ==
  Answered("human") =>
    LET u == answer[2]
    IN /\ u \in 0 .. 2
       /\ answer[1] = call.x[1] \div 4^u
       /\ u < 2 => answer[1] < 4
       /\ u > 0 => answer[1] >= 1

\* ustar_make_header and ustar_parse_header: a header that could be made is read back
\* with the same type and size, and a name that cannot leave the directory.
ArchiveRoundTrip ==
  Answered("archive") =>
    LET r == ustar_parse_header(answer.header)
        kept == strip_antisocial_prefixes(call.x[1])
    IN /\ answer.ok <=> Len(kept) < NameLen
       /\ answer.ok => /\ r.ok /\ r.name = kept /\ r.type = call.x[2]
                       /\ r.size = IF r.type = Regular THEN call.x[3] ELSE 0
       /\ kept # <<>> /\ kept[1] # Slash
       /\ ~ IsPrefix(<<Dot, Dot, Slash>>, kept) /\ kept # <<Dot, Dot>>

\* parse_octal_field: a value is the one the digits stand for; a field without digits or
\* without an end, a bad character and a value that does not fit are refused.
OctalExact ==
  Answered("octal") =>
    LET stop == FirstOf({i \in DOMAIN call.x : call.x[i] \notin 48 .. 55})
        v == ValueOf(SubSeq(call.x, 1, stop - 1), 8)
    IN answer[1] = IF stop <= 1 \/ call.x[stop] = 97 \/ v > UlongMax THEN -1 ELSE v

\* Every call of a library function answers what the function is to compute.
LibraryAnswers ==
  /\ OverlapCopied /\ StringsSearched /\ TokensSplit /\ BuffersTerminated
  /\ UnsignedDivision /\ SignedDivision /\ SortedAndFound
  /\ PrintedReadsBack /\ PrintfInBuffer /\ DumpCoversBytes /\ HumanUnits
  /\ ArchiveRoundTrip /\ OctalExact
=============================================================================
