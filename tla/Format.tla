------------------------------- MODULE Format -------------------------------
(***************************************************************************)
(* lib/stdio.c: printf conversions, bounded output and hex dumps.           *)
(* Characters are their codes.  A conversion is the record that             *)
(* parse_conversion () fills in.  Arguments are in the range of their type. *)
(***************************************************************************)
EXTENDS Integers, Sequences, FiniteSets, SequencesExt, Strings, Numbers

Minus == 45
Plus == 43
Space == 32
Pound == 35
Zero == 48
Group == 39
Percent == 37
Star == 42
Dot == 46
Comma == 44
LowerX == 120
Flags == {Minus, Plus, Space, Pound, Zero, Group}

\* base_d, base_o and base_x; digits are codes.
base_d == [base |-> 10, x |-> 0, group |-> 3]
base_o == [base |-> 8, x |-> 0, group |-> 3]
base_x == [base |-> 16, x |-> LowerX, group |-> 4]
DigitCode(d) == IF d < 10 THEN 48 + d ELSE 97 + d - 10

\* output_dup.
Dup(ch, cnt) == [i \in 1 .. (IF cnt > 0 THEN cnt ELSE 0) |-> ch]

SignOf(c, is_signed, negative) ==
  IF ~ is_signed THEN <<>>
  ELSE IF negative THEN <<Minus>>
  ELSE IF Plus \in c.flags THEN <<Plus>>
  ELSE IF Space \in c.flags THEN <<Space>> ELSE <<>>

RECURSIVE DigitsFrom(_, _, _, _)
\* Digits, most significant first; the loop of the code makes them in reverse.
DigitsFrom(value, b, group, cnt) ==
  IF value = 0 THEN <<>>
  ELSE DigitsFrom(value \div b.base, b, group, cnt + 1)
       \o <<DigitCode(value % b.base)>>
       \o (IF group /\ cnt > 0 /\ cnt % b.group = 0 THEN <<Comma>> ELSE <<>>)

MinDigits(c) == IF c.precision < 0 THEN 1 ELSE c.precision
BufSize == 64
Digits(value, b, c) ==
  LET d == DigitsFrom(value, b, Group \in c.flags, 0)
      want == IF MinDigits(c) < BufSize - 1 THEN MinDigits(c) ELSE BufSize - 1
      p == Dup(48, want - Len(d)) \o d
  IN IF Pound \in c.flags /\ b.base = 8 /\ (p = <<>> \/ Head(p) # 48) THEN <<48>> \o p ELSE p

PadCount(c, body, x, sign) == c.width - Len(body) - (IF x THEN 2 ELSE 0) - Len(sign)
format_integer(value, is_signed, negative, b, c) ==
  LET sign == SignOf(c, is_signed, negative)
      x == Pound \in c.flags /\ value # 0 /\ b.x # 0
      body == Digits(value, b, c)
      pad == PadCount(c, body, x, sign)
  IN (IF {Minus, Zero} \cap c.flags = {} THEN Dup(Space, pad) ELSE <<>>)
     \o sign \o (IF x THEN <<48, b.x>> ELSE <<>>)
     \o (IF Zero \in c.flags THEN Dup(48, pad) ELSE <<>>)
     \o body
     \o (IF Minus \in c.flags THEN Dup(Space, pad) ELSE <<>>)

format_string(s, c) ==
  LET pad == Dup(Space, c.width - Len(s))
  IN IF Minus \in c.flags THEN s \o pad ELSE pad \o s

---------------------------------------------------------------------------
\* parse_conversion.  f is the format, i the position in it and args the arguments
\* not used yet.

RECURSIVE FlagsEnd(_, _), ReadNumber(_, _, _)
FlagsEnd(f, i) == IF CharAt(f, i) \in Flags THEN FlagsEnd(f, i + 1) ELSE i
ReadNumber(f, i, v) ==
  IF isdigit(CharAt(f, i)) THEN ReadNumber(f, i + 1, v * 10 + f[i] - 48) ELSE <<v, i>>

\* A number in the format, or a star and the next argument: value, position, arguments.
NumberOrStar(f, i, args) ==
  IF CharAt(f, i) = Star THEN <<Head(args), i + 1, Tail(args)>>
  ELSE LET n == ReadNumber(f, i, 0) IN <<n[1], n[2], args>>

\* - overrides 0, and + overrides the space.
Settled(flags) == (IF Minus \in flags THEN flags \ {Zero} ELSE flags)
                    \ (IF Plus \in flags THEN {Space} ELSE {})

\* hh, h, j, l, ll, t, z.
TypeLen(f, i) ==
  LET c == CharAt(f, i)
  IN IF c \in {104, 108} THEN IF CharAt(f, i + 1) = c THEN 2 ELSE 1
     ELSE IF c \in {106, 116, 122} THEN 1 ELSE 0

parse_conversion(f, i, args) ==
  LET j == FlagsEnd(f, i)
      flags == Settled(Range(SubSeq(f, i, j - 1)))
      w == NumberOrStar(f, j, args)
      hasPrec == CharAt(f, w[2]) = Dot
      p == IF hasPrec THEN NumberOrStar(f, w[2] + 1, w[3]) ELSE <<-1, w[2], w[3]>>
      prec == IF p[1] < 0 THEN -1 ELSE p[1]
      len == TypeLen(f, p[2])
  IN [c |-> [flags |-> (IF w[1] < 0 THEN flags \cup {Minus} ELSE flags)
                         \ (IF prec >= 0 THEN {Zero} ELSE {}),
             width |-> Abs(w[1]), precision |-> prec, type |-> SubSeq(f, p[2], p[2] + len - 1)],
      at |-> p[2] + len, args |-> p[3]]

\* __vprintf for the conversions d, u, o, x, p, c, s; a string argument is a sequence.
RECURSIVE vprintf(_, _, _)
Converted(conv, c, arg) ==
  CASE conv \in {100, 105} -> format_integer(Abs(arg), TRUE, arg < 0, base_d, c)
    [] conv = 117 -> format_integer(arg, FALSE, FALSE, base_d, c)
    [] conv = 111 -> format_integer(arg, FALSE, FALSE, base_o, c)
    [] conv = 120 -> format_integer(arg, FALSE, FALSE, base_x, c)
    [] conv = 112 -> format_integer(arg, FALSE, FALSE, base_x, [c EXCEPT !.flags = {Pound}])
    [] conv = 99 -> format_string(<<arg>>, c)
    [] conv = 115 -> format_string(IF c.precision >= 0 /\ c.precision < Len(arg)
                                   THEN SubSeq(arg, 1, c.precision) ELSE arg, c)
vprintf(f, i, args) ==
  IF i > Len(f) THEN <<>>
  ELSE IF f[i] # Percent THEN <<f[i]>> \o vprintf(f, i + 1, args)
  ELSE IF CharAt(f, i + 1) = Percent THEN <<Percent>> \o vprintf(f, i + 2, args)
  ELSE LET p == parse_conversion(f, i + 1, args)
       IN Converted(f[p.at], p.c, Head(p.args)) \o vprintf(f, p.at + 1, Tail(p.args))

\* vsnprintf into a buffer: at most buf_size - 1 characters, then the terminator.
MaxLength(buf_size) == IF buf_size > 0 THEN buf_size - 1 ELSE 0
vsnprintf(m, buf_size, out) ==
  LET n == IF Len(out) < MaxLength(buf_size) THEN Len(out) ELSE MaxLength(buf_size)
  IN IF buf_size > 0 THEN StoreAt(m, 1, Append(SubSeq(out, 1, n), NUL)) ELSE m

---------------------------------------------------------------------------
LineEnd(start, size, per_line) == IF per_line - start > size THEN start + size ELSE per_line
\* hex_dump: the lines, each the offset it shows and the columns it fills.
RECURSIVE hex_dump(_, _, _)
hex_dump(ofs, size, per_line) ==
  IF size <= 0 THEN <<>>
  ELSE LET start == ofs % per_line
           end == LineEnd(start, size, per_line)
       IN <<[line |-> ofs - start, from |-> start, to |-> end]>>
          \o hex_dump(ofs + end - start, size - (end - start), per_line)
\* print_human_readable_size: the number and the index of its unit.
RECURSIVE HumanSize(_, _, _, _)
MoreUnits(fp, units) == fp + 1 < units
HumanSize(size, fp, factor, units) ==
  IF size >= factor /\ MoreUnits(fp, units) THEN HumanSize(size \div factor, fp + 1, factor, units)
  ELSE <<size, fp>>
=============================================================================
