------------------------------- MODULE Scanner -------------------------------
(***************************************************************************)
(* The lexical analyzer (lexanc.c, with scanner.c, printtoken.c and the     *)
(* driver lexandr.c).  The input is a string; place is the next character,  *)
(* and each gettoken skips blanks and comments and takes one token.         *)
(*                                                                          *)
(* A real is kept as its decimal digits and its exponent, the value the      *)
(* code's multiplications by powers of ten stand for; rounding of doubles   *)
(* is left out.  Exponents have at most 9 digits and fractions at most 98,   *)
(* so that expVal does not overflow and dcl, pdcl are not read past their   *)
(* ends (lexanc.c has no test for either).                                  *)
(***************************************************************************)
EXTENDS Integers, Sequences, FiniteSets, SequencesExt, FiniteSetsExt

CONSTANTS ScanTexts,     \* the inputs: [text, expect]; expect: tokens, or Unspecified
          Unspecified

VARIABLES input, place, spans, tokens, outside, EOFFLG
scanVars == <<input, place, spans, tokens, outside, EOFFLG>>

text == input.text
Past == Len(text) + 1
Char(s, i) == SubSeq(s, i, i)
EOF == "EOF"
peekchar(p) == IF p < Past THEN Char(text, p) ELSE EOF
Ahead(p) == IF p < Past THEN p + 1 ELSE Past               \* getchar()

Blanks == {" ", "\n", "\t"}
Digit == <<"0", "1", "2", "3", "4", "5", "6", "7", "8", "9">>
DigitChars == Range(Digit)
Value(c) == CHOOSE v \in 0 .. 9 : Digit[v + 1] = c
Specials == {"+", "-", "*", "/", ":", "=", "<", ">", "^", ".", ",", ";", "(", ")", "[", "]", "{", "}"}
Letters == {"A", "B", "C", "D", "E", "F", "G", "H", "I", "J", "K", "L", "M", "N", "O",
            "P", "Q", "R", "S", "T", "U", "V", "W", "X", "Y", "Z", "a", "b", "c", "d",
            "e", "f", "g", "h", "i", "j", "k", "l", "m", "n", "o", "p", "q", "r", "s",
            "t", "u", "v", "w", "x", "y", "z"}
Alpha(c) == c \in Letters
\* CHARCLASS[EOF] is read before the array: the word there may look NUMERIC.
Numeric(c) == IF c = EOF THEN outside ELSE c \in DigitChars
InWord(c) == c # EOF /\ (Alpha(c) \/ Numeric(c))
FirstFrom(p, Test(_)) == Min({i \in p .. Past : Test(peekchar(i))} \cup {Past})
Number(digits) == FoldLeft(LAMBDA n, c : 10 * n + Value(c), 0, digits)
Chars(s) == [i \in 1 .. Len(s) |-> Char(s, i)]
---------------------------------------------------------------------------
\* The character the loop of "(* ... *)" takes for the one at i: it starts from the star
\* of the opening bracket, one character late.
CommentChar(p, i) == IF i = p + 2 THEN "*" ELSE peekchar(i)
\* Fault: the loop ends at a star, whatever comes after it.
ParenStops_star(p, i) == peekchar(i + 1) = EOF \/ CommentChar(p, i) = "*"
ParenStops(p, i) == \/ peekchar(i + 1) = EOF
                    \/ CommentChar(p, i) = "*" /\ peekchar(i + 1) = ")"
AfterParen(p) == Ahead(Ahead(Min({j \in p + 2 .. Past : ParenStops(p, j)})))
AfterBrace(p) == Ahead(FirstFrom(p + 1, LAMBDA c : c = "}"))
skipblanks[p \in 1 .. Past] ==
  LET c == peekchar(p)
  IN IF c \in Blanks THEN skipblanks[Ahead(p)]
     ELSE IF c = "{" THEN skipblanks[AfterBrace(p)]
     ELSE IF c = "(" /\ peekchar(p + 1) = "*" THEN skipblanks[AfterParen(p)]
     ELSE p
---------------------------------------------------------------------------
\* The numbers of the operators, delimiters and reserved words (token.h).
OperatorNumbers == <<"+", "-", "*", "/", ":=", "=", "<>", "<", "<=", ">=", ">", "^", ".",
                     "and", "or", "not", "div", "mod", "in">>
DelimiterNumbers == <<",", ";", ":", "(", ")", "[", "]", "..">>
ReservedNumbers == <<"array", "begin", "case", "const", "do", "downto", "else", "end", "file",
  "for", "function", "goto", "if", "label", "nil", "of", "packed", "procedure", "program",
  "record", "repeat", "set", "then", "to", "type", "until", "var", "while", "with">>
IndexIn(w, table) == CHOOSE i \in DOMAIN table : table[i] = w

OPERATOR == 0
DELIMITER == 1
RESERVED == 2
IDENTIFIERTOK == 3
STRINGTOK == 4
NUMBERTOK == 5
RESERVED_BIAS == 287
createOperator(w) == [type |-> OPERATOR, value |-> IndexIn(w, OperatorNumbers)]
createDelimiter(w) == [type |-> DELIMITER, value |-> IndexIn(w, DelimiterNumbers)]
\* The bias is taken from the token's type and not from the word's number.
createReserved(w) ==
  [type |-> RESERVED - RESERVED_BIAS, value |-> RESERVED_BIAS + IndexIn(w, ReservedNumbers)]
createIdentifier(w) == [type |-> IDENTIFIERTOK, value |-> w]
createString(w) == [type |-> STRINGTOK, value |-> w]
\* talloc's zeros, when special() knows no such symbol.
NoToken == [type |-> OPERATOR, value |-> 0]

\* The words the switch compares with, by their length.
ReservedOf(n) ==
  CASE n = 2 -> {"do", "if", "of", "to"}
    [] n = 3 -> {"end", "for", "nil", "set", "var"}
    [] n = 4 -> {"case", "else", "file", "goto", "then", "type", "with"}
    [] n = 5 -> {"array", "begin", "const", "label", "until", "while"}
    [] n \in 6 .. 9 -> {"downto", "function", "packed", "procedure", "program", "record", "repeat"}
    [] OTHER -> {}
OperatorsOf(n) == CASE n = 2 -> {"or", "in"}
                    [] n = 3 -> {"and", "not", "div", "mod"}
                    [] OTHER -> {}
WordMax == 15
KeptWord(p, e) == SubSeq(text, p, (IF e - p > WordMax THEN p + WordMax ELSE e) - 1)
\* numericFlag: a digit among the characters peeked at while the word was taken.
numericFlag(p, n) == \E i \in p + 1 .. p + n : Numeric(peekchar(i))
identifier(p) ==
  LET e == FirstFrom(p + 1, LAMBDA c : ~ InWord(c))
      w == KeptWord(p, e)
  IN <<CASE numericFlag(p, Len(w)) -> createIdentifier(w)
         [] w \in ReservedOf(Len(w)) -> createReserved(w)
         [] w \in OperatorsOf(Len(w)) -> createOperator(w)
         [] OTHER -> createIdentifier(w), e>>

\* The end of the quoted string that opens at p, its doubled apostrophes counted as one.
Doubled(p) == peekchar(p) = "'" /\ peekchar(p + 1) = "'"
QuoteFrom[p \in 1 .. Past] ==
  IF p = Past \/ (peekchar(p) = "'" /\ ~ Doubled(p)) THEN <<"", Ahead(p)>>
  ELSE LET q == IF Doubled(p) THEN p + 1 ELSE p
           rest == QuoteFrom[q + 1]
       IN <<peekchar(q) \o rest[1], rest[2]>>
getstring(p) ==
  LET r == QuoteFrom[Ahead(p)]
  IN <<createString(SubSeq(r[1], 1, Min({Len(r[1]), WordMax}))), r[2]>>

TwoChars == {":=", "<>", "<=", ">=", ".."}
special(p) ==
  LET one == peekchar(p)
      two == IF p + 1 < Past THEN SubSeq(text, p, p + 1) ELSE one
      w == IF two \in TwoChars THEN two ELSE one
  IN <<CASE w \in Range(OperatorNumbers) -> createOperator(w)
         [] w \in Range(DelimiterNumbers) -> createDelimiter(w)
         [] OTHER -> NoToken, p + Len(w)>>
---------------------------------------------------------------------------
LeadingZeros(ds) == Min({i \in DOMAIN ds : ds[i] # "0"} \cup {Len(ds) + 1}) - 1
Significant(ds) == SubSeq(ds, LeadingZeros(ds) + 1, Len(ds))
Trimmed(ds) == SubSeq(ds, 1, Max({i \in DOMAIN ds : ds[i] # "0"} \cup {0}))
IntMax == <<"2", "1", "4", "7", "4", "8", "3", "6", "4", "7">>
Exceeds(ds, limit) == \E i \in DOMAIN limit : /\ SubSeq(ds, 1, i - 1) = SubSeq(limit, 1, i - 1)
                                              /\ Value(ds[i]) > Value(limit[i])
intErrorFlag(ds) == Len(ds) > Len(IntMax) \/ (Len(ds) = Len(IntMax) /\ Exceeds(ds, IntMax))
Carried == 8
MaxExponent == 38
INTEGERTOK(ds) == [type |-> NUMBERTOK, value |-> [real |-> FALSE, digits |-> ds, exp |-> 0]]
REALTOK(ds, e) == [type |-> NUMBERTOK, value |-> [real |-> TRUE, digits |-> ds, exp |-> e]]
\* The digits that reach dnum: at most eight, counted from the first that is not zero.
Mantissa(whole, frac) == LET ds == Significant(whole \o frac)
                         IN Trimmed(SubSeq(ds, 1, Min({Len(ds), Carried})))
\* The power of ten of the first digit of dnum.
firstSigDigLoc(whole, frac) ==
  Len(Significant(whole)) - 1 - (IF Significant(whole) = <<>> THEN LeadingZeros(frac) ELSE 0)
number(p) ==
  LET NotDigit(c) == c = EOF \/ ~ Numeric(c)
      point == FirstFrom(p, NotDigit)
      fraction == peekchar(point) = "." /\ Numeric(peekchar(point + 1))
      mark == IF fraction THEN FirstFrom(point + 1, NotDigit) ELSE point
      scaled == peekchar(mark) \in {"e", "E"}
      signed == scaled /\ peekchar(mark + 1) \in {"+", "-"}
      exponent == IF signed THEN mark + 2 ELSE IF scaled THEN mark + 1 ELSE mark
      end == IF scaled THEN FirstFrom(exponent, NotDigit) ELSE mark
      whole == SubSeq(Chars(text), p, point - 1)
      frac == SubSeq(Chars(text), point + 1, mark - 1)
      expVal == (IF signed /\ peekchar(mark + 1) = "-" THEN -1 ELSE 1)
                  * Number(SubSeq(Chars(text), exponent, end - 1))
      net == expVal + firstSigDigLoc(whole, frac)
      dnum == Mantissa(whole, frac)
  IN <<IF fraction \/ scaled
       THEN IF net > MaxExponent \/ net < - MaxExponent \/ dnum = <<>>
            THEN REALTOK(<<>>, 0) ELSE REALTOK(dnum, net)
       ELSE IF intErrorFlag(Significant(whole)) THEN INTEGERTOK(<<>>)
       ELSE INTEGERTOK(Significant(whole)), end>>
---------------------------------------------------------------------------
ScanInit == /\ input \in ScanTexts
            /\ place = 1 /\ spans = <<>> /\ tokens = <<>> /\ EOFFLG = FALSE
            /\ outside \in BOOLEAN
\* gettoken() and the loop of testscanner() around it.
gettoken ==
  LET p == skipblanks[place]
      c == peekchar(p)
      r == CASE Alpha(c) -> identifier(p)
             [] c \in DigitChars -> number(p)
             [] c = "'" -> getstring(p)
             [] OTHER -> special(p)
  IN /\ ~ EOFFLG
     /\ IF c = EOF THEN /\ EOFFLG' = TRUE /\ place' = p
                        /\ UNCHANGED <<spans, tokens>>
        ELSE /\ tokens' = Append(tokens, r[1]) /\ spans' = Append(spans, <<p, r[2]>>) /\ place' = r[2]
             /\ UNCHANGED EOFFLG
     /\ UNCHANGED <<input, outside>>
ScanNext == gettoken
ScanSpec == ScanInit /\ [][ScanNext]_scanVars

\* printtoken's name of the token.
opprnt == <<"+", "-", "*", "/", ":=", "=", "<>", "<", "<=", ">=", ">", "^", ".", "and", "or",
            "not", "div", "mod", "in", "if", "goto", "progn", "label", "funcall", "aref",
            "program", "float">>
delprnt == <<",", ";", ":", "(", ")", "[", "]", "..">>
resprnt == <<"array", "begin", "case", "const", "do", "downto", "else", "end", "file", "for",
             "function", "goto", "if", "label", "nil", "of", "packed", "procedure", "program",
             "record", "repeat", "set", "then", "to", "type", "until", "var", "while", "with">>
Silent == ""
\* printtoken has no case for the type that createReserved gives, and prints nothing.
printtoken(t) == CASE t.type = OPERATOR -> IF t.value = 0 THEN " " ELSE opprnt[t.value]
                   [] t.type = DELIMITER -> delprnt[t.value]
                   [] t.type = RESERVED -> resprnt[t.value]
                   [] t.type \in {IDENTIFIERTOK, STRINGTOK} -> t.value
                   [] OTHER -> Silent
---------------------------------------------------------------------------
\* A program written as lexemes with blanks or comments between them is scanned to those
\* lexemes: operators, delimiters, words and strings print as they were written, the last two
\* cut to 15 characters, integers above 2147483647 become 0, and a real is its first eight
\* significant digits at its power of ten, or 0 when that is beyond 38.  A reserved word
\* gives a token with its number of token.h, bias included, that printtoken passes over.  A
\* word that the end of the file cuts short is left out: the code then reads CHARCLASS[EOF].
LexemesScanned ==
  EOFFLG /\ input.expect # Unspecified =>
    LET AsRead(t) ==
          CASE t.type = NUMBERTOK -> t.value
            [] t.type = RESERVED - RESERVED_BIAS ->
                 [word |-> resprnt[t.value - RESERVED_BIAS], printed |-> printtoken(t)]
            [] OTHER -> [word |-> printtoken(t), printed |-> printtoken(t)]
    IN [i \in DOMAIN tokens |-> AsRead(tokens[i])] = input.expect

\* Where the comment or blank that starts at p ends, and p when none starts there.
CommentEnd[p \in 1 .. Past] ==
  LET stops == IF peekchar(p) = "{" THEN {i + 1 : i \in {j \in p + 1 .. Len(text) : peekchar(j) = "}"}}
               ELSE {i + 2 : i \in {j \in p + 2 .. Len(text) - 1 : SubSeq(text, j, j + 1) = "*)"}}
  IN IF peekchar(p) \in Blanks THEN p + 1
     ELSE IF peekchar(p) = "{" \/ SubSeq(text, p, Min({p + 1, Len(text)})) = "(*"
     THEN Min(stops \cup {Past}) ELSE p
\* skipblanks() "Skip blanks, whitespace and comments": no token begins inside of a comment,
\* and no comment hides text that follows it.  The exception is a comment whose second
\* character is ")", which the code takes for its end.
CommentsSkipped ==
  LET RECURSIVE Token(_)
      Token(p) == IF p = Past \/ CommentEnd[p] = p THEN p ELSE Token(CommentEnd[p])
      Opens(p) == SubSeq(text, p, Min({p + 1, Len(text)})) = "(*"
      early == \E p \in 1 .. Len(text) : /\ Opens(p) /\ peekchar(p + 2) # "*"
                                         /\ peekchar(p + 3) = ")"
      After(i) == Token(IF i = 0 THEN 1 ELSE spans[i][2])
  IN early \/ /\ \A i \in DOMAIN spans : spans[i][1] = After(i - 1)
              /\ EOFFLG => After(Len(spans)) = Past

\* gettoken () finds the lexemes of a program, and nothing in its comments.
ProgramScanned == LexemesScanned /\ CommentsSkipped
=============================================================================
