------------------------------ MODULE MCScanner ------------------------------
(***************************************************************************)
(* Inputs of the scanner: every text of up to five characters that matter   *)
(* for comments, and programs of two lexemes with something to skip between *)
(* them, each with the tokens it stands for.                                *)
(***************************************************************************)
EXTENDS Scanner

CONSTANT Nothing

Wholes == {"0", "007", "2147483647", "2147483648", "12345678901", "123456789"}
Fractions == {"", "0", "05", "12345678"}
Exponents == [x \in {"", "e", "e3", "E-39", "e+38", "e40", "E-37"} |->
               CASE x \in {"", "e"} -> 0 [] x = "e3" -> 3 [] x = "E-39" -> -39
                 [] x = "e+38" -> 38 [] x = "e40" -> 40 [] x = "E-37" -> -37]
\* The real whose digits are ds, the last of them at the power of ten e.
RealOf(ds, e) ==
  LET sig == Significant(ds)
      top == e + Len(sig) - 1
      kept == Trimmed(SubSeq(sig, 1, Min({8, Len(sig)})))
      zero == kept = <<>> \/ top \notin -38 .. 38
  IN [real |-> TRUE, digits |-> IF zero THEN <<>> ELSE kept, exp |-> IF zero THEN 0 ELSE top]
TooBig == {"2147483648", "12345678901"}
NumberLexemes ==
  {[w |-> n \o (IF f = "" THEN "" ELSE "." \o f) \o x,
    v |-> IF f = "" /\ x = ""
          THEN [real |-> FALSE, digits |-> IF n \in TooBig THEN <<>> ELSE Significant(Chars(n)),
                exp |-> 0]
          ELSE RealOf(Chars(n) \o Chars(f), Exponents[x] - Len(f))] :
     n \in Wholes, f \in Fractions, x \in DOMAIN Exponents}
Lexeme(w, v) ==
  [w |-> w, v |-> [word |-> v, printed |-> IF w \in Range(ReservedNumbers) THEN "" ELSE v]]
Same(S) == {Lexeme(x, x) : x \in S}
WordLexemes ==
  Same(Range(ReservedNumbers) \cup Range(OperatorNumbers) \cup Range(DelimiterNumbers)
         \cup {"a", "x1", "do1", "functio", "procedures", "abcdefghijklmno"})
    \cup {Lexeme(x, "abcdefghijklmno") : x \in {"abcdefghijklmnop", "abcdefghijklmno1"}}
StringLexemes == {Lexeme("''", ""), Lexeme("'a''b'", "a'b"), Lexeme("''''", "'"),
                  Lexeme("'What the #&*%! (*'", "What the #&*%! ")}
Seconds == Same({"end", ":="})
             \cup {Lexeme("'''a'", "'a"),
                   [w |-> "1", v |-> [real |-> FALSE, digits |-> <<"1">>, exp |-> 0]]}
Skipped == {" ", "\n", "{a}", "(*)*)", " (* b**){}"}
Strs[n \in Nat] == IF n = 0 THEN {""}
                   ELSE {s \o c : s \in Strs[n - 1], c \in {"(", "*", ")", "{", "}", "a"}}
MCTexts ==
  {[text |-> a.w \o s \o b.w \o "\n", expect |-> <<a.v, b.v>>] :
     a \in NumberLexemes \cup WordLexemes \cup StringLexemes, b \in Seconds, s \in Skipped}
    \cup {[text |-> s, expect |-> Nothing] : s \in UNION {Strs[n] : n \in 0 .. 5}}
=============================================================================
