-------------------------------- MODULE Ustar --------------------------------
(***************************************************************************)
(* lib/ustar.c: archive headers, as records of fields.  A field is a        *)
(* sequence of bytes of a fixed length.  The lengths of the fields are      *)
(* scaled with the word: NameLen is 100 and SizeLen 12 in the code.         *)
(* The fields that are the same in every header (mode, owner, time, magic,  *)
(* version) are left out; the end marker, a sector of zeros, is in Fsutil.  *)
(***************************************************************************)
EXTENDS Integers, Sequences, SequencesExt, Folds, Strings, Format

CONSTANTS NameLen, SizeLen, SumLen, UlongMax

ASSUME UstarAssumption == NameLen > 1 /\ SizeLen > 1 /\ SumLen > 1 /\ UlongMax > 0

Slash == 47
Regular == 48
Directory == 53
Bytes(n) == [i \in 1 .. n |-> NUL]
Field(n, s) == strlcpy(Bytes(n), s, n)
SumBytes(s) == FoldLeft(LAMBDA x, y : x + y, 0, s)
\* "%0wo" into a field of w + 1 bytes.
OctalField(n, v) ==
  vsnprintf(Bytes(n), n, format_integer(v, FALSE, FALSE, base_o,
              [flags |-> {Zero}, width |-> n - 1, precision |-> -1]))

\* Sum of the octets, the checksum field counted as spaces.
calculate_chksum(h) ==
  SumBytes(h.name) + SumBytes(h.size) + h.type + Space * Len(h.chksum)

RECURSIVE strip_from(_)
StartsWith(s, p) == memcmp(s, 1, p, 1, Len(p)) = 0
Antisocial(s) == \/ CharAt(s, 1) = Slash \/ StartsWith(s, <<Dot, Slash>>)
                 \/ StartsWith(s, <<Dot, Dot, Slash>>)
strip_from(s) ==
  IF Antisocial(s) THEN strip_from(SubSeq(s, strchr(s, 1, Slash) + 1, Len(s))) ELSE s
Stripped(s) == strip_from(s)
strip_antisocial_prefixes(s) ==
  LET r == Stripped(s) IN IF r = <<>> \/ r = <<Dot, Dot>> THEN <<Dot>> ELSE r

ustar_make_header(name, type, size) ==
  LET n == strip_antisocial_prefixes(name)
      h == [name |-> Field(NameLen, n), size |-> OctalField(SizeLen, size), type |-> type,
            chksum |-> Bytes(SumLen)]
  IN IF Len(n) > NameLen - 1 THEN [ok |-> FALSE, header |-> h]
     ELSE [ok |-> TRUE, header |-> [h EXCEPT !.chksum = OctalField(SumLen, calculate_chksum(h))]]

RECURSIVE octal_from(_, _, _)
Overflows(v) == v > UlongMax \div 8
\* parse_octal_field: the value, or -1.
octal_from(s, ofs, v) ==
  IF ofs > Len(s) THEN -1
  ELSE IF s[ofs] \in 48 .. 55
  THEN IF Overflows(v) THEN -1
       ELSE octal_from(s, ofs + 1, (s[ofs] - 48 + v * 8) % (UlongMax + 1))
  ELSE IF s[ofs] \in {Space, NUL} /\ ofs > 1 THEN v ELSE -1
parse_octal_field(s) == octal_from(s, 1, 0)

ustar_parse_header(h) ==
  LET sum == parse_octal_field(h.chksum)
      size == IF h.type = Regular THEN parse_octal_field(h.size) ELSE 0
  IN IF /\ sum # -1 /\ sum = calculate_chksum(h)
        /\ h.name[NameLen] = NUL /\ h.type \in {Regular, Directory}
        /\ size # -1 /\ size <= UlongMax \div 2
     THEN [ok |-> TRUE, name |-> strip_antisocial_prefixes(InBuffer(h.name)),
           type |-> h.type, size |-> size]
     ELSE [ok |-> FALSE, name |-> <<>>, type |-> 0, size |-> 0]
=============================================================================
