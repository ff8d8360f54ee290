--------------------------------- MODULE Utility --------------------------------
(***************************************************************************)
(* 19.client_base/utility.cpp: FormatByChar and DivideByChar, which divide *)
(* a line into words, and CharCount, as operators on sequences of          *)
(* characters.                                                             *)
(***************************************************************************)
EXTENDS Integers, Sequences, FiniteSets

\* src without the separators it begins with.
Skipped(src, c) ==
  LET first == CHOOSE i \in 1 .. Len(src) + 1 :
                 (i > Len(src) \/ src[i] # c) /\ \A j \in 1 .. i - 1 : src[j] = c
  IN SubSeq(src, first, Len(src))

\* One character: a separator after another one is left out.
Copy(r, x, c) ==
  IF x = c THEN IF r.flag THEN r ELSE [out |-> Append(r.out, x), flag |-> TRUE]
  ELSE [out |-> Append(r.out, x), flag |-> FALSE]

Squeezed(src, c) ==
  LET rest == Skipped(src, c)
      r[i \in 0 .. Len(rest)] ==
        IF i = 0 THEN [out |-> <<>>, flag |-> FALSE] ELSE Copy(r[i - 1], rest[i], c)
  IN r[Len(rest)]

\* The separator at the end stays.
FormatKeepsEnd(src, c) == Squeezed(src, c).out

Formatted(src, c) ==
  LET r == Squeezed(src, c) IN IF r.flag THEN SubSeq(r.out, 1, Len(r.out) - 1) ELSE r.out

\* Null for an empty line or when malloc has failed (ok): no characters either.
FormatByChar(src, c, ok) == IF ok THEN Formatted(src, c) ELSE <<>>

\* A word cut to its column, of which one character is for the null.
CutTo(word, col) == SubSeq(word, 1, IF Len(word) < col THEN Len(word) ELSE col - 1)

\* At a separator the word from j on ends, unless there are row words already.
Divide(r, i, buf, c, row, col) ==
  IF buf[i] = c /\ Len(r.argv) < row
    THEN [argv |-> Append(r.argv, CutTo(SubSeq(buf, r.j, i - 1), col)), j |-> i + 1]
    ELSE r

DivideByChar(line, c, row, col, ok) ==
  LET format == FormatByChar(line, c, ok)
      buf == Append(format, c)
      r[i \in 0 .. Len(buf)] ==
        IF i = 0 THEN [argv |-> <<>>, j |-> 1] ELSE Divide(r[i - 1], i, buf, c, row, col)
  IN IF format = <<>> THEN <<>> ELSE r[Len(buf)].argv

CharCount(s, c) == Cardinality({i \in DOMAIN s : s[i] = c})

--------------------------------------------------------------------------------
(* The reference: the words of a line are its longest parts without a separator. *)

\* The first and the last place of each word.
Words(line, c) ==
  {w \in (DOMAIN line) \X (DOMAIN line) :
     /\ w[1] <= w[2] /\ \A j \in w[1] .. w[2] : line[j] # c
     /\ w[1] = 1 \/ line[w[1] - 1] = c
     /\ w[2] = Len(line) \/ line[w[2] + 1] = c}

\* How many words there are up to word w.
Number(words, w) == Cardinality({v \in words : v[1] <= w[1]})
================================================================================
