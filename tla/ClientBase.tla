------------------------------- MODULE ClientBase -------------------------------
(***************************************************************************)
(* 19.client_base: a program that calls the address manager and divides    *)
(* lines into words, in any order.  main.cpp divides one line; its calls   *)
(* of the address manager are commented out.                               *)
(***************************************************************************)
EXTENDS AddrMgr, Utility

CONSTANTS
  Lines,      \* lines to divide
  Sep,        \* the separator
  Row,        \* rows of argv
  Col         \* columns of argv, the null included

ASSUME LineAssumption ==
  /\ Row \in Nat
  /\ Col \in Nat \ {0}
  /\ <<>> \in Lines
  /\ \A l \in Lines : l \in Seq({l[i] : i \in DOMAIN l})

VARIABLES
  line,     \* the line divided last
  argv,     \* the words of it
  refused   \* whether there was no memory for its copy (history)

lineVars == <<line, argv, refused>>
vars == <<addrVars, lineVars>>

Init == AddrInit /\ line = <<>> /\ argv = <<>> /\ refused = FALSE

DivideLine(l) ==
  \E ok \in AllocOutcomes :
    /\ line' = l
    /\ argv' = DivideByChar(l, Sep, Row, Col, ok)
    /\ refused' = (l # <<>> /\ ~ ok)
    /\ UNCHANGED addrVars

Next ==
  \/ AddrNext /\ UNCHANGED lineVars
  \/ \E l \in Lines : DivideLine(l)

Spec == Init /\ [][Next]_vars

--------------------------------------------------------------------------------
(* Properties. *)

\* A line is divided into its words, wherever and however often the separator
\* stands in it: the first Row of them, each cut to Col - 1 characters.  There are
\* as many as separators are left between them when it is formatted, and one more.  A
\* line that is not empty and for whose copy there is no memory has no words.
Divided ==
  LET words == Words(line, Sep)
      count == Cardinality(words)
      Word(w) == SubSeq(line, w[1], w[2])
  IN /\ refused => argv = <<>>
     /\ ~ refused =>
          /\ Len(argv) = IF count < Row THEN count ELSE Row
          /\ \A w \in words : Number(words, w) <= Row =>
               argv[Number(words, w)] =
                 IF Len(Word(w)) < Col THEN Word(w) ELSE SubSeq(Word(w), 1, Col - 1)
     /\ words # {} => count = CharCount(FormatByChar(line, Sep, TRUE), Sep) + 1
================================================================================
