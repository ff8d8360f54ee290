------------------------------ MODULE FirstParser ------------------------------
(***************************************************************************)
(* The first edition of the parser beside the second one: the caller of    *)
(* MemReader.tla passes each piece to both.  MParser_ReadMem of            *)
(* 11.msg_parser/first_edition wants the whole header in one piece, makes  *)
(* the message only when the first piece of the payload is there, and      *)
(* notices the end of a message only then.  When there is no memory for    *)
(* the message it drops the piece and tries again with the next one.       *)
(***************************************************************************)
EXTENDS MemReader

VARIABLES
  first,         \* the MParser of the first edition
  firstOut,      \* messages it returned
  firstRefused,  \* messages that malloc had no memory for (history)
  cut            \* the first edition has met what it cannot take: a part of a
                 \* header, a message without a payload in a piece of its own, or
                 \* no memory for a message that has a payload (history)

allVars == <<vars, first, firstOut, firstRefused, cut>>

\* MParser_Reset
Reset(p) == [p EXCEPT !.header = 0, !.need = HeaderSize, !.msg = NoMsg]

\* The message is made when the first piece of the payload is there, if malloc
\* has memory for it.
Refused(p, ok) == p.msg = NoMsg /\ (~ok \/ p.need < 0)

WithMsg(p) ==
  IF p.msg = NoMsg
    THEN [p EXCEPT !.msg = [header |-> p.cache, length |-> p.need, payload |-> Blank(p.need)]]
    ELSE p

\* Bytes of the payload.
Filled(p, mem, n, ok) ==
  IF Refused(p, ok) THEN p
  ELSE Progress(Fill(WithMsg(p), 0, mem, Least(p.need, n)), Least(p.need, n))

\* The end of a message that is not noticed.
PayloadNotReset(p, mem, n, ok) ==
  LET q == Filled(p, mem, n, ok)
  IN MemResult(q, IF q.need = 0 THEN q.msg ELSE NoMsg)

\* The payload branch, which is not reached without a byte to read.
Payload(p, mem, n, ok) ==
  LET q == Filled(p, mem, n, ok)
  IN IF n = 0 THEN MemResult(p, NoMsg)
     ELSE IF q.need = 0 THEN MemResult(Reset(q), q.msg)
     ELSE MemResult(q, NoMsg)

\* A piece that is shorter than the header is ignored.
ReadMemFirst(p, mem, n, length, ok) ==
  LET k == p.need
      q == [Fill(p, 0, mem, k) EXCEPT !.header = 1, !.need = ToInt(length)]
  IN IF p.header = 1 THEN Payload(p, mem, n, ok)
     ELSE IF n < k THEN MemResult(p, NoMsg)
     ELSE Payload(q, [i \in 0 .. n - k - 1 |-> mem[k + i]], n - k, ok)

FirstCache(p, mem, n) == IF p.header = 0 /\ n >= p.need THEN Fill(p, 0, mem, p.need).cache ELSE p.cache

\* The piece reaches the payload of a message that has not been made, and malloc
\* is asked for it in vain.
FirstRefuses(n, ok) ==
  Refused(first, ok) /\ IF first.header = 1 THEN n > 0 ELSE n > first.need

\* A piece that cuts a header, or ends with one and there is no payload.
Cuts(n) ==
  \E f \in Frames : Start[f] <= pos /\ pos < Start[f + 1] /\
    IF PLen[f] = 0 THEN pos + n <= Start[f + 1] ELSE pos + n < Start[f] + HeaderSize

ReadPiece(n) ==
  \E length \in LengthsOf(FirstCache(first, Piece(n), n)) :
  \E ok \in MallocResults(length, AllocOutcomes) :
    LET result == ReadMemFirst(first, Piece(n), n, length, ok) IN
    /\ first' = result.parser
    /\ firstOut' = IF result.msg = NoMsg THEN firstOut ELSE Append(firstOut, result.msg)
    /\ firstRefused' = IF FirstRefuses(n, ok) THEN firstRefused \cup FrameHere ELSE firstRefused
    /\ cut' = (cut \/ Cuts(n) \/ (FirstRefuses(n, ok) /\ result.parser.header = 1))

InitBoth == Init /\ first = NewParser /\ firstOut = <<>> /\ firstRefused = {} /\ cut = FALSE

NextBoth == \E n \in 1 .. Start[NFrames] : MParser_ReadMem(n) /\ ReadPiece(n)

SpecBoth == InitBoth /\ [][NextBoth]_allVars

--------------------------------------------------------------------------------
(* Properties. *)

\* As long as headers come whole, messages have a payload and the first edition has
\* memory for those that do, the two editions are in the same place of the stream,
\* and they have returned the same messages, those too that more bytes followed in
\* their piece, if malloc refused both the same ones.
EditionsAgree ==
  ~cut /\ ~astray => /\ first.header = parser.header
                    /\ first.need = parser.need
                    /\ (refused = firstRefused => firstOut = out)
================================================================================
