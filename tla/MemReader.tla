------------------------------- MODULE MemReader -------------------------------
(***************************************************************************)
(* A caller of MParser_ReadMem that has the byte stream of one peer in     *)
(* memory and passes it on in pieces, as mem_test/memtest.cpp does.  A     *)
(* piece may end anywhere, in a header or in a payload, and may reach into *)
(* the messages that follow: MParser_ReadMem returns the first message it  *)
(* completes, and the caller cannot learn that the rest was not read.  Nor *)
(* can it learn that there was no memory for a message, and that the rest  *)
(* of the piece behind the header was not read for that.                   *)
(***************************************************************************)
EXTENDS MsgParser, Sequences

CONSTANTS
  NFrames,        \* messages in the stream
  PLen,           \* the length of their payloads
  Start,          \* first stream position of each message, and the end
  AllocOutcomes,  \* results malloc may have in ToMidState
  GarbageLens     \* lengths that bytes which are no header may decode to

Frames == 0 .. NFrames - 1

ASSUME LayoutAssumption ==
  /\ HeaderSize \in Nat \ {0}
  /\ NFrames \in Nat
  /\ PLen \in [Frames -> Nat]
  /\ Start \in [0 .. NFrames -> Nat]
  /\ Start[0] = 0
  /\ \A f \in Frames : Start[f + 1] = Start[f] + HeaderSize + PLen[f]
  /\ \A f, g \in 0 .. NFrames : f < g => Start[f] < Start[g]
  /\ AllocOutcomes \subseteq BOOLEAN

\* A payload has room in an int; lengths for which malloc's size wraps to less
\* than a header are left out.
ASSUME LengthAssumption ==
  /\ WordSize \in Nat
  /\ \A f \in Frames : 2 * PLen[f] < WordSize
  /\ GarbageLens \subseteq 0 .. WordSize - HeaderSize - 1

\* n bytes of memory.  A byte is its position in the stream, or was not written.
Memory(n) == [0 .. n - 1 -> Nat \cup {NoByte}]

\* The null pointer is no message.
ASSUME NoMsgAssumption ==
  \A f \in Frames :
    NoMsg \notin [header : Memory(HeaderSize), length : {PLen[f]}, payload : Memory(PLen[f])]

VARIABLES
  pos,      \* bytes of the stream that have been passed on
  parser,   \* the MParser
  out,      \* messages returned
  refused,  \* messages that malloc had no memory for (history)
  astray    \* the end of a piece was dropped in the middle of a message (history)

vars == <<pos, parser, out, refused, astray>>

--------------------------------------------------------------------------------
HeaderBytes(f) == [k \in 0 .. HeaderSize - 1 |-> Start[f] + k]
FrameMsg(f) ==
  [header |-> HeaderBytes(f), length |-> PLen[f],
   payload |-> [k \in 0 .. PLen[f] - 1 |-> Start[f] + HeaderSize + k]]

\* Message_N2H: the payload length a complete cache decodes to.
LengthsOf(bytes) ==
  LET origins == {f \in Frames : bytes = HeaderBytes(f)}
  IN IF origins # {} THEN {PLen[f] : f \in origins} ELSE GarbageLens

Init ==
  /\ pos = 0
  /\ parser = NewParser
  /\ out = <<>>
  /\ refused = {}
  /\ astray = FALSE

\* The next n bytes, and where they end.
Piece(n) == [k \in 0 .. n - 1 |-> pos + k]
InOneFrame(n) == \E f \in Frames : Start[f] <= pos /\ pos + n <= Start[f + 1]
EndsFrame(n) == \E f \in Frames : pos + n = Start[f + 1]
FrameHere == {f \in Frames : Start[f] <= pos /\ pos < Start[f + 1]}

\* The piece completes a header, and malloc was asked for the message in vain.
Refuses(n, ok) == parser.header = 0 /\ n >= parser.need /\ ~ok

MParser_ReadMem(n) ==
  /\ pos + n <= Start[NFrames]
  /\ \E length \in LengthsOf(MemCache(parser, Piece(n), n)) :
     \E ok \in MallocResults(length, AllocOutcomes) :
       LET result == ReadMem(parser, Piece(n), n, length, ok) IN
       /\ parser' = result.parser
       /\ out' = IF result.msg = NoMsg THEN out ELSE Append(out, result.msg)
       /\ refused' = IF Refuses(n, ok) THEN refused \cup FrameHere ELSE refused
       /\ astray' = (astray \/ (~EndsFrame(n) /\ (Refuses(n, ok) \/ ~InOneFrame(n))))
  /\ pos' = pos + n

Next == \E n \in 1 .. Start[NFrames] : MParser_ReadMem(n)

Spec == Init /\ [][Next]_vars

--------------------------------------------------------------------------------
(* Properties. *)

\* However a message is cut, the piece that completes it returns it, whole,
\* whatever follows it in the piece, if there was memory for it, and no other piece
\* returns anything.
ReturnedInTime ==
  [][\A f \in Frames : ~astray /\ pos < Start[f + 1] /\ Start[f] <= pos =>
       out' = IF pos' >= Start[f + 1] /\ f \notin refused'
                THEN Append(out, FrameMsg(f)) ELSE out]_vars

\* need is what its comment says, the bytes that still complete the part being
\* parsed, the fixed header or the payload: after a piece it is what is missing
\* in the stream (msg_parser.cpp:10, first_edition/msg_parser.cpp:13), unless a
\* piece ended in the middle of a message of which it was not read, because it is
\* behind the one the piece completed or because one found no memory.  Messages
\* that lie whole in what was not read are lost, and the one that follows is not.
NeedExact ==
  \A f \in Frames : ~astray /\ Start[f] <= pos /\ pos < Start[f + 1] =>
    IF pos < Start[f] + HeaderSize
      THEN parser.header = 0 /\ parser.need = Start[f] + HeaderSize - pos
      ELSE parser.header = 1 /\ parser.need = Start[f + 1] - pos
================================================================================
