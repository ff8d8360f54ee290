------------------------------- MODULE MsgParser -------------------------------
(***************************************************************************)
(* The incremental message parser of 11.msg_parser/second_edition, as      *)
(* operators on the parser's state.  A parser is a record                  *)
(*   header  0 while the fixed header is being collected, 1 after it       *)
(*   need    bytes still missing in the part being collected               *)
(*   cache   the header bytes collected so far                             *)
(*   msg     the half-built message, NoMsg when there is none              *)
(* A message is the header it came with, the payload length decoded from   *)
(* that header and the payload.  Regions of memory (the cache, a payload)  *)
(* are functions from 0-based offsets to bytes; what a byte is, is left to *)
(* the modules that extend this one, and NoByte is memory not written yet. *)
(* Field values other than the length are carried inside the header bytes. *)
(***************************************************************************)
EXTENDS Integers

CONSTANTS
  HeaderSize,   \* sizeof(Message) without its payload: 12 in the code
  WordSize,     \* values of an unsigned int, which a length is: 2^32
  NoByte,       \* contents of memory that was not written
  NoMsg         \* the null Message pointer

\* A memcpy of all that there is.
AllOf(a, b) == b

Least(a, b) == IF a < b THEN a ELSE b

\* Memory of n bytes whose contents nobody has written.
Blank(n) == [k \in 0 .. n - 1 |-> NoByte]

\* memcpy of the first n bytes of src to offset at of region.
Put(region, at, src, n) ==
  [k \in DOMAIN region |-> IF k \in at .. at + n - 1 THEN src[k - at] ELSE region[k]]

\* MParser_New: calloc, then InitState.
NewParser ==
  [header |-> 0, need |-> HeaderSize, cache |-> Blank(HeaderSize), msg |-> NoMsg]

\* InitState without need = FIXED_LEN.
InitKeepsNeed(p) == [p EXCEPT !.header = 0, !.msg = NoMsg]

\* InitState, which is also MParser_Reset; the cache keeps its old bytes.
InitState(p) == [p EXCEPT !.header = 0, !.need = HeaderSize, !.msg = NoMsg]

\* An unsigned int stored in an int.
ToInt(n) == IF 2 * n < WordSize THEN n ELSE n - WordSize

\* What the malloc of ToMidState says, outcomes being what it says of a size there
\* may be memory for: with a negative need the size wraps to one there is none for.
MallocResults(length, outcomes) == IF ToInt(length) < 0 THEN {FALSE} ELSE outcomes

\* ToMidState when malloc succeeds; length is what Message_N2H made of the
\* length field of the cached header.
ToMidState(p, length) ==
  [p EXCEPT !.header = 1, !.need = ToInt(length),
            !.msg = [header |-> p.cache, length |-> length, payload |-> Blank(length)]]

\* The branch taken on a complete header: the payload is next, or the parser
\* starts over when there is no memory for it.
AfterHeader(p, length, ok) == IF ok THEN ToMidState(p, length) ELSE InitState(p)

\* Size of the region being filled, and the offset the next byte goes to after
\* i bytes of the current read have arrived.
RegionSize(p) == IF p.header = 0 THEN HeaderSize ELSE p.msg.length
OffsetOfRead(p, i) == i   \* counted from the start of the region
Offset(p, i) == RegionSize(p) - p.need + i

\* n bytes of src land in the region being filled.
Fill(p, i, src, n) ==
  IF p.header = 0
    THEN [p EXCEPT !.cache = Put(@, Offset(p, i), src, n)]
    ELSE [p EXCEPT !.msg.payload = Put(@, Offset(p, i), src, n)]

\* A short read that is not counted.
ProgressLost(p, len) == p

\* need -= len, which is all a short read leaves behind.
Progress(p, len) == [p EXCEPT !.need = @ - len]

(* MParser_ReadMem of n bytes at mem.  A result is the parser left behind and  *)
(* the message returned; what follows the message in mem is not looked at.     *)

MemResult(p, msg) == [parser |-> p, msg |-> msg]

\* The payload branch whose last need is not noticed.
MemPayloadUnfinished(p, mem, n) ==
  MemResult(Progress(Fill(p, 0, mem, Least(p.need, n)), Least(p.need, n)), NoMsg)

\* The payload branch, with ToLastState and InitState.
MemPayload(p, mem, n) ==
  LET k == Least(p.need, n)
      q == Progress(Fill(p, 0, mem, k), k)
  IN IF q.need = 0 THEN MemResult(InitState(q), q.msg) ELSE MemResult(q, NoMsg)

\* The cache after the header branch.
MemCache(p, mem, n) ==
  IF p.header = 1 THEN p.cache ELSE Fill(p, 0, mem, Least(p.need, n)).cache

\* length is what a complete cache decodes to, ok what malloc says in ToMidState.
\* The recursive call of a complete header goes on with the rest of mem.
ReadMem(p, mem, n, length, ok) ==
  LET k == Least(p.need, n)
      q == Fill(p, 0, mem, k)
      next == AfterHeader(q, length, ok)
  IN IF p.header = 1 THEN MemPayload(p, mem, n)
     ELSE IF k < p.need THEN MemResult(Progress(q, k), NoMsg)
     ELSE IF ok THEN MemPayload(next, [i \in 0 .. n - k - 1 |-> mem[k + i]], n - k)
     ELSE MemResult(next, NoMsg)
================================================================================
