--------------------------- MODULE FirstParserProofs ---------------------------
(***************************************************************************)
(* Proofs about MemReader.tla and FirstParser.tla, for every stream of     *)
(* messages, every header size, every way to cut the stream, and whatever  *)
(* malloc says.                                                            *)
(*                                                                         *)
(* The inductive invariants say what either parser holds of the message    *)
(* the stream is in, byte for byte, for as long as the caller has not gone *)
(* astray.  One lemma per branch of MParser_ReadMem carries them on.       *)
(***************************************************************************)
EXTENDS FirstParser, SequenceTheorems, TLAPS

--------------------------------------------------------------------------------
(* What a parser holds. *)

\* The first n bytes of a region are those of the stream that begin at from.
Stored(region, size, from, n) ==
  region \in Memory(size) /\ \A k \in 0 .. n - 1 : region[k] = from + k

Partial(f, y) == [header |-> HeaderBytes(f), length |-> PLen[f], payload |-> y]

\* A parser at a position in the header of a message, or in its payload.
InHeader(p, f, at) ==
  \E c : /\ Stored(c, HeaderSize, Start[f], at - Start[f])
         /\ p = [header |-> 0, need |-> (Start[f] + HeaderSize) - at, cache |-> c, msg |-> NoMsg]

InPayload(p, f, at) ==
  \E c, y : /\ c \in Memory(HeaderSize)
            /\ Stored(y, PLen[f], Start[f] + HeaderSize, at - Start[f] - HeaderSize)
            /\ p = [header |-> 1, need |-> Start[f + 1] - at, cache |-> c, msg |-> Partial(f, y)]

Held(p, f, at) == IF at < Start[f] + HeaderSize THEN InHeader(p, f, at) ELSE InPayload(p, f, at)

\* A parser between two messages.
Fresh(p) ==
  \E c \in Memory(HeaderSize) :
    p = [header |-> 0, need |-> HeaderSize, cache |-> c, msg |-> NoMsg]

\* The message the stream is in, NFrames at the end.
Place(f) == Start[f] <= pos /\ IF f = NFrames THEN pos = Start[f] ELSE pos < Start[f + 1]

\* Messages of which the stream has nothing more.
Behind(messages) == \A g \in messages : g \in Frames /\ Start[g + 1] <= pos

StreamInv ==
  /\ pos \in 0 .. Start[NFrames]
  /\ ~astray => /\ \E f \in 0 .. NFrames : Place(f) /\ Held(parser, f, pos)
                /\ Behind(refused)

--------------------------------------------------------------------------------
(* The stream. *)

\* A message, its place in the stream and its length.
LEMMA FrameFacts ==
  ASSUME NEW f \in Frames
  PROVE  /\ f \in 0 .. NFrames /\ f + 1 \in 0 .. NFrames /\ f # NFrames
         /\ Start[f] \in Nat /\ Start[f + 1] \in Nat /\ PLen[f] \in Nat
         /\ Start[f + 1] = Start[f] + HeaderSize + PLen[f]
<1>1. f \in 0 .. NFrames /\ f + 1 \in 0 .. NFrames /\ f # NFrames
  BY LayoutAssumption DEF Frames
<1> QED
  BY <1>1, LayoutAssumption

\* Messages do not overlap.
LEMMA FramesApart ==
  ASSUME NEW f \in Frames, NEW g \in 0 .. NFrames, Start[g] < Start[f + 1]
  PROVE  g <= f
<1>1. f + 1 \in 0 .. NFrames /\ f \in Nat /\ g \in Nat
  BY FrameFacts, LayoutAssumption DEF Frames
<1>2. ASSUME f + 1 <= g PROVE FALSE
  <2>1. Start[g] \in Nat /\ Start[f + 1] \in Nat
    BY <1>1, LayoutAssumption
  <2>2. f + 1 = g \/ f + 1 < g
    BY <1>1, <1>2
  <2>3. f + 1 < g => Start[f + 1] < Start[g]
    BY <1>1, LayoutAssumption
  <2> QED
    BY <2>1, <2>2, <2>3
<1> QED
  BY <1>1, <1>2

\* The place is that of one message only.
LEMMA OnePlace ==
  ASSUME pos \in Nat, NEW f \in 0 .. NFrames, Place(f),
         NEW g \in Frames, Start[g] <= pos, pos < Start[g + 1]
  PROVE  f = g
<1>1. Start[f] \in Nat /\ Start[g] \in Nat /\ Start[g + 1] \in Nat
  BY FrameFacts, LayoutAssumption
<1>2. f <= g /\ f \in Nat /\ g \in Nat
  <2>1. Start[f] < Start[g + 1]
    BY <1>1 DEF Place
  <2> QED
    BY <2>1, FramesApart DEF Frames
<1>3. f \in Frames
  BY <1>2, LayoutAssumption DEF Frames
<1>4. g <= f
  <2>1. Start[g] < Start[f + 1] /\ Start[f + 1] \in Nat
    BY <1>1, <1>3, FrameFacts DEF Place
  <2>2. g \in 0 .. NFrames
    BY FrameFacts
  <2> QED
    BY <1>3, <2>1, <2>2, FramesApart
<1> QED
  BY <1>2, <1>4

\* Also at the end of the stream.
LEMMA SamePlace ==
  ASSUME pos \in Nat, NEW f \in 0 .. NFrames, Place(f), NEW g \in 0 .. NFrames, Place(g)
  PROVE  f = g
<1>1. Start[f] \in Nat /\ Start[g] \in Nat /\ NFrames \in Nat
  BY LayoutAssumption
<1>2. ASSUME NEW h \in 0 .. NFrames, h # NFrames, Place(h) PROVE h \in Frames /\ Start[h] <= pos /\ pos < Start[h + 1]
  BY <1>1, <1>2 DEF Place, Frames
<1> QED
  BY <1>2, OnePlace

\* A whole header decodes to the length of its own payload.
LEMMA HeaderDecodes ==
  ASSUME NEW f \in Frames
  PROVE  LengthsOf(HeaderBytes(f)) = {PLen[f]}
<1>1. ASSUME NEW g \in Frames, HeaderBytes(f) = HeaderBytes(g) PROVE g = f
  <2>1. 0 \in 0 .. HeaderSize - 1
    BY LayoutAssumption
  <2>2. HeaderBytes(f)[0] = Start[f] + 0 /\ HeaderBytes(g)[0] = Start[g] + 0
    BY <2>1 DEF HeaderBytes
  <2>3. Start[f] = Start[g]
    BY <1>1, <2>2, FrameFacts
  <2>4. f \in 0 .. NFrames /\ g \in 0 .. NFrames /\ f \in Int /\ g \in Int /\ Start[f] \in Int
    BY FrameFacts DEF Frames
  <2>5. ~ (f < g) /\ ~ (g < f)
    BY <2>3, <2>4, LayoutAssumption
  <2> QED
    BY <2>4, <2>5
<1>2. {g \in Frames : HeaderBytes(f) = HeaderBytes(g)} = {f}
  BY <1>1
<1> QED
  BY <1>2 DEF LengthsOf

\* An int has room for the length of a message.
LEMMA PayloadInt == \A f \in Frames : ToInt(PLen[f]) = PLen[f]
  BY LengthAssumption DEF ToInt

LEMMA MallocResultsType == \A length : MallocResults(length, AllocOutcomes) \subseteq BOOLEAN
  BY LayoutAssumption DEF MallocResults

LEMMA BlankMemory == \A n \in Nat : Blank(n) \in Memory(n)
  BY DEF Blank, Memory

\* Bytes of the stream are stored behind those that are there.
LEMMA PutStored ==
  ASSUME NEW size \in Nat, NEW from \in Nat, NEW held \in Nat, NEW n \in Nat, held + n <= size,
         NEW region, Stored(region, size, from, held),
         NEW src, \A k \in 0 .. n - 1 : src[k] = from + held + k
  PROVE  Stored(Put(region, held, src, n), size, from, held + n)
<1> DEFINE new == Put(region, held, src, n)
<1>1. region \in [0 .. size - 1 -> Nat \cup {NoByte}] /\ \A k \in 0 .. held - 1 : region[k] = from + k
  BY DEF Stored, Memory
<1>2. /\ DOMAIN new = 0 .. size - 1
      /\ new = [k \in 0 .. size - 1 |-> IF k \in held .. held + n - 1 THEN src[k - held] ELSE region[k]]
  BY <1>1 DEF Put
<1>3. ASSUME NEW k \in held .. held + n - 1 PROVE k \in 0 .. size - 1 /\ new[k] = from + k
  <2>1. k - held \in 0 .. n - 1 /\ k \in 0 .. size - 1 /\ from + held + (k - held) = from + k
    OBVIOUS
  <2>2. src[k - held] = from + k
    BY <2>1
  <2> QED
    BY <1>2, <2>1, <2>2
<1>4. ASSUME NEW k \in 0 .. size - 1, k \notin held .. held + n - 1 PROVE new[k] = region[k]
  BY <1>2, <1>4
<1> HIDE DEF new
<1>5. new \in Memory(size)
  <2>1. \A k \in held .. held + n - 1 : from + k \in Nat
    OBVIOUS
  <2>2. \A k \in 0 .. size - 1 : new[k] \in Nat \cup {NoByte}
    BY <1>1, <1>3, <1>4, <2>1
  <2>3. new = [k \in 0 .. size - 1 |-> new[k]]
    BY <1>2 DEF new
  <2> QED
    BY <2>2, <2>3 DEF Memory
<1>6. ASSUME NEW k \in 0 .. held + n - 1 PROVE new[k] = from + k
  <2>1. CASE k < held
    BY <1>1, <1>4, <2>1
  <2>2. CASE ~ (k < held)
    BY <1>3, <2>2
  <2> QED
    BY <2>1, <2>2
<1> QED
  BY <1>5, <1>6 DEF new, Stored

\* A region that is full holds the header, or the payload.
LEMMA WholeHeader ==
  ASSUME NEW f \in Frames, NEW c, Stored(c, HeaderSize, Start[f], HeaderSize)
  PROVE  c = HeaderBytes(f)
  BY DEF Stored, Memory, HeaderBytes

LEMMA WholePayload ==
  ASSUME NEW f \in Frames, NEW y, Stored(y, PLen[f], Start[f] + HeaderSize, PLen[f])
  PROVE  Partial(f, y) = FrameMsg(f)
<1>1. y = [k \in 0 .. PLen[f] - 1 |-> Start[f] + HeaderSize + k]
  BY DEF Stored, Memory
<1> QED
  BY <1>1 DEF Partial, FrameMsg

LEMMA HeaderMemory == \A f \in Frames : HeaderBytes(f) \in Memory(HeaderSize)
<1> TAKE f \in Frames
<1>1. \A k \in 0 .. HeaderSize - 1 : Start[f] + k \in Nat
  BY FrameFacts, LayoutAssumption
<1> QED
  BY <1>1 DEF HeaderBytes, Memory

\* A message, in part or whole, is not the null pointer.
LEMMA PartialIsMessage ==
  ASSUME NEW f \in Frames, NEW y \in Memory(PLen[f])
  PROVE  Partial(f, y) # NoMsg
<1>1. HeaderBytes(f) \in Memory(HeaderSize)
  BY HeaderMemory
<1>2. Partial(f, y) \in [header : Memory(HeaderSize), length : {PLen[f]}, payload : Memory(PLen[f])]
  BY <1>1 DEF Partial
<1> QED
  BY <1>2, NoMsgAssumption

LEMMA FrameIsMessage == \A f \in Frames : FrameMsg(f) # NoMsg
<1> TAKE f \in Frames
<1> DEFINE y == [k \in 0 .. PLen[f] - 1 |-> Start[f] + HeaderSize + k]
<1>1. y \in Memory(PLen[f]) /\ FrameMsg(f) = Partial(f, y)
  BY FrameFacts, LayoutAssumption DEF Memory, FrameMsg, Partial
<1> QED
  BY <1>1, PartialIsMessage

--------------------------------------------------------------------------------
(* MParser_ReadMem of the second edition. *)

\* Bytes of the stream in memory.
Bytes(mem, at, n) == \A i \in 0 .. n - 1 : mem[i] = at + i

\* The parsers are records of these four fields.
Shape(p) == p = [header |-> p.header, need |-> p.need, cache |-> p.cache, msg |-> p.msg]

LEMMA InitStateIs ==
  ASSUME NEW p, Shape(p)
  PROVE  InitState(p) = [header |-> 0, need |-> HeaderSize, cache |-> p.cache, msg |-> NoMsg]
<1>1. InitState(p) = [p EXCEPT !.header = 0, !.need = HeaderSize, !.msg = NoMsg]
  BY DEF InitState
<1> QED
  BY <1>1 DEF Shape

LEMMA ToMidStateIs ==
  ASSUME NEW p, Shape(p), NEW length
  PROVE  ToMidState(p, length) =
           [header |-> 1, need |-> ToInt(length), cache |-> p.cache,
            msg |-> [header |-> p.cache, length |-> length, payload |-> Blank(length)]]
<1> DEFINE m == [header |-> p.cache, length |-> length, payload |-> Blank(length)]
<1>1. ToMidState(p, length) = [p EXCEPT !.header = 1, !.need = ToInt(length), !.msg = m]
  BY DEF ToMidState
<1> HIDE DEF m
<1>2. ToMidState(p, length) = [header |-> 1, need |-> ToInt(length), cache |-> p.cache, msg |-> m]
  BY <1>1 DEF Shape
<1> QED
  BY <1>2 DEF m

\* The header branch copies to the end of the cache.
LEMMA HeaderFill ==
  ASSUME NEW f \in Frames, NEW at \in Nat, Start[f] <= at, NEW p, InHeader(p, f, at),
         NEW k \in Nat, at + k <= Start[f] + HeaderSize, NEW mem, Bytes(mem, at, k)
  PROVE  \E c : /\ Stored(c, HeaderSize, Start[f], (at + k) - Start[f])
                /\ Fill(p, 0, mem, k) =
                     [header |-> 0, need |-> (Start[f] + HeaderSize) - at, cache |-> c, msg |-> NoMsg]
<1> DEFINE need == (Start[f] + HeaderSize) - at
           held == at - Start[f]
<1>1. PICK c : /\ Stored(c, HeaderSize, Start[f], held)
               /\ p = [header |-> 0, need |-> need, cache |-> c, msg |-> NoMsg]
  BY DEF InHeader
<1>2. /\ held \in Nat /\ HeaderSize \in Nat /\ Start[f] \in Nat /\ held + k <= HeaderSize
      /\ HeaderSize - need + 0 = held /\ held + k = (at + k) - Start[f] /\ Start[f] + held = at
  <2>1. Start[f] \in Nat /\ HeaderSize \in Nat
    BY FrameFacts, LayoutAssumption
  <2> QED
    BY <2>1
<1>3. Offset(p, 0) = held
  BY <1>1, <1>2 DEF Offset, RegionSize
<1>4. Fill(p, 0, mem, k) = [header |-> 0, need |-> need, cache |-> Put(c, held, mem, k), msg |-> NoMsg]
  BY <1>1, <1>3 DEF Fill
<1> HIDE DEF need, held
<1>5. Stored(Put(c, held, mem, k), HeaderSize, Start[f], held + k)
  <2>1. \A i \in 0 .. k - 1 : mem[i] = Start[f] + held + i
    BY <1>2 DEF Bytes
  <2> QED
    BY <1>1, <1>2, <2>1, PutStored
<1> QED
  BY <1>2, <1>4, <1>5 DEF need

\* The payload branch copies to the end of the payload.
LEMMA PayloadFill ==
  ASSUME NEW f \in Frames, NEW at \in Nat, Start[f] + HeaderSize <= at, NEW p, InPayload(p, f, at),
         NEW k \in Nat, at + k <= Start[f + 1], NEW mem, Bytes(mem, at, k)
  PROVE  /\ InPayload(Progress(Fill(p, 0, mem, k), k), f, at + k)
         /\ p.need = Start[f + 1] - at /\ p.header = 1
<1> DEFINE need == Start[f + 1] - at
           from == Start[f] + HeaderSize
           held == at - Start[f] - HeaderSize
<1>1. PICK c, y : /\ c \in Memory(HeaderSize)
                  /\ Stored(y, PLen[f], from, held)
                  /\ p = [header |-> 1, need |-> need, cache |-> c, msg |-> Partial(f, y)]
  BY DEF InPayload
<1>2. /\ held \in Nat /\ PLen[f] \in Nat /\ from \in Nat /\ held + k <= PLen[f]
      /\ PLen[f] - need + 0 = held /\ held + k = (at + k) - Start[f] - HeaderSize /\ from + held = at
      /\ need - k = Start[f + 1] - (at + k)
  <2>1. /\ Start[f] \in Nat /\ HeaderSize \in Nat /\ PLen[f] \in Nat
        /\ Start[f + 1] = Start[f] + HeaderSize + PLen[f]
    BY FrameFacts, LayoutAssumption
  <2> QED
    BY <2>1
<1>3. Offset(p, 0) = held
  BY <1>1, <1>2 DEF Offset, RegionSize, Partial
<1> DEFINE new == Put(y, held, mem, k)
<1>4. Fill(p, 0, mem, k) = [header |-> 1, need |-> need, cache |-> c, msg |-> Partial(f, new)]
  BY <1>1, <1>3 DEF Fill, Partial
<1>5. p.need = need /\ p.header = 1
  BY <1>1
<1> HIDE DEF need, held, from
<1>6. Stored(new, PLen[f], from, held + k)
  <2>1. \A i \in 0 .. k - 1 : mem[i] = from + held + i
    BY <1>2 DEF Bytes
  <2> QED
    BY <1>1, <1>2, <2>1, PutStored
<1> HIDE DEF new
<1>7. Progress(Fill(p, 0, mem, k), k) =
        [header |-> 1, need |-> need - k, cache |-> c, msg |-> Partial(f, new)]
  BY <1>4 DEF Progress
<1>8. InPayload(Progress(Fill(p, 0, mem, k), k), f, at + k)
  <2>1. Stored(new, PLen[f], Start[f] + HeaderSize, (at + k) - Start[f] - HeaderSize)
    BY <1>2, <1>6 DEF from
  <2>2. need - k = Start[f + 1] - (at + k)
    BY <1>2
  <2> QED
    BY <1>1, <1>7, <2>1, <2>2 DEF InPayload
<1> QED
  BY <1>5, <1>8 DEF need

\* The payload branch returns the message with its last byte, whatever follows it.
LEMMA MemPayloadStep ==
  ASSUME NEW f \in Frames, NEW at \in Nat, Start[f] + HeaderSize <= at, at <= Start[f + 1],
         NEW p, InPayload(p, f, at), NEW n \in Nat, NEW mem, Bytes(mem, at, n)
  PROVE  LET result == MemPayload(p, mem, n) IN
         IF at + n < Start[f + 1]
           THEN result.msg = NoMsg /\ InPayload(result.parser, f, at + n)
           ELSE result.msg = FrameMsg(f) /\ Fresh(result.parser)
<1> DEFINE need == Start[f + 1] - at
           k == Least(need, n)
           q == Progress(Fill(p, 0, mem, k), k)
<1>1. /\ Start[f] \in Nat /\ Start[f + 1] \in Nat /\ PLen[f] \in Nat /\ HeaderSize \in Nat
      /\ Start[f + 1] = Start[f] + HeaderSize + PLen[f] /\ need \in Nat
  BY FrameFacts, LayoutAssumption
<1>2. k \in Nat /\ k <= n /\ at + k <= Start[f + 1] /\ (IF at + n < Start[f + 1] THEN k = n ELSE k = need)
  BY <1>1 DEF Least
<1>3. Bytes(mem, at, k)
  BY <1>2 DEF Bytes
<1>4. p.need = need
  BY <1>1, PayloadFill, 0 \in Nat, at + 0 <= Start[f + 1], Bytes(mem, at, 0) DEF Bytes
<1>5. InPayload(q, f, at + k)
  BY <1>2, <1>3, PayloadFill
<1>6. MemPayload(p, mem, n) = IF q.need = 0 THEN MemResult(InitState(q), q.msg) ELSE MemResult(q, NoMsg)
  BY <1>4 DEF MemPayload
<1> HIDE DEF q, k, need
<1>7. PICK c, y : /\ c \in Memory(HeaderSize)
                  /\ Stored(y, PLen[f], Start[f] + HeaderSize, (at + k) - Start[f] - HeaderSize)
                  /\ q = [header |-> 1, need |-> Start[f + 1] - (at + k), cache |-> c, msg |-> Partial(f, y)]
  BY <1>5 DEF InPayload
<1>8. CASE at + n < Start[f + 1]
  <2>1. k = n /\ q.need = Start[f + 1] - (at + k)
    BY <1>2, <1>7, <1>8
  <2>2. q.need # 0
    BY <1>1, <1>8, <2>1
  <2> QED
    BY <1>5, <1>6, <1>8, <2>1, <2>2 DEF MemResult
<1>9. CASE ~ (at + n < Start[f + 1])
  <2>1. q.need = 0 /\ (at + k) - Start[f] - HeaderSize = PLen[f]
    <3>1. k = Start[f + 1] - at /\ q.need = Start[f + 1] - (at + k)
      BY <1>2, <1>7, <1>9 DEF need
    <3> QED
      BY <1>1, <3>1
  <2>2. q.msg = FrameMsg(f)
    BY <1>7, <2>1, WholePayload
  <2>3. Fresh(InitState(q))
    <3>1. InitState(q) = [header |-> 0, need |-> HeaderSize, cache |-> c, msg |-> NoMsg]
      BY <1>7, InitStateIs DEF Shape
    <3> QED
      BY <1>7, <3>1 DEF Fresh
  <2> QED
    BY <1>6, <1>9, <2>1, <2>2, <2>3 DEF MemResult
<1> QED
  BY <1>8, <1>9

\* A message with nothing of its payload.
LEMMA EmptyPayload ==
  ASSUME NEW f \in Frames, NEW p,
         p = [header |-> 1, need |-> PLen[f], cache |-> HeaderBytes(f), msg |-> Partial(f, Blank(PLen[f]))]
  PROVE  InPayload(p, f, Start[f] + HeaderSize)
<1> DEFINE at == Start[f] + HeaderSize
           y == Blank(PLen[f])
<1>1. PLen[f] = Start[f + 1] - at /\ at - Start[f] - HeaderSize = 0
  <2>1. /\ Start[f] \in Nat /\ HeaderSize \in Nat /\ PLen[f] \in Nat
        /\ Start[f + 1] = Start[f] + HeaderSize + PLen[f]
    BY FrameFacts, LayoutAssumption
  <2> QED
    BY <2>1
<1>2. Stored(y, PLen[f], at, 0)
  BY BlankMemory, FrameFacts DEF Stored
<1>3. HeaderBytes(f) \in Memory(HeaderSize)
  BY HeaderMemory
<1> HIDE DEF at, y
<1>4. Stored(y, PLen[f], Start[f] + HeaderSize, at - Start[f] - HeaderSize)
  BY <1>1, <1>2 DEF at
<1>5. p = [header |-> 1, need |-> Start[f + 1] - at, cache |-> HeaderBytes(f), msg |-> Partial(f, y)]
  BY <1>1 DEF y
<1> QED
  BY <1>3, <1>4, <1>5 DEF InPayload, at

\* MParser_ReadMem of any piece: a message is returned by the piece that has its
\* last byte, and what the parser holds grows by the piece otherwise; without memory
\* for the message the parser starts over.
LEMMA ReadMemStep ==
  ASSUME NEW f \in Frames, NEW at \in Nat, Start[f] <= at, at < Start[f + 1],
         NEW p, Held(p, f, at), NEW n \in Nat, NEW mem, Bytes(mem, at, n),
         NEW length \in LengthsOf(MemCache(p, mem, n)), NEW ok \in BOOLEAN
  PROVE  LET result == ReadMem(p, mem, n, length, ok) IN
         IF p.header = 0 /\ n >= p.need /\ ~ok
           THEN result.msg = NoMsg /\ Fresh(result.parser)
         ELSE IF at + n < Start[f + 1]
           THEN result.msg = NoMsg /\ Held(result.parser, f, at + n)
           ELSE result.msg = FrameMsg(f) /\ Fresh(result.parser)
<1> DEFINE start == Start[f] + HeaderSize
           need == start - at
           k == Least(need, n)
           q == Fill(p, 0, mem, k)
           rest == [i \in 0 .. n - k - 1 |-> mem[k + i]]
<1>1. /\ Start[f] \in Nat /\ Start[f + 1] \in Nat /\ HeaderSize \in Nat \ {0} /\ start \in Nat
      /\ start <= Start[f + 1]
  BY FrameFacts, LayoutAssumption
<1>2. CASE start <= at
  <2> HIDE DEF k, q, rest
  <2>1. InPayload(p, f, at) /\ p.header = 1
    BY <1>1, <1>2 DEF Held, InPayload
  <2>2. ReadMem(p, mem, n, length, ok) = MemPayload(p, mem, n)
    BY <2>1 DEF ReadMem
  <2>3. ~ (at + n < start)
    BY <1>1, <1>2
  <2>4. LET result == MemPayload(p, mem, n) IN
        IF at + n < Start[f + 1]
          THEN result.msg = NoMsg /\ InPayload(result.parser, f, at + n)
          ELSE result.msg = FrameMsg(f) /\ Fresh(result.parser)
    BY <1>1, <1>2, <2>1, MemPayloadStep
  <2> QED
    BY <2>1, <2>2, <2>3, <2>4 DEF Held
<1>3. CASE at < start
  <2>1. InHeader(p, f, at) /\ p.header = 0 /\ p.need = need
    BY <1>3 DEF Held, InHeader
  <2>2. k \in Nat /\ k <= n /\ k <= need /\ at + k <= start
    BY <1>1, <1>3 DEF Least
  <2>3. Bytes(mem, at, k)
    BY <2>2 DEF Bytes
  <2>4. PICK c : /\ Stored(c, HeaderSize, Start[f], (at + k) - Start[f])
                 /\ q = [header |-> 0, need |-> need, cache |-> c, msg |-> NoMsg]
    <3>1. at + k <= Start[f] + HeaderSize
      BY <2>2
    <3> HIDE DEF k
    <3> QED
      BY <2>1, <2>2, <2>3, <3>1, HeaderFill
  <2>5. CASE at + n < start
    <3>1. k = n /\ k < need
      BY <1>1, <2>5 DEF Least
    <3>2. ReadMem(p, mem, n, length, ok) = MemResult(Progress(q, k), NoMsg)
      BY <2>1, <3>1 DEF ReadMem
    <3>3. Progress(q, k) = [header |-> 0, need |-> need - k, cache |-> c, msg |-> NoMsg]
      BY <2>4 DEF Progress
    <3>4. need - k = start - (at + n)
      BY <1>1, <3>1
    <3>5. at + n < Start[f + 1]
      BY <1>1, <2>5
    <3>6. Held(Progress(q, k), f, at + n)
      BY <2>4, <2>5, <3>1, <3>3, <3>4 DEF Held, InHeader
    <3> HIDE DEF q, k
    <3>7. /\ MemResult(Progress(q, k), NoMsg).msg = NoMsg
          /\ MemResult(Progress(q, k), NoMsg).parser = Progress(q, k)
      BY DEF MemResult
    <3>8. ~ (n >= p.need)
      BY <1>1, <2>1, <2>5
    <3> QED
      BY <3>2, <3>5, <3>6, <3>7, <3>8
  <2>6. CASE ~ (at + n < start) /\ ok
    <3>1. k = need /\ at + k = start /\ (at + k) - Start[f] = HeaderSize
      BY <1>1, <2>6 DEF Least
    <3>2. c = HeaderBytes(f)
      BY <2>4, <3>1, WholeHeader
    <3>3. length = PLen[f]
      <4>1. MemCache(p, mem, n) = q.cache
        BY <2>1 DEF MemCache
      <4> QED
        BY <2>4, <3>2, <4>1, HeaderDecodes
    <3> DEFINE next == ToMidState(q, PLen[f])
               m == n - k
    <3>4. ReadMem(p, mem, n, length, ok) = MemPayload(next, rest, m)
      <4>1. ~ (k < p.need) /\ p.header # 1 /\ k = Least(p.need, n)
        BY <1>1, <2>1, <3>1
      <4>2. AfterHeader(q, length, ok) = next
        BY <2>6, <3>3 DEF AfterHeader
      <4> QED
        BY <2>6, <4>1, <4>2 DEF ReadMem
    <3>5. InPayload(next, f, start)
      <4> HIDE DEF q
      <4>1. Shape(q) /\ q.cache = HeaderBytes(f)
        BY <2>4, <3>2 DEF Shape
      <4>2. next = [header |-> 1, need |-> PLen[f], cache |-> HeaderBytes(f), msg |-> Partial(f, Blank(PLen[f]))]
        BY <4>1, PayloadInt, ToMidStateIs DEF Partial
      <4> HIDE DEF next
      <4> QED
        BY <4>2, EmptyPayload
    <3>6. m \in Nat /\ start + m = at + n
      BY <1>1, <2>2, <3>1
    <3>7. Bytes(rest, start, m)
      <4>1. ASSUME NEW i \in 0 .. m - 1 PROVE rest[i] = start + i
        <5>1. k + i \in 0 .. n - 1 /\ at + (k + i) = start + i
          BY <2>2, <3>1, <4>1
        <5> QED
          BY <5>1 DEF Bytes
      <4> QED
        BY <4>1 DEF Bytes
    <3> HIDE DEF next, m, rest, start
    <3>8. LET result == MemPayload(next, rest, m) IN
          IF start + m < Start[f + 1]
            THEN result.msg = NoMsg /\ InPayload(result.parser, f, start + m)
            ELSE result.msg = FrameMsg(f) /\ Fresh(result.parser)
      BY <1>1, <3>5, <3>6, <3>7, MemPayloadStep DEF start
    <3>9. ~ (at + n < Start[f] + HeaderSize)
      BY <2>6 DEF start
    <3> QED
      BY <2>6, <3>4, <3>6, <3>8, <3>9 DEF Held
  <2>7. CASE ~ (at + n < start) /\ ~ok
    <3>1. k = need /\ n >= p.need /\ ~ (k < p.need) /\ p.header # 1 /\ k = Least(p.need, n)
      BY <1>1, <2>1, <2>7 DEF Least
    <3>2. ReadMem(p, mem, n, length, ok) = MemResult(InitState(q), NoMsg)
      <4>1. AfterHeader(q, length, ok) = InitState(q)
        BY <2>7 DEF AfterHeader
      <4> QED
        BY <2>7, <3>1, <4>1 DEF ReadMem
    <3>3. Fresh(InitState(q))
      <4> HIDE DEF q
      <4>1. Shape(q) /\ q.cache = c /\ c \in Memory(HeaderSize)
        BY <2>4 DEF Shape, Stored
      <4>2. InitState(q) = [header |-> 0, need |-> HeaderSize, cache |-> c, msg |-> NoMsg]
        BY <4>1, InitStateIs
      <4> QED
        BY <4>1, <4>2 DEF Fresh
    <3> HIDE DEF q
    <3> QED
      BY <2>1, <2>7, <3>1, <3>2, <3>3 DEF MemResult
  <2> QED
    BY <2>5, <2>6, <2>7
<1>4. start <= at \/ at < start
  BY <1>1
<1> QED
  BY <1>2, <1>3, <1>4, Zenon

--------------------------------------------------------------------------------
(* The caller. *)

\* Messages are not empty.
LEMMA FramesGrow == \A f \in Frames : Start[f] < Start[f + 1] /\ Start[f] + HeaderSize <= Start[f + 1]
<1> TAKE f \in Frames
<1>1. /\ Start[f] \in Nat /\ HeaderSize \in Nat \ {0} /\ PLen[f] \in Nat
      /\ Start[f + 1] = Start[f] + HeaderSize + PLen[f]
  BY FrameFacts, LayoutAssumption
<1> QED
  BY <1>1

\* Where there is more of the stream there is a message.
LEMMA PlaceFrame ==
  ASSUME NEW f \in 0 .. NFrames, Place(f), pos < Start[NFrames]
  PROVE  f \in Frames /\ Start[f] <= pos /\ pos < Start[f + 1]
<1>1. f # NFrames
  <2>1. Start[NFrames] \in Nat
    BY LayoutAssumption
  <2> QED
    BY <2>1 DEF Place
<1> QED
  BY <1>1, LayoutAssumption DEF Place, Frames

\* A parser between two messages is where the next one begins.
LEMMA FreshHeld ==
  ASSUME NEW f \in 0 .. NFrames, NEW p, Fresh(p)
  PROVE  Held(p, f, Start[f])
<1>1. Start[f] \in Nat /\ HeaderSize \in Nat \ {0}
  BY LayoutAssumption
<1>2. /\ Start[f] < Start[f] + HeaderSize
      /\ Start[f] - Start[f] = 0
      /\ (Start[f] + HeaderSize) - Start[f] = HeaderSize
  BY <1>1
<1>3. PICK c \in Memory(HeaderSize) : p = [header |-> 0, need |-> HeaderSize, cache |-> c, msg |-> NoMsg]
  BY DEF Fresh
<1>4. Stored(c, HeaderSize, Start[f], 0)
  BY DEF Stored
<1> QED
  BY <1>2, <1>3, <1>4 DEF Held, InHeader

\* The message the stream is in.
LEMMA FrameHereIs ==
  ASSUME pos \in Nat, NEW f \in Frames, Start[f] <= pos, pos < Start[f + 1]
  PROVE  FrameHere = {f}
<1>1. Place(f) /\ f \in 0 .. NFrames
  BY FrameFacts DEF Place
<1>2. ASSUME NEW g \in Frames, Start[g] <= pos, pos < Start[g + 1] PROVE g = f
  BY <1>1, <1>2, OnePlace
<1> QED
  BY <1>2 DEF FrameHere

\* A piece that ends a message ends the one the stream is in, or a later one.
LEMMA EndsLater ==
  ASSUME pos \in Nat, NEW f \in Frames, Start[f] <= pos, NEW n \in Nat, n >= 1, EndsFrame(n)
  PROVE  Start[f + 1] <= pos + n
<1>1. PICK h \in Frames : pos + n = Start[h + 1]
  BY DEF EndsFrame
<1>2. Start[f] \in Nat /\ f \in 0 .. NFrames /\ f + 1 \in 0 .. NFrames /\ h + 1 \in 0 .. NFrames
  BY FrameFacts
<1>3. f <= h
  <2>1. Start[f] < Start[h + 1]
    BY <1>1, <1>2
  <2> QED
    BY <1>2, <2>1, FramesApart
<1>4. f + 1 = h + 1 \/ f + 1 < h + 1
  BY <1>2, <1>3 DEF Frames
<1>5. Start[f + 1] \in Nat /\ Start[h + 1] \in Nat
  BY FrameFacts
<1>6. f + 1 < h + 1 => Start[f + 1] < Start[h + 1]
  BY <1>2, LayoutAssumption
<1> QED
  BY <1>1, <1>4, <1>5, <1>6

\* A message that malloc has no memory for.
PieceRefused(f) ==
  /\ refused' = refused \cup {f} /\ out' = out /\ Fresh(parser')
  /\ ~astray' => Start[f + 1] <= pos'

PieceRead(f) ==
  /\ refused' = refused
  /\ IF pos' < Start[f + 1]
       THEN out' = out /\ Held(parser', f, pos')
       ELSE out' = Append(out, FrameMsg(f)) /\ Fresh(parser')

\* One piece and the parser.
LEMMA PieceStep ==
  ASSUME pos \in Nat, NEW f \in Frames, Start[f] <= pos, pos < Start[f + 1], Held(parser, f, pos),
         NEW n \in Nat, n >= 1, MParser_ReadMem(n)
  PROVE  /\ pos' = pos + n /\ pos + n <= Start[NFrames]
         /\ ~astray' => ~astray /\ (InOneFrame(n) \/ EndsFrame(n))
         /\ PieceRead(f) \/ PieceRefused(f)
<1> DEFINE mem == Piece(n)
<1>1. pos' = pos + n /\ pos + n <= Start[NFrames]
  BY DEF MParser_ReadMem
<1>2. Bytes(mem, pos, n)
  BY DEF Bytes, Piece
<1>3. PICK length \in LengthsOf(MemCache(parser, mem, n)) :
        \E ok \in MallocResults(length, AllocOutcomes) :
          LET result == ReadMem(parser, mem, n, length, ok) IN
          /\ parser' = result.parser
          /\ out' = IF result.msg = NoMsg THEN out ELSE Append(out, result.msg)
          /\ refused' = IF Refuses(n, ok) THEN refused \cup FrameHere ELSE refused
          /\ astray' = (astray \/ (~EndsFrame(n) /\ (Refuses(n, ok) \/ ~InOneFrame(n))))
  BY DEF MParser_ReadMem
<1>4. PICK ok \in BOOLEAN :
          LET result == ReadMem(parser, mem, n, length, ok) IN
          /\ parser' = result.parser
          /\ out' = IF result.msg = NoMsg THEN out ELSE Append(out, result.msg)
          /\ refused' = IF Refuses(n, ok) THEN refused \cup FrameHere ELSE refused
          /\ astray' = (astray \/ (~EndsFrame(n) /\ (Refuses(n, ok) \/ ~InOneFrame(n))))
  BY <1>3, MallocResultsType
<1> HIDE DEF mem
<1> DEFINE result == ReadMem(parser, mem, n, length, ok)
<1>5. IF Refuses(n, ok)
        THEN result.msg = NoMsg /\ Fresh(result.parser)
      ELSE IF pos + n < Start[f + 1]
        THEN result.msg = NoMsg /\ Held(result.parser, f, pos + n)
        ELSE result.msg = FrameMsg(f) /\ Fresh(result.parser)
  BY <1>2, <1>3, ReadMemStep DEF Refuses
<1>6. parser' = result.parser /\ out' = IF result.msg = NoMsg THEN out ELSE Append(out, result.msg)
  BY <1>4
<1>7. /\ refused' = IF Refuses(n, ok) THEN refused \cup FrameHere ELSE refused
      /\ astray' = (astray \/ (~EndsFrame(n) /\ (Refuses(n, ok) \/ ~InOneFrame(n))))
  BY <1>4
<1> HIDE DEF result
<1>8. FrameMsg(f) # NoMsg
  BY FrameIsMessage
<1>9. CASE Refuses(n, ok)
  <2>1. FrameHere = {f}
    BY FrameHereIs
  <2>2. EndsFrame(n) => Start[f + 1] <= pos + n
    BY EndsLater
  <2> QED
    BY <1>1, <1>5, <1>6, <1>7, <1>9, <2>1, <2>2 DEF PieceRefused
<1>10. CASE ~Refuses(n, ok)
  BY <1>1, <1>5, <1>6, <1>7, <1>8, <1>10 DEF PieceRead
<1> QED
  BY <1>9, <1>10

\* A piece that does not lead astray ends in the message it began in, or where
\* one begins.
LEMMA PlaceStep ==
  ASSUME pos \in Nat, NEW f \in Frames, Start[f] <= pos, pos < Start[f + 1],
         NEW n \in Nat, InOneFrame(n) \/ EndsFrame(n)
  PROVE  pos + n < Start[f + 1] \/ \E g \in 0 .. NFrames : pos + n = Start[g]
<1>1. CASE EndsFrame(n)
  BY <1>1, FrameFacts DEF EndsFrame
<1>2. CASE InOneFrame(n)
  <2>1. PICK g \in Frames : Start[g] <= pos /\ pos + n <= Start[g + 1]
    BY <1>2 DEF InOneFrame
  <2>2. /\ g \in 0 .. NFrames /\ g + 1 \in 0 .. NFrames /\ g # NFrames
        /\ Start[g] \in Nat /\ Start[g + 1] \in Nat
    BY FrameFacts
  <2>3. CASE pos < Start[g + 1]
    <3>1. Place(g)
      BY <2>1, <2>2, <2>3 DEF Place
    <3>2. g = f
      BY <2>2, <3>1, OnePlace
    <3>3. pos + n < Start[f + 1] \/ pos + n = Start[f + 1]
      BY <2>1, <2>2, <3>2
    <3> QED
      BY <3>3, FrameFacts
  <2>4. CASE ~ (pos < Start[g + 1])
    <3>1. pos + n = Start[g + 1]
      BY <2>1, <2>2, <2>4
    <3> QED
      BY <2>2, <3>1
  <2> QED
    BY <2>3, <2>4
<1> QED
  BY <1>1, <1>2

\* The place after a piece, if nothing went astray.
LEMMA PlaceAfter ==
  ASSUME pos \in Nat, NEW f \in Frames, Start[f] <= pos, pos < Start[f + 1],
         NEW n \in Nat, InOneFrame(n) \/ EndsFrame(n), pos' = pos + n
  PROVE  \/ pos' < Start[f + 1] /\ Place(f)'
         \/ ~ (pos' < Start[f + 1]) /\ \E g \in 0 .. NFrames : pos' = Start[g] /\ Place(g)'
<1>1. /\ Start[f] \in Nat /\ f # NFrames
  BY FrameFacts
<1>2. CASE pos + n < Start[f + 1]
  BY <1>1, <1>2 DEF Place
<1>3. CASE ~ (pos + n < Start[f + 1])
  <2>1. PICK g \in 0 .. NFrames : pos + n = Start[g]
    BY <1>3, PlaceStep
  <2>2. g # NFrames => Start[g] < Start[g + 1]
    BY FramesGrow, LayoutAssumption DEF Frames
  <2>3. Start[g] \in Nat
    BY LayoutAssumption
  <2> QED
    BY <1>3, <2>1, <2>2, <2>3 DEF Place
<1> QED
  BY <1>2, <1>3

\* What is behind stays behind, and so does a message that found no memory.
LEMMA BehindMore ==
  ASSUME pos \in Nat, pos' \in Nat, pos <= pos', NEW S, Behind(S), NEW f \in Frames, Start[f + 1] <= pos'
  PROVE  \A g \in S \cup {f} : g \in Frames /\ Start[g + 1] <= pos'
  BY FrameFacts DEF Behind

LEMMA BehindStays ==
  ASSUME pos \in Nat, pos' \in Nat, pos <= pos', NEW S, Behind(S)
  PROVE  \A g \in S : g \in Frames /\ Start[g + 1] <= pos'
  BY FrameFacts DEF Behind

LEMMA StreamStep == StreamInv /\ [Next]_vars => StreamInv'
<1> SUFFICES ASSUME StreamInv, [Next]_vars PROVE StreamInv'
  OBVIOUS
<1>1. CASE UNCHANGED vars
  BY <1>1 DEF vars, StreamInv, Place, Behind
<1>2. ASSUME NEW n \in 1 .. Start[NFrames], MParser_ReadMem(n) PROVE StreamInv'
  <2>1. pos' = pos + n /\ pos + n <= Start[NFrames] /\ (~astray' => ~astray)
    BY <1>2 DEF MParser_ReadMem
  <2>2. Start[NFrames] \in Nat /\ pos \in Nat /\ n \in Nat /\ n >= 1
    BY LayoutAssumption DEF StreamInv
  <2>3. pos' \in 0 .. Start[NFrames] /\ pos < Start[NFrames] /\ pos' \in Nat /\ pos <= pos'
    BY <2>1, <2>2
  <2>4. ASSUME ~astray'
        PROVE  (\E g \in 0 .. NFrames : Place(g)' /\ Held(parser', g, pos')) /\ Behind(refused)'
    <3>1. ~astray /\ Behind(refused)
      BY <2>1, <2>4 DEF StreamInv
    <3>2. PICK f \in 0 .. NFrames : Place(f) /\ Held(parser, f, pos)
      BY <3>1 DEF StreamInv
    <3>3. f \in Frames /\ Start[f] <= pos /\ pos < Start[f + 1]
      BY <2>3, <3>2, PlaceFrame
    <3>4. /\ InOneFrame(n) \/ EndsFrame(n)
          /\ PieceRead(f) \/ PieceRefused(f)
      BY <1>2, <2>2, <2>4, <3>2, <3>3, PieceStep
    <3>5. \/ pos' < Start[f + 1] /\ Place(f)'
          \/ ~ (pos' < Start[f + 1]) /\ \E g \in 0 .. NFrames : pos' = Start[g] /\ Place(g)'
      BY <2>1, <2>2, <3>3, <3>4, PlaceAfter
    <3>6. CASE PieceRead(f)
      <4>1. IF pos' < Start[f + 1] THEN Held(parser', f, pos') ELSE Fresh(parser')
        BY <3>6 DEF PieceRead
      <4>2. Behind(refused)'
        <5>1. refused' = refused
          BY <3>6 DEF PieceRead
        <5> QED
          BY <2>2, <2>3, <3>1, <5>1, BehindStays DEF Behind
      <4> QED
        BY <3>5, <4>1, <4>2, FreshHeld
    <3>7. CASE PieceRefused(f)
      <4>1. Fresh(parser') /\ Start[f + 1] <= pos' /\ refused' = refused \cup {f}
        BY <2>4, <3>7 DEF PieceRefused
      <4>2. ~ (pos' < Start[f + 1])
        BY <2>3, <3>3, <4>1, FrameFacts
      <4>3. Behind(refused)'
        BY <2>2, <2>3, <3>1, <3>3, <4>1, BehindMore DEF Behind
      <4> QED
        BY <3>5, <4>1, <4>2, <4>3, FreshHeld
    <3> QED
      BY <3>4, <3>6, <3>7
  <2> QED
    BY <2>3, <2>4 DEF StreamInv
<1> QED
  BY <1>1, <1>2 DEF Next

LEMMA NewParserFresh == Fresh(NewParser)
<1>1. Blank(HeaderSize) \in Memory(HeaderSize)
  BY BlankMemory, LayoutAssumption
<1> QED
  BY <1>1 DEF Fresh, NewParser

LEMMA BeginsAtZero ==
  ASSUME pos = 0
  PROVE  pos \in 0 .. Start[NFrames] /\ Place(0) /\ 0 \in 0 .. NFrames /\ pos = Start[0]
<1>1. NFrames \in Nat /\ Start[0] = 0 /\ Start[NFrames] \in Nat /\ 0 \in 0 .. NFrames
  BY LayoutAssumption
<1>2. 0 # NFrames => 0 \in Frames
  BY <1>1 DEF Frames
<1>3. 0 # NFrames => Start[0] < Start[0 + 1]
  BY <1>2, FramesGrow
<1> QED
  BY <1>1, <1>3 DEF Place

LEMMA StreamInit == Init => StreamInv
  BY NewParserFresh, FreshHeld, BeginsAtZero DEF Init, StreamInv, Behind

LEMMA StreamInvariance == Spec => []StreamInv
  BY StreamInit, StreamStep, PTL DEF Spec

\* need of the second edition is what is missing of the header, or of the payload,
\* after every piece, however the stream is cut and whatever malloc says, unless a
\* piece ended in the middle of a message of which it was not read.
THEOREM NeedExactHolds == Spec => []NeedExact
<1>1. StreamInv => NeedExact
  <2> SUFFICES ASSUME StreamInv, ~astray, NEW f \in Frames, Start[f] <= pos, pos < Start[f + 1]
               PROVE  IF pos < Start[f] + HeaderSize
                        THEN parser.header = 0 /\ parser.need = Start[f] + HeaderSize - pos
                        ELSE parser.header = 1 /\ parser.need = Start[f + 1] - pos
    BY DEF NeedExact
  <2>1. PICK g \in 0 .. NFrames : Place(g) /\ Held(parser, g, pos)
    BY DEF StreamInv
  <2>2. pos \in Nat /\ Start[f] \in Nat /\ HeaderSize \in Nat
    BY FrameFacts, LayoutAssumption DEF StreamInv
  <2>3. g = f
    BY <2>1, <2>2, OnePlace
  <2>4. CASE pos < Start[f] + HeaderSize
    <3>1. parser.header = 0 /\ parser.need = (Start[f] + HeaderSize) - pos
      BY <2>1, <2>3, <2>4 DEF Held, InHeader
    <3> QED
      BY <2>2, <2>4, <3>1
  <2>5. CASE ~ (pos < Start[f] + HeaderSize)
    BY <2>1, <2>3, <2>5 DEF Held, InPayload
  <2> QED
    BY <2>4, <2>5
<1> QED
  BY <1>1, StreamInvariance, PTL

\* MParser_ReadMem returns a message, whole, with the piece that has its last byte,
\* whatever follows it there, if malloc had memory for it, and nothing with any other
\* piece.
THEOREM ReturnedInTimeHolds == Spec => ReturnedInTime
<1> DEFINE Returned ==
      \A f \in Frames : ~astray /\ pos < Start[f + 1] /\ Start[f] <= pos =>
        out' = IF pos' >= Start[f + 1] /\ f \notin refused' THEN Append(out, FrameMsg(f)) ELSE out
<1>1. StreamInv /\ [Next]_vars => [Returned]_vars
  <2> SUFFICES ASSUME StreamInv, NEW n \in 1 .. Start[NFrames], MParser_ReadMem(n), ~astray,
                      NEW f \in Frames, pos < Start[f + 1], Start[f] <= pos
               PROVE  out' = IF pos' >= Start[f + 1] /\ f \notin refused'
                               THEN Append(out, FrameMsg(f)) ELSE out
    BY DEF Next
  <2>1. PICK g \in 0 .. NFrames : Place(g) /\ Held(parser, g, pos)
    BY DEF StreamInv
  <2>2. pos \in Nat /\ n \in Nat /\ n >= 1 /\ Start[f + 1] \in Nat
    BY FrameFacts, LayoutAssumption DEF StreamInv
  <2>3. g = f
    BY <2>1, <2>2, OnePlace
  <2>4. f \notin refused
    BY <2>2 DEF StreamInv, Behind
  <2>5. pos' = pos + n /\ (PieceRead(f) \/ PieceRefused(f))
    BY <2>1, <2>2, <2>3, PieceStep
  <2>6. pos' \in Nat
    BY <2>2, <2>5
  <2>7. CASE PieceRead(f)
    BY <2>2, <2>4, <2>6, <2>7 DEF PieceRead
  <2>8. CASE PieceRefused(f)
    BY <2>8 DEF PieceRefused
  <2> QED
    BY <2>5, <2>7, <2>8
<1> QED
  BY <1>1, StreamInvariance, PTL DEF Spec, ReturnedInTime

--------------------------------------------------------------------------------
(* MParser_ReadMem of the first edition. *)

\* In the payload there may not be a message yet, when nothing came after the header.
FirstInPayload(p, f, at) ==
  \/ InPayload(p, f, at)
  \/ /\ at = Start[f] + HeaderSize
     /\ p = [header |-> 1, need |-> PLen[f], cache |-> HeaderBytes(f), msg |-> NoMsg]

FirstHeld(p, f, at) ==
  IF at < Start[f] + HeaderSize THEN at = Start[f] /\ Fresh(p) ELSE FirstInPayload(p, f, at)

\* Making the message changes nothing but that it is there.
LEMMA WithMsgStep ==
  ASSUME NEW f \in Frames, NEW at, NEW p, FirstInPayload(p, f, at)
  PROVE  InPayload(WithMsg(p), f, at) /\ WithMsg(p).need = p.need /\ p.need = Start[f + 1] - at
<1>1. CASE InPayload(p, f, at)
  <2>1. PICK c, y : /\ Stored(y, PLen[f], Start[f] + HeaderSize, at - Start[f] - HeaderSize)
                    /\ p = [header |-> 1, need |-> Start[f + 1] - at, cache |-> c, msg |-> Partial(f, y)]
    BY <1>1 DEF InPayload
  <2>2. p.msg # NoMsg
    BY <2>1, PartialIsMessage DEF Stored
  <2>3. WithMsg(p) = p
    BY <2>2 DEF WithMsg
  <2> QED
    BY <1>1, <2>1, <2>3
<1>2. CASE /\ at = Start[f] + HeaderSize
           /\ p = [header |-> 1, need |-> PLen[f], cache |-> HeaderBytes(f), msg |-> NoMsg]
  <2> DEFINE m == [header |-> p.cache, length |-> p.need, payload |-> Blank(p.need)]
  <2>1. WithMsg(p) = [p EXCEPT !.msg = m]
    BY <1>2 DEF WithMsg
  <2>2. m = Partial(f, Blank(PLen[f]))
    BY <1>2 DEF Partial
  <2> HIDE DEF m
  <2>3. WithMsg(p) =
          [header |-> 1, need |-> PLen[f], cache |-> HeaderBytes(f), msg |-> Partial(f, Blank(PLen[f]))]
    BY <1>2, <2>1, <2>2
  <2>4. InPayload(WithMsg(p), f, Start[f] + HeaderSize)
    BY <2>3, EmptyPayload
  <2>5. PLen[f] = Start[f + 1] - at
    <3>1. /\ Start[f] \in Nat /\ HeaderSize \in Nat /\ PLen[f] \in Nat
          /\ Start[f + 1] = Start[f] + HeaderSize + PLen[f]
      BY FrameFacts, LayoutAssumption
    <3> QED
      BY <1>2, <3>1
  <2> QED
    BY <1>2, <2>3, <2>4, <2>5
<1> QED
  BY <1>1, <1>2 DEF FirstInPayload

\* The payload branch: like the one of the second edition, if it is reached and
\* there is memory for the message.
LEMMA FirstPayloadStep ==
  ASSUME NEW f \in Frames, NEW at \in Nat, Start[f] + HeaderSize <= at, at <= Start[f + 1],
         NEW p, FirstInPayload(p, f, at), NEW n \in Nat, n > 0 \/ at < Start[f + 1],
         NEW mem, Bytes(mem, at, n), NEW ok, n = 0 \/ ~Refused(p, ok)
  PROVE  LET result == Payload(p, mem, n, ok) IN
         IF at + n < Start[f + 1]
           THEN result.msg = NoMsg /\ FirstInPayload(result.parser, f, at + n)
           ELSE result.msg = FrameMsg(f) /\ Fresh(result.parser)
<1>1. CASE n = 0
  <2>1. Payload(p, mem, n, ok) = MemResult(p, NoMsg)
    BY <1>1 DEF Payload
  <2>2. at + n = at /\ at < Start[f + 1]
    BY <1>1
  <2> QED
    BY <2>1, <2>2 DEF MemResult
<1>2. CASE n # 0
  <2> DEFINE w == WithMsg(p)
             k == Least(w.need, n)
             q == Progress(Fill(w, 0, mem, k), k)
             second == MemPayload(w, mem, n)
  <2>1. InPayload(w, f, at) /\ w.need = p.need
    BY WithMsgStep
  <2>2. IF at + n < Start[f + 1]
          THEN second.msg = NoMsg /\ InPayload(second.parser, f, at + n)
          ELSE second.msg = FrameMsg(f) /\ Fresh(second.parser)
    BY <2>1, MemPayloadStep
  <2>3. second = IF q.need = 0 THEN MemResult(InitState(q), q.msg) ELSE MemResult(q, NoMsg)
    BY DEF MemPayload
  <2>7. Filled(p, mem, n, ok) = q
    BY <1>2, <2>1 DEF Filled
  <2> HIDE DEF q
  <2>4. Payload(p, mem, n, ok) = IF q.need = 0 THEN MemResult(Reset(q), q.msg) ELSE MemResult(q, NoMsg)
    BY <1>2, <2>7 DEF Payload
  <2>5. Reset(q) = InitState(q)
    BY DEF Reset, InitState
  <2>6. Payload(p, mem, n, ok) = second
    BY <2>3, <2>4, <2>5
  <2> HIDE DEF w, second
  <2> QED
    BY <2>2, <2>6 DEF FirstInPayload
<1> QED
  BY <1>1, <1>2

\* Without memory for the message nothing is returned, and the parser is past the
\* message if that has no payload.
LEMMA FirstPayloadRefused ==
  ASSUME NEW f \in Frames, NEW at \in Nat, NEW p, FirstInPayload(p, f, at), NEW n \in Nat, n # 0,
         NEW mem, NEW ok, Refused(p, ok)
  PROVE  LET result == Payload(p, mem, n, ok) IN
         /\ result.msg = NoMsg
         /\ result.parser.header = 1 \/ (PLen[f] = 0 /\ Fresh(result.parser))
<1>1. p = [header |-> 1, need |-> PLen[f], cache |-> HeaderBytes(f), msg |-> NoMsg]
  <2>1. ASSUME InPayload(p, f, at) PROVE FALSE
    <3>1. PICK c, y : /\ y \in Memory(PLen[f])
                      /\ p = [header |-> 1, need |-> Start[f + 1] - at, cache |-> c, msg |-> Partial(f, y)]
      BY <2>1 DEF InPayload, Stored
    <3> QED
      BY <3>1, PartialIsMessage DEF Refused
  <2> QED
    BY <2>1 DEF FirstInPayload
<1>2. Filled(p, mem, n, ok) = p
  BY DEF Filled
<1>3. CASE PLen[f] = 0
  <2>1. Payload(p, mem, n, ok) = MemResult(Reset(p), NoMsg)
    BY <1>1, <1>2, <1>3 DEF Payload
  <2>2. Reset(p) = InitState(p)
    BY DEF Reset, InitState
  <2>3. Reset(p) = [header |-> 0, need |-> HeaderSize, cache |-> HeaderBytes(f), msg |-> NoMsg]
    BY <1>1, <2>2, InitStateIs DEF Shape
  <2>4. Fresh(Reset(p))
    BY <2>3, HeaderMemory DEF Fresh
  <2> QED
    BY <1>3, <2>1, <2>4 DEF MemResult
<1>4. CASE PLen[f] # 0
  <2>1. Payload(p, mem, n, ok) = MemResult(p, NoMsg)
    BY <1>1, <1>2, <1>4 DEF Payload
  <2> QED
    BY <1>1, <2>1 DEF MemResult
<1> QED
  BY <1>3, <1>4

\* A piece with the whole header, and a byte more if there is no payload, is taken
\* as the second edition takes it, if there is memory for the message.
PieceRefuses(p, n, ok) == Refused(p, ok) /\ IF p.header = 1 THEN n > 0 ELSE n > p.need

LEMMA ReadMemFirstStep ==
  ASSUME NEW f \in Frames, NEW at \in Nat, Start[f] <= at, at < Start[f + 1],
         NEW p, FirstHeld(p, f, at), NEW n \in Nat,
         at + n >= Start[f] + HeaderSize, PLen[f] = 0 => at + n > Start[f + 1],
         NEW mem, Bytes(mem, at, n),
         NEW length \in LengthsOf(FirstCache(p, mem, n)), NEW ok \in BOOLEAN
  PROVE  LET result == ReadMemFirst(p, mem, n, length, ok) IN
         IF PieceRefuses(p, n, ok)
           THEN /\ result.msg = NoMsg
                /\ result.parser.header = 1 \/ (PLen[f] = 0 /\ Fresh(result.parser))
         ELSE IF at + n < Start[f + 1]
           THEN result.msg = NoMsg /\ FirstHeld(result.parser, f, at + n)
           ELSE result.msg = FrameMsg(f) /\ Fresh(result.parser)
<1> DEFINE start == Start[f] + HeaderSize
<1>1. /\ Start[f] \in Nat /\ Start[f + 1] \in Nat /\ HeaderSize \in Nat \ {0} /\ PLen[f] \in Nat
      /\ start \in Nat /\ start <= Start[f + 1] /\ Start[f + 1] = start + PLen[f]
      /\ ~ (at + n < start)
  BY FrameFacts, LayoutAssumption
<1>2. CASE ~ (at < start)
  <2>1. FirstInPayload(p, f, at) /\ p.header = 1
    BY <1>2 DEF FirstHeld, FirstInPayload, InPayload
  <2>2. ReadMemFirst(p, mem, n, length, ok) = Payload(p, mem, n, ok)
    BY <2>1 DEF ReadMemFirst
  <2>3. CASE PieceRefuses(p, n, ok)
    <3>1. Refused(p, ok) /\ n # 0
      BY <2>1, <2>3 DEF PieceRefuses
    <3> QED
      BY <2>1, <2>2, <2>3, <3>1, FirstPayloadRefused
  <2>4. CASE ~PieceRefuses(p, n, ok)
    <3>1. n = 0 \/ ~Refused(p, ok)
      BY <2>1, <2>4 DEF PieceRefuses
    <3>2. LET result == Payload(p, mem, n, ok) IN
          IF at + n < Start[f + 1]
            THEN result.msg = NoMsg /\ FirstInPayload(result.parser, f, at + n)
            ELSE result.msg = FrameMsg(f) /\ Fresh(result.parser)
      BY <1>1, <1>2, <2>1, <3>1, FirstPayloadStep
    <3> QED
      BY <1>1, <2>2, <2>4, <3>2 DEF FirstHeld
  <2> QED
    BY <2>3, <2>4
<1>3. CASE at < start
  <2> DEFINE k == HeaderSize
             filled == Fill(p, 0, mem, k)
             q == [filled EXCEPT !.header = 1, !.need = PLen[f]]
             rest == [i \in 0 .. n - k - 1 |-> mem[k + i]]
             m == n - k
  <2>1. at = Start[f] /\ Fresh(p)
    BY <1>3 DEF FirstHeld
  <2>2. p.header = 0 /\ p.need = k /\ ~ (n < k) /\ n >= k /\ m \in Nat
    BY <1>1, <2>1 DEF Fresh
  <2>3. InHeader(p, f, at) /\ at + k = start /\ start - Start[f] = HeaderSize
    <3>1. f \in 0 .. NFrames
      BY FrameFacts
    <3>2. Held(p, f, Start[f])
      BY <2>1, <3>1, FreshHeld
    <3> QED
      BY <1>1, <1>3, <2>1, <3>2 DEF Held
  <2>4. PICK c : /\ Stored(c, HeaderSize, Start[f], start - Start[f])
                 /\ filled = [header |-> 0, need |-> (Start[f] + HeaderSize) - at, cache |-> c, msg |-> NoMsg]
    <3>1. Bytes(mem, at, k)
      BY <1>1, <2>2 DEF Bytes
    <3>2. k \in Nat /\ at + k <= Start[f] + HeaderSize
      BY <1>1, <2>1
    <3> QED
      BY <2>3, <3>1, <3>2, HeaderFill
  <2>5. c = HeaderBytes(f)
    BY <2>3, <2>4, WholeHeader
  <2>6. length = PLen[f]
    <3>1. FirstCache(p, mem, n) = filled.cache
      BY <2>2 DEF FirstCache
    <3> HIDE DEF filled
    <3>2. filled.cache = HeaderBytes(f)
      BY <2>4, <2>5
    <3> QED
      BY <3>1, <3>2, HeaderDecodes
  <2>7. q = [header |-> 1, need |-> PLen[f], cache |-> HeaderBytes(f), msg |-> NoMsg]
    <3>1. Shape(filled) /\ filled.cache = HeaderBytes(f) /\ filled.msg = NoMsg
      BY <2>4, <2>5 DEF Shape
    <3> HIDE DEF filled
    <3>2. q = [filled EXCEPT !.header = 1, !.need = PLen[f]]
      OBVIOUS
    <3> HIDE DEF q
    <3> QED
      BY <3>1, <3>2 DEF Shape
  <2>8. ReadMemFirst(p, mem, n, length, ok) = Payload(q, rest, m, ok)
    <3> DEFINE r == [filled EXCEPT !.header = 1, !.need = ToInt(length)]
    <3>1. ToInt(length) = PLen[f]
      BY <2>6, PayloadInt
    <3>2. r = q
      BY <3>1
    <3>3. ReadMemFirst(p, mem, n, length, ok) = Payload(r, rest, m, ok)
      BY <2>2 DEF ReadMemFirst
    <3> HIDE DEF r, q, rest, m
    <3> QED
      BY <3>2, <3>3
  <2>9. FirstInPayload(q, f, start)
    BY <2>7 DEF FirstInPayload
  <2>10. start + m = at + n /\ (m > 0 \/ start < Start[f + 1])
    <3>1. start + m = at + n
      BY <1>1, <2>1, <2>2
    <3> QED
      BY <1>1, <2>2, <3>1
  <2>11. Bytes(rest, start, m)
    <3>1. ASSUME NEW i \in 0 .. m - 1 PROVE rest[i] = start + i
      <4>1. k + i \in 0 .. n - 1 /\ at + (k + i) = start + i
        BY <1>1, <2>1, <2>2, <3>1
      <4> QED
        BY <4>1 DEF Bytes
    <3> QED
      BY <3>1 DEF Bytes
  <2> HIDE DEF q, rest, m
  <2>13. PieceRefuses(p, n, ok) <=> Refused(q, ok) /\ m # 0
    <3>1. p.msg = NoMsg /\ q.msg = NoMsg /\ ~ (p.need < 0) /\ ~ (q.need < 0)
      BY <1>1, <2>1, <2>7 DEF Fresh
    <3>2. n > p.need <=> m # 0
      BY <1>1, <2>2 DEF m
    <3> QED
      BY <2>2, <3>1, <3>2 DEF PieceRefuses, Refused
  <2>14. CASE PieceRefuses(p, n, ok)
    BY <1>1, <2>2, <2>8, <2>9, <2>13, <2>14, FirstPayloadRefused
  <2>12. ASSUME ~PieceRefuses(p, n, ok) PROVE LET result == Payload(q, rest, m, ok) IN
         IF start + m < Start[f + 1]
           THEN result.msg = NoMsg /\ FirstInPayload(result.parser, f, start + m)
           ELSE result.msg = FrameMsg(f) /\ Fresh(result.parser)
    <3>1. m \in Nat /\ start <= start
      BY <1>1, <2>2
    <3> HIDE DEF start
    <3> QED
      BY <1>1, <2>9, <2>10, <2>11, <2>12, <2>13, <3>1, FirstPayloadStep DEF start
  <2> QED
    BY <1>1, <2>8, <2>10, <2>12, <2>14 DEF FirstHeld
<1> QED
  BY <1>2, <1>3

--------------------------------------------------------------------------------
(* Both editions. *)

\* As long as the first edition can take the pieces both have returned the same,
\* and hold the same of the message the stream is in.
BothInv ==
  /\ StreamInv
  /\ ~astray /\ ~cut =>
       /\ refused = firstRefused => firstOut = out
       /\ Behind(firstRefused)
       /\ \E f \in 0 .. NFrames : Place(f) /\ FirstHeld(first, f, pos)

\* One piece and the parser of the first edition.
FirstRefusedPiece(f) ==
  /\ firstRefused' = firstRefused \cup {f} /\ firstOut' = firstOut
  /\ ~cut' => PLen[f] = 0 /\ Fresh(first')

FirstRead(f) ==
  /\ firstRefused' = firstRefused
  /\ IF pos' < Start[f + 1]
       THEN firstOut' = firstOut /\ FirstHeld(first', f, pos')
       ELSE firstOut' = Append(firstOut, FrameMsg(f)) /\ Fresh(first')

LEMMA FirstPieceStep ==
  ASSUME pos \in Nat, NEW f \in Frames, Start[f] <= pos, pos < Start[f + 1], FirstHeld(first, f, pos),
         NEW n \in Nat, pos' = pos + n, ~Cuts(n), ReadPiece(n)
  PROVE  FirstRead(f) \/ FirstRefusedPiece(f)
<1> DEFINE mem == Piece(n)
<1>1. Bytes(mem, pos, n)
  BY DEF Bytes, Piece
<1>2. PICK length \in LengthsOf(FirstCache(first, mem, n)) :
        \E ok \in MallocResults(length, AllocOutcomes) :
          LET result == ReadMemFirst(first, mem, n, length, ok) IN
          /\ first' = result.parser
          /\ firstOut' = IF result.msg = NoMsg THEN firstOut ELSE Append(firstOut, result.msg)
          /\ firstRefused' = IF FirstRefuses(n, ok) THEN firstRefused \cup FrameHere ELSE firstRefused
          /\ cut' = (cut \/ Cuts(n) \/ (FirstRefuses(n, ok) /\ result.parser.header = 1))
  BY DEF ReadPiece
<1>3. PICK ok \in BOOLEAN :
          LET result == ReadMemFirst(first, mem, n, length, ok) IN
          /\ first' = result.parser
          /\ firstOut' = IF result.msg = NoMsg THEN firstOut ELSE Append(firstOut, result.msg)
          /\ firstRefused' = IF FirstRefuses(n, ok) THEN firstRefused \cup FrameHere ELSE firstRefused
          /\ cut' = (cut \/ Cuts(n) \/ (FirstRefuses(n, ok) /\ result.parser.header = 1))
  BY <1>2, MallocResultsType
<1>4. pos + n >= Start[f] + HeaderSize /\ (PLen[f] = 0 => pos + n > Start[f + 1])
  <2>1. /\ Start[f] \in Nat /\ HeaderSize \in Nat /\ PLen[f] \in Nat
        /\ Start[f + 1] = Start[f] + HeaderSize + PLen[f]
    BY FrameFacts, LayoutAssumption
  <2>2. ~ (IF PLen[f] = 0 THEN pos + n <= Start[f + 1] ELSE pos + n < Start[f] + HeaderSize)
    BY DEF Cuts
  <2> QED
    BY <2>1, <2>2
<1> HIDE DEF mem
<1> DEFINE result == ReadMemFirst(first, mem, n, length, ok)
<1>5. IF FirstRefuses(n, ok)
        THEN result.msg = NoMsg /\ (result.parser.header = 1 \/ (PLen[f] = 0 /\ Fresh(result.parser)))
      ELSE IF pos + n < Start[f + 1]
        THEN result.msg = NoMsg /\ FirstHeld(result.parser, f, pos + n)
        ELSE result.msg = FrameMsg(f) /\ Fresh(result.parser)
  <2>1. FirstRefuses(n, ok) <=> PieceRefuses(first, n, ok)
    BY DEF FirstRefuses, PieceRefuses
  <2> QED
    BY <1>1, <1>2, <1>4, <2>1, ReadMemFirstStep
<1>6. /\ first' = result.parser
      /\ firstOut' = IF result.msg = NoMsg THEN firstOut ELSE Append(firstOut, result.msg)
      /\ firstRefused' = IF FirstRefuses(n, ok) THEN firstRefused \cup FrameHere ELSE firstRefused
      /\ cut' = (cut \/ Cuts(n) \/ (FirstRefuses(n, ok) /\ result.parser.header = 1))
  BY <1>3
<1> HIDE DEF result
<1>7. FrameHere = {f}
  BY FrameHereIs
<1>8. CASE FirstRefuses(n, ok)
  BY <1>5, <1>6, <1>7, <1>8 DEF FirstRefusedPiece
<1>9. CASE ~FirstRefuses(n, ok)
  BY <1>5, <1>6, <1>9, FrameIsMessage DEF FirstRead
<1> QED
  BY <1>8, <1>9

\* Both have returned the same if malloc refused both the same.
LEMMA SameReturned ==
  ASSUME NEW f, f \notin refused, f \notin firstRefused,
         refused = firstRefused => firstOut = out,
         PieceRead(f) \/ PieceRefused(f), FirstRead(f) \/ FirstRefusedPiece(f)
  PROVE  refused' = firstRefused' => firstOut' = out'
<1> SUFFICES ASSUME refused' = firstRefused' PROVE firstOut' = out'
  OBVIOUS
<1>1. CASE PieceRead(f) /\ FirstRead(f)
  <2>1. refused = firstRefused
    BY <1>1 DEF PieceRead, FirstRead
  <2>2. firstOut = out
    BY <2>1
  <2>3. out' = IF pos' < Start[f + 1] THEN out ELSE Append(out, FrameMsg(f))
    BY <1>1, Zenon DEF PieceRead
  <2>4. firstOut' = IF pos' < Start[f + 1] THEN firstOut ELSE Append(firstOut, FrameMsg(f))
    BY <1>1, Zenon DEF FirstRead
  <2> QED
    BY <2>2, <2>3, <2>4
<1>2. CASE PieceRefused(f) /\ FirstRefusedPiece(f)
  <2>1. /\ refused' = refused \cup {f} /\ firstRefused' = firstRefused \cup {f}
        /\ out' = out /\ firstOut' = firstOut
    BY <1>2 DEF PieceRefused, FirstRefusedPiece
  <2>2. refused = refused' \ {f} /\ firstRefused = firstRefused' \ {f}
    BY <2>1
  <2> QED
    BY <2>1, <2>2
<1>3. CASE PieceRead(f) /\ FirstRefusedPiece(f)
  BY <1>3 DEF PieceRead, FirstRefusedPiece
<1>4. CASE PieceRefused(f) /\ FirstRead(f)
  BY <1>4 DEF PieceRefused, FirstRead
<1> QED
  BY <1>1, <1>2, <1>3, <1>4

LEMMA BothStep == BothInv /\ [NextBoth]_allVars => BothInv'
<1> SUFFICES ASSUME BothInv, [NextBoth]_allVars PROVE BothInv'
  OBVIOUS
<1>1. CASE UNCHANGED allVars
  BY <1>1 DEF allVars, vars, BothInv, StreamInv, Place, Behind
<1>2. ASSUME NEW n \in 1 .. Start[NFrames], MParser_ReadMem(n), ReadPiece(n) PROVE BothInv'
  <2>1. StreamInv'
    BY <1>2, StreamStep DEF BothInv, Next
  <2>2. pos' = pos + n /\ pos + n <= Start[NFrames] /\ (~astray' => ~astray)
    BY <1>2 DEF MParser_ReadMem
  <2>3. ~cut' => ~cut /\ ~Cuts(n)
    BY <1>2 DEF ReadPiece
  <2>4. Start[NFrames] \in Nat /\ pos \in Nat /\ n \in Nat /\ n >= 1 /\ pos < Start[NFrames]
        /\ pos' \in Nat /\ pos <= pos'
    BY <2>2, LayoutAssumption DEF BothInv, StreamInv
  <2>5. ASSUME ~astray', ~cut'
        PROVE  /\ refused' = firstRefused' => firstOut' = out'
               /\ Behind(firstRefused)'
               /\ \E g \in 0 .. NFrames : Place(g)' /\ FirstHeld(first', g, pos')
    <3>1. ~astray /\ ~cut /\ ~Cuts(n)
      BY <2>2, <2>3, <2>5
    <3>2. (refused = firstRefused => firstOut = out) /\ Behind(firstRefused) /\ Behind(refused)
      BY <3>1 DEF BothInv, StreamInv
    <3>3. PICK f \in 0 .. NFrames : Place(f) /\ FirstHeld(first, f, pos)
      BY <3>1 DEF BothInv
    <3>4. f \in Frames /\ Start[f] <= pos /\ pos < Start[f + 1]
      BY <2>4, <3>3, PlaceFrame
    <3>5. Held(parser, f, pos)
      <4>1. PICK g \in 0 .. NFrames : Place(g) /\ Held(parser, g, pos)
        BY <3>1 DEF BothInv, StreamInv
      <4>2. g = f
        BY <2>4, <3>4, <4>1, OnePlace
      <4> QED
        BY <4>1, <4>2
    <3>6. (InOneFrame(n) \/ EndsFrame(n)) /\ (PieceRead(f) \/ PieceRefused(f))
      BY <1>2, <2>4, <2>5, <3>4, <3>5, PieceStep
    <3>7. FirstRead(f) \/ FirstRefusedPiece(f)
      BY <1>2, <2>2, <2>4, <3>1, <3>3, <3>4, FirstPieceStep
    <3>8. \/ pos' < Start[f + 1] /\ Place(f)'
          \/ ~ (pos' < Start[f + 1]) /\ \E g \in 0 .. NFrames : pos' = Start[g] /\ Place(g)'
      BY <2>2, <2>4, <3>4, <3>6, PlaceAfter
    <3>9. ASSUME NEW g \in 0 .. NFrames, Fresh(first') PROVE FirstHeld(first', g, Start[g])
      <4>1. Start[g] \in Nat /\ HeaderSize \in Nat \ {0}
        BY LayoutAssumption
      <4>2. Start[g] < Start[g] + HeaderSize
        BY <4>1
      <4> QED
        BY <3>9, <4>2 DEF FirstHeld
    <3>10. f \notin refused /\ f \notin firstRefused
      <4>1. Start[f + 1] \in Nat /\ ~ (Start[f + 1] <= pos)
        BY <2>4, <3>4, FrameFacts
      <4> QED
        BY <3>2, <4>1 DEF Behind
    <3>11. refused' = firstRefused' => firstOut' = out'
      BY <3>2, <3>6, <3>7, <3>10, SameReturned
    <3>12. CASE FirstRead(f)
      <4>1. /\ firstRefused' = firstRefused
            /\ IF pos' < Start[f + 1] THEN FirstHeld(first', f, pos') ELSE Fresh(first')
        BY <3>12 DEF FirstRead
      <4>2. Behind(firstRefused)'
        BY <2>4, <3>2, <4>1, BehindStays DEF Behind
      <4> QED
        BY <3>8, <3>9, <3>11, <4>1, <4>2
    <3>13. CASE FirstRefusedPiece(f)
      <4>1. firstRefused' = firstRefused \cup {f} /\ PLen[f] = 0 /\ Fresh(first')
        BY <2>5, <3>13 DEF FirstRefusedPiece
      <4>2. Start[f + 1] <= pos' /\ ~ (pos' < Start[f + 1])
        <5>1. ~ (IF PLen[f] = 0 THEN pos + n <= Start[f + 1] ELSE pos + n < Start[f] + HeaderSize)
          BY <3>1, <3>4 DEF Cuts
        <5>2. Start[f + 1] \in Nat
          BY <3>4, FrameFacts
        <5> QED
          BY <2>2, <2>4, <4>1, <5>1, <5>2
      <4>3. Behind(firstRefused)'
        BY <2>4, <3>2, <3>4, <4>1, <4>2, BehindMore DEF Behind
      <4> QED
        BY <3>8, <3>9, <3>11, <4>1, <4>2, <4>3
    <3> QED
      BY <3>7, <3>12, <3>13
  <2> QED
    BY <2>1, <2>5 DEF BothInv
<1> QED
  BY <1>1, <1>2 DEF NextBoth

LEMMA BothInit == InitBoth => BothInv
<1> SUFFICES ASSUME InitBoth PROVE BothInv
  OBVIOUS
<1>1. StreamInv /\ firstOut = out /\ pos = 0 /\ first = NewParser /\ Behind(firstRefused)
  BY StreamInit DEF InitBoth, Init, Behind
<1>2. Place(0) /\ 0 \in 0 .. NFrames /\ pos = Start[0]
  BY <1>1, BeginsAtZero
<1>3. FirstHeld(first, 0, pos)
  <2>1. Start[0] \in Nat /\ HeaderSize \in Nat \ {0}
    BY <1>2, LayoutAssumption
  <2>2. Start[0] < Start[0] + HeaderSize
    BY <2>1
  <2> QED
    BY <1>1, <1>2, <2>2, NewParserFresh DEF FirstHeld
<1> QED
  BY <1>1, <1>2, <1>3 DEF BothInv

\* As long as headers come whole, messages have a payload and the first edition has
\* memory for those that do, the two editions miss the same of the next message, and
\* they have returned the same ones if malloc refused both the same.
THEOREM EditionsAgreeHolds == SpecBoth => []EditionsAgree
<1>1. BothInv => EditionsAgree
  <2> SUFFICES ASSUME BothInv, ~cut, ~astray
               PROVE  /\ first.header = parser.header
                      /\ first.need = parser.need
                      /\ (refused = firstRefused => firstOut = out)
    BY DEF EditionsAgree
  <2>1. PICK f \in 0 .. NFrames : Place(f) /\ FirstHeld(first, f, pos)
    BY DEF BothInv
  <2>2. Held(parser, f, pos)
    <3>1. PICK g \in 0 .. NFrames : Place(g) /\ Held(parser, g, pos)
      BY DEF BothInv, StreamInv
    <3>2. g = f
      BY <2>1, <3>1, SamePlace DEF BothInv, StreamInv
    <3> QED
      BY <3>1, <3>2
  <2>3. CASE pos < Start[f] + HeaderSize
    <3>1. pos = Start[f] /\ first.header = 0 /\ first.need = HeaderSize
      BY <2>1, <2>3 DEF FirstHeld, Fresh
    <3>2. parser.header = 0 /\ parser.need = (Start[f] + HeaderSize) - pos
      BY <2>2, <2>3 DEF Held, InHeader
    <3>3. (Start[f] + HeaderSize) - pos = HeaderSize
      BY <3>1, LayoutAssumption
    <3> QED
      BY <3>1, <3>2, <3>3 DEF BothInv
  <2>4. CASE ~ (pos < Start[f] + HeaderSize)
    <3>1. parser.header = 1 /\ parser.need = Start[f + 1] - pos
      BY <2>2, <2>4 DEF Held, InPayload
    <3>2. FirstInPayload(first, f, pos)
      BY <2>1, <2>4 DEF FirstHeld
    <3>3. f \in Frames
      <4>1. f = NFrames => pos < Start[f] + HeaderSize
        BY <2>1, LayoutAssumption DEF Place, BothInv, StreamInv
      <4> QED
        BY <2>4, <4>1, LayoutAssumption DEF Frames
    <3>4. first.need = Start[f + 1] - pos
      BY <3>2, <3>3, WithMsgStep
    <3>5. first.header = 1
      BY <3>2 DEF FirstInPayload, InPayload
    <3> QED
      BY <3>1, <3>4, <3>5 DEF BothInv
  <2> QED
    BY <2>3, <2>4
<1> QED
  BY <1>1, BothInit, BothStep, PTL DEF SpecBoth
================================================================================
