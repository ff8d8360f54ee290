---------------------------- MODULE TcpClientProofs ----------------------------
(***************************************************************************)
(* Proofs about TcpClient.tla, for every number of frames and connections, *)
(* every header size and payload length and every bound.                   *)
(*                                                                         *)
(* TypeInv is inductive by itself.  That the parser and the stream stay in *)
(* step, and with it the refinement of FrameChannel, needs InSync, which   *)
(* holds of a parser that is not torn: a torn one comes back only through  *)
(* TcpClient_Close, which establishes InSync whatever was before.          *)
(***************************************************************************)
EXTENDS TcpClient, SequenceTheorems, TLAPS

USE DEF stream, call, history

Message == UNION {MessageOf(n) : n \in Lengths}
ParserType ==
  [header : {0, 1}, need : Nat, cache : Region(HeaderSize), msg : {NoMsg} \cup Message]

\* TypeOK with the messages as a set, the form that is inductive.
TypeInv ==
  /\ conn \in 0 .. MaxConns
  /\ link \in {"none", "up", "fin", "down"}
  /\ wr \in 0 .. Start[NFrames]
  /\ rd \in 0 .. wr
  /\ parser \in ParserType
  /\ InBounds
  /\ pc \in {"idle", "recv"}
  /\ got \in Nat
  /\ retry \in 0 .. RetryLimit
  /\ frames \in Nat
  /\ delivered \in Seq(Message)
  /\ torn \in BOOLEAN
  /\ errs \in 0 .. MaxErrors

--------------------------------------------------------------------------------
(* Memory and the parser's operations. *)

\* Lengths are natural numbers, and so are the positions of frames.
LEMMA LengthsNat == Lengths \subseteq Nat /\ \A n \in GarbageLens : n < WordSize
<1>1. ASSUME NEW n \in GarbageLens PROVE n \in Nat /\ n < WordSize
  <2>1. n \in 0 .. WordSize - HeaderSize - 1 /\ WordSize \in Nat /\ HeaderSize \in Nat
    BY <1>1, LayoutAssumption, LengthAssumption
  <2> QED
    BY <2>1
<1>2. \A f \in Frames : PLen[f] \in Nat
  BY LayoutAssumption
<1> QED
  BY <1>1, <1>2 DEF Lengths

LEMMA EndNat == Start[NFrames] \in Nat
  BY LayoutAssumption

\* NoMsg is not a message.
LEMMA NoMsgNotMessage == NoMsg \notin Message
  BY NoMsgAssumption DEF Message

\* Unwritten memory is a region.
LEMMA BlankRegion == \A n \in Nat : Blank(n) \in Region(n)
  BY DEF Blank, Region, ByteOrNone

\* Storing bytes in a region leaves it a region of the same size.
LEMMA PutRegion ==
  ASSUME NEW n \in Nat, NEW region \in Region(n), NEW at \in Nat, NEW len \in Nat,
         NEW src, \A k \in 0 .. len - 1 : src[k] \in ByteOrNone
  PROVE  Put(region, at, src, len) \in Region(n)
  BY DEF Put, Region

\* What a read() of n bytes returns is bytes of the stream.
LEMMA IncomingBytes ==
  ASSUME TypeInv, NEW n \in Nat, n <= wr - rd
  PROVE  \A k \in 0 .. n - 1 : Incoming(n)[k] \in ByteOrNone
<1>1. \A k \in 0 .. n - 1 : rd + k \in 0 .. Start[NFrames]
  BY EndNat DEF TypeInv
<1>2. ASSUME NEW k \in 0 .. n - 1 PROVE Incoming(n)[k] = Byte(conn, rd + k)
  BY DEF Incoming
<1> QED
  BY <1>1, <1>2 DEF TypeInv, ByteOrNone

\* The fields of a parser.
LEMMA ParserFields ==
  ASSUME NEW p \in ParserType
  PROVE  /\ p.header \in {0, 1}
         /\ p.need \in Nat
         /\ p.cache \in Region(HeaderSize)
         /\ p.msg # NoMsg => p.msg \in MessageOf(p.msg.length) /\ p.msg.length \in Lengths
         /\ p = [header |-> p.header, need |-> p.need, cache |-> p.cache, msg |-> p.msg]
  BY DEF ParserType, Message, MessageOf

\* The parser of TcpClient_New, and the one InitState leaves.
LEMMA NewParserType == NewParser \in ParserType
  BY BlankRegion, LayoutAssumption DEF NewParser, ParserType

LEMMA InitStateType == \A p \in ParserType : InitState(p) \in ParserType
  BY LayoutAssumption DEF InitState, ParserType

\* An int has room for the length of a message there is memory for.
LEMMA MallocSucceeds ==
  ASSUME NEW length \in Lengths, NEW ok \in MallocResults(length, AllocOutcomes), ok
  PROVE  ToInt(length) = length
<1>1. length \in Nat /\ WordSize \in Nat /\ (2 * length < WordSize \/ length < WordSize)
  BY LengthsNat, LayoutAssumption, LengthAssumption DEF Lengths
<1>2. ~ (ToInt(length) < 0)
  <2> SUFFICES ASSUME ToInt(length) < 0 PROVE FALSE
    OBVIOUS
  <2>1. ok \in {FALSE}
    BY DEF MallocResults
  <2> QED
    BY <2>1, Zenon
<1> QED
  BY <1>1, <1>2 DEF ToInt

LEMMA MallocResultsType == \A length : MallocResults(length, AllocOutcomes) \subseteq BOOLEAN
  BY BoundAssumption DEF MallocResults

\* ToMidState: a message with its payload still unwritten.
LEMMA ToMidStateType ==
  ASSUME NEW p \in ParserType, NEW length \in Lengths, ToInt(length) = length
  PROVE  /\ ToMidState(p, length) \in ParserType
         /\ ToMidState(p, length).header = 1
         /\ ToMidState(p, length).need = length
         /\ ToMidState(p, length).cache = p.cache
         /\ ToMidState(p, length).msg =
              [header |-> p.cache, length |-> length, payload |-> Blank(length)]
<1> DEFINE m == [header |-> p.cache, length |-> length, payload |-> Blank(length)]
<1>1. m \in MessageOf(length)
  BY BlankRegion, LengthsNat, ParserFields DEF MessageOf
<1>2. m \in Message
  BY <1>1 DEF Message
<1> HIDE DEF m
<1>3. ToMidState(p, length) = [header |-> 1, need |-> length, cache |-> p.cache, msg |-> m]
  <2>1. p = [header |-> p.header, need |-> p.need, cache |-> p.cache, msg |-> p.msg]
    BY ParserFields
  <2>2. ToMidState(p, length) = [p EXCEPT !.header = 1, !.need = length, !.msg = m]
    BY DEF ToMidState, m
  <2> QED
    BY <2>1, <2>2
<1>4. ToMidState(p, length) \in ParserType
  BY <1>2, <1>3, LengthsNat, ParserFields DEF ParserType
<1> QED
  BY <1>3, <1>4 DEF m

\* Bytes that fit into the part being collected change its contents only.
LEMMA FillType ==
  ASSUME NEW p \in ParserType, NEW i \in Nat, NEW len \in Nat, i + len <= p.need,
         p.header = 0 <=> p.msg = NoMsg, p.need <= RegionSize(p),
         NEW src, \A k \in 0 .. len - 1 : src[k] \in ByteOrNone
  PROVE  /\ Fill(p, i, src, len) \in ParserType
         /\ Fill(p, i, src, len).header = p.header
         /\ Fill(p, i, src, len).need = p.need
         /\ Fill(p, i, src, len).msg = NoMsg <=> p.msg = NoMsg
         /\ RegionSize(Fill(p, i, src, len)) = RegionSize(p)
         /\ Offset(p, i) \in Nat
<1> DEFINE q == Fill(p, i, src, len)
<1>1. CASE p.header = 0
  <2>1. Offset(p, i) \in Nat
    BY <1>1, LayoutAssumption, ParserFields DEF Offset, RegionSize
  <2>2. Put(p.cache, Offset(p, i), src, len) \in Region(HeaderSize)
    BY <2>1, PutRegion, LayoutAssumption, ParserFields
  <2>3. q = [header |-> p.header, need |-> p.need,
             cache |-> Put(p.cache, Offset(p, i), src, len), msg |-> p.msg]
    BY <1>1, ParserFields DEF Fill
  <2>4. q \in ParserType
    BY <2>2, <2>3 DEF ParserType
  <2> QED
    BY <1>1, <2>1, <2>3, <2>4 DEF RegionSize
<1>2. CASE p.header = 1
  <2> DEFINE n == p.msg.length
             m == [p.msg EXCEPT !.payload = Put(p.msg.payload, Offset(p, i), src, len)]
  <2>1. p.msg \in MessageOf(n) /\ n \in Lengths /\ n \in Nat
    BY <1>2, ParserFields, LengthsNat
  <2>2. Offset(p, i) \in Nat
    BY <1>2, <2>1, ParserFields DEF Offset, RegionSize
  <2>3. Put(p.msg.payload, Offset(p, i), src, len) \in Region(n)
    BY <2>1, <2>2, PutRegion DEF MessageOf
  <2>4. m \in MessageOf(n) /\ m.length = n
    BY <2>1, <2>3 DEF MessageOf
  <2>5. m \in Message
    BY <2>1, <2>4 DEF Message
  <2>6. q = [header |-> p.header, need |-> p.need, cache |-> p.cache, msg |-> m]
    BY <1>2, <2>1, ParserFields DEF Fill, MessageOf
  <2>7. m # NoMsg
    BY <2>5, NoMsgNotMessage
  <2> HIDE DEF m
  <2>8. q \in ParserType
    BY <2>5, <2>6, ParserFields DEF ParserType
  <2> QED
    BY <1>2, <2>2, <2>4, <2>6, <2>7, <2>8 DEF RegionSize
<1> QED
  BY <1>1, <1>2, ParserFields

\* Whatever bytes the cache holds, they decode to a length there is.
LEMMA LengthsOfType == \A bytes : LengthsOf(bytes) \subseteq Lengths
  BY DEF LengthsOf, Origins, Lengths

--------------------------------------------------------------------------------
(* Type correctness. *)

LEMMA InitTypeInv == Init => TypeInv
<1> SUFFICES ASSUME Init PROVE TypeInv
  OBVIOUS
<1>1. /\ NewParser.header = 0 /\ NewParser.need = HeaderSize
      /\ NewParser.msg = NoMsg
  BY DEF NewParser
<1>2. InBounds
  BY <1>1, LayoutAssumption DEF Init, InBounds, RegionSize
<1>3. torn \in BOOLEAN
  BY DEF Init
<1> QED
  BY <1>2, <1>3, NewParserType, EndNat, BoundAssumption DEF Init, TypeInv

\* The fields of the parser InitState leaves.
LEMMA InitStateFields ==
  ASSUME NEW p \in ParserType
  PROVE  /\ InitState(p) \in ParserType
         /\ InitState(p).header = 0
         /\ InitState(p).need = HeaderSize
         /\ InitState(p).msg = NoMsg
         /\ RegionSize(InitState(p)) = HeaderSize
<1>1. p = [header |-> p.header, need |-> p.need, cache |-> p.cache, msg |-> p.msg]
  BY ParserFields
<1>2. InitState(p) = [header |-> 0, need |-> HeaderSize, cache |-> p.cache, msg |-> NoMsg]
  <2>1. InitState(p) = [p EXCEPT !.header = 0, !.need = HeaderSize, !.msg = NoMsg]
    BY DEF InitState
  <2> QED
    BY <1>1, <2>1
<1> QED
  BY <1>2, InitStateType DEF RegionSize

\* A ToRecv that ends early leaves a parser that needs less, but something.
LEMMA ReturnShortTypeInv ==
  ASSUME TypeInv, ReturnShort, got < parser.need, errs' \in 0 .. MaxErrors
  PROVE  TypeInv'
<1> DEFINE need == parser.need - got
<1>1. parser' = [header |-> parser.header, need |-> need, cache |-> parser.cache,
                 msg |-> parser.msg]
  <2>1. parser = [header |-> parser.header, need |-> parser.need, cache |-> parser.cache,
                  msg |-> parser.msg]
    BY ParserFields DEF TypeInv
  <2> QED
    BY <2>1 DEF ReturnShort, Progress
<1>2. need \in Nat \ {0} /\ need <= parser.need
  BY ParserFields DEF TypeInv
<1>3. parser' \in ParserType
  BY <1>1, <1>2, ParserFields DEF ParserType, TypeInv
<1>4. RegionSize(parser') = RegionSize(parser) /\ RegionSize(parser) \in Nat
  BY <1>1, ParserFields, LengthsNat, LayoutAssumption DEF RegionSize, TypeInv, InBounds
<1>5. InBounds'
  BY <1>1, <1>2, <1>4 DEF InBounds, TypeInv, ReturnShort
<1> QED
  BY <1>3, <1>5, BoundAssumption DEF TypeInv, ReturnShort

LEMMA StepTypeInv == TypeInv /\ [Next]_vars => TypeInv'
<1> SUFFICES ASSUME TypeInv, [Next]_vars PROVE TypeInv'
  OBVIOUS
<1> USE LayoutAssumption, BoundAssumption, EndNat
<1>1. ASSUME NEW n \in 1 .. Start[NFrames], PeerSend(n) PROVE TypeInv'
  BY <1>1 DEF PeerSend, TypeInv, InBounds
<1>2. CASE PeerClose
  BY <1>2 DEF PeerClose, TypeInv, InBounds
<1>3. CASE PeerReset
  BY <1>3 DEF PeerReset, TypeInv, InBounds
<1>4. ASSUME NEW ok \in BOOLEAN, TcpClient_Connect(ok) PROVE TypeInv'
  BY <1>4 DEF TcpClient_Connect, TypeInv, InBounds
<1>5. CASE TcpClient_Close
  <2>1. /\ parser' \in ParserType
        /\ parser'.header = 0
        /\ parser'.need = HeaderSize
        /\ parser'.msg = NoMsg
        /\ RegionSize(parser') = HeaderSize
    BY <1>5, InitStateFields DEF TcpClient_Close, TypeInv
  <2>2. got' = 0
    BY <1>5 DEF TcpClient_Close, TypeInv, InBounds
  <2>3. InBounds'
    BY <1>5, <2>1, <2>2 DEF InBounds
  <2>4. torn' \in BOOLEAN
    BY <1>5 DEF TcpClient_Close
  <2> QED
    BY <1>5, <2>1, <2>3, <2>4 DEF TcpClient_Close, TypeInv
<1>6. CASE TcpClient_RecvMsg
  <2>1. InBounds'
    BY <1>6 DEF TcpClient_RecvMsg, TypeInv, InBounds
  <2> QED
    BY <1>6, <2>1 DEF TcpClient_RecvMsg, TypeInv
<1>7. ASSUME NEW n \in 1 .. Start[NFrames], ReadSome(n) PROVE TypeInv'
  <2>0. parser.need \in Nat /\ wr \in Nat /\ rd \in Nat /\ got \in Nat /\ n \in Nat
    BY ParserFields DEF TypeInv
  <2>1. n <= wr - rd /\ got + n <= parser.need
    BY <1>7, <2>0 DEF ReadSome
  <2>2. \A k \in 0 .. n - 1 : Incoming(n)[k] \in ByteOrNone
    BY <2>0, <2>1, IncomingBytes
  <2>3. /\ parser' \in ParserType
        /\ parser'.header = parser.header
        /\ parser'.need = parser.need
        /\ parser'.msg = NoMsg <=> parser.msg = NoMsg
        /\ RegionSize(parser') = RegionSize(parser)
    BY <1>7, <2>0, <2>1, <2>2, FillType DEF ReadSome, TypeInv, InBounds
  <2>4. InBounds'
    BY <1>7, <2>0, <2>1, <2>3 DEF ReadSome, InBounds, TypeInv
  <2> QED
    BY <1>7, <2>0, <2>1, <2>3, <2>4 DEF ReadSome, TypeInv
<1>8. CASE ReadZero
  <2>1. InBounds'
    BY <1>8 DEF ReadZero, TypeInv, InBounds
  <2> QED
    BY <1>8, <2>1 DEF ReadZero, TypeInv
<1>9. CASE ReadGiveUp
  BY <1>9, ReturnShortTypeInv DEF ReadGiveUp, AtEof, TypeInv
<1>10. CASE ReadError
  BY <1>10, ReturnShortTypeInv DEF ReadError, TypeInv
<1>11. CASE HeaderComplete
  <2>1. PICK length \in LengthsOf(parser.cache) : \E ok \in MallocResults(length, AllocOutcomes) :
          /\ parser' = AfterHeader(parser, length, ok)
          /\ pc' = IF ok THEN "recv" ELSE "idle"
          /\ torn' = (torn \/ ~ok)
    BY <1>11 DEF HeaderComplete
  <2>0. PICK ok \in MallocResults(length, AllocOutcomes) :
          /\ parser' = AfterHeader(parser, length, ok)
          /\ pc' = IF ok THEN "recv" ELSE "idle"
          /\ torn' = (torn \/ ~ok)
    BY <2>1
  <2>2. length \in Lengths /\ length \in Nat
    BY <2>1, LengthsOfType, LengthsNat
  <2>3. parser' \in ParserType /\ InBounds'
    <3>1. CASE ok
      <4>1. /\ parser' \in ParserType
            /\ parser'.header = 1
            /\ parser'.need = length
            /\ parser'.msg.length = length
            /\ parser'.msg # NoMsg
        <5>1. parser' = ToMidState(parser, length)
          BY <2>0, <3>1 DEF AfterHeader
        <5>2. /\ parser' \in ParserType
              /\ parser'.header = 1
              /\ parser'.need = length
              /\ parser'.msg =
                   [header |-> parser.cache, length |-> length, payload |-> Blank(length)]
          <6>1. parser \in ParserType
            BY DEF TypeInv
          <6>2. ToInt(length) = length
            BY <2>2, <3>1, MallocSucceeds
          <6> QED
            BY <5>1, <2>2, <6>1, <6>2, ToMidStateType
        <5>3. parser'.msg \in MessageOf(length)
          BY <5>2, <2>2, BlankRegion, ParserFields DEF MessageOf, TypeInv
        <5> QED
          BY <2>2, <5>2, <5>3, NoMsgAssumption
      <4>2. RegionSize(parser') = length
        BY <4>1 DEF RegionSize
      <4> QED
        BY <1>11, <4>1, <4>2, <2>2 DEF InBounds, HeaderComplete
    <3>2. CASE ~ok
      <4>1. parser' = InitState(parser)
        BY <2>0, <3>2 DEF AfterHeader
      <4> QED
        BY <1>11, <4>1, InitStateFields DEF InBounds, HeaderComplete, TypeInv
    <3> QED
      BY <3>1, <3>2
  <2>4. ok \in BOOLEAN
    BY MallocResultsType
  <2> QED
    BY <1>11, <2>0, <2>3, <2>4 DEF HeaderComplete, TypeInv
<1>12. CASE PayloadComplete
  <2>1. parser.msg \in Message
    <3>1. /\ parser \in ParserType
          /\ parser.header = 1
          /\ parser.header = 0 <=> parser.msg = NoMsg
      BY <1>12 DEF PayloadComplete, TypeInv, InBounds
    <3>2. parser.msg \in {NoMsg} \cup Message
      BY <3>1 DEF ParserType
    <3> QED
      BY <3>1, <3>2
  <2>2. delivered' \in Seq(Message)
    BY <1>12, <2>1 DEF PayloadComplete, TypeInv
  <2>3. parser' \in ParserType /\ InBounds'
    BY <1>12, InitStateFields DEF PayloadComplete, TypeInv, InBounds
  <2> QED
    BY <1>12, <2>2, <2>3 DEF PayloadComplete, TypeInv
<1>13. CASE UNCHANGED vars
  <2>1. InBounds'
    BY <1>13 DEF vars, TypeInv, InBounds
  <2> QED
    BY <1>13, <2>1 DEF vars, TypeInv
<1> QED
  BY <1>1, <1>2, <1>3, <1>4, <1>5, <1>6, <1>7, <1>8, <1>9, <1>10, <1>11, <1>12, <1>13
     DEF Next, Peer, ReadStep

LEMMA TypeInvTypeOK == TypeInv => TypeOK
<1> SUFFICES ASSUME TypeInv PROVE TypeOK
  OBVIOUS
<1>1. /\ parser \in [header : {0, 1}, need : Nat, cache : Region(HeaderSize), msg : {parser.msg}]
      /\ parser.msg = NoMsg \/ IsMessage(parser.msg)
  BY ParserFields DEF TypeInv, IsMessage
<1>2. \A m \in Message : IsMessage(m)
  BY DEF Message, IsMessage
<1>3. \A k \in DOMAIN delivered : delivered[k] \in Message
  BY DEF TypeInv
<1>4. delivered \in Seq({delivered[k] : k \in DOMAIN delivered})
  <2>1. Len(delivered) \in Nat /\ delivered = [k \in 1 .. Len(delivered) |-> delivered[k]]
    BY DEF TypeInv
  <2> QED
    BY <2>1, IsASeq
<1> QED
  BY <1>1, <1>2, <1>3, <1>4 DEF TypeInv, TypeOK

\* Whatever the peer sends, however read() cuts it and whether or not malloc
\* succeeds, the parser is well formed and no read() stores outside its region.
THEOREM TypeCorrect == Spec => []TypeOK
<1>1. Spec => []TypeInv
  BY InitTypeInv, StepTypeInv, PTL DEF Spec
<1> QED
  BY <1>1, TypeInvTypeOK, PTL

--------------------------------------------------------------------------------
(* The parser and the stream stay in step. *)

\* Where frames begin tells them apart.
LEMMA StartInjective ==
  ASSUME NEW f \in 0 .. NFrames, NEW g \in 0 .. NFrames, Start[f] = Start[g]
  PROVE  f = g
  BY LayoutAssumption

\* A frame, its place in the stream and its length.
LEMMA FrameFacts ==
  ASSUME NEW f \in Frames
  PROVE  /\ f \in 0 .. NFrames /\ f + 1 \in 0 .. NFrames
         /\ Start[f] \in Nat /\ Start[f + 1] \in Nat /\ PLen[f] \in Nat
         /\ Start[f + 1] = Start[f] + HeaderSize + PLen[f]
<1>1. f \in 0 .. NFrames /\ f + 1 \in 0 .. NFrames /\ f \in Int
  BY LayoutAssumption DEF Frames
<1> QED
  BY <1>1, LayoutAssumption

\* The header of a frame decodes to the length of its payload and to no other.
LEMMA HeaderDecodes ==
  ASSUME NEW c \in 1 .. MaxConns, NEW f \in Frames
  PROVE  LengthsOf(HeaderBytes(c, f)) = {PLen[f]}
<1>1. \A d : \A g \in Frames : HeaderBytes(d, g)[0] = <<d, Start[g]>>
  <2> SUFFICES ASSUME NEW d, NEW g \in Frames PROVE HeaderBytes(d, g)[0] = <<d, Start[g]>>
    OBVIOUS
  <2>1. 0 \in 0 .. HeaderSize - 1 /\ Start[g] + 0 = Start[g]
    BY LayoutAssumption, FrameFacts
  <2> QED
    BY <2>1 DEF HeaderBytes, Byte
<1>2. \A cf \in Origins(HeaderBytes(c, f)) : cf[2] = f
  <2> SUFFICES ASSUME NEW cf \in Origins(HeaderBytes(c, f)) PROVE cf[2] = f
    OBVIOUS
  <2>1. cf[2] \in Frames /\ HeaderBytes(c, f) = HeaderBytes(cf[1], cf[2])
    BY DEF Origins
  <2>2. Start[f] = Start[cf[2]]
    BY <1>1, <2>1
  <2> QED
    <3>1. f \in 0 .. NFrames /\ cf[2] \in 0 .. NFrames
      BY <2>1, FrameFacts
    <3> QED
      BY <2>2, <3>1, StartInjective
<1>3. <<c, f>> \in Origins(HeaderBytes(c, f))
  BY DEF Origins
<1> QED
  BY <1>2, <1>3 DEF LengthsOf

\* A region that holds all its bytes is known.
--------------------------------------------------------------------------------
(* Storing the next bytes extends what the region is known to hold. *)

\* If a region holds the stream from position base up to rd, it still does after
\* the n bytes that follow have been put behind them.
LEMMA PutInSync ==
  ASSUME NEW size \in Nat, NEW region \in Region(size), NEW base \in Nat, NEW held \in Nat,
         NEW n \in Nat, held + n <= size, rd = base + held,
         Holds(region, held, conn, base)
  PROVE  Holds(Put(region, held, Incoming(n), n), held + n, conn, base)
<1> SUFFICES ASSUME NEW k \in 0 .. held + n - 1
             PROVE  Put(region, held, Incoming(n), n)[k] = Byte(conn, base + k)
  BY DEF Holds
<1>1. DOMAIN region = 0 .. size - 1 /\ k \in 0 .. size - 1
  BY DEF Region
<1>2. CASE k < held
  BY <1>1, <1>2 DEF Put, Holds
<1>3. CASE k >= held
  <2>1. k - held \in 0 .. n - 1 /\ rd + (k - held) = base + k
    BY <1>3
  <2>2. Incoming(n)[k - held] = Byte(conn, base + k)
    BY <2>1 DEF Incoming
  <2>3. k \in held .. held + n - 1
    BY <1>3
  <2> QED
    BY <1>1, <2>2, <2>3 DEF Put
<1> QED
  BY <1>2, <1>3

LEMMA InitInSync == Init => InSync
<1> QED
  BY LayoutAssumption DEF Init, InSync, NewParser, Holds

\* The frame being parsed when the parser is in a payload, and the arithmetic
\* of what is held of it.
LEMMA SyncFrame ==
  ASSUME TypeInv, InSync
  PROVE  /\ frames \in 0 .. NFrames /\ Start[frames] \in Nat
         /\ parser.header = 1 => frames \in Frames /\ PLen[frames] \in Nat
                                 /\ parser.need <= PLen[frames]
         /\ parser.header = 0 => parser.need <= HeaderSize
         /\ wr \in Nat /\ rd \in Nat /\ rd <= wr /\ wr <= Start[NFrames]
         /\ got \in Nat /\ parser.need \in Nat /\ got <= parser.need
<1>1. /\ parser \in ParserType /\ parser.header \in {0, 1} /\ parser.need \in Nat
      /\ parser.need <= RegionSize(parser)
      /\ got \in Nat /\ got <= parser.need
  BY ParserFields, LayoutAssumption DEF TypeInv, InBounds
<1>2. wr \in Nat /\ rd \in Nat /\ rd <= wr /\ wr <= Start[NFrames]
  BY EndNat DEF TypeInv
<1>3. frames \in 0 .. NFrames /\ Start[frames] \in Nat
  BY LayoutAssumption DEF InSync
<1>4. ASSUME parser.header = 1
      PROVE  frames \in Frames /\ PLen[frames] \in Nat /\ parser.need <= PLen[frames]
  <2>1. frames < NFrames /\ parser.msg.length = PLen[frames]
    BY <1>4 DEF InSync
  <2>2. frames \in Frames /\ PLen[frames] \in Nat
    BY <1>3, <2>1, LayoutAssumption DEF Frames
  <2> QED
    BY <1>1, <1>4, <2>1, <2>2 DEF RegionSize
<1>5. ASSUME parser.header = 0 PROVE parser.need <= HeaderSize
  BY <1>1, <1>5 DEF RegionSize
<1> QED
  BY <1>1, <1>2, <1>3, <1>4, <1>5

\* A complete header means that there is a frame it belongs to.
LEMMA HeaderOfFrame ==
  ASSUME TypeInv, InSync, parser.header = 0, got = parser.need
  PROVE  /\ frames \in Frames
         /\ rd = Start[frames] + HeaderSize
         /\ parser.cache = HeaderBytes(conn, frames)
<1>1. /\ rd = Start[frames] + HeaderSize
      /\ Holds(parser.cache, HeaderSize, conn, Start[frames])
  <2>1. HeaderSize - parser.need + got = HeaderSize
    BY SyncFrame, LayoutAssumption
  <2> QED
    BY <2>1 DEF InSync
<1>2. frames # NFrames
  BY <1>1, SyncFrame, LayoutAssumption
<1>3. parser.cache = HeaderBytes(conn, frames)
  BY <1>1, ParserFields DEF TypeInv, HeaderBytes, Region, Holds
<1> QED
  BY <1>1, <1>2, <1>3, SyncFrame, LayoutAssumption DEF Frames

\* A complete payload means that the message is the frame it belongs to.
LEMMA PayloadOfFrame ==
  ASSUME TypeInv, InSync, parser.header = 1, got = parser.need
  PROVE  /\ frames \in Frames
         /\ rd = Start[frames + 1]
         /\ parser.msg = FrameMsg(conn, frames)
<1>1. /\ frames \in Frames /\ PLen[frames] \in Nat
      /\ Start[frames + 1] = Start[frames] + HeaderSize + PLen[frames]
  BY SyncFrame, FrameFacts
<1>2. PLen[frames] - parser.need + got = PLen[frames]
  BY <1>1, SyncFrame
<1>3. /\ rd = Start[frames] + HeaderSize + PLen[frames]
      /\ parser.msg.header = HeaderBytes(conn, frames)
      /\ parser.msg.length = PLen[frames]
      /\ Holds(parser.msg.payload, PLen[frames], conn, Start[frames] + HeaderSize)
  BY <1>2 DEF InSync
<1>4. parser.msg \in MessageOf(PLen[frames])
  BY <1>3, ParserFields DEF TypeInv, InBounds
<1>5. parser.msg.payload = PayloadBytes(conn, frames)
  BY <1>3, <1>4 DEF MessageOf, Region, PayloadBytes, Holds
<1>6. parser.msg = [header |-> parser.msg.header, length |-> parser.msg.length,
                    payload |-> parser.msg.payload]
  BY <1>4 DEF MessageOf
<1> QED
  BY <1>1, <1>3, <1>5, <1>6 DEF FrameMsg

\* A ToRecv that ends early has used up what it says is no longer needed.
LEMMA ReturnShortInSync ==
  ASSUME TypeInv, InSync, ReturnShort, pc = "recv"
  PROVE  InSync'
<1>1. /\ parser'.header = parser.header
      /\ parser'.need = parser.need - got
      /\ parser'.cache = parser.cache
      /\ parser'.msg = parser.msg
  <2>1. parser = [header |-> parser.header, need |-> parser.need, cache |-> parser.cache,
                  msg |-> parser.msg]
    BY ParserFields DEF TypeInv
  <2>2. parser' = [parser EXCEPT !.need = parser.need - got]
    BY <2>1 DEF ReturnShort, Progress
  <2> QED
    BY <2>1, <2>2
<1>2. link # "none"
  BY DEF InSync
<1>3. UNCHANGED <<conn, link, wr, rd, frames>> /\ got' = 0
  BY DEF ReturnShort
<1>4. /\ HeaderSize - parser'.need + got' = HeaderSize - parser.need + got
      /\ parser.header = 1 => PLen[frames] - parser'.need + got' = PLen[frames] - parser.need + got
  BY <1>1, <1>3, SyncFrame, LayoutAssumption
<1> QED
  BY <1>1, <1>2, <1>3, <1>4 DEF InSync, HeaderBytes

LEMMA ReadSomeInSync ==
  ASSUME TypeInv, InSync, NEW n \in Nat, ReadSome(n)
  PROVE  InSync'
<1>1. /\ n <= wr - rd /\ got + n <= parser.need
      /\ parser' = Fill(parser, got, Incoming(n), n)
      /\ got' = got + n /\ rd' = rd + n
      /\ UNCHANGED <<conn, link, wr, pc, frames>>
  BY SyncFrame DEF ReadSome
<1>0. got \in Nat /\ parser.need \in Nat /\ rd \in Nat /\ got + n <= parser.need
  BY <1>1, SyncFrame
<1>2. /\ link # "none" /\ link' # "none" /\ conn' > 0 /\ pc' # "idle"
      /\ frames' \in 0 .. NFrames
  BY DEF InSync, ReadSome
<1>3. parser = [header |-> parser.header, need |-> parser.need, cache |-> parser.cache,
                msg |-> parser.msg]
  BY ParserFields DEF TypeInv
<1>4. CASE parser.header = 0
  <2> DEFINE held == HeaderSize - parser.need + got
  <2>1. held \in Nat /\ held + n <= HeaderSize /\ rd = Start[frames] + held
        /\ Holds(parser.cache, held, conn, Start[frames])
    <3>1. parser.need <= HeaderSize /\ HeaderSize \in Nat
      BY <1>4, SyncFrame, LayoutAssumption
    <3>2. held \in Nat /\ held + n <= HeaderSize
      BY <1>0, <3>1
    <3> QED
      BY <1>4, <3>2 DEF InSync
  <2>2. parser' = [parser EXCEPT !.cache = Put(parser.cache, held, Incoming(n), n)]
    BY <1>1, <1>4 DEF Fill, Offset, RegionSize
  <2>3. /\ parser'.header = 0 /\ parser'.need = parser.need
        /\ parser'.cache = Put(parser.cache, held, Incoming(n), n)
    BY <1>3, <1>4, <2>2
  <2>4. Holds(Put(parser.cache, held, Incoming(n), n), held + n, conn, Start[frames])
    <3>1. parser.cache \in Region(HeaderSize) /\ HeaderSize \in Nat
      BY ParserFields, LayoutAssumption DEF TypeInv
    <3> QED
      BY <2>1, <3>1, SyncFrame, PutInSync
  <2>5. HeaderSize - parser'.need + got' = held + n
    BY <1>1, <2>3, SyncFrame, LayoutAssumption
  <2>6. rd' = Start[frames] + (held + n)
    BY <1>1, <2>1, SyncFrame
  <2> QED
    <3> HIDE DEF held
    <3> QED
      BY <1>1, <1>2, <2>3, <2>4, <2>5, <2>6 DEF InSync
<1>5. CASE parser.header = 1
  <2> DEFINE held == PLen[frames] - parser.need + got
             base == Start[frames] + HeaderSize
  <2>1. held \in Nat /\ held + n <= PLen[frames] /\ base \in Nat /\ PLen[frames] \in Nat
    <3>1. /\ parser.need <= PLen[frames] /\ PLen[frames] \in Nat
          /\ Start[frames] \in Nat /\ HeaderSize \in Nat
      BY <1>5, SyncFrame, LayoutAssumption
    <3> QED
      BY <1>0, <3>1
  <2>2. /\ frames < NFrames
        /\ parser.msg.header = HeaderBytes(conn, frames)
        /\ parser.msg.length = PLen[frames]
        /\ rd = base + held
        /\ Holds(parser.msg.payload, held, conn, base)
    BY <1>5 DEF InSync
  <2>3. parser.msg \in MessageOf(PLen[frames])
    BY <1>5, <2>2, ParserFields DEF TypeInv, InBounds
  <2>4. parser' = [parser EXCEPT !.msg.payload =
                     Put(parser.msg.payload, held, Incoming(n), n)]
    BY <1>1, <1>5, <2>2 DEF Fill, Offset, RegionSize
  <2>5. /\ parser'.header = 1 /\ parser'.need = parser.need
        /\ parser'.msg.header = parser.msg.header
        /\ parser'.msg.length = parser.msg.length
        /\ parser'.msg.payload = Put(parser.msg.payload, held, Incoming(n), n)
    BY <1>3, <1>5, <2>3, <2>4 DEF MessageOf
  <2>6. Holds(Put(parser.msg.payload, held, Incoming(n), n), held + n, conn, base)
    <3>1. parser.msg.payload \in Region(PLen[frames])
      BY <2>3 DEF MessageOf
    <3> HIDE DEF held, base
    <3> QED
      BY <2>1, <2>2, <3>1, PutInSync
  <2>7. PLen[frames] - parser'.need + got' = held + n
    BY <1>1, <1>5, <2>5, SyncFrame
  <2>8. rd' = base + (held + n)
    BY <1>1, <2>1, <2>2, SyncFrame
  <2>9. frames \in 0 .. NFrames /\ conn > 0
    BY <1>2 DEF InSync
  <2>10. HeaderBytes(conn, frames)' = HeaderBytes(conn, frames)
    BY <1>1 DEF HeaderBytes
  <2> QED
    <3>1. rd' = Start[frames'] + HeaderSize + (PLen[frames'] - parser'.need + got')
      BY <1>1, <2>7, <2>8
    <3>2. Holds(parser'.msg.payload, PLen[frames'] - parser'.need + got', conn',
                Start[frames'] + HeaderSize)
      <4> HIDE DEF held
      <4> QED
        BY <1>1, <2>5, <2>6, <2>7
    <3> QED
      BY <1>1, <1>2, <2>2, <2>5, <2>10, <3>1, <3>2 DEF InSync
<1> QED
  BY <1>4, <1>5, ParserFields DEF TypeInv

\* A closed client is in step, whatever it was before.
LEMMA CloseInSync == TypeInv /\ TcpClient_Close => InSync'
<1> SUFFICES ASSUME TypeInv, TcpClient_Close PROVE InSync'
  OBVIOUS
<1>1. /\ parser'.header = 0 /\ parser'.need = HeaderSize /\ got' = 0
      /\ rd' = 0 /\ wr' = 0 /\ frames' = 0 /\ link' = "none" /\ pc' = "idle"
  BY InitStateFields DEF TcpClient_Close, TypeInv, InBounds
<1> QED
  BY <1>1, LayoutAssumption DEF InSync, Holds

\* A step that does not tear the parser from the stream leaves them in step.
LEMMA StepInSync ==
  ASSUME TypeInv, InSync, [Next]_vars, ~torn'
  PROVE  InSync'
<1>1. ASSUME NEW n \in 1 .. Start[NFrames], PeerSend(n) PROVE InSync'
  BY <1>1 DEF PeerSend, InSync, HeaderBytes
<1>2. CASE PeerClose
  BY <1>2 DEF PeerClose, InSync, HeaderBytes
<1>3. CASE PeerReset
  BY <1>3 DEF PeerReset, InSync, HeaderBytes
<1>4. ASSUME NEW ok \in BOOLEAN, TcpClient_Connect(ok) PROVE InSync'
  <2>1. pc = "idle" /\ (link = "none" \/ BetweenMessages)
    BY <1>4 DEF TcpClient_Connect
  <2>2. /\ parser.header = 0 /\ parser.need = HeaderSize /\ got = 0
    BY <2>1 DEF InSync, TypeInv, InBounds, BetweenMessages
  <2>3. /\ parser' = parser /\ got' = 0 /\ rd' = 0 /\ frames' = 0 /\ conn' > 0
        /\ link' # "none"
    BY <1>4, <2>2, BoundAssumption DEF TcpClient_Connect, TypeInv
  <2> QED
    <3>1. HeaderSize - parser'.need + got' = 0 /\ Start[frames'] = 0 /\ 0 \in 0 .. NFrames
      BY <2>2, <2>3, LayoutAssumption
    <3>2. Holds(parser'.cache, 0, conn', Start[frames'])
      BY DEF Holds
    <3> QED
      BY <2>2, <2>3, <3>1, <3>2 DEF InSync
<1>5. CASE TcpClient_Close
  BY <1>5, CloseInSync
<1>6. CASE TcpClient_RecvMsg
  <2>1. got' = got /\ UNCHANGED <<conn, link, rd, parser, frames>> /\ link # "none"
    BY <1>6 DEF TcpClient_RecvMsg, TypeInv, InBounds
  <2> QED
    BY <2>1 DEF InSync, HeaderBytes
<1>7. ASSUME NEW n \in 1 .. Start[NFrames], ReadSome(n) PROVE InSync'
  BY <1>7, EndNat, ReadSomeInSync
<1>8. CASE ReadZero
  BY <1>8 DEF ReadZero, InSync, HeaderBytes
<1>9. CASE ReadGiveUp
  BY <1>9, ReturnShortInSync DEF ReadGiveUp, AtEof
<1>10. CASE ReadError
  BY <1>10, ReturnShortInSync DEF ReadError
<1>11. CASE HeaderComplete
  <2>1. PICK length \in LengthsOf(parser.cache) :
          parser' = AfterHeader(parser, length, TRUE) /\ ToInt(length) = length
    <3>1. PICK length \in LengthsOf(parser.cache) : \E ok \in MallocResults(length, AllocOutcomes) :
            parser' = AfterHeader(parser, length, ok) /\ torn' = (torn \/ ~ok)
      BY <1>11 DEF HeaderComplete
    <3>2. PICK ok \in MallocResults(length, AllocOutcomes) :
            parser' = AfterHeader(parser, length, ok) /\ torn' = (torn \/ ~ok)
      BY <3>1
    <3>3. ok = TRUE
      BY <3>2, MallocResultsType
    <3>4. ToInt(length) = length
      BY <3>2, <3>3, LengthsOfType, MallocSucceeds
    <3> QED
      BY <3>1, <3>2, <3>3, <3>4
  <2>2. /\ parser.header = 0 /\ got = parser.need /\ got' = 0
        /\ UNCHANGED <<conn, link, wr, rd, frames>> /\ link # "none"
    BY <1>11 DEF HeaderComplete, InSync
  <2>3. /\ frames \in Frames
        /\ rd = Start[frames] + HeaderSize
        /\ parser.cache = HeaderBytes(conn, frames)
    BY <2>2, HeaderOfFrame
  <2>4. conn \in 1 .. MaxConns
    BY <2>2, BoundAssumption DEF TypeInv, InSync
  <2>5. length = PLen[frames] /\ PLen[frames] \in Nat
    BY <2>1, <2>3, <2>4, HeaderDecodes, FrameFacts
  <2>6. /\ parser'.header = 1
        /\ parser'.need = PLen[frames]
        /\ parser'.msg.header = HeaderBytes(conn, frames)
        /\ parser'.msg.length = PLen[frames]
    <3>1. length \in Lengths
      BY <2>1, LengthsOfType
    <3>2. parser' = ToMidState(parser, length)
      BY <2>1 DEF AfterHeader
    <3>3. /\ parser'.header = 1
          /\ parser'.need = length
          /\ parser'.msg =
               [header |-> parser.cache, length |-> length, payload |-> Blank(length)]
      <4>1. parser \in ParserType
        BY DEF TypeInv
      <4>2. ToInt(length) = length
        BY <2>1
      <4> QED
        BY <3>1, <3>2, <4>1, <4>2, ToMidStateType
    <3> QED
      BY <2>3, <2>5, <3>3
  <2>7. PLen[frames'] - parser'.need + got' = 0 /\ rd' = Start[frames'] + HeaderSize + 0
    BY <2>2, <2>3, <2>5, <2>6, FrameFacts, LayoutAssumption
  <2>8. Holds(parser'.msg.payload, 0, conn', Start[frames'] + HeaderSize)
    BY DEF Holds
  <2>9. frames' \in 0 .. NFrames /\ frames' < NFrames /\ conn' > 0
    BY <2>2, <2>3, LayoutAssumption DEF Frames, InSync
  <2> QED
    BY <2>2, <2>6, <2>7, <2>8, <2>9 DEF InSync, HeaderBytes
<1>12. CASE PayloadComplete
  <2>1. /\ parser.header = 1 /\ got = parser.need /\ got' = 0
        /\ frames' = frames + 1 /\ parser' = InitState(parser)
        /\ UNCHANGED <<conn, link, wr, rd>> /\ link # "none"
    BY <1>12 DEF PayloadComplete, InSync
  <2>2. frames \in Frames /\ rd = Start[frames + 1]
    BY <2>1, PayloadOfFrame
  <2>3. parser'.header = 0 /\ parser'.need = HeaderSize
    BY <2>1, InitStateFields DEF TypeInv
  <2>4. HeaderSize - parser'.need + got' = 0 /\ rd' = Start[frames'] + 0
    BY <2>1, <2>2, <2>3, FrameFacts, LayoutAssumption
  <2>5. Holds(parser'.cache, 0, conn', Start[frames'])
    BY DEF Holds
  <2>6. frames' \in 0 .. NFrames /\ conn' > 0
    BY <2>1, <2>2, FrameFacts DEF InSync
  <2> QED
    BY <2>1, <2>3, <2>4, <2>5, <2>6 DEF InSync
<1>13. CASE UNCHANGED vars
  BY <1>13 DEF vars, InSync, HeaderBytes
<1> QED
  BY <1>1, <1>2, <1>3, <1>4, <1>5, <1>6, <1>7, <1>8, <1>9, <1>10, <1>11, <1>12, <1>13
     DEF Next, Peer, ReadStep

\* The parser and the stream are in step, or the parser is torn from it.
Sync == torn \/ InSync

LEMMA StepSync == TypeInv /\ Sync /\ [Next]_vars => Sync'
<1> SUFFICES ASSUME TypeInv, Sync, [Next]_vars, ~torn' PROVE InSync'
  BY DEF Sync
<1>1. CASE ~torn
  BY <1>1, StepInSync DEF Sync
<1>2. CASE torn /\ TcpClient_Close
  BY <1>2, CloseInSync
<1>3. CASE torn /\ ~TcpClient_Close
  <2>1. torn'
    BY <1>3 DEF Next, Peer, ReadStep, PeerSend, PeerClose, PeerReset, TcpClient_Connect,
       TcpClient_RecvMsg, ReadSome, ReadZero, ReadGiveUp, ReadError, ReturnShort,
       HeaderComplete, PayloadComplete, vars
  <2> QED
    BY <2>1
<1> QED
  BY <1>1, <1>2, <1>3

\* Being in step is more than what the comment on need promises.
LEMMA SyncNeedExact == TypeInv /\ Sync => NeedExact
<1> SUFFICES ASSUME TypeInv, InSync, link # "none" PROVE NeedExact
  BY DEF NeedExact, Sync
<1>1. CASE parser.header = 0
  <2>1. Start[frames] <= rd /\ rd + (parser.need - got) = Start[frames] + HeaderSize
    BY <1>1, SyncFrame, LayoutAssumption DEF InSync
  <2> QED
    BY <1>1, <2>1, SyncFrame DEF NeedExact
<1>2. CASE parser.header = 1
  <2>1. frames \in Frames /\ Start[frames + 1] = Start[frames] + HeaderSize + PLen[frames]
    BY <1>2, SyncFrame, FrameFacts
  <2>2. /\ Start[frames] + HeaderSize <= rd
        /\ rd + (parser.need - got) = Start[frames + 1]
    <3>1. rd = Start[frames] + HeaderSize + (PLen[frames] - parser.need + got)
      BY <1>2 DEF InSync
    <3>2. /\ parser.need <= PLen[frames] /\ PLen[frames] \in Nat /\ Start[frames] \in Nat
          /\ parser.need \in Nat /\ got \in Nat /\ HeaderSize \in Nat
      BY <1>2, SyncFrame, LayoutAssumption
    <3> QED
      BY <2>1, <3>1, <3>2
  <2> QED
    BY <1>2, <2>1, <2>2 DEF NeedExact
<1> QED
  BY <1>1, <1>2, ParserFields DEF TypeInv

LEMMA SpecSync == Spec => [](TypeInv /\ Sync)
<1>1. Init => Sync
  BY InitInSync DEF Sync
<1> QED
  BY <1>1, InitTypeInv, StepTypeInv, StepSync, PTL DEF Spec

\* The parser never loses its place, whatever read() does to the stream: need is
\* what the comment at its declaration says, but for the two ways to be torn from
\* the stream, and TcpClient_Close ends those.
THEOREM NeedIsExact == Spec => []NeedExact
  BY SpecSync, SyncNeedExact, PTL

--------------------------------------------------------------------------------
(* The object implements the channel of whole frames. *)

Sent == {f \in Frames : Start[f + 1] <= wr}
Out == [k \in DOMAIN delivered |-> IdOf(delivered[k])]

\* A frame is recognised as the frame it is.
LEMMA IdOfFrame ==
  ASSUME NEW c \in 1 .. MaxConns, NEW f \in Frames
  PROVE  IdOf(FrameMsg(c, f)) = <<c, f>>
<1>1. \A d : \A g \in Frames : FrameMsg(d, g).header[0] = <<d, Start[g]>>
  <2> SUFFICES ASSUME NEW d, NEW g \in Frames
               PROVE  FrameMsg(d, g).header[0] = <<d, Start[g]>>
    OBVIOUS
  <2>1. 0 \in 0 .. HeaderSize - 1 /\ Start[g] + 0 = Start[g]
    BY LayoutAssumption, FrameFacts
  <2> QED
    BY <2>1 DEF FrameMsg, HeaderBytes, Byte
<1>2. ASSUME NEW cf \in (1 .. MaxConns) \X Frames, FrameMsg(c, f) = FrameMsg(cf[1], cf[2])
      PROVE  cf = <<c, f>>
  <2>1. cf[1] = c /\ Start[cf[2]] = Start[f]
    BY <1>1, <1>2
  <2>2. cf[2] = f
    BY <2>1, FrameFacts, StartInjective
  <2> QED
    BY <2>1, <2>2
<1>3. <<c, f>> \in (1 .. MaxConns) \X Frames
  OBVIOUS
<1>4. IdOf(FrameMsg(c, f)) =
        CHOOSE cf \in (1 .. MaxConns) \X Frames : FrameMsg(c, f) = FrameMsg(cf[1], cf[2])
  BY DEF IdOf
<1> QED
  BY <1>2, <1>3, <1>4

\* What is handed out is a frame or the mark for none.
LEMMA IdOfType == \A m : IdOf(m) \in Channel!Handed
<1> SUFFICES ASSUME NEW m PROVE IdOf(m) \in ((1 .. MaxConns) \X Frames) \cup {<<0, 0>>}
  BY DEF Channel!Handed, Channel!Frames, Frames
<1>1. CASE \E c \in 1 .. MaxConns, f \in Frames : m = FrameMsg(c, f)
  <2>1. PICK c \in 1 .. MaxConns, f \in Frames : m = FrameMsg(c, f)
    BY <1>1
  <2>2. <<c, f>> \in (1 .. MaxConns) \X Frames /\ m = FrameMsg(<<c, f>>[1], <<c, f>>[2])
    BY <2>1
  <2> QED
    BY <1>1, <2>2 DEF IdOf
<1>2. CASE ~ \E c \in 1 .. MaxConns, f \in Frames : m = FrameMsg(c, f)
  BY <1>2 DEF IdOf
<1> QED
  BY <1>1, <1>2

LEMMA InitChannel == Init => Channel!Init
<1> SUFFICES ASSUME Init PROVE Channel!Init
  OBVIOUS
<1>1. Sent = {}
  <2>1. \A f \in Frames : ~(Start[f + 1] <= 0)
    BY FrameFacts, LayoutAssumption
  <2> QED
    BY <2>1 DEF Init, Sent
<1>2. Out = <<>>
  BY DEF Init, Out
<1> QED
  BY <1>1, <1>2 DEF Init, Channel!Init, Sent, Out

\* Appending a message appends its frame.
LEMMA OutAppend ==
  ASSUME TypeInv, NEW m, delivered' = Append(delivered, m)
  PROVE  Out' = Append(Out, IdOf(m))
<1>1. /\ Len(delivered) \in Nat /\ DOMAIN delivered = 1 .. Len(delivered)
      /\ DOMAIN delivered' = 1 .. Len(delivered) + 1
      /\ \A k \in 1 .. Len(delivered) : delivered'[k] = delivered[k]
      /\ delivered'[Len(delivered) + 1] = m
  BY DEF TypeInv
<1> DEFINE Ids == {IdOf(delivered[k]) : k \in DOMAIN delivered} \cup {IdOf(m)}
<1>2. Out = [k \in 1 .. Len(delivered) |-> IdOf(delivered[k])]
  BY <1>1 DEF Out
<1>3. /\ Out \in Seq(Ids) /\ Len(Out) = Len(delivered)
      /\ \A k \in 1 .. Len(delivered) : Out[k] = IdOf(delivered[k])
  BY <1>1, <1>2
<1>4. Out' = [k \in 1 .. Len(delivered) + 1 |-> IdOf(delivered'[k])]
  BY <1>1 DEF Out, IdOf, FrameMsg, HeaderBytes, PayloadBytes
<1>5. /\ Out' \in Seq(Ids) /\ Len(Out') = Len(delivered) + 1
      /\ \A k \in 1 .. Len(delivered) + 1 :
           Out'[k] = IF k = Len(delivered) + 1 THEN IdOf(m) ELSE IdOf(delivered[k])
  BY <1>1, <1>4
<1>6. /\ Append(Out, IdOf(m)) \in Seq(Ids)
      /\ Len(Append(Out, IdOf(m))) = Len(delivered) + 1
      /\ \A k \in 1 .. Len(delivered) + 1 :
           Append(Out, IdOf(m))[k] = IF k = Len(delivered) + 1 THEN IdOf(m) ELSE Out[k]
  <2> HIDE DEF Ids
  <2>1. IdOf(m) \in Ids
    BY DEF Ids
  <2> QED
    BY <1>1, <1>3, <2>1
<1> QED
  <2> HIDE DEF Ids
  <2> QED
    BY <1>1, <1>3, <1>5, <1>6, SeqEqual

\* Every step of the object is a step of the channel, or none.
LEMMA StepChannel ==
  ASSUME TypeInv, TypeInv', Sync, [Next]_vars
  PROVE  [Channel!Next]_(Channel!vars)
<1> USE DEF Channel!Next, Channel!vars, Channel!Frames
<1>0. ASSUME UNCHANGED <<conn, wr, frames, delivered, torn>>
      PROVE  UNCHANGED Channel!vars
  BY <1>0 DEF IdOf, FrameMsg, HeaderBytes, PayloadBytes
<1>1. ASSUME NEW n \in 1 .. Start[NFrames], PeerSend(n) PROVE [Channel!Next]_(Channel!vars)
  <2>1. UNCHANGED <<conn, frames, delivered, torn>> /\ wr' = wr + n /\ n \in Nat /\ wr \in Nat
    BY <1>1, EndNat DEF PeerSend, TypeInv
  <2>2. Sent' = Sent \cup Sent' /\ Sent' \in SUBSET Frames
    <3>1. \A f \in Frames : Start[f + 1] <= wr => Start[f + 1] <= wr + n
      BY <2>1, FrameFacts
    <3> QED
      BY <2>1, <3>1 DEF Sent
  <2>3. UNCHANGED Out
    BY <2>1 DEF Out, IdOf, FrameMsg, HeaderBytes, PayloadBytes
  <2> QED
    BY <2>1, <2>2, <2>3 DEF Channel!Arrive, Sent, Out, Frames
<1>2. ASSUME conn' = conn + 1, conn < MaxConns, wr' = 0, frames' = 0, UNCHANGED delivered,
             torn' \in {torn, TRUE}
      PROVE  Channel!Next
  <2>1. Sent' = {}
    BY <1>2, FrameFacts, LayoutAssumption DEF Sent
  <2>2. UNCHANGED Out
    BY <1>2 DEF Out, IdOf, FrameMsg, HeaderBytes, PayloadBytes
  <2> QED
    BY <1>2, <2>1, <2>2 DEF Channel!Open, Sent, Out
<1>3. CASE TcpClient_Close
  <2>1. wr' = 0 /\ frames' = 0 /\ torn' = FALSE /\ UNCHANGED <<conn, delivered>>
    BY <1>3 DEF TcpClient_Close
  <2>2. Sent' = {}
    BY <2>1, FrameFacts, LayoutAssumption DEF Sent
  <2>3. UNCHANGED Out
    BY <2>1 DEF Out, IdOf, FrameMsg, HeaderBytes, PayloadBytes
  <2> QED
    BY <2>1, <2>2, <2>3 DEF Channel!Hangup, Sent, Out
<1>4. CASE PayloadComplete /\ torn
  <2>1. /\ frames' = frames + 1 /\ UNCHANGED <<conn, wr, torn>>
        /\ delivered' = Append(delivered, parser.msg)
    BY <1>4 DEF PayloadComplete
  <2>2. Out' = Append(Out, IdOf(parser.msg)) /\ IdOf(parser.msg) \in Channel!Handed
    BY <2>1, OutAppend, IdOfType
  <2>3. UNCHANGED Sent
    BY <2>1 DEF Sent
  <2> QED
    BY <1>4, <2>1, <2>2, <2>3 DEF Channel!Garbled, Sent, Out
<1>5. CASE PayloadComplete /\ ~torn
  <2>0. InSync
    BY <1>5 DEF Sync
  <2>1. /\ frames' = frames + 1 /\ UNCHANGED <<conn, wr, torn>>
        /\ delivered' = Append(delivered, parser.msg)
    BY <1>5 DEF PayloadComplete
  <2>2. frames \in Frames /\ rd = Start[frames + 1] /\ parser.msg = FrameMsg(conn, frames)
    BY <1>5, <2>0, PayloadOfFrame DEF PayloadComplete
  <2>3. frames \in Sent
    BY <2>0, <2>2, SyncFrame DEF Sent
  <2>4. conn \in 1 .. MaxConns
    BY <1>5, <2>0, BoundAssumption DEF TypeInv, InSync, PayloadComplete
  <2>5. Out' = Append(Out, <<conn, frames>>)
    BY <2>1, <2>2, <2>4, OutAppend, IdOfFrame
  <2>6. UNCHANGED Sent
    BY <2>1 DEF Sent
  <2> QED
    BY <2>1, <2>3, <2>5, <2>6 DEF Channel!Deliver, Sent, Out
<1>6. CASE HeaderComplete
  <2>1. UNCHANGED <<conn, wr, frames, delivered>> /\ torn' \in {torn, TRUE}
    BY <1>6, BoundAssumption DEF HeaderComplete, TypeInv
  <2>2. UNCHANGED <<Sent, Out>>
    BY <2>1 DEF Sent, Out, IdOf, FrameMsg, HeaderBytes, PayloadBytes
  <2>3. CASE torn' = torn
    BY <2>1, <2>3, <1>0
  <2>4. CASE torn' = TRUE
    BY <2>1, <2>2, <2>4 DEF Channel!Tear, Sent, Out
  <2> QED
    BY <2>1, <2>3, <2>4
<1> QED
  <2>1. CASE \E ok \in BOOLEAN : TcpClient_Connect(ok)
    <3>1. PICK ok \in BOOLEAN : TcpClient_Connect(ok)
      BY <2>1
    <3>2. torn' \in {torn, TRUE}
      BY <3>1 DEF TcpClient_Connect, TypeInv
    <3> QED
      BY <3>1, <3>2, <1>2 DEF TcpClient_Connect
  <2>2. CASE \E n \in 1 .. Start[NFrames] : PeerSend(n)
    BY <2>2, <1>1
  <2>3. CASE PeerClose \/ PeerReset \/ TcpClient_RecvMsg
    BY <2>3, <1>0 DEF PeerClose, PeerReset, TcpClient_RecvMsg
  <2>4. CASE (\E n \in 1 .. Start[NFrames] : ReadSome(n)) \/ ReadZero
    BY <2>4, <1>0 DEF ReadSome, ReadZero
  <2>5. CASE ReadGiveUp \/ ReadError
    BY <2>5, <1>0 DEF ReadGiveUp, ReadError, ReturnShort
  <2>6. CASE UNCHANGED vars
    BY <2>6, <1>0 DEF vars
  <2> QED
    BY <2>1, <2>2, <2>3, <2>4, <2>5, <2>6, <1>3, <1>4, <1>5, <1>6
       DEF Next, Peer, ReadStep

\* What the caller gets on each connection are the peer's frames, whole, once
\* each and in order, as long as the parser is not torn from the stream: the
\* object implements FrameChannel.
THEOREM Implements == Spec => ImplementsChannel
<1> SUFFICES Spec => Channel!Spec
  BY DEF ImplementsChannel
<1>1. TypeInv /\ Sync /\ TypeInv' /\ [Next]_vars => [Channel!Next]_(Channel!vars)
  BY StepChannel
<1> QED
  BY <1>1, SpecSync, InitChannel, PTL DEF Spec, Channel!Spec
================================================================================
