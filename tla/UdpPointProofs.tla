----------------------------- MODULE UdpPointProofs -----------------------------
(***************************************************************************)
(* Proofs about UdpPoint.tla, for any messages, remote points, sizes of    *)
(* the socket and failures.  First for messages of which no datagram is    *)
(* longer than what UdpPoint_RecvMsg looks at (for longer ones see         *)
(* SenderReported): the parser is at the beginning of a message before     *)
(* each datagram (Fresh), and MParser_ReadMem takes all of it (Whole), so  *)
(* that each receive is a step of DatagramService.  Then, for datagrams of *)
(* any length, the types.                                                  *)
(***************************************************************************)
EXTENDS UdpPoint, SequenceTheorems, FiniteSetTheorems, TLAPS

Fits == \A f \in Frames : Size(f) <= PeekSize

\* A parser between two messages; its cache holds the bytes of the one before.
Fresh(p) ==
  \E cache \in [0 .. HeaderSize - 1 -> UNION {{NoByte}, Frames \X Nat}] :
    p = [header |-> 0, need |-> HeaderSize, cache |-> cache, msg |-> NoMsg]

Results == [msg : {FrameMsg(f) : f \in Frames} \cup {Raw(f, n) : f \in Frames, n \in RawLens},
            remote : {Sender[f] : f \in Frames}]

UdpInv ==
  /\ queue \in Seq(Frames)
  /\ Fresh(parser)
  /\ pc \in {"idle", "recv"}
  /\ pc = "idle" => length = 0
  /\ pc = "recv" => length = -1 \/ (queue # <<>> /\ length = Size(Head(queue)))
  /\ failures \in Nat
  /\ returned \in Seq(Results)

--------------------------------------------------------------------------------
(* One datagram. *)

LEMMA SizeNat ==
  ASSUME NEW f \in Frames
  PROVE  /\ HeaderSize \in Nat /\ HeaderSize > 0 /\ PLen[f] \in Nat
         /\ Size(f) \in Nat /\ Size(f) = HeaderSize + PLen[f] /\ Size(f) > 0
BY SizeAssumption DEF Size

\* No two messages have a header in common.
LEMMA HeadersDiffer ==
  ASSUME NEW f \in Frames, NEW g \in Frames, HeaderBytes(f) = HeaderBytes(g)
  PROVE  f = g
<1>1. 0 \in 0 .. HeaderSize - 1
  BY SizeNat
<1>2. HeaderBytes(f)[0] = <<f, 0>> /\ HeaderBytes(g)[0] = <<g, 0>>
  BY <1>1 DEF HeaderBytes, Byte
<1> QED
  BY <1>2

LEMMA LengthDecoded ==
  ASSUME NEW f \in Frames
  PROVE  LengthsOf(HeaderBytes(f)) = {PLen[f]}
<1>1. {g \in Frames : HeaderBytes(f) = HeaderBytes(g)} = {f}
  BY HeadersDiffer
<1> QED
  BY <1>1 DEF LengthsOf

\* The bytes of a datagram as far as they fill the cache, and the payload.
Datagram(f) == [k \in 0 .. Size(f) - 1 |-> Byte(f, k)]
Filled(f) == [header |-> 0, need |-> HeaderSize, cache |-> HeaderBytes(f), msg |-> NoMsg]

\* InitState and ToMidState field by field.
LEMMA InitStateOf ==
  ASSUME NEW h, NEW need, NEW cache, NEW m,
         NEW p, p = [header |-> h, need |-> need, cache |-> cache, msg |-> m]
  PROVE  InitState(p) = [header |-> 0, need |-> HeaderSize, cache |-> cache, msg |-> NoMsg]
<1>1. InitState(p) = [p EXCEPT !.header = 0, !.need = HeaderSize, !.msg = NoMsg]
  BY DEF InitState
<1> QED
  BY <1>1

\* An int has room for the length of a message there is memory for.
LEMMA PayloadInt == \A f \in Frames : ToInt(PLen[f]) = PLen[f]
  BY LengthAssumption DEF ToInt

LEMMA PayloadMalloc == \A f \in Frames : MallocResults(PLen[f], AllocOutcomes) = AllocOutcomes
<1> TAKE f \in Frames
<1>1. ~ (ToInt(PLen[f]) < 0)
  BY PayloadInt, SizeNat
<1> QED
  BY <1>1 DEF MallocResults

LEMMA MallocSucceeds ==
  ASSUME NEW L \in Nat, WordSize \in Nat, L < WordSize,
         NEW ok \in MallocResults(L, AllocOutcomes), ok
  PROVE  ToInt(L) = L
<1>1. ~ (ToInt(L) < 0)
  <2> SUFFICES ASSUME ToInt(L) < 0 PROVE FALSE
    OBVIOUS
  <2>1. ok \in {FALSE}
    BY DEF MallocResults
  <2> QED
    BY <2>1, Zenon
<1> QED
  BY <1>1 DEF ToInt

LEMMA ToMidStateOf ==
  ASSUME NEW h, NEW need, NEW cache, NEW m, NEW L, ToInt(L) = L,
         NEW p, p = [header |-> h, need |-> need, cache |-> cache, msg |-> m]
  PROVE  ToMidState(p, L)
           = [header |-> 1, need |-> L, cache |-> cache,
              msg |-> [header |-> cache, length |-> L, payload |-> Blank(L)]]
<1> DEFINE half == [header |-> cache, length |-> L, payload |-> Blank(L)]
<1>1. ToMidState(p, L) = [p EXCEPT !.header = 1, !.need = L, !.msg = half]
  <2>1. p.cache = cache
    OBVIOUS
  <2> QED
    BY <2>1 DEF ToMidState
<1> HIDE DEF half
<1>2. ToMidState(p, L) = [header |-> 1, need |-> L, cache |-> cache, msg |-> half]
  BY <1>1
<1> QED
  BY <1>2 DEF half

LEMMA HeaderFilled ==
  ASSUME NEW f \in Frames, NEW p, Fresh(p)
  PROVE  /\ p.header = 0 /\ p.need = HeaderSize /\ p.msg = NoMsg
         /\ Least(p.need, Size(f)) = HeaderSize
         /\ Fill(p, 0, Datagram(f), HeaderSize) = Filled(f)
         /\ MemCache(p, Datagram(f), Size(f)) = HeaderBytes(f)
<1>1. PICK cache \in [0 .. HeaderSize - 1 -> UNION {{NoByte}, Frames \X Nat}] :
        p = [header |-> 0, need |-> HeaderSize, cache |-> cache, msg |-> NoMsg]
  BY DEF Fresh
<1>2. p.header = 0 /\ p.need = HeaderSize /\ p.cache = cache /\ p.msg = NoMsg
  BY <1>1
<1>3. Least(p.need, Size(f)) = HeaderSize
  BY <1>2, SizeNat DEF Least
<1>4. Offset(p, 0) = 0
  BY <1>2, SizeNat DEF Offset, RegionSize
<1>5. Put(cache, 0, Datagram(f), HeaderSize) = HeaderBytes(f)
  <2>1. DOMAIN cache = 0 .. HeaderSize - 1
    OBVIOUS
  <2>2. \A k \in 0 .. HeaderSize - 1 : /\ k \in 0 .. 0 + HeaderSize - 1 /\ k - 0 = k
                                       /\ Datagram(f)[k] = Byte(f, k)
    BY SizeNat DEF Datagram
  <2> QED
    BY <2>1, <2>2 DEF Put, HeaderBytes
<1>6. Fill(p, 0, Datagram(f), HeaderSize) = [p EXCEPT !.cache = HeaderBytes(f)]
  BY <1>2, <1>4, <1>5 DEF Fill
<1>7. Fill(p, 0, Datagram(f), HeaderSize) = Filled(f)
  BY <1>1, <1>6 DEF Filled
<1>8. MemCache(p, Datagram(f), Size(f)) = HeaderBytes(f)
  BY <1>2, <1>3, <1>7 DEF MemCache, Filled
<1> QED
  BY <1>2, <1>3, <1>7, <1>8

\* The payload branch on the rest of the datagram.
LEMMA PayloadTaken ==
  ASSUME NEW f \in Frames
  PROVE  LET rest == [i \in 0 .. Size(f) - HeaderSize - 1 |-> Datagram(f)[HeaderSize + i]]
         IN MemPayload(ToMidState(Filled(f), PLen[f]), rest, Size(f) - HeaderSize)
              = MemResult(Filled(f), FrameMsg(f))
<1> DEFINE L == PLen[f]
           rest == [i \in 0 .. Size(f) - HeaderSize - 1 |-> Datagram(f)[HeaderSize + i]]
           half == [header |-> HeaderBytes(f), length |-> L, payload |-> Blank(L)]
           p == ToMidState(Filled(f), L)
           q == [header |-> 1, need |-> L, cache |-> HeaderBytes(f), msg |-> FrameMsg(f)]
<1>1. L \in Nat /\ Size(f) - HeaderSize = L
  BY SizeNat
<1>2. p = [header |-> 1, need |-> L, cache |-> HeaderBytes(f), msg |-> half]
  BY PayloadInt, ToMidStateOf DEF Filled
<1>3. p.header = 1 /\ p.need = L /\ p.msg = half /\ half.length = L /\ half.payload = Blank(L)
  BY <1>2
<1>4. Least(L, L) = L
  BY DEF Least
<1>5. Offset(p, 0) = 0
  <2>1. RegionSize(p) = L
    BY <1>3 DEF RegionSize
  <2> QED
    BY <1>1, <1>3, <2>1 DEF Offset
<1>6. Put(Blank(L), 0, rest, L) = [k \in 0 .. L - 1 |-> Byte(f, HeaderSize + k)]
  <2>1. DOMAIN Blank(L) = 0 .. L - 1
    BY DEF Blank
  <2>2. \A k \in 0 .. L - 1 : /\ k \in 0 .. 0 + L - 1 /\ k - 0 = k
                              /\ rest[k] = Byte(f, HeaderSize + k)
    <3> TAKE k \in 0 .. L - 1
    <3>1. HeaderSize + k \in 0 .. Size(f) - 1
      BY SizeNat
    <3>2. rest[k] = Datagram(f)[HeaderSize + k]
      BY <1>1
    <3> QED
      BY <1>1, <3>1, <3>2 DEF Datagram
  <2> HIDE DEF rest
  <2> QED
    BY <2>1, <2>2 DEF Put
<1> HIDE DEF rest
<1>7. Fill(p, 0, rest, L) = q
  <2>1. Fill(p, 0, rest, L) = [p EXCEPT !.msg.payload = Put(Blank(L), 0, rest, L)]
    BY <1>3, <1>5 DEF Fill
  <2>2. [p EXCEPT !.msg.payload = Put(Blank(L), 0, rest, L)]
          = [header |-> 1, need |-> L, cache |-> HeaderBytes(f),
             msg |-> [header |-> HeaderBytes(f), length |-> L, payload |-> Put(Blank(L), 0, rest, L)]]
    BY <1>2
  <2>3. FrameMsg(f) = [header |-> HeaderBytes(f), length |-> L, payload |-> Put(Blank(L), 0, rest, L)]
    BY <1>6 DEF FrameMsg
  <2> QED
    BY <2>1, <2>2, <2>3
<1>8. Progress(q, L) = [header |-> 1, need |-> 0, cache |-> HeaderBytes(f), msg |-> FrameMsg(f)]
  <2>1. L - L = 0
    BY <1>1
  <2> QED
    BY <2>1 DEF Progress
<1>9. InitState(Progress(q, L)) = Filled(f)
  BY <1>8, InitStateOf DEF Filled
<1> HIDE DEF p, q
<1>10. MemPayload(p, rest, L) = MemResult(Filled(f), FrameMsg(f))
  BY <1>3, <1>4, <1>7, <1>8, <1>9 DEF MemPayload
<1> QED
  BY <1>1, <1>10 DEF p, rest

\* MParser_ReadMem on a whole datagram.
LEMMA Whole ==
  ASSUME NEW f \in Frames, NEW p, Fresh(p), NEW ok \in BOOLEAN
  PROVE  ReadMem(p, Datagram(f), Size(f), PLen[f], ok)
           = MemResult(Filled(f), IF ok THEN FrameMsg(f) ELSE NoMsg)
<1> DEFINE rest == [i \in 0 .. Size(f) - HeaderSize - 1 |-> Datagram(f)[HeaderSize + i]]
<1>1. /\ p.header = 0 /\ p.need = HeaderSize
      /\ Least(p.need, Size(f)) = HeaderSize
      /\ Fill(p, 0, Datagram(f), HeaderSize) = Filled(f)
  BY HeaderFilled
<1>2. ~(HeaderSize < p.need) /\ p.header # 1
  BY <1>1, SizeNat
<1>3. ReadMem(p, Datagram(f), Size(f), PLen[f], ok)
        = IF ok THEN MemPayload(AfterHeader(Filled(f), PLen[f], ok), rest, Size(f) - HeaderSize)
                ELSE MemResult(AfterHeader(Filled(f), PLen[f], ok), NoMsg)
  BY <1>1, <1>2 DEF ReadMem
<1> HIDE DEF rest
<1>4. CASE ok
  <2>1. AfterHeader(Filled(f), PLen[f], ok) = ToMidState(Filled(f), PLen[f])
    BY <1>4 DEF AfterHeader
  <2>2. ReadMem(p, Datagram(f), Size(f), PLen[f], ok)
          = MemPayload(ToMidState(Filled(f), PLen[f]), rest, Size(f) - HeaderSize)
    BY <1>3, <1>4, <2>1
  <2> QED
    BY <1>4, <2>2, PayloadTaken DEF rest
<1>5. CASE ~ok
  <2>1. InitState(Filled(f)) = Filled(f)
    BY InitStateOf DEF Filled
  <2>2. AfterHeader(Filled(f), PLen[f], ok) = Filled(f)
    BY <1>5, <2>1 DEF AfterHeader
  <2> QED
    BY <1>3, <1>5, <2>2
<1> QED
  BY <1>4, <1>5

LEMMA FilledFresh ==
  ASSUME NEW f \in Frames
  PROVE  Fresh(Filled(f))
<1>1. HeaderBytes(f) \in [0 .. HeaderSize - 1 -> UNION {{NoByte}, Frames \X Nat}]
  BY SizeNat DEF HeaderBytes, Byte
<1> QED
  BY <1>1 DEF Fresh, Filled

\* What Receive does.
LEMMA Received ==
  ASSUME UdpInv, Receive
  PROVE  \E f \in Frames, ok \in AllocOutcomes :
           /\ queue # <<>> /\ f = Head(queue) /\ queue' = Tail(queue)
           /\ parser' = Filled(f)
           /\ pc' = "idle" /\ length' = 0
           /\ IF ok THEN /\ failures' = failures
                         /\ returned' = Append(returned, [msg |-> FrameMsg(f), remote |-> Sender[f]])
                    ELSE /\ failures' = failures + 1
                         /\ returned' = returned
<1> DEFINE f == Head(queue)
<1>1. pc = "recv" /\ length > 0 /\ queue # <<>> /\ length = Size(f) /\ Fresh(parser)
  BY DEF UdpInv, Receive
<1>2. f \in Frames
  BY <1>1, HeadTailProperties DEF UdpInv
<1>3. [k \in 0 .. length - 1 |-> Byte(f, k)] = Datagram(f)
  BY <1>1 DEF Datagram
<1>4. PICK plen \in LengthsOf(MemCache(parser, Datagram(f), Size(f))) :
        \E ok \in MallocResults(plen, AllocOutcomes) :
        LET result == ReadMem(parser, Datagram(f), Size(f), plen, ok) IN
        /\ failures' = IF ok THEN failures ELSE failures + 1
        /\ parser' = result.parser
        /\ returned' = IF result.msg = NoMsg THEN returned
                       ELSE Append(returned, [msg |-> result.msg, remote |-> Sender[f]])
  <2>1. \E plen \in LengthsOf(MemCache(parser, Datagram(f), length)) :
          \E ok \in MallocResults(plen, AllocOutcomes) :
          LET result == ReadMem(parser, Datagram(f), length, plen, ok) IN
          /\ failures' = IF ok THEN failures ELSE failures + 1
          /\ parser' = result.parser
          /\ returned' = IF result.msg = NoMsg THEN returned
                         ELSE Append(returned, [msg |-> result.msg, remote |-> Sender[f]])
    BY <1>3, Zenon DEF Receive
  <2> QED
    BY <1>1, <2>1
<1>5. plen = PLen[f] /\ MallocResults(plen, AllocOutcomes) = AllocOutcomes
  BY <1>1, <1>2, <1>4, HeaderFilled, LengthDecoded, PayloadMalloc
<1>0. PICK ok \in AllocOutcomes :
        LET result == ReadMem(parser, Datagram(f), Size(f), plen, ok) IN
        /\ failures' = IF ok THEN failures ELSE failures + 1
        /\ parser' = result.parser
        /\ returned' = IF result.msg = NoMsg THEN returned
                       ELSE Append(returned, [msg |-> result.msg, remote |-> Sender[f]])
  BY <1>4, <1>5
<1>6. ok \in BOOLEAN
  BY SizeAssumption
<1>7. ReadMem(parser, Datagram(f), Size(f), plen, ok)
        = MemResult(Filled(f), IF ok THEN FrameMsg(f) ELSE NoMsg)
  BY <1>1, <1>2, <1>5, <1>6, Whole
<1>8. /\ parser' = Filled(f)
      /\ failures' = IF ok THEN failures ELSE failures + 1
      /\ returned' = IF (IF ok THEN FrameMsg(f) ELSE NoMsg) = NoMsg THEN returned
                     ELSE Append(returned, [msg |-> IF ok THEN FrameMsg(f) ELSE NoMsg,
                                            remote |-> Sender[f]])
  BY <1>0, <1>7 DEF MemResult
<1>9. queue' = Tail(queue) /\ pc' = "idle" /\ length' = 0
  BY DEF Receive
<1>10. FrameMsg(f) # NoMsg
  BY <1>2, NoMsgAssumption
<1> QED
  BY <1>1, <1>2, <1>8, <1>9, <1>10

--------------------------------------------------------------------------------
(* The invariant. *)

LEMMA InitUdp ==
  ASSUME Init
  PROVE  UdpInv
<1>1. Fresh(NewParser)
  <2>1. Blank(HeaderSize) \in [0 .. HeaderSize - 1 -> UNION {{NoByte}, Frames \X Nat}]
    BY DEF Blank
  <2> QED
    BY <2>1 DEF Fresh, NewParser
<1> QED
  BY <1>1 DEF Init, UdpInv

LEMMA ResultTypes ==
  ASSUME NEW f \in Frames
  PROVE  /\ [msg |-> FrameMsg(f), remote |-> Sender[f]] \in Results
         /\ \A n \in RawLens : [msg |-> Raw(f, n), remote |-> Sender[f]] \in Results
BY DEF Results

LEMMA StepUdp ==
  ASSUME Fits, UdpInv, [Next]_vars
  PROVE  UdpInv'
<1>1. ASSUME NEW f \in Frames, UdpPoint_SendMsg(f) \/ Lose(f) PROVE UdpInv'
  BY <1>1 DEF UdpPoint_SendMsg, Lose, UdpInv
<1>2. ASSUME NEW f \in Frames, Arrive(f) PROVE UdpInv'
  <2>1. /\ queue' = Append(queue, f)
        /\ UNCHANGED <<parser, pc, length, returned, failures>>
    BY <1>2 DEF Arrive
  <2>2. queue' \in Seq(Frames) /\ queue' # <<>>
    <3>1. queue \in Seq(Frames)
      BY DEF UdpInv
    <3>2. Append(queue, f) \in Seq(Frames) /\ Append(queue, f) # <<>>
      BY <3>1, AppendProperties
    <3> QED
      BY <2>1, <3>2
  <2>3. queue # <<>> => Head(queue') = Head(queue)
    BY <2>1, HeadTailAppend DEF UdpInv
  <2> QED
    BY <2>1, <2>2, <2>3 DEF UdpInv
<1>3. CASE Peek
  <2>1. /\ queue # <<>> /\ queue' = queue /\ pc' = "recv"
        /\ length' = Least(Size(Head(queue)), PeekSize)
        /\ UNCHANGED <<parser, returned, failures>>
    BY <1>3 DEF Peek
  <2>2. Head(queue) \in Frames
    BY <2>1, HeadTailProperties DEF UdpInv
  <2>3. Size(Head(queue)) <= PeekSize /\ Size(Head(queue)) \in Nat /\ PeekSize \in Nat
    BY <2>2, SizeNat, SizeAssumption DEF Fits
  <2>4. length' = Size(Head(queue))
    BY <2>1, <2>3 DEF Least
  <2> QED
    BY <2>1, <2>4 DEF UdpInv
<1>4. CASE PeekTimesOut
  BY <1>4 DEF PeekTimesOut, UdpInv
<1>5. CASE Receive
  <2>1. PICK f \in Frames, ok \in AllocOutcomes :
           /\ queue # <<>> /\ queue' = Tail(queue)
           /\ parser' = Filled(f)
           /\ pc' = "idle" /\ length' = 0
           /\ IF ok THEN /\ failures' = failures
                         /\ returned' = Append(returned, [msg |-> FrameMsg(f), remote |-> Sender[f]])
                    ELSE /\ failures' = failures + 1
                         /\ returned' = returned
    BY <1>5, Received
  <2>2. queue' \in Seq(Frames)
    BY <2>1, HeadTailProperties DEF UdpInv
  <2>3. returned' \in Seq(Results)
    <3>1. returned \in Seq(Results)
      BY DEF UdpInv
    <3>2. Append(returned, [msg |-> FrameMsg(f), remote |-> Sender[f]]) \in Seq(Results)
      BY <3>1, ResultTypes, AppendProperties
    <3> QED
      BY <2>1, <3>1, <3>2
  <2>4. Fresh(parser')
    BY <2>1, FilledFresh
  <2>5. failures' \in Nat
    BY <2>1 DEF UdpInv
  <2> QED
    BY <2>1, <2>2, <2>3, <2>4, <2>5 DEF UdpInv
<1>6. CASE ReceiveNowhere
  <2>1. queue' \in Seq(Frames)
    BY <1>6, HeadTailProperties DEF ReceiveNowhere, UdpInv
  <2> QED
    BY <1>6, <2>1 DEF ReceiveNowhere, UdpInv
<1>7. CASE ReceiveTimesOut
  BY <1>7 DEF ReceiveTimesOut, UdpInv
<1>8. ASSUME NEW n \in RawLens, UdpPoint_RecvRaw(n) PROVE UdpInv'
  <2>1. /\ pc = "idle" /\ queue # <<>> /\ queue' = Tail(queue)
        /\ returned' = Append(returned, [msg |-> Raw(Head(queue), n), remote |-> Sender[Head(queue)]])
        /\ UNCHANGED <<parser, pc, length, failures>>
    BY <1>8 DEF UdpPoint_RecvRaw
  <2>2. Head(queue) \in Frames /\ queue' \in Seq(Frames)
    BY <2>1, HeadTailProperties DEF UdpInv
  <2>3. returned' \in Seq(Results)
    <3>1. returned \in Seq(Results)
      BY DEF UdpInv
    <3> DEFINE r == [msg |-> Raw(Head(queue), n), remote |-> Sender[Head(queue)]]
    <3>2. r \in Results
      BY <2>2, ResultTypes
    <3> HIDE DEF r
    <3>3. Append(returned, r) \in Seq(Results)
      BY <3>1, <3>2, AppendProperties
    <3> QED
      BY <2>1, <3>3 DEF r
  <2> QED
    BY <2>1, <2>2, <2>3 DEF UdpInv
<1>9. CASE UNCHANGED vars
  BY <1>9 DEF vars, UdpInv
<1> QED
  BY <1>1, <1>2, <1>3, <1>4, <1>5, <1>6, <1>7, <1>8, <1>9 DEF Next, Network, UdpPoint_RecvMsg

LEMMA Invariance == Fits => (Spec => []UdpInv)
<1> SUFFICES ASSUME Fits PROVE Spec => []UdpInv
  OBVIOUS
<1>1. UdpInv /\ [Next]_vars => UdpInv'
  BY StepUdp
<1> QED
  BY <1>1, InitUdp, PTL DEF Spec

(* The parser of all remote points is at the beginning of a message whenever a
   datagram is taken, if none is longer than what is looked at.                  *)
THEOREM BetweenMessagesHolds == Fits => (Spec => []BetweenMessages)
<1>1. UdpInv => BetweenMessages
  BY DEF UdpInv, Fresh, BetweenMessages
<1> QED
  BY <1>1, Invariance, PTL

--------------------------------------------------------------------------------
(* The refinement. *)

\* Messages and raw datagrams say which message they are of.
LEMMA Same ==
  ASSUME NEW f \in Frames, NEW g \in Frames, NEW r, IsOf(r, f), IsOf(r, g)
  PROVE  f = g
<1>1. \A h \in Frames, n \in RawLens : Raw(h, n).raw[0] = <<h, 0>>
  <2> TAKE h \in Frames, n \in RawLens
  <2>1. n \in Nat /\ n > 0
    BY SizeAssumption
  <2>2. 0 \in 0 .. Least(Size(h), n) - 1
    BY <2>1, SizeNat DEF Least
  <2> QED
    BY <2>2 DEF Raw, Byte
<1>2. \A h \in Frames : FrameMsg(h).header = HeaderBytes(h)
  BY DEF FrameMsg
<1>3. \A h \in Frames : DOMAIN FrameMsg(h) = {"header", "length", "payload"}
  BY DEF FrameMsg
<1>4. \A h \in Frames, n \in RawLens : DOMAIN Raw(h, n) = {"raw"}
  BY DEF Raw
<1>5. CASE r.msg = FrameMsg(f)
  <2>1. r.msg = FrameMsg(g)
    BY <1>3, <1>4, <1>5 DEF IsOf
  <2> QED
    BY <1>2, <1>5, <2>1, HeadersDiffer
<1>6. CASE \E n \in RawLens : r.msg = Raw(f, n)
  <2>1. \E n \in RawLens : r.msg = Raw(g, n)
    BY <1>3, <1>4, <1>6 DEF IsOf
  <2>2. PICK n \in RawLens, m \in RawLens : Raw(f, n) = Raw(g, m)
    BY <1>6, <2>1
  <2>3. <<f, 0>> = <<g, 0>>
    BY <1>1, <2>2
  <2> QED
    BY <2>3
<1> QED
  BY <1>5, <1>6 DEF IsOf

LEMMA FrameOfResult ==
  ASSUME NEW f \in Frames
  PROVE  /\ FrameOf([msg |-> FrameMsg(f), remote |-> Sender[f]]) = f
         /\ \A n \in RawLens : FrameOf([msg |-> Raw(f, n), remote |-> Sender[f]]) = f
<1>1. ASSUME NEW r, IsOf(r, f) PROVE FrameOf(r) = f
  <2>1. \A g \in Frames : IsOf(r, g) => g = f
    BY <1>1, Same
  <2> QED
    BY <1>1, <2>1 DEF FrameOf
<1>2. IsOf([msg |-> FrameMsg(f), remote |-> Sender[f]], f)
  BY DEF IsOf
<1>3. \A n \in RawLens : IsOf([msg |-> Raw(f, n), remote |-> Sender[f]], f)
  BY DEF IsOf
<1> QED
  BY <1>1, <1>2, <1>3

Out == [k \in DOMAIN returned |-> FrameOf(returned[k])]

\* Returning a result of message f hands f out.
LEMMA OutAppended ==
  ASSUME UdpInv, NEW f, NEW r \in Results, FrameOf(r) = f, returned' = Append(returned, r)
  PROVE  Out' = Append(Out, f)
<1>1. /\ Len(returned) \in Nat /\ DOMAIN returned = 1 .. Len(returned)
      /\ DOMAIN returned' = 1 .. Len(returned) + 1
      /\ returned'[Len(returned) + 1] = r
      /\ \A k \in 1 .. Len(returned) : returned'[k] = returned[k]
  BY AppendProperties DEF UdpInv
<1>2. Out' = [k \in 1 .. Len(returned) + 1 |-> FrameOf(returned'[k])]
  BY <1>1 DEF Out
<1>3. Out = [k \in 1 .. Len(returned) |-> FrameOf(returned[k])]
  BY <1>1 DEF Out
<1>4. Len(Out) = Len(returned)
  BY <1>1, <1>3
<1>5. Append(Out, f) = [k \in 1 .. Len(returned) + 1 |-> IF k = Len(returned) + 1 THEN f ELSE Out[k]]
  BY <1>1, <1>3, <1>4
<1>6. \A k \in 1 .. Len(returned) + 1 :
        FrameOf(returned'[k]) = IF k = Len(returned) + 1 THEN f ELSE Out[k]
  BY <1>1, <1>3
<1> QED
  BY <1>2, <1>5, <1>6

LEMMA InitService ==
  ASSUME Init
  PROVE  Service!Init
BY DEF Init, Service!Init

LEMMA StepService ==
  ASSUME UdpInv, [Next]_vars
  PROVE  [Service!Next]_(Service!vars)
<1> USE DEF Service!vars
<1>1. ASSUME NEW f \in Frames, UdpPoint_SendMsg(f) \/ Lose(f) PROVE UNCHANGED Service!vars
  <2>1. UNCHANGED <<queue, returned, failures>>
    BY <1>1 DEF UdpPoint_SendMsg, Lose
  <2> QED
    BY <2>1
<1>2. ASSUME NEW f \in Frames, Arrive(f) PROVE Service!Next
  <2>1. queue' = Append(queue, f) /\ UNCHANGED <<returned, failures>>
    BY <1>2 DEF Arrive
  <2> QED
    BY <2>1 DEF Service!Next, Service!Arrive
<1>3. CASE Peek \/ PeekTimesOut \/ ReceiveTimesOut
  <2>1. UNCHANGED <<queue, returned, failures>>
    BY <1>3 DEF Peek, PeekTimesOut, ReceiveTimesOut
  <2> QED
    BY <2>1
<1>4. CASE Receive
  <2>1. PICK f \in Frames, ok \in AllocOutcomes :
           /\ queue # <<>> /\ f = Head(queue) /\ queue' = Tail(queue)
           /\ IF ok THEN /\ failures' = failures
                         /\ returned' = Append(returned, [msg |-> FrameMsg(f), remote |-> Sender[f]])
                    ELSE /\ failures' = failures + 1
                         /\ returned' = returned
    BY <1>4, Received
  <2>2. CASE ok
    <3>1. Out' = Append(Out, f)
      BY <2>1, <2>2, ResultTypes, FrameOfResult, OutAppended
    <3>2. Service!Take
      BY <2>1, <2>2, <3>1 DEF Service!Take, Out
    <3> QED
      BY <3>2 DEF Service!Next
  <2>3. CASE ~ok
    <3>1. Service!Drop
      BY <2>1, <2>3 DEF Service!Drop
    <3> QED
      BY <3>1 DEF Service!Next
  <2> QED
    BY <2>2, <2>3
<1>5. CASE ReceiveNowhere
  <2>1. Service!Drop
    BY <1>5 DEF ReceiveNowhere, Service!Drop
  <2> QED
    BY <2>1 DEF Service!Next
<1>6. ASSUME NEW n \in RawLens, UdpPoint_RecvRaw(n) PROVE Service!Next
  <2>1. /\ queue # <<>> /\ queue' = Tail(queue)
        /\ returned' = Append(returned, [msg |-> Raw(Head(queue), n), remote |-> Sender[Head(queue)]])
        /\ UNCHANGED failures
    BY <1>6 DEF UdpPoint_RecvRaw
  <2>2. Head(queue) \in Frames
    BY <2>1, HeadTailProperties DEF UdpInv
  <2>3. Out' = Append(Out, Head(queue))
    BY <2>1, <2>2, ResultTypes, FrameOfResult, OutAppended
  <2>4. Service!Take
    BY <2>1, <2>3 DEF Service!Take, Out
  <2> QED
    BY <2>4 DEF Service!Next
<1>7. CASE UNCHANGED vars
  BY <1>7 DEF vars
<1> QED
  BY <1>1, <1>2, <1>3, <1>4, <1>5, <1>6, <1>7 DEF Next, Network, UdpPoint_RecvMsg

(* Whatever the network does and whatever fails, the point implements
   DatagramService, if no datagram is longer than what is looked at.             *)
THEOREM Implements == Fits => (Spec => ImplementsService)
<1> SUFFICES ASSUME Fits PROVE Spec => Service!Spec
  BY DEF ImplementsService
<1>1. UdpInv /\ [Next]_vars => [Service!Next]_(Service!vars)
  BY StepService
<1>2. Spec => []UdpInv
  BY Invariance
<1> QED
  BY <1>1, <1>2, InitService, PTL DEF Spec, Service!Spec

--------------------------------------------------------------------------------
(* Type correctness, for datagrams of any length: one that is longer than what is
   looked at leaves the parser in the middle of a message, with a header that may
   be no header, and any length.                                                 *)

\* A parser that misses no more than the part it collects.
Sound(p) ==
  \/ \E need \in 0 .. HeaderSize : \E cache, m :
       p = [header |-> 0, need |-> need, cache |-> cache, msg |-> m]
  \/ \E L, need \in Nat : need <= L /\ \E cache, h, payload :
       p = [header |-> 1, need |-> need, cache |-> cache,
            msg |-> [header |-> h, length |-> L, payload |-> payload]]

Remotes == {Sender[f] : f \in Frames}

\* A datagram arrives no more often than it is sent, and the second recvfrom() has
\* failed already when there was nothing to look at.
TypeInv ==
  /\ TypeOK
  /\ Sound(parser)
  /\ \A f \in Frames : air[f] + arrived[f] <= MaxCopies
  /\ pc = "recv" /\ length = -1 => failures < MaxFailures
  /\ \E Messages : returned \in Seq([msg : Messages, remote : Remotes])

LEMMA SoundRegion ==
  ASSUME NEW p, Sound(p)
  PROVE  p.header \in {0, 1} /\ p.need \in 0 .. RegionSize(p)
<1>1. CASE \E need \in 0 .. HeaderSize : \E cache, m :
             p = [header |-> 0, need |-> need, cache |-> cache, msg |-> m]
  BY <1>1 DEF RegionSize
<1>2. CASE \E L, need \in Nat : need <= L /\ \E cache, h, payload :
             p = [header |-> 1, need |-> need, cache |-> cache,
                  msg |-> [header |-> h, length |-> L, payload |-> payload]]
  <2>1. PICK L \in Nat, need \in Nat : need <= L /\ \E cache, h, payload :
          p = [header |-> 1, need |-> need, cache |-> cache,
               msg |-> [header |-> h, length |-> L, payload |-> payload]]
    BY <1>2
  <2>2. p.header = 1 /\ p.need = need /\ p.msg.length = L
    BY <2>1
  <2> QED
    <3>1. RegionSize(p) = L
      BY <2>2 DEF RegionSize
    <3> QED
      BY <2>1, <2>2, <3>1
<1> QED
  BY <1>1, <1>2 DEF Sound

LEMMA SoundBetween ==
  ASSUME NEW cache, NEW m
  PROVE  Sound([header |-> 0, need |-> HeaderSize, cache |-> cache, msg |-> m])
<1>1. HeaderSize \in 0 .. HeaderSize
  BY SizeAssumption
<1> QED
  BY <1>1 DEF Sound

\* The payload branch leaves the parser between two messages or in a shorter rest.
LEMMA SoundPayload ==
  ASSUME NEW L \in Nat, NEW need \in Nat, need <= L, NEW cache, NEW h, NEW payload,
         NEW p, p = [header |-> 1, need |-> need, cache |-> cache,
                     msg |-> [header |-> h, length |-> L, payload |-> payload]],
         NEW mem, NEW n \in Nat
  PROVE  Sound(MemPayload(p, mem, n).parser)
<1> DEFINE k == Least(p.need, n)
           put == Put(payload, Offset(p, 0), mem, k)
           q == Progress(Fill(p, 0, mem, k), k)
<1>1. p.header = 1 /\ p.need = need /\ p.msg.payload = payload
  BY DEF Least
<1>2. k \in Nat /\ k <= need
  BY <1>1 DEF Least
<1>3. Fill(p, 0, mem, k) = [p EXCEPT !.msg.payload = put]
  BY <1>1 DEF Fill
<1> HIDE DEF k, put
<1>4. Fill(p, 0, mem, k) = [header |-> 1, need |-> need, cache |-> cache,
                            msg |-> [header |-> h, length |-> L, payload |-> put]]
  BY <1>3
<1>5. q = [header |-> 1, need |-> need - k, cache |-> cache,
           msg |-> [header |-> h, length |-> L, payload |-> put]]
  BY <1>4 DEF Progress
<1>6. need - k \in Nat /\ need - k <= L
  BY <1>2
<1> HIDE DEF q
<1>7. Sound(q)
  BY <1>5, <1>6 DEF Sound
<1>8. Sound(InitState(q))
  <2>1. InitState(q) = [header |-> 0, need |-> HeaderSize, cache |-> cache, msg |-> NoMsg]
    BY <1>5, InitStateOf
  <2> QED
    BY <2>1, SoundBetween
<1>9. MemPayload(p, mem, n) = IF q.need = 0 THEN MemResult(InitState(q), q.msg) ELSE MemResult(q, NoMsg)
  BY DEF MemPayload, q, k
<1> QED
  BY <1>7, <1>8, <1>9 DEF MemResult

LEMMA SoundRead ==
  ASSUME NEW p, Sound(p), NEW mem, NEW n \in Nat, NEW plen \in Nat, NEW ok \in BOOLEAN,
         ok => ToInt(plen) = plen
  PROVE  Sound(ReadMem(p, mem, n, plen, ok).parser)
<1>1. CASE \E need \in 0 .. HeaderSize : \E cache, m :
             p = [header |-> 0, need |-> need, cache |-> cache, msg |-> m]
  <2>1. PICK need \in 0 .. HeaderSize : \E cache, m :
          p = [header |-> 0, need |-> need, cache |-> cache, msg |-> m]
    BY <1>1
  <2>2. PICK cache, m : p = [header |-> 0, need |-> need, cache |-> cache, msg |-> m]
    BY <2>1
  <2> DEFINE k == Least(p.need, n)
             put == Put(cache, Offset(p, 0), mem, k)
             q == Fill(p, 0, mem, k)
             next == AfterHeader(q, plen, ok)
             rest == [i \in 0 .. n - k - 1 |-> mem[k + i]]
  <2>3. p.header = 0 /\ p.need = need /\ p.cache = cache
    BY <2>2
  <2>4. k \in Nat /\ k <= need /\ k <= n
    BY <2>3, SizeAssumption DEF Least
  <2>5. Fill(p, 0, mem, k) = [p EXCEPT !.cache = put]
    BY <2>3 DEF Fill
  <2>6. ReadMem(p, mem, n, plen, ok)
          = IF k < need THEN MemResult(Progress(q, k), NoMsg)
            ELSE IF ok THEN MemPayload(next, rest, n - k)
            ELSE MemResult(next, NoMsg)
    BY <2>3 DEF ReadMem
  <2> HIDE DEF k, put, rest
  <2>7. q = [header |-> 0, need |-> need, cache |-> put, msg |-> m]
    BY <2>2, <2>5
  <2> HIDE DEF q
  <2>8. CASE k < need
    <3>1. Progress(q, k) = [header |-> 0, need |-> need - k, cache |-> put, msg |-> m]
      BY <2>7 DEF Progress
    <3>2. need - k \in 0 .. HeaderSize
      BY <2>4, SizeAssumption
    <3>3. Sound(Progress(q, k))
      BY <3>1, <3>2 DEF Sound
    <3> QED
      BY <2>6, <2>8, <3>3 DEF MemResult
  <2>9. CASE ~(k < need) /\ ok = TRUE
    <3>1. next = [header |-> 1, need |-> plen, cache |-> put,
                  msg |-> [header |-> put, length |-> plen, payload |-> Blank(plen)]]
      BY <2>7, <2>9, ToMidStateOf DEF AfterHeader
    <3> HIDE DEF next
    <3>2. plen <= plen /\ n - k \in Nat
      BY <2>4
    <3>3. Sound(MemPayload(next, rest, n - k).parser)
      BY <3>1, <3>2, SoundPayload
    <3> QED
      BY <2>6, <2>9, <3>3
  <2>10. CASE ~(k < need) /\ ok = FALSE
    <3>1. next = InitState(q)
      BY <2>10 DEF AfterHeader
    <3>2. InitState(q) = [header |-> 0, need |-> HeaderSize, cache |-> put, msg |-> NoMsg]
      BY <2>7, InitStateOf
    <3>3. Sound(next)
      BY <3>1, <3>2, SoundBetween
    <3> QED
      BY <2>6, <2>10, <3>3 DEF MemResult
  <2> QED
    BY <2>8, <2>9, <2>10
<1>2. CASE \E L, need \in Nat : need <= L /\ \E cache, h, payload :
             p = [header |-> 1, need |-> need, cache |-> cache,
                  msg |-> [header |-> h, length |-> L, payload |-> payload]]
  <2>1. PICK L \in Nat, need \in Nat : need <= L /\ \E cache, h, payload :
          p = [header |-> 1, need |-> need, cache |-> cache,
               msg |-> [header |-> h, length |-> L, payload |-> payload]]
    BY <1>2
  <2>2. ReadMem(p, mem, n, plen, ok) = MemPayload(p, mem, n)
    BY <2>1 DEF ReadMem
  <2> QED
    BY <2>1, <2>2, SoundPayload
<1> QED
  BY <1>1, <1>2 DEF Sound


LEMMA CopiesParts ==
  ASSUME NEW q \in Seq(Frames), NEW f \in Frames
  PROVE  IsFiniteSet({k \in DOMAIN q : q[k] = f}) /\ Cardinality({k \in DOMAIN q : q[k] = f}) \in Nat
<1>1. IsFiniteSet(1 .. Len(q)) /\ DOMAIN q = 1 .. Len(q)
  BY LenProperties, FS_Interval
<1>2. {k \in DOMAIN q : q[k] = f} \subseteq 1 .. Len(q)
  BY <1>1
<1> QED
  BY <1>1, <1>2, FS_Subset, FS_CardinalityType

\* One copy more of the datagram that arrives.
LEMMA CopiesAppend ==
  ASSUME queue \in Seq(Frames), NEW f \in Frames, queue' = Append(queue, f), NEW g \in Frames
  PROVE  Copies(g)' <= Copies(g) + (IF g = f THEN 1 ELSE 0)
<1> DEFINE S == {k \in DOMAIN queue : queue[k] = g}
           T == {k \in DOMAIN queue' : queue'[k] = g}
           e == Len(queue) + 1
<1>1. /\ Len(queue) \in Nat /\ DOMAIN queue = 1 .. Len(queue) /\ DOMAIN queue' = 1 .. e
      /\ queue'[e] = f /\ \A k \in 1 .. Len(queue) : queue'[k] = queue[k]
  BY AppendProperties, LenProperties
<1>2. T = IF g = f THEN S \cup {e} ELSE S
  BY <1>1
<1>3. IsFiniteSet(S) /\ Cardinality(S) \in Nat
  BY CopiesParts
<1>4. e \notin S
  BY <1>1
<1> HIDE DEF S, T, e
<1>5. Cardinality(S \cup {e}) = Cardinality(S) + 1
  BY <1>3, <1>4, FS_AddElement
<1>6. Cardinality(T) <= Cardinality(S) + (IF g = f THEN 1 ELSE 0)
  BY <1>2, <1>3, <1>5
<1>7. Copies(g) = Cardinality(S) /\ Copies(g)' = Cardinality(T)
  BY DEF Copies, S, T
<1> QED
  BY <1>6, <1>7

\* No copy more when a datagram is taken.
LEMMA CopiesTail ==
  ASSUME queue \in Seq(Frames), queue # <<>>, queue' = Tail(queue), NEW g \in Frames
  PROVE  Copies(g)' <= Copies(g)
<1> DEFINE S == {k \in DOMAIN queue : queue[k] = g}
           T == {k \in DOMAIN queue' : queue'[k] = g}
           next == [k \in T |-> k + 1]
<1>1. /\ Len(queue) \in Nat \ {0} /\ DOMAIN queue = 1 .. Len(queue)
      /\ DOMAIN queue' = 1 .. Len(queue) - 1
      /\ \A k \in 1 .. Len(queue) - 1 : queue'[k] = queue[k + 1]
  <2>1. Len(queue) \in Nat \ {0} /\ DOMAIN queue = 1 .. Len(queue)
    BY EmptySeq, LenProperties
  <2>2. /\ Tail(queue) \in Seq(Frames) /\ Len(Tail(queue)) = Len(queue) - 1
        /\ \A k \in 1 .. Len(Tail(queue)) : Tail(queue)[k] = queue[k + 1]
    BY HeadTailProperties
  <2> QED
    BY <2>1, <2>2, LenProperties
<1>2. next \in Injection(T, S)
  <2>1. \A k \in T : k \in Int /\ k + 1 \in S
    BY <1>1
  <2> HIDE DEF S, T
  <2>2. \A j, k \in T : next[j] = next[k] => j = k
    BY <2>1
  <2>3. next \in [T -> S]
    BY <2>1
  <2> HIDE DEF next
  <2>4. IsInjective(next)
    BY <2>2, <2>3 DEF IsInjective
  <2> QED
    BY <2>3, <2>4 DEF Injection
<1>3. IsFiniteSet(S) /\ IsFiniteSet(T)
  <2>1. queue' \in Seq(Frames)
    BY HeadTailProperties
  <2> QED
    BY <2>1, CopiesParts
<1> HIDE DEF S, T, next
<1>4. Cardinality(T) <= Cardinality(S)
  BY <1>2, <1>3, FS_Injection
<1>5. Copies(g) = Cardinality(S) /\ Copies(g)' = Cardinality(T)
  BY DEF Copies, S, T
<1> QED
  BY <1>4, <1>5

LEMMA LengthsNat ==
  ASSUME NEW bytes
  PROVE  \A n \in LengthsOf(bytes) : n \in Nat /\ n < WordSize
<1>1. ASSUME NEW n \in GarbageLens PROVE n \in Nat /\ n < WordSize
  <2>1. n \in 0 .. WordSize - HeaderSize - 1 /\ WordSize \in Nat /\ HeaderSize \in Nat
    BY <1>1, SizeAssumption, LengthAssumption
  <2> QED
    BY <2>1
<1>2. \A f \in Frames : PLen[f] \in Nat /\ PLen[f] < WordSize
  BY SizeAssumption, LengthAssumption
<1> QED
  BY <1>1, <1>2 DEF LengthsOf

\* Something more is returned.
LEMMA ReturnedMore ==
  ASSUME TypeInv, NEW f \in Frames, NEW m,
         returned' = Append(returned, [msg |-> m, remote |-> Sender[f]])
  PROVE  /\ \E Messages : returned' \in Seq([msg : Messages, remote : Remotes])
         /\ \A k \in DOMAIN returned' : returned'[k].remote \in Remotes
<1>1. PICK Messages : returned \in Seq([msg : Messages, remote : Remotes])
  BY DEF TypeInv
<1> DEFINE More == [msg : Messages \cup {m}, remote : Remotes]
           r == [msg |-> m, remote |-> Sender[f]]
<1>2. /\ Len(returned) \in Nat /\ returned = [k \in 1 .. Len(returned) |-> returned[k]]
      /\ \A k \in 1 .. Len(returned) : returned[k] \in [msg : Messages, remote : Remotes]
  BY <1>1, LenProperties
<1>3. \A k \in 1 .. Len(returned) : returned[k] \in More
  BY <1>2
<1>4. r \in More
  BY DEF Remotes
<1> HIDE DEF More, r
<1>5. returned \in Seq(More)
  BY <1>2, <1>3
<1>6. returned' \in Seq(More)
  BY <1>4, <1>5, AppendProperties DEF r
<1>7. \A k \in DOMAIN returned' : returned'[k] \in More
  BY <1>6
<1>8. \A x \in More : x.remote \in Remotes
  BY DEF More
<1> QED
  BY <1>6, <1>7, <1>8 DEF More


LEMMA TypeInit ==
  ASSUME Init
  PROVE  TypeInv
<1>1. Sound(NewParser)
  BY SoundBetween DEF NewParser
<1>2. NewParser.header \in {0, 1} /\ NewParser.need \in 0 .. RegionSize(NewParser)
  BY <1>1, SoundRegion
<1>3. \A f \in Frames : Copies(f) = 0
  <2>1. queue = <<>>
    BY DEF Init
  <2>2. \A f \in Frames : {k \in DOMAIN queue : queue[k] = f} = {}
    BY <2>1
  <2> QED
    BY <2>2, FS_EmptySet DEF Copies
<1>4. /\ air = [f \in Frames |-> 0] /\ arrived = [f \in Frames |-> 0] /\ queue = <<>>
      /\ parser = NewParser /\ pc = "idle" /\ length = 0 /\ returned = <<>> /\ failures = 0
  BY DEF Init
<1>5. MaxCopies \in Nat /\ MaxFailures \in Nat /\ PeekSize \in Nat
  BY SizeAssumption
<1>6. returned \in Seq([msg : {}, remote : Remotes])
  BY <1>4
<1>7. TypeOK
  BY <1>2, <1>3, <1>4, <1>5 DEF TypeOK
<1> QED
  BY <1>1, <1>4, <1>5, <1>6, <1>7 DEF TypeInv

LEMMA PeekLength ==
  ASSUME NEW f \in Frames
  PROVE  Least(Size(f), PeekSize) \in 1 .. PeekSize
BY SizeNat, SizeAssumption DEF Least

LEMMA TypeStep == TypeInv /\ [Next]_vars => TypeInv'
<1> SUFFICES ASSUME TypeInv, [Next]_vars PROVE TypeInv'
  OBVIOUS
<1>0. /\ air \in [Frames -> 0 .. MaxCopies] /\ arrived \in [Frames -> 0 .. MaxCopies]
      /\ queue \in Seq(Frames) /\ MaxCopies \in Nat /\ MaxFailures \in Nat /\ PeekSize \in Nat
      /\ failures \in 0 .. MaxFailures
      /\ \A f \in Frames : Copies(f) <= arrived[f] /\ Copies(f) \in Nat
  BY SizeAssumption, CopiesParts DEF TypeInv, TypeOK, Copies
<1>1. ASSUME NEW f \in Frames, UdpPoint_SendMsg(f) \/ Lose(f) PROVE TypeInv'
  <2>1. UNCHANGED <<arrived, queue, parser, pc, length, returned, failures>>
    BY <1>1 DEF UdpPoint_SendMsg, Lose
  <2>2. /\ air' \in [Frames -> 0 .. MaxCopies]
        /\ \A g \in Frames : air'[g] + arrived[g] <= MaxCopies
    <3>1. CASE UdpPoint_SendMsg(f)
      <4>1. air[f] + arrived[f] < MaxCopies /\ air' = [air EXCEPT ![f] = air[f] + 1]
        BY <3>1 DEF UdpPoint_SendMsg
      <4> QED
        BY <1>0, <4>1 DEF TypeInv
    <3>2. CASE Lose(f)
      <4>1. air[f] > 0 /\ air' = [air EXCEPT ![f] = air[f] - 1]
        BY <3>2 DEF Lose
      <4> QED
        BY <1>0, <4>1 DEF TypeInv
    <3> QED
      BY <1>1, <3>1, <3>2
  <2>3. \A g \in Frames : Copies(g)' = Copies(g)
    BY <2>1 DEF Copies
  <2> QED
    BY <1>0, <2>1, <2>2, <2>3 DEF TypeInv, TypeOK, RegionSize
<1>2. ASSUME NEW f \in Frames, Arrive(f) PROVE TypeInv'
  <2>1. /\ air[f] > 0 /\ air' = [air EXCEPT ![f] = air[f] - 1]
        /\ arrived' = [arrived EXCEPT ![f] = arrived[f] + 1]
        /\ queue' = Append(queue, f)
        /\ UNCHANGED <<parser, pc, length, returned, failures>>
    BY <1>2 DEF Arrive
  <2>2. /\ air' \in [Frames -> 0 .. MaxCopies] /\ arrived' \in [Frames -> 0 .. MaxCopies]
        /\ \A g \in Frames : air'[g] + arrived'[g] <= MaxCopies
    BY <1>0, <2>1 DEF TypeInv
  <2>3. queue' \in Seq(Frames) /\ queue' # <<>> /\ (queue # <<>> => Head(queue') = Head(queue))
    <3>1. queue' \in Seq(Frames) /\ queue' # <<>>
      <4>1. queue \in Seq(Frames) /\ queue' = Append(queue, f)
        BY <1>0, <2>1
      <4>2. Append(queue, f) \in Seq(Frames) /\ Append(queue, f) # <<>>
        BY <4>1, AppendProperties
      <4> QED
        BY <4>1, <4>2
    <3>2. queue # <<>> => Head(queue') = Head(queue)
      BY <1>0, <2>1, HeadTailAppend
    <3> QED
      BY <3>1, <3>2
  <2>4. ASSUME NEW g \in Frames PROVE Copies(g)' <= arrived'[g]
    <3>1. Copies(g)' <= Copies(g) + (IF g = f THEN 1 ELSE 0) /\ Copies(g)' \in Nat
      BY <1>0, <2>1, <2>3, CopiesAppend, CopiesParts DEF Copies
    <3> QED
      BY <1>0, <2>1, <3>1
  <2> QED
    BY <1>0, <2>1, <2>2, <2>3, <2>4 DEF TypeInv, TypeOK, RegionSize
<1>3. ASSUME UNCHANGED <<air, arrived, parser, returned>>, failures' \in 0 .. MaxFailures,
             queue' = queue \/ (queue # <<>> /\ queue' = Tail(queue))
      PROVE  /\ queue' \in Seq(Frames)
             /\ (pc' = "idle" /\ length' \in -1 .. PeekSize => TypeInv')
  <2>1. queue' \in Seq(Frames)
    BY <1>0, <1>3, HeadTailProperties
  <2>2. ASSUME NEW g \in Frames PROVE Copies(g)' <= arrived'[g]
    <3>1. CASE queue' = queue
      BY <1>0, <1>3, <3>1 DEF Copies
    <3>2. CASE queue # <<>> /\ queue' = Tail(queue)
      <4>1. Copies(g)' <= Copies(g) /\ Copies(g)' \in Nat
        BY <1>0, <2>1, <3>2, CopiesTail, CopiesParts DEF Copies
      <4> QED
        BY <1>0, <1>3, <4>1
    <3> QED
      BY <1>3, <3>1, <3>2
  <2>3. ASSUME pc' = "idle" /\ length' \in -1 .. PeekSize PROVE TypeInv'
    BY <1>0, <1>3, <2>1, <2>2, <2>3 DEF TypeInv, TypeOK, RegionSize
  <2> QED
    BY <2>1, <2>3
<1>4. CASE Peek
  <2>1. /\ queue # <<>> /\ length' = Least(Size(Head(queue)), PeekSize) /\ pc' = "recv"
        /\ UNCHANGED <<air, arrived, queue, parser, returned, failures>>
    BY <1>4 DEF Peek
  <2>2. Head(queue) \in Frames
    BY <1>0, <2>1, HeadTailProperties
  <2>3. length' \in 1 .. PeekSize
    BY <2>1, <2>2, PeekLength
  <2>4. length' \in -1 .. PeekSize /\ length' # -1
    BY <1>0, <2>3
  <2>5. \A g \in Frames : Copies(g)' = Copies(g)
    BY <2>1 DEF Copies
  <2>6. length' = Least(Size(Head(queue')), PeekSize)
    BY <2>1
  <2>7. TypeOK'
    BY <1>0, <2>1, <2>4, <2>5, <2>6 DEF TypeInv, TypeOK, RegionSize
  <2> QED
    BY <2>1, <2>4, <2>7 DEF TypeInv
<1>5. CASE PeekTimesOut
  <2>1. /\ length' = -1 /\ pc' = "recv" /\ failures < MaxFailures
        /\ UNCHANGED <<air, arrived, queue, parser, returned, failures>>
    BY <1>5 DEF PeekTimesOut
  <2>2. \A g \in Frames : Copies(g)' = Copies(g)
    BY <2>1 DEF Copies
  <2>3. length' \in -1 .. PeekSize
    BY <1>0, <2>1
  <2>4. TypeOK'
    BY <1>0, <2>1, <2>2, <2>3 DEF TypeInv, TypeOK, RegionSize
  <2> QED
    BY <2>1, <2>4 DEF TypeInv
<1>6. CASE Receive
  <2> DEFINE f == Head(queue)
             mem == [k \in 0 .. length - 1 |-> Byte(f, k)]
  <2>1. pc = "recv" /\ length > 0 /\ length \in Nat /\ queue # <<>> /\ queue' = Tail(queue)
        /\ pc' = "idle" /\ length' = 0 /\ UNCHANGED <<air, arrived>>
    BY <1>0, <1>6 DEF Receive, TypeInv, TypeOK
  <2>2. f \in Frames /\ queue' \in Seq(Frames)
    BY <1>0, <2>1, HeadTailProperties
  <2>0. PICK plen \in LengthsOf(MemCache(parser, mem, length)) :
          \E ok \in MallocResults(plen, AllocOutcomes) :
            LET result == ReadMem(parser, mem, length, plen, ok) IN
            /\ ok \/ failures < MaxFailures
            /\ failures' = IF ok THEN failures ELSE failures + 1
            /\ parser' = result.parser
            /\ returned' = IF result.msg = NoMsg THEN returned
                           ELSE Append(returned, [msg |-> result.msg, remote |-> Sender[f]])
    BY <1>6, Zenon DEF Receive
  <2>3. PICK ok \in MallocResults(plen, AllocOutcomes) :
          LET result == ReadMem(parser, mem, length, plen, ok) IN
          /\ ok \/ failures < MaxFailures
          /\ failures' = IF ok THEN failures ELSE failures + 1
          /\ parser' = result.parser
          /\ returned' = IF result.msg = NoMsg THEN returned
                         ELSE Append(returned, [msg |-> result.msg, remote |-> Sender[f]])
    BY <2>0, Zenon
  <2> HIDE DEF f, mem
  <2>4. plen \in Nat /\ ok \in BOOLEAN
    <3>1. MallocResults(plen, AllocOutcomes) \subseteq BOOLEAN
      BY SizeAssumption DEF MallocResults
    <3> QED
      BY <3>1, LengthsNat
  <2>10. ok => ToInt(plen) = plen
    <3>1. plen \in Nat /\ plen < WordSize /\ WordSize \in Nat
      BY LengthsNat, LengthAssumption
    <3> SUFFICES ASSUME ok PROVE ToInt(plen) = plen
      OBVIOUS
    <3> QED
      BY <3>1, MallocSucceeds
  <2>5. Sound(parser')
    BY <2>1, <2>3, <2>4, <2>10, SoundRead DEF TypeInv
  <2>6. parser'.header \in {0, 1} /\ parser'.need \in 0 .. RegionSize(parser')
    BY <2>5, SoundRegion
  <2>7. failures' \in 0 .. MaxFailures
    <3>1. (ok \/ failures < MaxFailures) /\ failures' = IF ok THEN failures ELSE failures + 1
      BY <2>3
    <3> QED
      BY <1>0, <2>4, <3>1
  <2>8. /\ \E Messages : returned' \in Seq([msg : Messages, remote : Remotes])
        /\ \A k \in DOMAIN returned' : returned'[k].remote \in Remotes
    <3> DEFINE m == ReadMem(parser, mem, length, plen, ok).msg
    <3>1. returned' = IF m = NoMsg THEN returned
                      ELSE Append(returned, [msg |-> m, remote |-> Sender[f]])
      BY <2>3
    <3> HIDE DEF m
    <3>2. CASE m = NoMsg
      BY <3>1, <3>2 DEF TypeInv, TypeOK, Remotes
    <3>3. CASE m # NoMsg
      BY <2>2, <3>1, <3>3, ReturnedMore
    <3> QED
      BY <3>2, <3>3
  <2>9. \A g \in Frames : Copies(g)' <= arrived'[g]
    <3> TAKE g \in Frames
    <3>1. Copies(g)' <= Copies(g) /\ Copies(g)' \in Nat
      BY <1>0, <2>1, <2>2, CopiesTail, CopiesParts DEF Copies
    <3> QED
      BY <1>0, <2>1, <3>1
  <2> QED
    <3>1. length' \in -1 .. PeekSize
      BY <1>0, <2>1
    <3>2. TypeOK'
      BY <1>0, <2>1, <2>2, <2>6, <2>7, <2>8, <2>9, <3>1 DEF TypeOK, Remotes
    <3> QED
      BY <2>1, <2>5, <2>8, <3>2 DEF TypeInv
<1>7. CASE ReceiveNowhere
  <2>1. /\ queue # <<>> /\ queue' = Tail(queue) /\ pc' = "idle" /\ length' = 0
        /\ failures' = failures + 1 /\ UNCHANGED <<air, arrived, parser, returned>>
        /\ pc = "recv" /\ (length = -1 \/ failures < MaxFailures)
    BY <1>7 DEF ReceiveNowhere
  <2>2. failures' \in 0 .. MaxFailures
    BY <1>0, <2>1 DEF TypeInv
  <2> QED
    BY <1>0, <1>3, <2>1, <2>2
<1>8. CASE ReceiveTimesOut
  <2>1. /\ pc' = "idle" /\ length' = 0 /\ UNCHANGED <<air, arrived, queue, parser, returned, failures>>
    BY <1>8 DEF ReceiveTimesOut
  <2> QED
    BY <1>0, <1>3, <2>1
<1>9. ASSUME NEW n \in RawLens, UdpPoint_RecvRaw(n) PROVE TypeInv'
  <2> DEFINE f == Head(queue)
  <2>1. /\ pc = "idle" /\ queue # <<>> /\ queue' = Tail(queue)
        /\ returned' = Append(returned, [msg |-> Raw(f, n), remote |-> Sender[f]])
        /\ UNCHANGED <<air, arrived, parser, pc, length, failures>>
    BY <1>9 DEF UdpPoint_RecvRaw
  <2>2. f \in Frames /\ queue' \in Seq(Frames)
    BY <1>0, <2>1, HeadTailProperties
  <2> HIDE DEF f
  <2>3. /\ \E Messages : returned' \in Seq([msg : Messages, remote : Remotes])
        /\ \A k \in DOMAIN returned' : returned'[k].remote \in Remotes
    BY <2>1, <2>2, ReturnedMore
  <2>4. \A g \in Frames : Copies(g)' <= arrived'[g]
    <3> TAKE g \in Frames
    <3>1. Copies(g)' <= Copies(g) /\ Copies(g)' \in Nat
      BY <1>0, <2>1, <2>2, CopiesTail, CopiesParts DEF Copies
    <3> QED
      BY <1>0, <2>1, <3>1
  <2> QED
    BY <1>0, <2>1, <2>2, <2>3, <2>4 DEF TypeInv, TypeOK, RegionSize, Remotes
<1>10. CASE UNCHANGED vars
  <2>1. UNCHANGED <<air, arrived, queue, parser, pc, length, returned, failures>>
    BY <1>10 DEF vars
  <2> QED
    BY <2>1 DEF TypeInv, TypeOK, Copies, RegionSize
<1> QED
  BY <1>1, <1>2, <1>4, <1>5, <1>6, <1>7, <1>8, <1>9, <1>10 DEF Next, Network, UdpPoint_RecvMsg

(* Types, for datagrams of any length: the parser never misses more bytes than the part
   it collects has, whatever length a header decodes to, those apart that LengthAssumption
   leaves out, so that MParser_ReadMem stores inside the cache and the payload; and what
   the second recvfrom() takes is the datagram that was looked at, however many arrive in
   between.                                                                      *)
THEOREM TypeCorrect == Spec => []TypeOK
<1>1. TypeInv => TypeOK
  BY DEF TypeInv
<1> QED
  BY <1>1, TypeInit, TypeStep, PTL DEF Spec
================================================================================
