-------------------------------- MODULE UdpPoint --------------------------------
(***************************************************************************)
(* The receiving side of a UdpPoint (18.udp_frame): one socket and one     *)
(* MParser for the messages of all remote points, and the network that     *)
(* loses, duplicates and reorders their datagrams.                         *)
(*                                                                         *)
(* UdpPoint_SendMsg sends a message as one datagram, header first.  A byte *)
(* is its place of origin, <<message, offset>>.  UdpPoint_RecvMsg looks at *)
(* the next datagram to learn its size, as far as PeekSize bytes, and then *)
(* receives that many bytes of it: two steps, between which more datagrams *)
(* arrive.  The application may take any datagram with UdpPoint_RecvRaw    *)
(* instead, after UdpPoint_Available has told it the size.                 *)
(***************************************************************************)
EXTENDS MsgParser, Sequences, FiniteSets, Functions

CONSTANTS
  Frames,         \* messages the remote points send
  Sender,         \* the address each of them is sent from
  PLen,           \* the length of their payloads
  PeekSize,       \* sizeof(g_temp): 4096 in the code
  MaxQueue,       \* datagrams the socket holds
  MaxCopies,      \* bound: times one datagram may arrive
  MaxFailures,    \* bound: datagrams lost to a failed malloc or recvfrom()
  AllocOutcomes,  \* results malloc may have
  MayTimeOut,     \* whether the socket has a receive timeout, UdpPoint_SetOpt
  GarbageLens,    \* lengths that bytes which are no header may decode to
  RawLens,        \* sizes of the buffers UdpPoint_RecvRaw is called with
  NoFrame         \* no message that was sent

ASSUME SizeAssumption ==
  /\ HeaderSize \in Nat \ {0}
  /\ PLen \in [Frames -> Nat]
  /\ PeekSize \in Nat \ {0}
  /\ MaxQueue \in Nat
  /\ MaxCopies \in Nat
  /\ MaxFailures \in Nat
  /\ AllocOutcomes \subseteq BOOLEAN
  /\ MayTimeOut \in BOOLEAN
  /\ RawLens \subseteq Nat \ {0}
  /\ NoFrame \notin Frames
  /\ IsFiniteSet(Frames)

\* A payload has room in an int; lengths for which malloc's size wraps to less
\* than a header are left out.
ASSUME LengthAssumption ==
  /\ WordSize \in Nat
  /\ \A f \in Frames : 2 * PLen[f] < WordSize
  /\ GarbageLens \subseteq 0 .. WordSize - HeaderSize - 1

VARIABLES
  air,        \* copies of each datagram in the network
  arrived,    \* copies of it that have arrived; bounded by MaxCopies
  queue,      \* the socket: datagrams, each the message it carries
  parser,     \* c->parser
  pc,         \* "idle", or "recv" between the two recvfrom() of RecvMsg
  length,     \* length
  returned,   \* what RecvMsg has returned: messages with the remote address
  failures    \* datagrams that were lost inside RecvMsg (history)

vars == <<air, arrived, queue, parser, pc, length, returned, failures>>

--------------------------------------------------------------------------------
Byte(f, k) == <<f, k>>
Size(f) == HeaderSize + PLen[f]   \* Message_Size
HeaderBytes(f) == [k \in 0 .. HeaderSize - 1 |-> Byte(f, k)]
FrameMsg(f) ==
  [header |-> HeaderBytes(f), length |-> PLen[f],
   payload |-> [k \in 0 .. PLen[f] - 1 |-> Byte(f, HeaderSize + k)]]

ASSUME NoMsgAssumption == \A f \in Frames : NoMsg # FrameMsg(f)

\* What fits of it in a buffer of n bytes.
Raw(f, n) == [raw |-> [k \in 0 .. Least(Size(f), n) - 1 |-> Byte(f, k)]]

\* Message_N2H: the payload length a complete cache decodes to.
LengthsOf(bytes) ==
  LET origins == {f \in Frames : bytes = HeaderBytes(f)}
  IN IF origins # {} THEN {PLen[f] : f \in origins} ELSE GarbageLens

Init ==
  /\ air = [f \in Frames |-> 0]
  /\ arrived = [f \in Frames |-> 0]
  /\ queue = <<>>
  /\ parser = NewParser
  /\ pc = "idle"
  /\ length = 0
  /\ returned = <<>>
  /\ failures = 0

--------------------------------------------------------------------------------
(* The remote points and the network. *)

\* UdpPoint_SendMsg at a remote point, or a datagram that is duplicated.
UdpPoint_SendMsg(f) ==
  /\ air[f] + arrived[f] < MaxCopies
  /\ air' = [air EXCEPT ![f] = @ + 1]
  /\ UNCHANGED <<arrived, queue, parser, pc, length, returned, failures>>

Arrive(f) ==
  /\ air[f] > 0
  /\ Len(queue) < MaxQueue
  /\ air' = [air EXCEPT ![f] = @ - 1]
  /\ arrived' = [arrived EXCEPT ![f] = @ + 1]
  /\ queue' = Append(queue, f)
  /\ UNCHANGED <<parser, pc, length, returned, failures>>

Lose(f) ==
  /\ air[f] > 0
  /\ air' = [air EXCEPT ![f] = @ - 1]
  /\ UNCHANGED <<arrived, queue, parser, pc, length, returned, failures>>

--------------------------------------------------------------------------------
(* UdpPoint_RecvMsg. *)

\* has_data_helper with MSG_PEEK, which waits for a datagram.
Peek ==
  /\ pc = "idle"
  /\ queue # <<>>
  /\ length' = Least(Size(Head(queue)), PeekSize)
  /\ pc' = "recv"
  /\ UNCHANGED <<air, arrived, queue, parser, returned, failures>>

PeekTimesOut ==
  /\ MayTimeOut
  /\ failures < MaxFailures   \* the second recvfrom() may lose a datagram
  /\ pc = "idle"
  /\ queue = <<>>
  /\ length' = -1
  /\ pc' = "recv"
  /\ UNCHANGED <<air, arrived, queue, parser, returned, failures>>

\* recvfrom() of the datagram and MParser_ReadMem; the address is that of the
\* datagram a message was completed with.
Receive ==
  LET f == Head(queue)
      mem == [k \in 0 .. length - 1 |-> Byte(f, k)]
  IN
  /\ pc = "recv"
  /\ length > 0
  /\ TRUE \in AllocOutcomes
  /\ \E plen \in LengthsOf(MemCache(parser, mem, length)) :
     \E ok \in MallocResults(plen, AllocOutcomes) :
       LET result == ReadMem(parser, mem, length, plen, ok) IN
       /\ ok \/ failures < MaxFailures
       /\ failures' = IF ok THEN failures ELSE failures + 1
       /\ parser' = result.parser
       /\ returned' = IF result.msg = NoMsg THEN returned
                      ELSE Append(returned, [msg |-> result.msg, remote |-> Sender[f]])
  /\ queue' = Tail(queue)
  /\ pc' = "idle"
  /\ length' = 0
  /\ UNCHANGED <<air, arrived>>

\* Without a buffer, because malloc failed or because the first recvfrom() did,
\* the second one fails to store the datagram, which is gone.
ReceiveNowhere ==
  /\ pc = "recv"
  /\ length = -1 \/ (FALSE \in AllocOutcomes /\ failures < MaxFailures)
  /\ queue # <<>>
  /\ failures' = failures + 1
  /\ queue' = Tail(queue)
  /\ pc' = "idle"
  /\ length' = 0
  /\ UNCHANGED <<air, arrived, parser, returned>>

\* The second recvfrom() times out like the first.
ReceiveTimesOut ==
  /\ pc = "recv"
  /\ length = -1
  /\ queue = <<>>
  /\ pc' = "idle"
  /\ length' = 0
  /\ UNCHANGED <<air, arrived, queue, parser, returned, failures>>

\* recvfrom() with the caller's buffer: what does not fit is gone.  It has no part
\* in the parser.
UdpPoint_RecvRaw(n) ==
  /\ pc = "idle"
  /\ queue # <<>>
  /\ returned' = Append(returned, [msg |-> Raw(Head(queue), n), remote |-> Sender[Head(queue)]])
  /\ queue' = Tail(queue)
  /\ UNCHANGED <<air, arrived, parser, pc, length, failures>>

--------------------------------------------------------------------------------
Network == \E f \in Frames : UdpPoint_SendMsg(f) \/ Arrive(f) \/ Lose(f)
UdpPoint_RecvMsg == Peek \/ PeekTimesOut \/ Receive \/ ReceiveNowhere \/ ReceiveTimesOut

Next == Network \/ UdpPoint_RecvMsg \/ \E n \in RawLens : UdpPoint_RecvRaw(n)

Spec == Init /\ [][Next]_vars

\* The application calls UdpPoint_RecvMsg again and again, perhaps UdpPoint_RecvRaw
\* in between.
FairSpec == Spec /\ WF_vars(UdpPoint_RecvMsg)

--------------------------------------------------------------------------------
(* Properties. *)

Copies(f) == Cardinality({k \in DOMAIN queue : queue[k] = f})

\* Types; no datagram is in the socket more often than it arrived, and the
\* second recvfrom() is for the datagram that was looked at.
TypeOK ==
  /\ air \in [Frames -> 0 .. MaxCopies]
  /\ arrived \in [Frames -> 0 .. MaxCopies]
  /\ queue \in Seq(Frames)
  /\ \A f \in Frames : Copies(f) <= arrived[f]
  /\ parser.header \in {0, 1}
  /\ parser.need \in 0 .. RegionSize(parser)
  /\ pc \in {"idle", "recv"}
  /\ length \in -1 .. PeekSize
  /\ pc = "recv" /\ length # -1 => queue # <<>> /\ length = Least(Size(Head(queue)), PeekSize)
  /\ failures \in 0 .. MaxFailures
  /\ \A k \in DOMAIN returned : returned[k].remote \in {Sender[f] : f \in Frames}

\* The one parser of all remote points is at the beginning of a message whenever
\* a datagram is taken, so that none is read as the rest of another one.
BetweenMessages ==
  parser.header = 0 /\ parser.need = HeaderSize /\ parser.msg = NoMsg

\* Which message, of the sender it is said to come from, was returned.
IsOf(r, f) ==
  /\ r.remote = Sender[f]
  /\ r.msg = FrameMsg(f) \/ \E n \in RawLens : r.msg = Raw(f, n)
FrameOf(r) ==
  IF \E f \in Frames : IsOf(r, f) THEN CHOOSE f \in Frames : IsOf(r, f) ELSE NoFrame

Service == INSTANCE DatagramService WITH
  dropped <- failures,
  out     <- [k \in DOMAIN returned |-> FrameOf(returned[k])]

\* What arrives in the socket comes out of UdpPoint_RecvMsg whole, under the name
\* of its sender, in the same order, and only a failure loses one of them, also when
\* UdpPoint_RecvRaw takes some of them, as far as they fit.
ImplementsService == Service!Spec

\* The remote address and port are those of the sender of the message
\* (udp_point.cpp:146): of every byte of it.
SenderReported ==
  \A k \in DOMAIN returned :
    LET m == returned[k].msg IN
    "header" \in DOMAIN m =>
      \A b \in Range(m.header) \cup Range(m.payload) : Sender[b[1]] = returned[k].remote

\* When all datagrams have arrived each of them is returned in the end, those
\* apart that were lost to a failure.
AllArrived == \A f \in Frames : arrived[f] = MaxCopies
EachReturned ==
  AllArrived ~> Len(returned) + failures = MaxCopies * Cardinality(Frames)
================================================================================
