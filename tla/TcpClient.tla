------------------------------- MODULE TcpClient -------------------------------
(***************************************************************************)
(* The receiving side of one TcpClient object (12.tcp_client_frame) and    *)
(* the MParser it owns (11.msg_parser/second_edition), reading the byte    *)
(* stream of one TCP connection at a time.                                 *)
(*                                                                         *)
(* The peer sends NFrames frames per connection; frame f occupies the      *)
(* stream positions Start[f] .. Start[f+1]-1, its header first.  A byte is *)
(* its place of origin, <<connection, position>>, so that a message built  *)
(* of the wrong bytes, or of bytes of two connections, can be told from a  *)
(* right one.                                                              *)
(*                                                                         *)
(* One call of TcpClient_RecvMsg is several steps, one for each read() in  *)
(* ToRecv: the kernel returns any part of what has arrived, 0 at end of    *)
(* file, or an error, and the peer and the network run between the reads.  *)
(***************************************************************************)
EXTENDS MsgParser, Sequences

CONSTANTS
  NFrames,        \* frames the peer sends on one connection
  PLen,           \* payload length of each frame
  Start,          \* first stream position of each frame, and the end
  MaxConns,       \* bound: connections opened with this object
  RetryLimit,     \* reads of 0 bytes tolerated in one ToRecv: 5 in the code
  MaxErrors,      \* bound: read() errors that leave the connection up
  AllocOutcomes,  \* results malloc may have in ToMidState
  GarbageLens     \* lengths that bytes which are no header may decode to

Frames == 0 .. NFrames - 1

ASSUME LayoutAssumption ==
  /\ HeaderSize \in Nat \ {0}
  /\ NFrames \in Nat
  /\ PLen \in [Frames -> Nat]
  /\ Start \in [0 .. NFrames -> Nat]
  /\ Start[0] = 0
  /\ \A f \in Frames : Start[f + 1] = Start[f] + HeaderSize + PLen[f]
  /\ \A f, g \in 0 .. NFrames : f < g => Start[f] < Start[g]

\* A payload has room in an int; lengths for which malloc's size wraps to less
\* than a header are left out.
ASSUME LengthAssumption ==
  /\ WordSize \in Nat
  /\ \A f \in Frames : 2 * PLen[f] < WordSize
  /\ GarbageLens \subseteq 0 .. WordSize - HeaderSize - 1

ASSUME BoundAssumption ==
  /\ MaxConns \in Nat
  /\ RetryLimit \in Nat
  /\ MaxErrors \in Nat
  /\ AllocOutcomes \subseteq BOOLEAN

VARIABLES
  conn,       \* number of the current (or last) connection; bounded by MaxConns
  link,       \* "none": fd is -1; "up": established; "fin": the peer has
              \* finished sending; "down": reset, or never connected
  wr,         \* bytes of the connection that have arrived in the socket
  rd,         \* bytes of it that read() has returned
  parser,     \* the MParser
  pc,         \* "recv" inside ToRecv of a TcpClient_RecvMsg call, else "idle"
  got,        \* i of ToRecv: bytes this ToRecv has collected
  retry,      \* retry of ToRecv
  frames,     \* messages returned on this connection (history)
  delivered,  \* messages returned on all connections (history)
  torn,       \* the parser stopped inside a frame that does not go on (history)
  errs        \* read() errors so far; bounded by MaxErrors

stream == <<conn, link, wr, rd>>
call == <<parser, pc, got, retry>>
history == <<frames, delivered, torn>>
vars == <<stream, call, history, errs>>

--------------------------------------------------------------------------------
(* The frames the peer sends, and what the parser can make of bytes.       *)

Byte(c, pos) == <<c, pos>>
HeaderBytes(c, f) == [k \in 0 .. HeaderSize - 1 |-> Byte(c, Start[f] + k)]
PayloadBytes(c, f) == [k \in 0 .. PLen[f] - 1 |-> Byte(c, Start[f] + HeaderSize + k)]

\* The message a caller should see for frame f of connection c.
FrameMsg(c, f) ==
  [header |-> HeaderBytes(c, f), length |-> PLen[f], payload |-> PayloadBytes(c, f)]

\* Message_N2H: the payload length that a complete cache decodes to.
Origins(bytes) == {cf \in (1 .. MaxConns) \X Frames : bytes = HeaderBytes(cf[1], cf[2])}
LengthsOf(bytes) ==
  IF Origins(bytes) # {} THEN {PLen[cf[2]] : cf \in Origins(bytes)} ELSE GarbageLens

\* The n bytes the next read() returns.
Incoming(n) == [k \in 0 .. n - 1 |-> Byte(conn, rd + k)]

--------------------------------------------------------------------------------
Init ==
  /\ conn = 0
  /\ link = "none"
  /\ wr = 0
  /\ rd = 0
  /\ parser = NewParser
  /\ pc = "idle"
  /\ got = 0
  /\ retry = 0
  /\ frames = 0
  /\ delivered = <<>>
  /\ torn = FALSE
  /\ errs = 0

(* The peer and the network. *)

\* More of the peer's byte stream arrives, cut anywhere.
PeerSend(n) ==
  /\ link = "up"
  /\ wr + n <= Start[NFrames]
  /\ wr' = wr + n
  /\ UNCHANGED <<conn, link, rd, call, history, errs>>

PeerClose ==
  /\ link = "up"
  /\ link' = "fin"
  /\ UNCHANGED <<conn, wr, rd, call, history, errs>>

PeerReset ==
  /\ link \in {"up", "fin"}
  /\ link' = "down"
  /\ UNCHANGED <<conn, wr, rd, call, history, errs>>

--------------------------------------------------------------------------------
(* Opening and closing a connection. *)

IsValid == link = "up"   \* TcpClient_IsValid: the socket is TCP_ESTABLISHED

\* Nothing of a message has been parsed yet.
BetweenMessages == parser.header = 0 /\ parser.need = HeaderSize

\* TcpClient_Connect: a socket is made for any client that is not valid, also
\* one whose link broke and that was not closed; the parser is left as it is,
\* and fd keeps the socket even if connect() fails.
TcpClient_Connect(ok) ==
  /\ pc = "idle"
  /\ ~IsValid
  /\ conn < MaxConns
  /\ conn' = conn + 1
  /\ link' = IF ok THEN "up" ELSE "down"
  /\ wr' = 0
  /\ rd' = 0
  /\ frames' = 0
  /\ torn' = (torn \/ (link # "none" /\ ~BetweenMessages))
  /\ UNCHANGED <<call, delivered, errs>>

\* TcpClient_Close without the call of MParser_Reset.
CloseKeepsParser ==
  /\ pc = "idle"
  /\ link # "none"
  /\ link' = "none"
  /\ wr' = 0
  /\ rd' = 0
  /\ frames' = 0
  /\ torn' = FALSE
  /\ UNCHANGED <<conn, call, delivered, errs>>

\* TcpClient_Close: whatever the socket still held is gone with it.
TcpClient_Close ==
  /\ pc = "idle"
  /\ link # "none"
  /\ link' = "none"
  /\ wr' = 0
  /\ rd' = 0
  /\ frames' = 0
  /\ torn' = FALSE
  /\ parser' = InitState(parser)
  /\ UNCHANGED <<conn, pc, got, retry, delivered, errs>>

--------------------------------------------------------------------------------
(* TcpClient_RecvMsg, that is MParser_ReadFd. *)

TcpClient_RecvMsg ==
  /\ pc = "idle"
  /\ link # "none"
  /\ pc' = "recv"
  /\ got' = 0
  /\ retry' = 0
  /\ UNCHANGED <<stream, parser, history, errs>>

\* The parser is reset when the part is not complete.
ReturnDiscarding ==
  /\ parser' = InitState(parser)
  /\ pc' = "idle"
  /\ got' = 0
  /\ retry' = 0
  /\ UNCHANGED <<stream, history>>

\* ToRecv is left before it has all it wants: what arrived is kept and need
\* says how much is still missing when the caller tries again.
ReturnShort ==
  /\ parser' = Progress(parser, got)
  /\ pc' = "idle"
  /\ got' = 0
  /\ retry' = 0
  /\ UNCHANGED <<stream, history>>

\* read() > 0
ReadSome(n) ==
  /\ pc = "recv"
  /\ n <= parser.need - got
  /\ n <= wr - rd
  /\ parser' = Fill(parser, got, Incoming(n), n)
  /\ got' = got + n
  /\ rd' = rd + n
  /\ UNCHANGED <<conn, link, wr, pc, retry, history, errs>>

AtEof == pc = "recv" /\ got < parser.need /\ rd = wr /\ link \in {"fin", "down"}

\* Another try after read() = 0 that is not counted.
ReadZeroUncounted ==
  /\ AtEof
  /\ UNCHANGED vars

\* read() = 0, and another try after a pause
ReadZero ==
  /\ AtEof
  /\ retry < RetryLimit
  /\ retry' = retry + 1
  /\ UNCHANGED <<stream, parser, pc, got, history, errs>>

\* read() = 0 once too often
ReadGiveUp ==
  /\ AtEof
  /\ retry = RetryLimit
  /\ ReturnShort
  /\ UNCHANGED errs

\* read() = -1: the connection is down, or an error that leaves it up, such as
\* a receive timeout set with TcpClient_SetOpt
ReadError ==
  /\ pc = "recv"
  /\ got < parser.need
  /\ \/ link = "down" /\ UNCHANGED errs
     \/ link # "down" /\ errs < MaxErrors /\ errs' = errs + 1
  /\ ReturnShort

\* The header is complete: decode it and go on with the payload, in the same
\* call, or start over if there is no memory for the message.
HeaderComplete ==
  /\ pc = "recv"
  /\ parser.header = 0
  /\ got = parser.need
  /\ \E length \in LengthsOf(parser.cache) : \E ok \in MallocResults(length, AllocOutcomes) :
       /\ parser' = AfterHeader(parser, length, ok)
       /\ pc' = IF ok THEN "recv" ELSE "idle"
       /\ torn' = (torn \/ ~ok)
  /\ got' = 0
  /\ retry' = 0
  /\ UNCHANGED <<stream, frames, delivered, errs>>

\* The payload is complete (at once if it is empty): ToLastState hands the
\* message over and InitState prepares for the next one.
PayloadComplete ==
  /\ pc = "recv"
  /\ parser.header = 1
  /\ got = parser.need
  /\ delivered' = Append(delivered, parser.msg)
  /\ frames' = frames + 1
  /\ parser' = InitState(parser)
  /\ pc' = "idle"
  /\ got' = 0
  /\ retry' = 0
  /\ UNCHANGED <<stream, torn, errs>>

--------------------------------------------------------------------------------
Peer ==
  \/ \E n \in 1 .. Start[NFrames] : PeerSend(n)
  \/ PeerClose
  \/ PeerReset

ReadStep ==
  \/ \E n \in 1 .. Start[NFrames] : ReadSome(n)
  \/ ReadZero
  \/ ReadGiveUp
  \/ HeaderComplete
  \/ PayloadComplete

Next ==
  \/ Peer
  \/ \E ok \in BOOLEAN : TcpClient_Connect(ok)
  \/ TcpClient_Close
  \/ TcpClient_RecvMsg
  \/ ReadStep
  \/ ReadError

Spec == Init /\ [][Next]_vars

\* The application calls TcpClient_RecvMsg again and again while the link is up,
\* as the loop of 12.tcp_client_frame/server.cpp does, and read() comes back
\* when there is something to return.
FairSpec ==
  /\ Spec
  /\ WF_vars(IsValid /\ TcpClient_RecvMsg)
  /\ WF_vars(ReadStep)

--------------------------------------------------------------------------------
(* Properties. *)

\* The parser of every state is well formed: the message exists exactly while
\* its payload is collected, and the region being filled has room for all that
\* is needed, so that no read() of ToRecv stores outside it
\* (msg_parser.cpp, MParser_ReadFd).
InBounds ==
  /\ parser.header = 0 <=> parser.msg = NoMsg
  /\ got \in 0 .. parser.need
  /\ pc = "idle" => got = 0
  /\ parser.need \in 0 .. RegionSize(parser)
  /\ parser.header = 0 => parser.need > 0

ByteOrNone == {Byte(c, pos) : c \in 0 .. MaxConns, pos \in 0 .. Start[NFrames]} \cup {NoByte}
Region(n) == [0 .. n - 1 -> ByteOrNone]
Lengths == {PLen[f] : f \in Frames} \cup GarbageLens
MessageOf(n) == [header : Region(HeaderSize), length : {n}, payload : Region(n)]
IsMessage(m) == \E n \in Lengths : m \in MessageOf(n)

ASSUME NoMsgAssumption == \A n \in Lengths : NoMsg \notin MessageOf(n)

\* Types of the variables, the bounds of the parser included.
TypeOK ==
  /\ conn \in 0 .. MaxConns
  /\ link \in {"none", "up", "fin", "down"}
  /\ wr \in 0 .. Start[NFrames]
  /\ rd \in 0 .. wr
  /\ parser \in [header : {0, 1}, need : Nat, cache : Region(HeaderSize), msg : {parser.msg}]
  /\ parser.msg = NoMsg \/ IsMessage(parser.msg)
  /\ InBounds
  /\ pc \in {"idle", "recv"}
  /\ got \in Nat
  /\ retry \in 0 .. RetryLimit
  /\ frames \in Nat
  /\ delivered \in Seq({delivered[k] : k \in DOMAIN delivered})
  /\ \A k \in DOMAIN delivered : IsMessage(delivered[k])
  /\ torn \in BOOLEAN
  /\ errs \in 0 .. MaxErrors

\* need is what its comment says (msg_parser.cpp:10): the bytes that still
\* complete the part being parsed, the fixed header of the frame the stream is
\* in or its payload.  However the stream is cut and whatever read() fails on,
\* the parser and the stream agree on where a frame begins, until a message
\* finds no memory or a new connection meets a parser that is inside a frame of
\* the last one; and after TcpClient_Close they agree again.
NeedExact ==
  link # "none" /\ ~torn =>
    LET end == rd + (parser.need - got) IN   \* where the part being parsed ends
    IF parser.header = 0
      THEN \E f \in 0 .. NFrames : Start[f] <= rd /\ end = Start[f] + HeaderSize
      ELSE \E f \in Frames : Start[f] + HeaderSize <= rd /\ end = Start[f + 1]

\* The first n bytes of a region are those of connection c from position pos on.
Holds(region, n, c, pos) == \A k \in 0 .. n - 1 : region[k] = Byte(c, pos + k)

\* What NeedExact needs to be inductive: the next byte read() returns belongs
\* to frame number `frames`, right after the bytes of it the parser holds.
InSync ==
  /\ frames \in 0 .. NFrames
  /\ link = "none" => /\ pc = "idle" /\ parser.header = 0 /\ parser.need = HeaderSize
                      /\ rd = 0 /\ wr = 0 /\ frames = 0
  /\ link # "none" => conn > 0
  /\ parser.header = 0 =>
       LET held == HeaderSize - parser.need + got IN
       /\ rd = Start[frames] + held
       /\ Holds(parser.cache, held, conn, Start[frames])
  /\ parser.header = 1 =>
       LET held == PLen[frames] - parser.need + got IN
       /\ frames < NFrames
       /\ parser.msg.header = HeaderBytes(conn, frames)
       /\ parser.msg.length = PLen[frames]
       /\ rd = Start[frames] + HeaderSize + held
       /\ Holds(parser.msg.payload, held, conn, Start[frames] + HeaderSize)

\* Which frame of which connection a delivered message is; <<0, 0>>, which is
\* no connection, if it is not one the peer sent.
IdOf(m) ==
  IF \E c \in 1 .. MaxConns, f \in Frames : m = FrameMsg(c, f)
    THEN CHOOSE cf \in (1 .. MaxConns) \X Frames : m = FrameMsg(cf[1], cf[2])
    ELSE <<0, 0>>

Channel == INSTANCE FrameChannel WITH
  sent  <- {f \in Frames : Start[f + 1] <= wr},
  taken <- frames,
  out   <- [k \in DOMAIN delivered |-> IdOf(delivered[k])]

\* The object implements the channel of whole frames: what TcpClient_RecvMsg
\* returns on a connection are the peer's frames, whole, once each, in order
\* and never before their last byte, and no byte of one connection shows up in
\* a message of the next one, as long as the parser is not torn from the stream.
ImplementsChannel == Channel!Spec

\* A frame that has arrived while the link is up reaches the application unless
\* the link is lost first, through short reads, errors and several calls, of a
\* parser that is not torn.
FrameDelivered ==
  \A c \in 1 .. MaxConns, f \in Frames :
    (conn = c /\ link = "up" /\ Start[f + 1] <= wr)
      ~> (conn # c \/ link # "up" \/ frames > f \/ torn)

\* A call that is waiting in ToRecv when the peer goes away returns: the retry
\* limit ends the reads of 0 bytes.
CallReturns == (pc = "recv" /\ link # "up") ~> (pc = "idle")
================================================================================
