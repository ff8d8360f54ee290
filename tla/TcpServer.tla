------------------------------- MODULE TcpServer -------------------------------
(***************************************************************************)
(* The select() server of 13.tcp_server_frame: TcpServer_DoWork with its   *)
(* SelectHandler, one TcpClient object for each accepted connection, the   *)
(* EventListener of server.cpp that puts a series of messages together,    *)
(* and the peers that connect, send and leave while the one server thread  *)
(* is at any point of its loop.                                            *)
(*                                                                         *)
(* What RecvMsg does with the bytes of one connection is TcpClient.tla's   *)
(* subject.  Here a message is two units of the peer's stream, the header  *)
(* (unit 2m) and the payload (unit 2m+1), and RecvMsg waits for the one it *)
(* needs.  Message m is number m % Total of a series of Total messages.    *)
(***************************************************************************)
EXTENDS Integers, Sequences

CONSTANTS
  Peers,          \* each connects at most once
  ServerFd,       \* s->fd
  Fds,            \* descriptors accept() can hand out
  Backlog,        \* connections that may wait for accept(), max of TcpServer_Start
  NMsgs,          \* messages a peer has to send
  Total,          \* total: messages in a series
  AllocOutcomes,  \* results malloc may have
  NoPeer, NoClient, NoData,   \* a free descriptor, a null client, null data
  Nul, NoByte     \* the end of a string, memory that was not written

\* The descriptors below s->fd were open before the server was started and stay
\* open: accept() hands out the lowest free one, and SelectHandler looks at none
\* below s->fd.
ASSUME FdAssumption ==
  /\ ServerFd \in Nat
  /\ Fds \subseteq Nat
  /\ \A fd \in Fds : fd > ServerFd

ASSUME MessageAssumption ==
  /\ NMsgs \in Nat
  /\ Total \in Nat \ {0}
  /\ Backlog \in Nat
  /\ AllocOutcomes \subseteq BOOLEAN

VARIABLES
  peer,      \* "new", "open", "fin" (will send no more) or "reset"
  wr,        \* units of a peer that have arrived in the socket
  rd,        \* units of it the server has read
  backlog,   \* peers waiting for accept()
  fdt,       \* the peer each descriptor is connected to
  valid,     \* s->valid
  cb,        \* whether there is a listener, s->cb
  client,    \* s->client[]
  reads,     \* the fd_set reads
  max,       \* max
  todo,      \* descriptors of rset that SelectHandler has still to come to
  cur,       \* index
  event,     \* event
  pc,        \* where the thread is: "select", "scan", "check", "data", "done";
             \* "crashed" after a memory access that is undefined
  stage,     \* callbacks a peer's connection has had: "none", "up" (EVT_CONN),
             \* "gone" (EVT_CLOSE, or deleted), "again" (EVT_CLOSE after that)
  seen,      \* messages of a peer the listener has received
  printed,   \* series of a peer the listener has printed
  stray,     \* a callback was made with something that is no client
  denied     \* peers for which malloc returned null, a client or a buffer

net == <<peer, wr>>
server == <<valid, cb, reads, max, todo, cur, event, pc>>
conns == <<backlog, fdt, client>>
history == <<stage, seen, printed, stray, denied>>
vars == <<net, rd, server, conns, history>>

--------------------------------------------------------------------------------
Char(p, m) == <<p, m>>
Blank == [k \in 0 .. Total |-> NoByte]
NewClient == [data |-> NoData]
Buffer(c) == [live |-> TRUE, cells |-> c]

FreeFds == {fd \in Fds : fdt[fd] = NoPeer}

\* select(): a connection waits for accept, or there is something to read, be it
\* the end of the stream.
Ready(fd) ==
  IF fd = ServerFd THEN backlog # <<>>
  ELSE LET p == fdt[fd] IN rd[p] < wr[p] \/ peer[p] \in {"fin", "reset"}

\* A check that there is a client, without its TCP_INFO.
IsThere(fd) == client[fd] # NoClient

\* TcpClient_IsValid(s->client[index]): TCP_ESTABLISHED.
IsValid(fd) == client[fd] # NoClient /\ peer[fdt[fd]] = "open"

\* TcpServer_New, TcpServer_Start and perhaps TcpServer_SetListener, and the
\* first lines of TcpServer_DoWork.
Init ==
  /\ peer = [p \in Peers |-> "new"]
  /\ wr = [p \in Peers |-> 0]
  /\ rd = [p \in Peers |-> 0]
  /\ backlog = <<>>
  /\ fdt = [fd \in Fds |-> NoPeer]
  /\ valid = TRUE
  /\ cb \in BOOLEAN
  /\ client = [fd \in Fds |-> NoClient]
  /\ reads = {ServerFd}
  /\ max = ServerFd
  /\ todo = {}
  /\ cur = ServerFd
  /\ event = "none"
  /\ pc = "select"
  /\ stage = [p \in Peers |-> "none"]
  /\ seen = [p \in Peers |-> 0]
  /\ printed = [p \in Peers |-> <<>>]
  /\ stray = FALSE
  /\ denied = {}

--------------------------------------------------------------------------------
(* The peers. *)

PeerConnect(p) ==
  /\ peer[p] = "new"
  /\ valid
  /\ Len(backlog) < Backlog
  /\ peer' = [peer EXCEPT ![p] = "open"]
  /\ backlog' = Append(backlog, p)
  /\ UNCHANGED <<wr, rd, fdt, client, server, history>>

PeerSend(p) ==
  /\ peer[p] = "open"
  /\ wr[p] < 2 * NMsgs
  /\ wr' = [wr EXCEPT ![p] = @ + 1]
  /\ UNCHANGED <<peer, rd, server, conns, history>>

PeerLeave(p, how) ==
  /\ peer[p] \in {"open", "fin"}
  /\ peer[p] # how
  /\ peer' = [peer EXCEPT ![p] = how]
  /\ UNCHANGED <<wr, rd, server, conns, history>>

--------------------------------------------------------------------------------
(* TcpServer_DoWork and SelectHandler. *)

\* select() with max for the number of descriptors, where max + 1 is due.
SelectBelowMax ==
  /\ pc = "select"
  /\ valid
  /\ todo' = {fd \in reads : ServerFd <= fd /\ (fd < max \/ fd = ServerFd) /\ Ready(fd)}
  /\ todo' # {}
  /\ pc' = "scan"
  /\ UNCHANGED <<net, rd, valid, cb, reads, max, cur, event, conns, history>>

Select ==
  /\ pc = "select"
  /\ valid
  /\ todo' = {fd \in reads : ServerFd <= fd /\ fd <= max /\ Ready(fd)}
  /\ todo' # {}
  /\ pc' = "scan"
  /\ UNCHANGED <<net, rd, valid, cb, reads, max, cur, event, conns, history>>

\* A loop that goes on as long as a descriptor is watched.
FinishWhenNoneRead ==
  /\ pc = "select"
  /\ ~valid
  /\ reads = {}
  /\ pc' = "done"
  /\ UNCHANGED <<net, rd, valid, cb, reads, max, todo, cur, event, conns, history>>

\* The loop of DoWork ends when the server is no longer valid; the caller
\* deletes it.
Finish ==
  /\ pc = "select"
  /\ ~valid
  /\ pc' = "done"
  /\ UNCHANGED <<net, rd, valid, cb, reads, max, todo, cur, event, conns, history>>

ScanEnd ==
  /\ pc = "scan"
  /\ todo = {}
  /\ pc' = "select"
  /\ UNCHANGED <<net, rd, valid, cb, reads, max, todo, cur, event, conns, history>>

\* for (i = s->fd; i <= max; i++): the next descriptor of rset.
ScanAt(fd) == pc = "scan" /\ fd \in todo /\ \A i \in todo : fd <= i

\* accept() succeeds with the lowest free descriptor, and TcpClient_From makes
\* the object, or fails.
Accept(fd, ok) ==
  /\ ScanAt(ServerFd)
  /\ fd \in FreeFds
  /\ \A other \in FreeFds : fd <= other
  /\ fdt' = [fdt EXCEPT ![fd] = Head(backlog)]
  /\ backlog' = Tail(backlog)
  /\ client' = [client EXCEPT ![fd] = IF ok THEN NewClient ELSE NoClient]
  /\ reads' = reads \cup {fd}
  /\ max' = IF fd > max THEN fd ELSE max
  /\ cur' = fd
  /\ event' = "CONN"
  /\ todo' = todo \ {ServerFd}
  /\ pc' = "check"
  /\ denied' = IF ok THEN denied ELSE denied \cup {Head(backlog)}
  /\ UNCHANGED <<net, rd, valid, cb, stage, seen, printed, stray>>

\* accept() fails for want of a descriptor: index is -1.  With a listener,
\* s->client[-1] is used like a client: s->cb itself, which is not valid, is
\* passed to the listener with EVT_CLOSE, and TcpClient_Del then writes to it.
AcceptFails ==
  /\ ScanAt(ServerFd)
  /\ FreeFds = {}
  /\ stray' = cb
  /\ todo' = todo \ {ServerFd}
  /\ cur' = -1
  /\ event' = "none"
  /\ pc' = IF cb THEN "crashed" ELSE "scan"
  /\ UNCHANGED <<net, rd, valid, cb, reads, max, conns, stage, seen, printed, denied>>

ScanData(fd) ==
  /\ ScanAt(fd)
  /\ fd # ServerFd
  /\ cur' = fd
  /\ event' = "DATA"
  /\ todo' = todo \ {fd}
  /\ pc' = "check"
  /\ UNCHANGED <<net, rd, valid, cb, reads, max, conns, history>>

NoListener ==
  /\ pc = "check"
  /\ ~cb
  /\ pc' = "scan"
  /\ UNCHANGED <<net, rd, valid, cb, reads, max, todo, cur, event, conns, history>>

\* s->cb(client, EVT_CONN), which only prints
ConnEvent ==
  /\ pc = "check"
  /\ cb
  /\ IsValid(cur)
  /\ event = "CONN"
  /\ stage' = [stage EXCEPT ![fdt[cur]] = "up"]
  /\ pc' = "scan"
  /\ UNCHANGED <<net, rd, valid, cb, reads, max, todo, cur, event, conns, seen, printed, stray, denied>>

\* s->cb(client, EVT_DATA), which starts with TcpClient_RecvMsg
DataEvent ==
  /\ pc = "check"
  /\ cb
  /\ IsValid(cur)
  /\ event = "DATA"
  /\ pc' = "data"
  /\ UNCHANGED <<net, rd, valid, cb, reads, max, todo, cur, event, conns, history>>

\* EVT_CLOSE in the history of a connection.
Gone(st) == IF st \in {"none", "up"} THEN "gone" ELSE "again"

\* The same without deleting the client.
CloseEventKeepsClient ==
  /\ pc = "check"
  /\ cb
  /\ ~IsValid(cur)
  /\ stage' = IF client[cur] # NoClient THEN [stage EXCEPT ![fdt[cur]] = Gone(@)] ELSE stage
  /\ pc' = "scan"
  /\ UNCHANGED <<net, rd, valid, cb, reads, max, todo, cur, event, conns, seen, printed, stray, denied>>

\* The same without FD_CLR.
CloseEventKeepsRead ==
  /\ pc = "check"
  /\ cb
  /\ ~IsValid(cur)
  /\ IF client[cur] # NoClient
       THEN /\ stage' = [stage EXCEPT ![fdt[cur]] = Gone(@)]
            /\ fdt' = [fdt EXCEPT ![cur] = NoPeer]
       ELSE UNCHANGED <<stage, fdt>>
  /\ client' = [client EXCEPT ![cur] = NoClient]
  /\ pc' = "scan"
  /\ UNCHANGED <<net, rd, valid, cb, reads, max, todo, cur, event, backlog, seen, printed, stray, denied>>

\* The connection is not established any more: s->cb(client, EVT_CLOSE) if there
\* is a client, and the client is deleted, which closes the descriptor.
CloseEvent ==
  /\ pc = "check"
  /\ cb
  /\ ~IsValid(cur)
  /\ IF client[cur] # NoClient
       THEN /\ stage' = [stage EXCEPT ![fdt[cur]] = Gone(@)]
            /\ fdt' = [fdt EXCEPT ![cur] = NoPeer]
       ELSE UNCHANGED <<stage, fdt>>
  /\ client' = [client EXCEPT ![cur] = NoClient]
  /\ reads' = reads \ {cur}
  /\ pc' = "scan"
  /\ UNCHANGED <<net, rd, valid, cb, max, todo, cur, event, backlog, seen, printed, stray, denied>>

\* TcpServer_Stop, called by the listener on any event: the listening socket and
\* every client are closed at once, without an event, in the middle of
\* SelectHandler's scan.  A descriptor without a client stays open.
TcpServer_Stop ==
  /\ pc = "check"
  /\ cb
  /\ client[cur] # NoClient
  /\ valid' = FALSE
  /\ backlog' = <<>>
  /\ fdt' = [fd \in Fds |-> IF client[fd] # NoClient THEN NoPeer ELSE fdt[fd]]
  /\ client' = [fd \in Fds |-> NoClient]
  /\ stage' = [p \in Peers |-> IF \E fd \in Fds : fdt[fd] = p /\ client[fd] # NoClient
                                 THEN "gone" ELSE stage[p]]
  /\ reads' = IF IsValid(cur) THEN reads ELSE reads \ {cur}
  /\ pc' = "scan"
  /\ UNCHANGED <<net, rd, cb, max, todo, cur, event, seen, printed, stray, denied>>

--------------------------------------------------------------------------------
(* EventListener on EVT_DATA. *)

\* ReadFd gets the next unit.  A header, and the payload is next; the thread
\* stays in read() as long as it takes to arrive.
ReadHeader ==
  LET p == fdt[cur] IN
  /\ pc = "data"
  /\ rd[p] < wr[p]
  /\ rd[p] % 2 = 0
  /\ rd' = [rd EXCEPT ![p] = @ + 1]
  /\ UNCHANGED <<net, server, conns, history>>

\* What did not arrive is taken for read.
ReadNothingCounted ==
  LET p == fdt[cur] IN
  /\ pc = "data"
  /\ \/ peer[p] = "fin" /\ rd[p] = wr[p]
     \/ peer[p] = "reset"
  /\ rd' = [rd EXCEPT ![p] = @ + 1]
  /\ pc' = "scan"
  /\ UNCHANGED <<net, valid, cb, reads, max, todo, cur, event, conns, history>>

\* The stream has ended, or failed: RecvMsg returns nothing.
ReadNothing ==
  LET p == fdt[cur] IN
  /\ pc = "data"
  /\ \/ peer[p] = "fin" /\ rd[p] = wr[p]
     \/ peer[p] = "reset"
  /\ pc' = "scan"
  /\ UNCHANGED <<net, rd, valid, cb, reads, max, todo, cur, event, conns, history>>

\* What a buffer holds as a string.
Text(cells) ==
  LET size == CHOOSE n \in 0 .. Total : cells[n] = Nul /\ \A k \in 0 .. n - 1 : cells[k] # Nul
  IN [k \in 1 .. size |-> cells[k - 1]]

\* strcpy(s, payload), without the index.
CopiedToStart(cells, index, char) == [cells EXCEPT ![0] = char, ![1] = Nul]

\* strcpy(s + index, payload) of the one character and its end.
Copied(cells, index, char) == [cells EXCEPT ![index] = char, ![index + 1] = Nul]

\* A buffer that is only made when the client has none.
KeptBuffer(data, index, ok) ==
  IF data # NoData THEN data ELSE IF ok THEN Buffer(Blank) ELSE NoData

\* The first message of a series looked for at index 1.
SeriesFromOne(data, index, ok) ==
  IF index # 1 THEN data ELSE IF ok THEN Buffer(Blank) ELSE NoData

\* s for message number index of a series: the first message brings a new buffer.
SeriesBuffer(data, index, ok) ==
  IF index # 0 THEN data ELSE IF ok THEN Buffer(Blank) ELSE NoData

\* The payload completes message m, and the listener adds it to the series: the
\* last message of a series prints the buffer and frees it, and data is left
\* pointing at it.  Copying to a null or freed buffer is
\* undefined.
ReadMessage(ok) ==
  LET p == fdt[cur]
      m == rd[p] \div 2
      index == m % Total
      data == SeriesBuffer(client[cur].data, index, ok)
      usable == data # NoData /\ data.live
      cells == Copied(data.cells, index, Char(p, m))
      last == index + 1 = Total
  IN
  /\ pc = "data"
  /\ rd[p] < wr[p]
  /\ rd[p] % 2 = 1
  /\ rd' = [rd EXCEPT ![p] = @ + 1]
  /\ seen' = [seen EXCEPT ![p] = @ + 1]
  /\ denied' = IF index = 0 /\ ~ok THEN denied \cup {p} ELSE denied
  /\ IF usable
       THEN /\ client' = [client EXCEPT ![cur].data = [live |-> ~last, cells |-> cells]]
            /\ printed' = IF last THEN [printed EXCEPT ![p] = Append(@, Text(cells))] ELSE printed
            /\ pc' = "scan"
       ELSE pc' = "crashed" /\ UNCHANGED <<client, printed>>
  /\ UNCHANGED <<net, valid, cb, reads, max, todo, cur, event, backlog, fdt, stage, stray>>

--------------------------------------------------------------------------------
PeerStep(p) ==
  \/ PeerConnect(p)
  \/ PeerSend(p)
  \/ \E how \in {"fin", "reset"} : PeerLeave(p, how)

ServerStep ==
  \/ Select
  \/ Finish
  \/ ScanEnd
  \/ \E fd \in Fds, ok \in AllocOutcomes : Accept(fd, ok)
  \/ AcceptFails
  \/ \E fd \in Fds : ScanData(fd)
  \/ NoListener
  \/ ConnEvent
  \/ DataEvent
  \/ CloseEvent
  \/ ReadHeader
  \/ ReadNothing
  \/ \E ok \in AllocOutcomes : ReadMessage(ok)

Next == (\E p \in Peers : PeerStep(p)) \/ ServerStep \/ TcpServer_Stop

Spec == Init /\ [][Next]_vars

\* The server thread runs, and a peer that has begun a message goes on with it
\* unless it leaves: nothing bounds the time read() waits for the rest of it.
Finishes(p) == wr[p] % 2 = 1 /\ PeerSend(p)
FairSpec == Spec /\ WF_vars(ServerStep) /\ \A p \in Peers : WF_vars(Finishes(p))

--------------------------------------------------------------------------------
(* Properties. *)

Buffers == [live : BOOLEAN,
            cells : [0 .. Total -> {Nul, NoByte} \cup {Char(p, m) : p \in Peers, m \in 0 .. NMsgs - 1}]]

\* The values that stand for nothing are none of the others, and a message's
\* character is not the end of a string.
ASSUME NullAssumption ==
  /\ NoPeer \notin Peers
  /\ NoData \notin Buffers
  /\ NoClient \notin [data : {NoData} \cup Buffers]
  /\ \A p \in Peers, m \in 0 .. NMsgs - 1 : Nul # Char(p, m)

\* Types; what was read had arrived; max is a descriptor, and so is index wherever
\* SelectHandler goes on to use s->client[index].  After an accept() that failed
\* index is -1: then there is no listener, or the server has used what is no place
\* of client[].
TypeOK ==
  /\ peer \in [Peers -> {"new", "open", "fin", "reset"}]
  /\ wr \in [Peers -> 0 .. 2 * NMsgs]
  /\ rd \in [Peers -> 0 .. 2 * NMsgs]
  /\ \A p \in Peers : rd[p] <= wr[p]
  /\ backlog \in Seq(Peers)
  /\ fdt \in [Fds -> Peers \cup {NoPeer}]
  /\ valid \in BOOLEAN
  /\ cb \in BOOLEAN
  /\ client \in [Fds -> [data : {NoData} \cup Buffers] \cup {NoClient}]
  /\ reads \subseteq Fds \cup {ServerFd}
  /\ max \in Fds \cup {ServerFd}
  /\ todo \subseteq Fds \cup {ServerFd}
  /\ cur \in Fds \cup {ServerFd, -1}
  /\ pc \in {"check", "data"} => cur \in Fds
  /\ cur = -1 => ~cb \/ pc = "crashed"
  /\ event \in {"none", "CONN", "DATA"}
  /\ pc \in {"select", "scan", "check", "data", "done", "crashed"}
  /\ stage \in [Peers -> {"none", "up", "gone", "again"}]
  /\ seen \in [Peers -> 0 .. NMsgs]
  /\ DOMAIN printed = Peers
  /\ stray \in BOOLEAN
  /\ denied \subseteq Peers

\* A connection without a client, since TcpClient_From had no memory, and one that
\* SelectHandler has not yet removed from reads; without a listener it never does.
Orphan(fd) == client[fd] = NoClient /\ fdt[fd] \in denied
Watched(fd) == ~cb \/ (pc = "check" /\ cur = fd)

\* While the server works, the three records of a connection agree: it has an
\* open descriptor exactly if there is a client object in that place of
\* s->client[], exactly if the descriptor is in reads; no connection has two;
\* and the scan from s->fd to max comes to all of them.  A descriptor that is
\* closed and handed out again never keeps a trace of the connection before.  Only
\* a connection for which TcpClient_From had no memory stays open without a client
\* (SelectHandler closes by deleting the client, and never closes that one).
Registered ==
  valid =>
    /\ reads = {ServerFd} \cup {fd \in Fds : client[fd] # NoClient \/ (Orphan(fd) /\ Watched(fd))}
    /\ \A fd \in Fds : (client[fd] # NoClient \/ Orphan(fd)) <=> fdt[fd] # NoPeer
    /\ \A fd \in reads : ServerFd <= fd /\ fd <= max
    /\ \A f, g \in Fds : fdt[f] = fdt[g] /\ f # g => fdt[f] = NoPeer
    /\ \A fd \in Fds, k \in DOMAIN backlog : fdt[fd] # backlog[k]

\* The listener is called with clients, as tcp_server.h says of its first
\* parameter, and never with anything else.
OnlyClients == ~stray

\* Whatever the peers do, the listener copies no character to a buffer that is
\* not there: the series of different peers never share one, and a new client
\* on a used descriptor starts without one.  Nothing but an accept() that failed
\* (AcceptFails) and a buffer for this very series that malloc refused makes the
\* server use memory it does not own.
NoCrash == pc = "crashed" => stray \/ fdt[cur] \in denied

\* What is printed are the series as they were sent, one after the other, with
\* no character of another series or of another peer's, and none is copied to a
\* buffer that is not there, unless malloc refused it.
PrintedWhole ==
  /\ NoCrash
  /\ \A p \in Peers, k \in 1 .. NMsgs :
       k \in DOMAIN printed[p] =>
         printed[p][k] = [j \in 1 .. Total |-> Char(p, (k - 1) * Total + j - 1)]

\* For each connection: EVT_DATA only after its EVT_CONN, nothing at all after
\* EVT_CLOSE, which comes once, and each message in its turn.
InOrder ==
  \A p \in Peers :
    /\ stage[p] = "gone" => stage'[p] = "gone"
    /\ stage[p] = "up" => stage'[p] # "none"
    /\ stage'[p] # "again"
    /\ seen'[p] # seen[p] => stage[p] = "up" /\ seen'[p] = seen[p] + 1
EventOrder == [][InOrder]_vars

\* A message that has arrived reaches the listener, unless its peer leaves.
MessageServed ==
  \A p \in Peers, m \in 1 .. NMsgs :
    (cb /\ peer[p] = "open" /\ wr[p] >= 2 * m)
      ~> (seen[p] >= m \/ peer[p] # "open" \/ ~valid)

\* A connection whose peer has left is closed, and its descriptor is free again.
LeaversClosed ==
  \A p \in Peers : (cb /\ peer[p] \in {"fin", "reset"})
                     ~> (\A fd \in Fds : fdt[fd] # p)

\* A server that is stopped inside a callback ends its loop.
StopEnds == ~valid ~> pc = "done"
================================================================================
