---------------------------- MODULE TcpServerProofs ----------------------------
(***************************************************************************)
(* Proofs about TcpServer.tla, for any peers, any descriptors above s->fd  *)
(* and any number of messages.                                             *)
(*                                                                         *)
(* The inductive invariant comes in layers, each preserved with the help   *)
(* of the ones before: TypeInv (types, and where the thread can be),       *)
(* Owned (a connection is in one place), Registry (the three records       *)
(* agree), Staged (which callbacks a connection has had) and Whole (the    *)
(* buffer of a client holds what came of its series).                      *)
(***************************************************************************)
EXTENDS TcpServer, SequenceTheorems, TLAPS

\* What the type invariant needs: the listener has one message for two units,
\* accept() is called only while a connection waits, and the client that is read
\* from is there and has a connection.
Placed ==
  /\ \A p \in Peers : seen[p] = rd[p] \div 2
  /\ ServerFd \in todo => pc = "scan" /\ backlog # <<>>
  /\ pc = "data" => client[cur] # NoClient
  /\ \A fd \in Fds : client[fd] # NoClient => fdt[fd] # NoPeer

TypeInv == TypeOK /\ Placed

\* A connection has one descriptor or one place in the backlog, not both; a peer
\* that has not connected has neither.
Owned ==
  /\ \A f, g \in Fds : fdt[f] = fdt[g] /\ f # g => fdt[f] = NoPeer
  /\ \A j, k \in DOMAIN backlog : backlog[j] = backlog[k] => j = k
  /\ \A fd \in Fds, k \in DOMAIN backlog : fdt[fd] # backlog[k]
  /\ \A fd \in Fds : fdt[fd] # NoPeer => peer[fdt[fd]] # "new"
  /\ \A k \in DOMAIN backlog : peer[backlog[k]] # "new"

\* The records of a connection agree.  What is scanned is watched; an orphan has had
\* its step of the scan when it was accepted.
Registry ==
  /\ cb => \A fd \in todo \cap Fds : ~Orphan(fd) /\ (ServerFd \in todo => fdt[fd] # NoPeer)
  /\ valid => /\ reads = {ServerFd} \cup {fd \in Fds : client[fd] # NoClient \/ (Orphan(fd) /\ Watched(fd))}
              /\ \A fd \in Fds : (client[fd] # NoClient \/ Orphan(fd)) <=> fdt[fd] # NoPeer
              /\ \A fd \in reads : ServerFd <= fd /\ fd <= max

--------------------------------------------------------------------------------
(* Facts about single operations. *)

LEMMA NewClientType == NewClient \in [data : {NoData} \cup Buffers] /\ NewClient # NoClient
  BY NullAssumption DEF NewClient

\* Copying a character into a buffer leaves it a buffer.
LEMMA CopiedType ==
  ASSUME NEW b \in Buffers, NEW index, NEW p \in Peers, NEW m \in 0 .. NMsgs - 1, NEW live \in BOOLEAN
  PROVE  [live |-> live, cells |-> Copied(b.cells, index, Char(p, m))] \in Buffers
<1> DEFINE Cell == {Nul, NoByte} \cup {Char(q, n) : q \in Peers, n \in 0 .. NMsgs - 1}
<1>1. b.cells \in [0 .. Total -> Cell]
  BY DEF Buffers
<1>2. Char(p, m) \in Cell /\ Nul \in Cell
  OBVIOUS
<1>3. Copied(b.cells, index, Char(p, m)) \in [0 .. Total -> Cell]
  <2> HIDE DEF Cell
  <2> QED
    BY <1>1, <1>2 DEF Copied
<1> QED
  BY <1>3 DEF Buffers

LEMMA BlankType == Buffer(Blank) \in Buffers
  BY DEF Buffer, Blank, Buffers

\* Units and messages.
LEMMA Units ==
  ASSUME NEW r \in Nat
  PROVE  /\ r % 2 = 0 => (r + 1) \div 2 = r \div 2
         /\ r % 2 = 1 => (r + 1) \div 2 = r \div 2 + 1
         /\ r % 2 \in {0, 1}
         /\ r \div 2 \in Nat
  OBVIOUS

LEMMA UnitOfMessage ==
  ASSUME NEW r \in Nat, NEW n \in Nat, r < 2 * n, r % 2 = 1
  PROVE  r \div 2 \in 0 .. n - 1 /\ r \div 2 + 1 \in 0 .. n
  OBVIOUS

LEMMA InitTypeInv == Init => TypeInv
<1> SUFFICES ASSUME Init PROVE TypeInv
  OBVIOUS
<1>1. Placed
  BY NullAssumption DEF Init, Placed
<1>2. TypeOK
  <2>1. /\ peer \in [Peers -> {"new", "open", "fin", "reset"}]
        /\ wr \in [Peers -> 0 .. 2 * NMsgs]
        /\ rd \in [Peers -> 0 .. 2 * NMsgs]
        /\ \A p \in Peers : rd[p] <= wr[p]
        /\ seen \in [Peers -> 0 .. NMsgs]
    BY MessageAssumption DEF Init
  <2>2. /\ backlog \in Seq(Peers)
        /\ fdt \in [Fds -> Peers \cup {NoPeer}]
        /\ client \in [Fds -> [data : {NoData} \cup Buffers] \cup {NoClient}]
        /\ stage \in [Peers -> {"none", "up", "gone", "again"}]
        /\ DOMAIN printed = Peers
    BY DEF Init
  <2> QED
    <3>1. /\ cur \in Fds \cup {ServerFd, -1} /\ cur # -1
          /\ pc \notin {"check", "data"}
      BY FdAssumption DEF Init
    <3> QED
      BY <2>1, <2>2, <3>1 DEF Init, TypeOK
<1> QED
  BY <1>1, <1>2 DEF TypeInv

--------------------------------------------------------------------------------
(* Type correctness. *)

LEMMA PeerTypeInv ==
  ASSUME TypeInv, NEW p \in Peers, PeerStep(p)
  PROVE  TypeInv'
<1>1. CASE PeerConnect(p)
  <2>1. backlog' \in Seq(Peers) /\ backlog' # <<>>
    <3>1. backlog \in Seq(Peers) /\ backlog' = Append(backlog, p)
      BY <1>1 DEF PeerConnect, TypeInv, TypeOK
    <3> QED
      BY <3>1
  <2>2. peer' \in [Peers -> {"new", "open", "fin", "reset"}]
    BY <1>1 DEF PeerConnect, TypeInv, TypeOK
  <2>3. UNCHANGED <<wr, rd, fdt, client, server, history>>
    BY <1>1 DEF PeerConnect
  <2>4. Placed'
    BY <2>1, <2>3 DEF TypeInv, Placed, server, history
  <2>5. TypeOK'
    BY <2>1, <2>2, <2>3 DEF TypeInv, TypeOK, server, history
  <2> QED
    BY <2>4, <2>5 DEF TypeInv
<1>2. CASE PeerSend(p)
  <2>1. /\ wr' \in [Peers -> 0 .. 2 * NMsgs]
        /\ \A q \in Peers : rd'[q] <= wr'[q]
    BY <1>2, MessageAssumption DEF PeerSend, TypeInv, TypeOK
  <2> QED
    BY <1>2, <2>1 DEF PeerSend, TypeInv, TypeOK, Placed, server, conns, history
<1>3. ASSUME NEW how \in {"fin", "reset"}, PeerLeave(p, how) PROVE TypeInv'
  <2>1. peer' \in [Peers -> {"new", "open", "fin", "reset"}]
    BY <1>3 DEF PeerLeave, TypeInv, TypeOK
  <2>2. UNCHANGED <<wr, rd, server, conns, history>>
    BY <1>3 DEF PeerLeave
  <2> QED
    BY <2>1, <2>2 DEF TypeInv, TypeOK, Placed, server, conns, history
<1> QED
  BY <1>1, <1>2, <1>3 DEF PeerStep

\* The thread only moves on.
LEMMA ThreadTypeInv ==
  ASSUME TypeInv,
         Finish \/ ScanEnd \/ NoListener \/ ReadNothing \/ ConnEvent \/ DataEvent
  PROVE  TypeInv'
<1> USE DEF TypeInv, TypeOK, Placed, net, conns, history
<1>1. CASE Finish
  BY <1>1 DEF Finish
<1>2. CASE ScanEnd
  BY <1>2 DEF ScanEnd
<1>3. CASE NoListener
  BY <1>3 DEF NoListener
<1>4. CASE ReadNothing
  BY <1>4 DEF ReadNothing
<1>5. CASE ConnEvent
  BY <1>5 DEF ConnEvent, IsValid
<1>6. CASE DataEvent
  BY <1>6 DEF DataEvent, IsValid
<1> QED
  BY <1>1, <1>2, <1>3, <1>4, <1>5, <1>6

LEMMA SelectTypeInv ==
  ASSUME TypeInv, Select \/ AcceptFails \/ \E fd \in Fds : ScanData(fd)
  PROVE  TypeInv'
<1> USE DEF TypeInv, TypeOK, Placed
<1>1. CASE Select
  BY <1>1 DEF Select, Ready, net, conns, history
<1>2. CASE AcceptFails
  BY <1>2 DEF AcceptFails, net, conns
<1>3. ASSUME NEW fd \in Fds, ScanData(fd) PROVE TypeInv'
  <2>1. ServerFd \notin todo
    BY <1>3, FdAssumption DEF ScanData, ScanAt
  <2>2. fd # -1
    BY FdAssumption
  <2> QED
    BY <1>3, <2>1, <2>2 DEF ScanData, net, conns, history
<1> QED
  BY <1>1, <1>2, <1>3

LEMMA AcceptTypeInv ==
  ASSUME TypeInv, NEW fd \in Fds, NEW ok \in BOOLEAN, Accept(fd, ok)
  PROVE  TypeInv'
<1>1. backlog # <<>> /\ backlog \in Seq(Peers)
  BY DEF Accept, ScanAt, TypeInv, TypeOK, Placed
<1>2. Head(backlog) \in Peers /\ Tail(backlog) \in Seq(Peers)
  BY <1>1
<1>3. /\ fdt' \in [Fds -> Peers \cup {NoPeer}]
      /\ fdt'[fd] # NoPeer
      /\ client' \in [Fds -> [data : {NoData} \cup Buffers] \cup {NoClient}]
      /\ \A g \in Fds \ {fd} : fdt'[g] = fdt[g] /\ client'[g] = client[g]
  BY <1>2, NewClientType, NullAssumption DEF Accept, TypeInv, TypeOK
<1>4. Placed'
  BY <1>3 DEF Accept, TypeInv, TypeOK, Placed, net, history
<1>5. reads' \subseteq Fds \cup {ServerFd} /\ max' \in Fds \cup {ServerFd}
  BY DEF Accept, TypeInv, TypeOK
<1>6. cur' = fd /\ fd # -1 /\ pc' = "check" /\ denied' \subseteq Peers
  BY <1>2, FdAssumption DEF Accept, TypeInv, TypeOK
<1> QED
  BY <1>2, <1>3, <1>4, <1>5, <1>6 DEF Accept, TypeInv, TypeOK, net

LEMMA CloseTypeInv ==
  ASSUME TypeInv, CloseEvent
  PROVE  TypeInv'
<1>1. cur \in Fds /\ pc = "check" /\ ServerFd \notin todo
  BY DEF CloseEvent, TypeInv, TypeOK, Placed
<1>2. /\ fdt' \in [Fds -> Peers \cup {NoPeer}]
      /\ client' \in [Fds -> [data : {NoData} \cup Buffers] \cup {NoClient}]
      /\ \A fd \in Fds : client'[fd] # NoClient => fdt'[fd] # NoPeer
  BY <1>1 DEF CloseEvent, TypeInv, TypeOK, Placed
<1>3. stage' \in [Peers -> {"none", "up", "gone", "again"}]
  <2>1. \A st : Gone(st) \in {"gone", "again"}
    BY DEF Gone
  <2>2. stage' = stage \/ stage' = [stage EXCEPT ![fdt[cur]] = Gone(stage[fdt[cur]])]
    BY DEF CloseEvent
  <2> QED
    BY <2>1, <2>2 DEF TypeInv, TypeOK
<1> QED
  BY <1>1, <1>2, <1>3 DEF CloseEvent, TypeInv, TypeOK, Placed, net

LEMMA StopTypeInv ==
  ASSUME TypeInv, TcpServer_Stop
  PROVE  TypeInv'
<1>1. /\ fdt' \in [Fds -> Peers \cup {NoPeer}]
      /\ client' \in [Fds -> [data : {NoData} \cup Buffers] \cup {NoClient}]
      /\ \A fd \in Fds : client'[fd] # NoClient => fdt'[fd] # NoPeer
      /\ backlog' \in Seq(Peers)
      /\ stage' \in [Peers -> {"none", "up", "gone", "again"}]
  BY DEF TcpServer_Stop, TypeInv, TypeOK
<1>2. ServerFd \notin todo
  BY DEF TcpServer_Stop, TypeInv, Placed
<1> QED
  BY <1>1, <1>2 DEF TcpServer_Stop, TypeInv, TypeOK, Placed, net

\* The connection a callback reads from.
LEMMA DataPeer ==
  ASSUME TypeInv, pc = "data"
  PROVE  cur \in Fds /\ fdt[cur] \in Peers /\ client[cur] # NoClient /\ ServerFd \notin todo
  BY DEF TypeInv, TypeOK, Placed

LEMMA ReadHeaderTypeInv ==
  ASSUME TypeInv, ReadHeader
  PROVE  TypeInv'
<1> DEFINE p == fdt[cur]
<1>1. p \in Peers
  BY DataPeer DEF ReadHeader
<1>2. /\ rd' = [rd EXCEPT ![p] = rd[p] + 1] /\ rd[p] < wr[p] /\ rd[p] % 2 = 0
      /\ UNCHANGED <<net, server, conns, history>>
  BY DEF ReadHeader
<1>3. rd[p] \in 0 .. 2 * NMsgs /\ wr[p] \in 0 .. 2 * NMsgs /\ 2 * NMsgs \in Nat
  BY <1>1, MessageAssumption DEF TypeInv, TypeOK
<1> HIDE DEF p
<1>4. /\ rd' \in [Peers -> 0 .. 2 * NMsgs]
      /\ \A q \in Peers : rd'[q] <= wr[q]
  BY <1>1, <1>2, <1>3 DEF TypeInv, TypeOK
<1>5. (rd[p] + 1) \div 2 = rd[p] \div 2
  BY <1>2, <1>3, Units
<1>6. \A q \in Peers : seen[q] = rd'[q] \div 2
  BY <1>1, <1>2, <1>5 DEF TypeInv, TypeOK, Placed
<1> QED
  BY <1>2, <1>4, <1>6 DEF TypeInv, TypeOK, Placed, net, server, conns, history

LEMMA ReadMessageTypeInv ==
  ASSUME TypeInv, NEW ok \in BOOLEAN, ReadMessage(ok)
  PROVE  TypeInv' /\ \A fd \in Fds : client'[fd] # NoClient <=> client[fd] # NoClient
<1> DEFINE p == fdt[cur]
           m == rd[p] \div 2
           index == m % Total
           data == SeriesBuffer(client[cur].data, index, ok)
           usable == data # NoData /\ data.live
           cells == Copied(data.cells, index, Char(p, m))
           last == index + 1 = Total
<1>1. p \in Peers /\ cur \in Fds /\ client[cur] # NoClient /\ ServerFd \notin todo
  BY DataPeer DEF ReadMessage
<1>2. /\ rd' = [rd EXCEPT ![p] = rd[p] + 1] /\ rd[p] < wr[p] /\ rd[p] % 2 = 1
      /\ seen' = [seen EXCEPT ![p] = seen[p] + 1]
      /\ UNCHANGED <<net, valid, cb, reads, max, todo, cur, event, backlog, fdt, stage, stray>>
      /\ pc' \in {"scan", "crashed"}
      /\ denied' \in {denied, denied \cup {p}}
  BY DEF ReadMessage
<1>3. /\ usable => /\ client' = [client EXCEPT ![cur].data = [live |-> ~last, cells |-> cells]]
                   /\ printed' = IF last THEN [printed EXCEPT ![p] = Append(@, Text(cells))]
                                         ELSE printed
      /\ ~usable => UNCHANGED <<client, printed>>
  BY DEF ReadMessage
<1>4. rd[p] \in Nat /\ wr[p] \in 0 .. 2 * NMsgs /\ NMsgs \in Nat
  BY <1>1, MessageAssumption DEF TypeInv, TypeOK
<1>5. m \in 0 .. NMsgs - 1 /\ m + 1 \in 0 .. NMsgs /\ rd[p] + 1 \in 0 .. 2 * NMsgs
  BY <1>2, <1>4, UnitOfMessage
<1>6. client' \in [Fds -> [data : {NoData} \cup Buffers] \cup {NoClient}]
      /\ \A fd \in Fds : client'[fd] # NoClient <=> client[fd] # NoClient
  <2>1. client[cur] \in [data : {NoData} \cup Buffers]
    BY <1>1 DEF TypeInv, TypeOK
  <2>2. data \in {NoData} \cup Buffers
    BY <2>1, BlankType DEF SeriesBuffer
  <2>3. CASE usable
    <3>1. data \in Buffers
      BY <2>2, <2>3
    <3>2. [live |-> ~last, cells |-> cells] \in Buffers
      <4> HIDE DEF data, index, m, p
      <4> QED
        BY <1>1, <1>5, <3>1, CopiedType
    <3> HIDE DEF data, index, m, p, cells, last
    <3>3. [client[cur] EXCEPT !.data = [live |-> ~last, cells |-> cells]]
            \in [data : {NoData} \cup Buffers]
      BY <2>1, <3>2
    <3>4. client' = [client EXCEPT ![cur] =
                       [client[cur] EXCEPT !.data = [live |-> ~last, cells |-> cells]]]
      BY <1>3, <2>3
    <3> QED
      BY <1>1, <3>3, <3>4, NullAssumption DEF TypeInv, TypeOK
  <2>4. CASE ~usable
    BY <1>3, <2>4 DEF TypeInv, TypeOK
  <2> QED
    BY <2>3, <2>4
<1>7. DOMAIN printed' = Peers
  <2> HIDE DEF data, index, m, p, cells, last, usable
  <2> QED
    BY <1>3 DEF TypeInv, TypeOK
<1>8. /\ rd' \in [Peers -> 0 .. 2 * NMsgs]
      /\ \A q \in Peers : rd'[q] <= wr[q]
  <2>1. rd[p] + 1 \in 0 .. 2 * NMsgs /\ rd[p] + 1 <= wr[p]
    BY <1>2, <1>4, <1>5
  <2>2. rd \in [Peers -> 0 .. 2 * NMsgs] /\ \A q \in Peers : rd[q] <= wr[q]
    BY DEF TypeInv, TypeOK
  <2> HIDE DEF p
  <2> QED
    BY <1>1, <1>2, <2>1, <2>2
<1>9. (rd[p] + 1) \div 2 = m + 1
  BY <1>2, <1>4, Units
<1>10. /\ seen' \in [Peers -> 0 .. NMsgs]
       /\ \A q \in Peers : seen'[q] = rd'[q] \div 2
  <2>1. seen[p] = m
    BY <1>1 DEF TypeInv, Placed
  <2> HIDE DEF p, m
  <2> QED
    BY <1>1, <1>2, <1>5, <1>9, <2>1 DEF TypeInv, TypeOK, Placed
<1> HIDE DEF data, index, m, p, cells, last, usable
<1>11. denied' \subseteq Peers /\ cur' # -1 /\ cur' \in Fds
  BY <1>1, <1>2, FdAssumption DEF TypeInv, TypeOK
<1>12. Placed'
  BY <1>1, <1>2, <1>6, <1>10 DEF TypeInv, Placed
<1>13. TypeOK'
  BY <1>1, <1>2, <1>6, <1>7, <1>8, <1>10, <1>11 DEF TypeInv, TypeOK, net
<1> QED
  BY <1>6, <1>12, <1>13 DEF TypeInv

LEMMA StepTypeInv == TypeInv /\ [Next]_vars => TypeInv'
<1> SUFFICES ASSUME TypeInv, [Next]_vars PROVE TypeInv'
  OBVIOUS
<1>1. CASE \E p \in Peers : PeerStep(p)
  BY <1>1, PeerTypeInv
<1>2. CASE ServerStep
  <2>1. AllocOutcomes \subseteq BOOLEAN
    BY MessageAssumption
  <2> QED
    BY <1>2, <2>1, ThreadTypeInv, SelectTypeInv, AcceptTypeInv, CloseTypeInv, ReadHeaderTypeInv,
       ReadMessageTypeInv DEF ServerStep
<1>3. CASE TcpServer_Stop
  BY <1>3, StopTypeInv
<1>4. CASE UNCHANGED vars
  BY <1>4 DEF vars, net, server, conns, history, TypeInv, TypeOK, Placed
<1> QED
  BY <1>1, <1>2, <1>3, <1>4 DEF Next

\* The types, and with them that index is a descriptor wherever client[index] is
\* used, but after an accept() that failed: then it is -1, and with a listener the
\* server has used what is no place of the array.
THEOREM TypeCorrect == Spec => []TypeOK
<1>1. Spec => []TypeInv
  BY InitTypeInv, StepTypeInv, PTL DEF Spec
<1> QED
  BY <1>1, PTL DEF TypeInv

--------------------------------------------------------------------------------
(* A connection is in one place, and its records agree. *)

LEMMA InitOwned == Init => Owned /\ Registry
<1> SUFFICES ASSUME Init PROVE Owned /\ Registry
  OBVIOUS
<1>1. Owned
  BY DEF Init, Owned
<1>2. Registry
  BY FdAssumption, NullAssumption DEF Init, Registry, Orphan
<1> QED
  BY <1>1, <1>2

\* The connections that wait, after the first one has been accepted.
LEMMA TailBacklog ==
  ASSUME backlog \in Seq(Peers), backlog # <<>>
  PROVE  /\ Head(backlog) = backlog[1] /\ 1 \in DOMAIN backlog
         /\ \A k \in DOMAIN Tail(backlog) :
              k + 1 \in DOMAIN backlog /\ Tail(backlog)[k] = backlog[k + 1] /\ k + 1 # 1 /\ k \in Nat
  OBVIOUS

\* A connection that has just been made waits behind the others.
LEMMA AppendBacklog ==
  ASSUME backlog \in Seq(Peers), NEW p \in Peers
  PROVE  \A k \in DOMAIN Append(backlog, p) :
           \/ k \in DOMAIN backlog /\ Append(backlog, p)[k] = backlog[k]
           \/ k = Len(backlog) + 1 /\ Append(backlog, p)[k] = p
  OBVIOUS

LEMMA StepOwned ==
  ASSUME TypeInv, Owned, [Next]_vars
  PROVE  Owned'
<1>1. ASSUME NEW p \in Peers, PeerConnect(p) PROVE Owned'
  <2>1. /\ backlog \in Seq(Peers) /\ p # NoPeer
        /\ backlog' = Append(backlog, p) /\ fdt' = fdt
        /\ peer[p] = "new" /\ peer' = [peer EXCEPT ![p] = "open"]
    BY <1>1, NullAssumption DEF PeerConnect, TypeInv, TypeOK
  <2>2. \A k \in DOMAIN backlog' : \/ k \in DOMAIN backlog /\ backlog'[k] = backlog[k]
                                   \/ k = Len(backlog) + 1 /\ backlog'[k] = p
    BY <2>1, AppendBacklog
  <2>3. /\ \A k \in DOMAIN backlog : backlog[k] # p
        /\ \A fd \in Fds : fdt[fd] # p
        /\ \A q \in Peers \ {p} : peer'[q] = peer[q]
        /\ peer'[p] = "open"
    BY <2>1 DEF Owned, TypeInv, TypeOK
  <2> QED
    <3>1. \A j, k \in DOMAIN backlog' : backlog'[j] = backlog'[k] => j = k
      BY <2>2, <2>3 DEF Owned
    <3>2. \A fd \in Fds, k \in DOMAIN backlog' : fdt'[fd] # backlog'[k]
      BY <2>1, <2>2, <2>3 DEF Owned
    <3>3. \A fd \in Fds : fdt'[fd] # NoPeer => peer'[fdt'[fd]] # "new"
      BY <2>1, <2>3 DEF Owned, TypeInv, TypeOK
    <3>4. \A k \in DOMAIN backlog' : peer'[backlog'[k]] # "new"
      <4>1. \A k \in DOMAIN backlog : backlog[k] \in Peers \ {p}
        BY <2>1, <2>3
      <4> QED
        BY <2>2, <2>3, <4>1 DEF Owned
    <3>5. \A f, g \in Fds : fdt'[f] = fdt'[g] /\ f # g => fdt'[f] = NoPeer
      BY <2>1 DEF Owned
    <3> QED
      BY <3>1, <3>2, <3>3, <3>4, <3>5 DEF Owned
<1>2. ASSUME NEW p \in Peers, NEW how \in {"fin", "reset"}, PeerLeave(p, how) PROVE Owned'
  BY <1>2 DEF PeerLeave, Owned, TypeInv, TypeOK, conns
<1>3. ASSUME NEW fd \in Fds, NEW ok \in BOOLEAN, Accept(fd, ok) PROVE Owned'
  <2>1. backlog # <<>> /\ backlog \in Seq(Peers)
    BY <1>3 DEF Accept, ScanAt, TypeInv, TypeOK, Placed
  <2>2. /\ Head(backlog) = backlog[1] /\ 1 \in DOMAIN backlog
        /\ \A k \in DOMAIN Tail(backlog) :
             k + 1 \in DOMAIN backlog /\ Tail(backlog)[k] = backlog[k + 1] /\ k + 1 # 1 /\ k \in Nat
    BY <2>1, TailBacklog
  <2>3. /\ fdt' = [fdt EXCEPT ![fd] = backlog[1]] /\ backlog' = Tail(backlog) /\ peer' = peer
        /\ fdt \in [Fds -> Peers \cup {NoPeer}]
    BY <1>3, <2>2 DEF Accept, net, TypeInv, TypeOK
  <2> QED
    BY <2>2, <2>3 DEF Owned
<1>4. CASE CloseEvent
  <2>1. /\ peer' = peer /\ backlog' = backlog
        /\ \A fd \in Fds : fdt'[fd] = fdt[fd] \/ fdt'[fd] = NoPeer
    BY <1>4 DEF CloseEvent, TypeInv, TypeOK, net
  <2>2. \A k \in DOMAIN backlog : backlog[k] # NoPeer
    BY NullAssumption DEF TypeInv, TypeOK
  <2> QED
    BY <2>1, <2>2 DEF Owned
<1>5. CASE TcpServer_Stop
  BY <1>5 DEF TcpServer_Stop, Owned, net
<1>6. CASE UNCHANGED <<peer, backlog, fdt>>
  BY <1>6 DEF Owned
<1> QED
  <2>1. ASSUME NEW p \in Peers, PeerSend(p) PROVE Owned'
    BY <2>1, <1>6 DEF PeerSend, conns
  <2>2. CASE \E p \in Peers : PeerStep(p)
    BY <2>1, <2>2, <1>1, <1>2 DEF PeerStep
  <2>3. CASE ServerStep
    BY <2>3, <1>3, <1>4, <1>6, MessageAssumption
       DEF ServerStep, net, conns, Select, Finish, ScanEnd, AcceptFails, ScanData,
           NoListener, ConnEvent, DataEvent, ReadHeader, ReadNothing, ReadMessage
  <2>4. CASE UNCHANGED vars
    BY <2>4, <1>6 DEF vars, net, conns
  <2> QED
    BY <2>2, <2>3, <2>4, <1>5 DEF Next

\* Nothing of the records changes, and no orphan comes to be watched or unwatched.
LEMMA SameRegistry ==
  ASSUME TypeInv, Registry, UNCHANGED <<valid, cb, reads, max, fdt, client, denied>>,
         todo' \subseteq todo,
         cb => \A fd \in Fds : Orphan(fd) => Watched(fd) = Watched(fd)'
  PROVE  Registry'
<1>1. \A fd \in Fds : Orphan(fd)' = Orphan(fd)
  BY DEF Orphan
<1>2. \A fd \in Fds : Orphan(fd) => Watched(fd)' = Watched(fd)
  BY DEF Watched
<1> HIDE DEF Orphan, Watched
<1>3. cb' => \A fd \in todo' \cap Fds : ~Orphan(fd)' /\ (ServerFd \in todo' => fdt'[fd] # NoPeer)
  BY <1>1 DEF Registry
<1>4. \A fd \in Fds : client'[fd] # NoClient \/ (Orphan(fd)' /\ Watched(fd)')
                     <=> client[fd] # NoClient \/ (Orphan(fd) /\ Watched(fd))
  BY <1>1, <1>2
<1> QED
  BY <1>1, <1>3, <1>4 DEF Registry

LEMMA AcceptRegistry ==
  ASSUME TypeInv, Owned, Registry, NEW fd \in Fds, NEW ok \in BOOLEAN, Accept(fd, ok)
  PROVE  Registry'
<1> DEFINE p == Head(backlog)
<1>1. /\ fdt' = [fdt EXCEPT ![fd] = p] /\ fdt[fd] = NoPeer
      /\ client' = [client EXCEPT ![fd] = IF ok THEN NewClient ELSE NoClient]
      /\ reads' = reads \cup {fd}
      /\ max' = IF fd > max THEN fd ELSE max
      /\ denied' = IF ok THEN denied ELSE denied \cup {p}
      /\ valid' = valid /\ cb' = cb /\ cur' = fd /\ pc' = "check" /\ pc = "scan"
      /\ todo' = todo \ {ServerFd} /\ ServerFd \in todo
  BY DEF Accept, ScanAt, FreeFds
<1>2. p \in Peers /\ p # NoPeer /\ \A g \in Fds : fdt[g] # p
  <2>1. backlog # <<>> /\ backlog \in Seq(Peers)
    BY DEF Accept, ScanAt, TypeInv, TypeOK, Placed
  <2>2. p \in Peers /\ p = backlog[1] /\ 1 \in DOMAIN backlog
    BY <2>1, TailBacklog
  <2> HIDE DEF p
  <2> QED
    BY <2>2, NullAssumption DEF Owned
<1> HIDE DEF p
<1>3. /\ fdt'[fd] = p
      /\ client'[fd] = IF ok THEN NewClient ELSE NoClient
      /\ \A g \in Fds \ {fd} : fdt'[g] = fdt[g] /\ client'[g] = client[g]
  BY <1>1 DEF TypeInv, TypeOK
<1>4. \A g \in Fds \ {fd} : Orphan(g)' <=> Orphan(g)
  BY <1>1, <1>2, <1>3 DEF Orphan
<1>5. client'[fd] # NoClient \/ Orphan(fd)'
  BY <1>1, <1>3, NewClientType DEF Orphan
<1>6. Watched(fd)'
  BY <1>1 DEF Watched
<1>7. cb' => fd \notin todo'
  BY <1>1 DEF Registry
<1>8. \A g \in Fds \ {fd} : Watched(g)' <=> Watched(g)
  BY <1>1 DEF Watched
<1> HIDE DEF Orphan, Watched
<1>9. cb' => \A g \in todo' \cap Fds : ~Orphan(g)' /\ (ServerFd \in todo' => fdt'[g] # NoPeer)
  BY <1>1, <1>4, <1>7 DEF Registry
<1>10. ASSUME valid' PROVE reads' = {ServerFd} \cup {g \in Fds : client'[g] # NoClient \/ (Orphan(g)' /\ Watched(g)')}
  <2>1. reads = {ServerFd} \cup {g \in Fds : client[g] # NoClient \/ (Orphan(g) /\ Watched(g))}
    BY <1>1, <1>10 DEF Registry
  <2>2. \A g \in Fds \ {fd} : client'[g] # NoClient \/ (Orphan(g)' /\ Watched(g)')
                             <=> client[g] # NoClient \/ (Orphan(g) /\ Watched(g))
    BY <1>3, <1>4, <1>8
  <2> QED
    BY <1>1, <1>5, <1>6, <2>1, <2>2
<1>11. valid' => \A g \in Fds : (client'[g] # NoClient \/ Orphan(g)') <=> fdt'[g] # NoPeer
  BY <1>1, <1>2, <1>3, <1>4, <1>5 DEF Registry
<1>12. valid' => \A g \in reads' : ServerFd <= g /\ g <= max'
  BY <1>1, FdAssumption DEF Registry, TypeInv, TypeOK
<1> QED
  BY <1>9, <1>10, <1>11, <1>12 DEF Registry

LEMMA CloseRegistry ==
  ASSUME TypeInv, Registry, CloseEvent
  PROVE  Registry'
<1>1. /\ cur \in Fds /\ cb /\ pc = "check" /\ pc' = "scan"
      /\ client' = [client EXCEPT ![cur] = NoClient]
      /\ reads' = reads \ {cur}
      /\ UNCHANGED <<valid, cb, max, todo, cur, denied>>
      /\ ServerFd \notin todo
  BY DEF CloseEvent, TypeInv, TypeOK, Placed
<1>2. /\ client'[cur] = NoClient
      /\ \A g \in Fds \ {cur} : client'[g] = client[g] /\ fdt'[g] = fdt[g]
      /\ fdt'[cur] = IF client[cur] # NoClient THEN NoPeer ELSE fdt[cur]
  BY <1>1 DEF CloseEvent, TypeInv, TypeOK
<1>3. NoPeer \notin denied
  BY NullAssumption DEF TypeInv, TypeOK
<1>4. /\ \A g \in Fds \ {cur} : Orphan(g)' <=> Orphan(g)
      /\ Orphan(cur)' => Orphan(cur)
      /\ client[cur] = NoClient => (Orphan(cur)' <=> Orphan(cur))
      /\ client[cur] # NoClient => ~Orphan(cur)'
  BY <1>1, <1>2, <1>3 DEF Orphan
<1>5. /\ \A g \in Fds : ~Watched(g)'
      /\ \A g \in Fds \ {cur} : ~Watched(g)
  BY <1>1 DEF Watched
<1> HIDE DEF Orphan, Watched
<1>6. cb' => \A g \in todo' \cap Fds : ~Orphan(g)' /\ (ServerFd \in todo' => fdt'[g] # NoPeer)
  BY <1>1, <1>4 DEF Registry
<1>7. ASSUME valid'
      PROVE  /\ reads' = {ServerFd} \cup {g \in Fds : client'[g] # NoClient \/ (Orphan(g)' /\ Watched(g)')}
             /\ \A g \in Fds : (client'[g] # NoClient \/ Orphan(g)') <=> fdt'[g] # NoPeer
             /\ \A g \in reads' : ServerFd <= g /\ g <= max'
  <2>1. cur # ServerFd
    BY <1>1, FdAssumption
  <2>2. \A g \in Fds : g \in reads' <=> client'[g] # NoClient
    BY <1>1, <1>2, <1>5, <1>7, FdAssumption DEF Registry
  <2>3. reads' \subseteq Fds \cup {ServerFd} /\ ServerFd \in reads'
    BY <1>1, <1>7, <2>1 DEF Registry
  <2>4. reads' = {ServerFd} \cup {g \in Fds : client'[g] # NoClient \/ (Orphan(g)' /\ Watched(g)')}
    BY <1>5, <2>2, <2>3, FdAssumption
  <2>5. \A g \in Fds : (client'[g] # NoClient \/ Orphan(g)') <=> fdt'[g] # NoPeer
    BY <1>1, <1>2, <1>4, <1>7 DEF Registry
  <2>6. \A g \in reads' : ServerFd <= g /\ g <= max'
    BY <1>1, <1>7 DEF Registry
  <2> QED
    BY <2>4, <2>5, <2>6
<1> QED
  BY <1>6, <1>7 DEF Registry

LEMMA StopRegistry ==
  ASSUME TypeInv, Registry, TcpServer_Stop
  PROVE  Registry'
<1>1. ServerFd \notin todo /\ NoPeer \notin denied
  BY NullAssumption DEF TcpServer_Stop, TypeInv, TypeOK, Placed
<1>2. ~valid' /\ UNCHANGED <<todo, cb, denied>>
      /\ fdt' = [fd \in Fds |-> IF client[fd] # NoClient THEN NoPeer ELSE fdt[fd]]
  BY DEF TcpServer_Stop
<1>3. \A fd \in Fds : Orphan(fd)' => Orphan(fd)
  BY <1>1, <1>2 DEF Orphan
<1> QED
  BY <1>1, <1>2, <1>3 DEF Registry

\* The first descriptors of a scan have clients, since select() finds nothing but
\* clients and s->fd in reads.
LEMMA SelectRegistry ==
  ASSUME TypeInv, Registry, Select
  PROVE  Registry'
<1>1. /\ valid /\ todo' \subseteq reads /\ pc = "select" /\ pc' = "scan"
      /\ UNCHANGED <<valid, cb, reads, max, fdt, client, denied, cur>>
  BY DEF Select, conns, history
<1>2. \A fd \in Fds : Orphan(fd)' = Orphan(fd) /\ Watched(fd)' = Watched(fd)
  BY <1>1 DEF Orphan, Watched
<1>3. cb => \A fd \in Fds : ~Watched(fd)
  BY <1>1 DEF Watched
<1>4. \A fd \in Fds : client[fd] # NoClient => fdt[fd] # NoPeer /\ ~Orphan(fd)
  BY DEF TypeInv, Placed, Orphan
<1>5. \A fd \in Fds : fd \in reads => client[fd] # NoClient \/ (Orphan(fd) /\ Watched(fd))
  BY <1>1, FdAssumption DEF Registry
<1> HIDE DEF Orphan, Watched
<1>6. cb' => \A fd \in todo' \cap Fds : ~Orphan(fd)' /\ (ServerFd \in todo' => fdt'[fd] # NoPeer)
  BY <1>1, <1>2, <1>3, <1>4, <1>5
<1> QED
  BY <1>1, <1>2, <1>6 DEF Registry

LEMMA ReadMessageRegistry ==
  ASSUME TypeInv, Owned, Registry, NEW ok \in BOOLEAN, ReadMessage(ok)
  PROVE  Registry'
<1>1. /\ client[cur] # NoClient /\ cur \in Fds
      /\ \A fd \in Fds : client'[fd] # NoClient <=> client[fd] # NoClient
  BY DataPeer, ReadMessageTypeInv DEF ReadMessage
<1>2. /\ UNCHANGED <<valid, cb, reads, max, fdt, todo, cur>>
      /\ pc = "data" /\ pc' \in {"scan", "crashed"}
      /\ denied' \in {denied, denied \cup {fdt[cur]}}
  BY DEF ReadMessage
<1>3. \A fd \in Fds : Orphan(fd)' <=> Orphan(fd)
  BY <1>1, <1>2, DataPeer, NullAssumption DEF Orphan, Owned
<1>4. \A fd \in Fds : Watched(fd)' <=> Watched(fd)
  BY <1>2 DEF Watched
<1> HIDE DEF Orphan, Watched
<1>5. \A fd \in Fds : client'[fd] # NoClient \/ (Orphan(fd)' /\ Watched(fd)')
                     <=> client[fd] # NoClient \/ (Orphan(fd) /\ Watched(fd))
  BY <1>1, <1>3, <1>4
<1> QED
  BY <1>1, <1>2, <1>3, <1>5 DEF Registry

LEMMA StepRegistry ==
  ASSUME TypeInv, Owned, Registry, [Next]_vars
  PROVE  Registry'
<1>1. CASE UNCHANGED <<server, conns, denied>>
  BY <1>1, SameRegistry DEF server, conns, Watched
<1>2. ASSUME NEW p \in Peers, PeerStep(p) PROVE Registry'
  <2>1. /\ UNCHANGED <<server, fdt, client, denied>>
    BY <1>2 DEF PeerStep, PeerConnect, PeerSend, PeerLeave, conns, history
  <2> QED
    BY <2>1, SameRegistry DEF server, Watched
<1>3. CASE Finish \/ ScanEnd
  BY <1>3, SameRegistry DEF Finish, ScanEnd, conns, history, Watched
<1>4. CASE AcceptFails
  BY <1>4, SameRegistry DEF AcceptFails, ScanAt, conns, Watched
<1>5. ASSUME NEW fd \in Fds, ScanData(fd) PROVE Registry'
  <2>1. /\ UNCHANGED <<valid, cb, reads, max, fdt, client, denied>>
        /\ fd \in todo /\ todo' = todo \ {fd} /\ pc = "scan" /\ cur' = fd
    BY <1>5 DEF ScanData, ScanAt, conns, history
  <2>2. cb => ~Orphan(fd)
    BY <2>1 DEF Registry
  <2> QED
    BY <2>1, <2>2, SameRegistry DEF Watched
<1>6. CASE NoListener
  BY <1>6, SameRegistry DEF NoListener, conns, history
<1>7. CASE ConnEvent \/ DataEvent
  <2>1. /\ UNCHANGED <<valid, cb, reads, max, fdt, client, denied, todo, cur>>
        /\ client[cur] # NoClient /\ pc = "check" /\ pc' # "check"
    BY <1>7 DEF ConnEvent, DataEvent, IsValid, conns, history
  <2> QED
    BY <2>1, SameRegistry DEF Watched, Orphan
<1>8. CASE ReadNothing
  BY <1>8, SameRegistry DEF ReadNothing, conns, history, Watched
<1>9. CASE ReadHeader
  BY <1>9, <1>1 DEF ReadHeader, history
<1>10. CASE ServerStep
  BY <1>10, <1>3, <1>4, <1>5, <1>6, <1>7, <1>8, <1>9, SelectRegistry, AcceptRegistry, CloseRegistry,
     ReadMessageRegistry, MessageAssumption DEF ServerStep
<1>11. CASE UNCHANGED vars
  BY <1>11, <1>1 DEF vars, history
<1> QED
  BY <1>2, <1>10, <1>11, StopRegistry DEF Next

\* The three records of a connection agree at every step, with or without memory,
\* and the scan from s->fd to max comes to every descriptor that is watched.
THEOREM RegisteredHolds == Spec => []Registered
<1>1. TypeInv /\ Owned /\ Registry /\ [Next]_vars => (TypeInv /\ Owned /\ Registry)'
  BY StepTypeInv, StepOwned, StepRegistry
<1>2. Owned /\ Registry => Registered
  BY DEF Owned, Registry, Registered
<1> QED
  BY <1>1, <1>2, InitTypeInv, InitOwned, PTL DEF Spec

--------------------------------------------------------------------------------
(* The order of callbacks. *)

\* Every client has had its EVT_CONN, except the one it is being made for; what
\* waits for accept() has had nothing, and what has had EVT_CLOSE is nowhere.
Staged ==
  /\ \A fd \in Fds : cb /\ client[fd] # NoClient =>
       \/ stage[fdt[fd]] = "up"
       \/ pc = "check" /\ cur = fd /\ event = "CONN" /\ stage[fdt[fd]] = "none"
  /\ pc = "data" => cb
  /\ \A p \in Peers : stage[p] # "again"
  /\ \A p \in Peers : peer[p] = "new" => stage[p] = "none"
  /\ \A k \in DOMAIN backlog : stage[backlog[k]] = "none"
  /\ \A fd \in Fds : fdt[fd] # NoPeer => stage[fdt[fd]] \in {"none", "up"}

LEMMA InitStaged == Init => Staged
  BY DEF Init, Staged

\* The connection a callback reads from has had its EVT_CONN.
LEMMA DataUp ==
  ASSUME TypeInv, Staged, pc = "data"
  PROVE  stage[fdt[cur]] = "up"
  BY DataPeer DEF Staged

LEMMA StepStaged ==
  ASSUME TypeInv, Owned, Staged, [Next]_vars
  PROVE  Staged'
<1>1. ASSUME NEW p \in Peers, PeerConnect(p) PROVE Staged'
  <2>1. /\ backlog \in Seq(Peers)
        /\ backlog' = Append(backlog, p)
        /\ peer[p] = "new" /\ peer' = [peer EXCEPT ![p] = "open"]
        /\ UNCHANGED <<fdt, client, server, history>>
    BY <1>1 DEF PeerConnect, TypeInv, TypeOK
  <2>2. \A k \in DOMAIN backlog' : \/ k \in DOMAIN backlog /\ backlog'[k] = backlog[k]
                                   \/ k = Len(backlog) + 1 /\ backlog'[k] = p
    BY <2>1, AppendBacklog
  <2>3. \A k \in DOMAIN backlog' : stage[backlog'[k]] = "none"
    BY <2>1, <2>2 DEF Staged
  <2>4. \A q \in Peers : peer'[q] = "new" => peer[q] = "new"
    BY <2>1 DEF TypeInv, TypeOK
  <2> QED
    BY <2>1, <2>3, <2>4 DEF Staged, server, history
<1>2. ASSUME NEW p \in Peers, NEW how \in {"fin", "reset"}, PeerLeave(p, how) PROVE Staged'
  <2>1. \A q \in Peers : peer'[q] = "new" => peer[q] = "new"
    BY <1>2 DEF PeerLeave, TypeInv, TypeOK
  <2> QED
    BY <1>2, <2>1 DEF PeerLeave, Staged, server, conns, history
<1>3. ASSUME NEW fd \in Fds, NEW ok \in BOOLEAN, Accept(fd, ok) PROVE Staged'
  <2>1. backlog # <<>> /\ backlog \in Seq(Peers)
    BY <1>3 DEF Accept, ScanAt, TypeInv, TypeOK, Placed
  <2>2. /\ Head(backlog) = backlog[1] /\ 1 \in DOMAIN backlog
        /\ \A k \in DOMAIN Tail(backlog) :
             k + 1 \in DOMAIN backlog /\ Tail(backlog)[k] = backlog[k + 1] /\ k + 1 # 1 /\ k \in Nat
    BY <2>1, TailBacklog
  <2>3. /\ fdt' = [fdt EXCEPT ![fd] = backlog[1]]
        /\ client' = [client EXCEPT ![fd] = IF ok THEN NewClient ELSE NoClient]
        /\ backlog' = Tail(backlog)
        /\ pc = "scan" /\ pc' = "check" /\ cur' = fd /\ event' = "CONN"
        /\ UNCHANGED <<peer, stage, cb>>
    BY <1>3, <2>2 DEF Accept, ScanAt, net, history
  <2>4. stage[backlog[1]] = "none"
    BY <2>2 DEF Staged
  <2>5. fdt \in [Fds -> Peers \cup {NoPeer}]
        /\ client \in [Fds -> [data : {NoData} \cup Buffers] \cup {NoClient}]
    BY DEF TypeInv, TypeOK
  <2>6. \A g \in Fds : cb /\ client'[g] # NoClient =>
          \/ stage[fdt'[g]] = "up"
          \/ cur' = g /\ stage[fdt'[g]] = "none"
    BY <2>3, <2>4, <2>5 DEF Staged
  <2>7. \A k \in DOMAIN backlog' : stage[backlog'[k]] = "none"
    BY <2>2, <2>3 DEF Staged
  <2>8. \A g \in Fds : fdt'[g] # NoPeer => stage[fdt'[g]] \in {"none", "up"}
    BY <2>3, <2>4, <2>5 DEF Staged
  <2> QED
    BY <2>3, <2>6, <2>7, <2>8 DEF Staged
<1>4. CASE ConnEvent
  <2> DEFINE p == fdt[cur]
  <2>1. cur \in Fds /\ p \in Peers
    BY <1>4 DEF ConnEvent, IsValid, TypeInv, TypeOK, Placed
  <2>2. /\ stage' = [stage EXCEPT ![p] = "up"] /\ pc' = "scan" /\ peer[p] = "open"
        /\ UNCHANGED <<peer, backlog, fdt, client, cb>>
        /\ stage \in [Peers -> {"none", "up", "gone", "again"}]
    BY <1>4 DEF ConnEvent, IsValid, TypeInv, TypeOK, net, conns
  <2>3. \A k \in DOMAIN backlog : backlog[k] # p
    BY <2>1 DEF Owned
  <2> HIDE DEF p
  <2>4. \A fd \in Fds : client[fd] # NoClient => fdt[fd] \in Peers
    BY DEF TypeInv, TypeOK, Placed
  <2>5. \A fd \in Fds : fd = cur => fdt[fd] = p
    BY DEF p
  <2>6. \A fd \in Fds : cb /\ client[fd] # NoClient => stage'[fdt[fd]] = "up"
    BY <2>1, <2>2, <2>4, <2>5 DEF Staged
  <2> QED
    BY <2>1, <2>2, <2>3, <2>6 DEF Staged, TypeInv, TypeOK
<1>5. CASE CloseEvent
  <2>1. cur \in Fds /\ pc = "check" /\ cb
    BY <1>5 DEF CloseEvent, TypeInv, TypeOK, Placed
  <2>2. /\ client' = [client EXCEPT ![cur] = NoClient] /\ pc' = "scan"
        /\ UNCHANGED <<peer, backlog, cb>>
        /\ client \in [Fds -> [data : {NoData} \cup Buffers] \cup {NoClient}]
        /\ stage \in [Peers -> {"none", "up", "gone", "again"}]
        /\ fdt \in [Fds -> Peers \cup {NoPeer}]
    BY <1>5 DEF CloseEvent, TypeInv, TypeOK, net
  <2>3. CASE client[cur] # NoClient
    <3> DEFINE p == fdt[cur]
    <3>1. /\ stage' = [stage EXCEPT ![p] = Gone(stage[p])] /\ fdt' = [fdt EXCEPT ![cur] = NoPeer]
          /\ p \in Peers
      BY <1>5, <2>1, <2>2, <2>3 DEF CloseEvent, TypeInv, Placed
    <3>2. /\ \A fd \in Fds \ {cur} : fdt[fd] # p
          /\ \A k \in DOMAIN backlog : backlog[k] # p
          /\ peer[p] # "new"
      BY <2>1, <3>1, NullAssumption DEF Owned
    <3> HIDE DEF p
    <3>3. \A fd \in Fds \ {cur} : client'[fd] = client[fd] /\ fdt'[fd] = fdt[fd]
      BY <2>1, <2>2, <3>1
    <3>4. \A q \in Peers \ {p} : stage'[q] = stage[q]
      BY <2>2, <3>1
    <3>5. \A fd \in Fds \ {cur} : fdt[fd] # NoPeer => stage'[fdt[fd]] = stage[fdt[fd]]
      BY <2>2, <3>2, <3>4
    <3>6. \A k \in DOMAIN backlog : stage'[backlog[k]] = "none"
      BY <3>2, <3>4 DEF Staged, TypeInv, TypeOK
    <3>7. \A fd \in Fds : cb /\ client'[fd] # NoClient => stage'[fdt'[fd]] = "up"
      BY <2>1, <2>2, <3>3, <3>5 DEF Staged, TypeInv, Placed
    <3>8. \A fd \in Fds : fdt'[fd] # NoPeer => stage'[fdt'[fd]] \in {"none", "up"}
      BY <2>1, <2>2, <3>1, <3>3, <3>5 DEF Staged
    <3>9. \A q \in Peers : peer[q] = "new" => stage'[q] = "none"
      BY <3>2, <3>4 DEF Staged
    <3>10. stage[p] \in {"none", "up"}
      BY <2>1, <2>3, <3>1 DEF Staged, TypeInv, Placed, p
    <3>11. \A q \in Peers : stage'[q] # "again"
      BY <2>2, <3>1, <3>4, <3>10 DEF Staged, Gone
    <3> QED
      BY <2>2, <3>6, <3>7, <3>8, <3>9, <3>11 DEF Staged
  <2>4. CASE client[cur] = NoClient
    <3>1. UNCHANGED <<stage, fdt>>
      BY <1>5, <2>4 DEF CloseEvent
    <3> QED
      BY <2>1, <2>2, <2>4, <3>1 DEF Staged
  <2> QED
    BY <2>3, <2>4
<1>6. CASE TcpServer_Stop
  <2>1. /\ stage' = [p \in Peers |-> IF \E fd \in Fds : fdt[fd] = p /\ client[fd] # NoClient
                                       THEN "gone" ELSE stage[p]]
        /\ client' = [fd \in Fds |-> NoClient]
        /\ fdt' = [fd \in Fds |-> IF client[fd] # NoClient THEN NoPeer ELSE fdt[fd]]
        /\ backlog' = <<>> /\ pc' = "scan" /\ peer' = peer
    BY <1>6 DEF TcpServer_Stop, net
  <2>2. \A p \in Peers : peer[p] = "new" => \A fd \in Fds : fdt[fd] # p
    BY NullAssumption DEF Owned
  <2>3. ASSUME NEW fd \in Fds, fdt'[fd] # NoPeer PROVE stage'[fdt'[fd]] \in {"none", "up"}
    <3>1. fdt'[fd] = fdt[fd] /\ client[fd] = NoClient /\ fdt[fd] \in Peers
      BY <2>1, <2>3 DEF TypeInv, TypeOK
    <3>2. \A g \in Fds : fdt[g] = fdt[fd] => g = fd
      BY <2>3, <3>1 DEF Owned
    <3>3. stage'[fdt[fd]] = stage[fdt[fd]]
      BY <2>1, <3>1, <3>2
    <3> QED
      BY <2>3, <3>1, <3>3 DEF Staged
  <2>4. \A p \in Peers : stage'[p] # "again" /\ (peer[p] = "new" => stage'[p] = "none")
    BY <2>1, <2>2 DEF Staged
  <2> QED
    BY <2>1, <2>3, <2>4 DEF Staged
<1>7. ASSUME NEW fd \in Fds, ScanData(fd) PROVE Staged'
  BY <1>7 DEF ScanData, ScanAt, Staged, net, conns, history
<1>8. CASE Select \/ Finish \/ ScanEnd \/ AcceptFails
  BY <1>8 DEF Select, Finish, ScanEnd, AcceptFails, ScanAt, Staged, net, conns, history
<1>9. CASE NoListener
  BY <1>9 DEF NoListener, Staged, net, conns, history
<1>10. CASE DataEvent
  BY <1>10 DEF DataEvent, Staged, net, conns, history
<1>11. CASE ReadHeader \/ ReadNothing
  BY <1>11 DEF ReadHeader, ReadNothing, Staged, net, conns, history, server
<1>12. ASSUME NEW ok \in BOOLEAN, ReadMessage(ok) PROVE Staged'
  <2>1. \A fd \in Fds : client'[fd] # NoClient <=> client[fd] # NoClient
    BY <1>12, ReadMessageTypeInv
  <2>2. /\ UNCHANGED <<peer, cb, backlog, fdt, stage>> /\ pc = "data" /\ pc' \in {"scan", "crashed"}
    BY <1>12 DEF ReadMessage, net
  <2> QED
    BY <2>1, <2>2 DEF Staged
<1>13. CASE UNCHANGED <<peer, cb, backlog, fdt, stage, client, pc, cur, event>>
  BY <1>13 DEF Staged
<1> QED
  <2>1. ASSUME NEW p \in Peers, PeerSend(p) PROVE Staged'
    BY <2>1, <1>13 DEF PeerSend, server, conns, history
  <2>2. CASE \E p \in Peers : PeerStep(p)
    BY <2>1, <2>2, <1>1, <1>2 DEF PeerStep
  <2>3. CASE ServerStep
    BY <2>3, <1>3, <1>4, <1>5, <1>7, <1>8, <1>9, <1>10, <1>11, <1>12, MessageAssumption
       DEF ServerStep
  <2>4. CASE UNCHANGED vars
    BY <2>4, <1>13 DEF vars, net, conns, server, history
  <2> QED
    BY <2>2, <2>3, <2>4, <1>6 DEF Next

LEMMA NeverAgain == Staged => \A p \in Peers : stage[p] # "again"
  BY DEF Staged

LEMMA StepInOrder ==
  ASSUME TypeInv, Owned, Staged, [Next]_vars
  PROVE  InOrder
<1>0. /\ stage \in [Peers -> {"none", "up", "gone", "again"}]
      /\ seen \in [Peers -> 0 .. NMsgs]
  BY DEF TypeInv, TypeOK
<1>1. CASE UNCHANGED <<stage, seen>>
  BY <1>1, NeverAgain DEF InOrder
<1>2. CASE ConnEvent
  <2>1. cur \in Fds /\ fdt[cur] \in Peers
    BY <1>2 DEF ConnEvent, IsValid, TypeInv, TypeOK, Placed
  <2>2. stage[fdt[cur]] # "gone"
    BY <2>1, NullAssumption DEF Staged
  <2>3. stage' = [stage EXCEPT ![fdt[cur]] = "up"] /\ seen' = seen
    BY <1>2 DEF ConnEvent
  <2> QED
    BY <1>0, <2>2, <2>3, NeverAgain DEF InOrder
<1>3. CASE CloseEvent
  <2>1. CASE client[cur] = NoClient
    BY <1>1, <1>3, <2>1 DEF CloseEvent
  <2>2. CASE client[cur] # NoClient
    <3>1. cur \in Fds /\ fdt[cur] # NoPeer
      BY <1>3, <2>2 DEF CloseEvent, TypeInv, TypeOK, Placed
    <3>2. Gone(stage[fdt[cur]]) = "gone"
      BY <3>1 DEF Staged, Gone
    <3>3. seen' = seen /\ stage' = [stage EXCEPT ![fdt[cur]] = "gone"]
      BY <1>3, <2>2, <3>2 DEF CloseEvent
    <3> QED
      BY <1>0, <3>3, NeverAgain DEF InOrder
  <2> QED
    BY <2>1, <2>2
<1>4. CASE TcpServer_Stop
  <2>1. seen' = seen
        /\ stage' = [p \in Peers |-> IF \E fd \in Fds : fdt[fd] = p /\ client[fd] # NoClient
                                       THEN "gone" ELSE stage[p]]
    BY <1>4 DEF TcpServer_Stop
  <2> QED
    BY <1>0, <2>1, NeverAgain DEF InOrder
<1>5. ASSUME NEW ok \in BOOLEAN, ReadMessage(ok) PROVE InOrder
  <2>1. stage' = stage /\ seen' = [seen EXCEPT ![fdt[cur]] = seen[fdt[cur]] + 1]
    BY <1>5 DEF ReadMessage
  <2>2. fdt[cur] \in Peers /\ stage[fdt[cur]] = "up"
    BY <1>5, DataPeer, DataUp DEF ReadMessage
  <2> QED
    BY <1>0, <2>1, <2>2, NeverAgain DEF InOrder
<1> QED
  <2>1. ASSUME NEW p \in Peers, PeerStep(p) PROVE InOrder
    BY <2>1, <1>1 DEF PeerStep, PeerConnect, PeerSend, PeerLeave, history
  <2>2. CASE ServerStep
    BY <2>2, <1>1, <1>2, <1>3, <1>5, MessageAssumption
       DEF ServerStep, history, Select, Finish, ScanEnd, Accept, AcceptFails, ScanData,
           NoListener, DataEvent, ReadHeader, ReadNothing
  <2>3. CASE UNCHANGED vars
    BY <2>3, <1>1 DEF vars, history
  <2> QED
    BY <2>1, <2>2, <2>3, <1>4 DEF Next

\* For each connection the listener sees EVT_DATA only after EVT_CONN and nothing
\* after EVT_CLOSE, with or without memory for every client.
THEOREM EventOrderHolds == Spec => EventOrder
<1>1. TypeInv /\ Owned /\ Staged /\ [Next]_vars => (TypeInv /\ Owned /\ Staged)'
  BY StepTypeInv, StepOwned, StepStaged
<1>2. TypeInv /\ Owned /\ Staged /\ [Next]_vars => [InOrder]_vars
  BY StepInOrder
<1>3. Init => TypeInv /\ Owned /\ Staged
  BY InitTypeInv, InitOwned, InitStaged
<1> QED
  BY <1>1, <1>2, <1>3, PTL DEF Spec, EventOrder

--------------------------------------------------------------------------------
(* What the listener prints. *)

\* Dividing by the length of a series, and one message further on.
LEMMA Division ==
  ASSUME NEW n \in Nat, NEW t \in Nat \ {0}
  PROVE  n \div t \in Nat /\ n % t \in 0 .. t - 1 /\ t * (n \div t) = n - (n % t)
<1>1. t * (n \div t) = n - (n % t)
  BY SMT
<1>2. n % t \in 0 .. t - 1
  BY SMT
<1>3. n \div t \in Int
  BY SMT
<1>4. ASSUME NEW q \in Int, t * q = n - (n % t) PROVE q >= 0
  <2>1. SUFFICES ASSUME q <= 0 - 1 PROVE FALSE
    OBVIOUS
  <2>2. ASSUME NEW r \in 0 .. t - 1, t * q = n - r PROVE FALSE
    <3>1. t * q <= 0 - t
      BY <2>1
    <3> QED
      BY <2>2, <3>1
  <2> QED
    BY <1>2, <1>4, <2>2
<1> QED
  BY <1>1, <1>2, <1>3, <1>4

\* A number that is cut up once has that quotient and that rest.
LEMMA Quotient ==
  ASSUME NEW t \in Nat \ {0}, NEW q \in Nat, NEW r \in 0 .. t - 1
  PROVE  (t * q + r) \div t = q /\ (t * q + r) % t = r
  BY SMT

LEMMA NextMessage ==
  ASSUME NEW n \in Nat, NEW t \in Nat \ {0}
  PROVE  /\ (n % t) + 1 = t => (n + 1) \div t = n \div t + 1 /\ (n + 1) % t = 0
         /\ (n % t) + 1 # t => (n + 1) \div t = n \div t /\ (n + 1) % t = (n % t) + 1
<1> DEFINE q == n \div t
           r == n % t
<1>1. q \in Nat /\ r \in 0 .. t - 1 /\ t * q = n - r
  BY Division
<1> HIDE DEF q, r
<1>2. ASSUME r + 1 = t PROVE (n + 1) \div t = q + 1 /\ (n + 1) % t = 0
  <2>1. n + 1 = t * (q + 1) + 0
    BY <1>1, <1>2
  <2>2. q + 1 \in Nat /\ 0 \in 0 .. t - 1
    BY <1>1
  <2>3. (t * (q + 1) + 0) \div t = q + 1 /\ (t * (q + 1) + 0) % t = 0
    BY <2>2, Quotient
  <2> QED
    BY <2>1, <2>3
<1>3. ASSUME r + 1 # t PROVE (n + 1) \div t = q /\ (n + 1) % t = r + 1
  <2>1. n + 1 = t * q + (r + 1)
    BY <1>1
  <2>2. r + 1 \in 0 .. t - 1
    BY <1>1, <1>3
  <2>3. (t * q + (r + 1)) \div t = q /\ (t * q + (r + 1)) % t = r + 1
    BY <1>1, <2>2, Quotient
  <2> QED
    BY <2>1, <2>3
<1> QED
  BY <1>2, <1>3 DEF q, r

\* What the messages of series k of a peer say, and the start of a series in a
\* buffer when n messages have been received.
Series(p, k) == [j \in 1 .. Total |-> Char(p, (k - 1) * Total + j - 1)]
Begun(cells, p, n) == \A j \in 0 .. (n % Total) - 1 : cells[j] = Char(p, (n - (n % Total)) + j)

\* Nothing has been read of a connection that was not accepted, so that its first
\* message begins a series.
Fresh ==
  /\ \A p \in Peers : peer[p] = "new" => rd[p] = 0
  /\ \A k \in DOMAIN backlog : rd[backlog[k]] = 0

\* In the middle of a series the client has a buffer with what came of it.
Buffered ==
  \A fd \in Fds :
    client[fd] # NoClient /\ seen[fdt[fd]] % Total # 0 =>
      /\ client[fd].data # NoData
      /\ client[fd].data.live
      /\ Begun(client[fd].data.cells, fdt[fd], seen[fdt[fd]])

\* Each series that came in whole has been printed.
Printed ==
  \A p \in Peers : printed[p] = [k \in 1 .. seen[p] \div Total |-> Series(p, k)]

\* Whatever has been printed is a series, also when the server has crashed since.
Shown == \A p \in Peers : \A k \in DOMAIN printed[p] : printed[p][k] = Series(p, k)

Whole == /\ Fresh
         /\ NoCrash
         /\ pc # "crashed" => Buffered /\ Printed
         /\ Shown

LEMMA PrintedShown == Printed => Shown
  BY DEF Printed, Shown

\* While the thread goes on, the buffers and what was printed are enough.
LEMMA GoesOn ==
  ASSUME Fresh', Buffered', Printed', pc' # "crashed"
  PROVE  Whole'
<1>1. Shown'
  BY DEF Printed, Shown
<1> QED
  BY <1>1 DEF Whole, NoCrash

LEMMA TotalType == Total \in Nat \ {0}
  BY MessageAssumption

LEMMA ZeroOfSeries == 0 % Total = 0 /\ 0 \div Total = 0
<1>1. ASSUME NEW t \in Nat \ {0} PROVE 0 % t = 0 /\ 0 \div t = 0
  BY SMT
<1> QED
  BY <1>1, TotalType

LEMMA InitWhole == Init => Whole
<1> SUFFICES ASSUME Init PROVE Whole
  OBVIOUS
<1>1. Fresh /\ Buffered /\ NoCrash
  BY DEF Init, Fresh, Buffered, NoCrash
<1>2. Printed
  <2>1. ASSUME NEW p \in Peers PROVE printed[p] = <<>> /\ seen[p] \div Total = 0
    BY ZeroOfSeries DEF Init
  <2>2. ASSUME NEW p PROVE [k \in 1 .. 0 |-> Series(p, k)] = <<>>
    OBVIOUS
  <2>3. ASSUME NEW p \in Peers PROVE printed[p] = [k \in 1 .. seen[p] \div Total |-> Series(p, k)]
    <3>1. seen[p] \div Total = 0
      BY <2>1
    <3> QED
      BY <2>1, <2>2, <3>1, Zenon
  <2> QED
    BY <2>3 DEF Printed
<1> QED
  BY <1>1, <1>2, PrintedShown DEF Whole

\* The buffer a message is copied to is there, and holds the series so far.
LEMMA BufferThere ==
  ASSUME TypeInv, Whole, NEW ok \in BOOLEAN, ReadMessage(ok),
         ok \/ (rd[fdt[cur]] \div 2) % Total # 0
  PROVE  LET p == fdt[cur]
             m == rd[p] \div 2
             data == SeriesBuffer(client[cur].data, m % Total, ok)
         IN  /\ data \in Buffers /\ data # NoData /\ data.live
             /\ Begun(data.cells, p, m)
<1> DEFINE p == fdt[cur]
           m == rd[p] \div 2
           data == SeriesBuffer(client[cur].data, m % Total, ok)
<1>1. p \in Peers /\ cur \in Fds /\ client[cur] # NoClient
  BY DataPeer DEF ReadMessage
<1>2. seen[p] = m
  BY <1>1 DEF TypeInv, Placed
<1>3. client[cur].data \in {NoData} \cup Buffers
  BY <1>1 DEF TypeInv, TypeOK
<1>4. CASE m % Total = 0
  <2>1. data = Buffer(Blank)
    BY <1>4 DEF SeriesBuffer
  <2>2. data \in Buffers /\ data # NoData
    BY <2>1, BlankType, NullAssumption
  <2>3. data.live
    <3>1. [live |-> TRUE, cells |-> Blank].live = TRUE
      BY Zenon
    <3>2. Buffer(Blank).live
      BY <3>1, Zenon DEF Buffer
    <3> QED
      BY <2>1, <3>2, Zenon
  <2>4. Begun(data.cells, p, m)
    <3> HIDE DEF data, m, p
    <3> QED
      BY <1>4 DEF Begun
  <2> QED
    BY <2>2, <2>3, <2>4
<1>5. CASE m % Total # 0
  <2>1. data = client[cur].data
    BY <1>5 DEF SeriesBuffer
  <2>2. client[cur].data # NoData /\ client[cur].data.live /\ Begun(client[cur].data.cells, p, m)
    BY <1>1, <1>2, <1>5 DEF Whole, Buffered, ReadMessage
  <2> QED
    BY <1>3, <2>1, <2>2
<1> QED
  BY <1>4, <1>5

\* Copying the next character: the start is longer by one, and ends there.
LEMMA CopiedSeries ==
  ASSUME NEW b \in Buffers, NEW p \in Peers, NEW m \in 0 .. NMsgs - 1, Begun(b.cells, p, m)
  PROVE  LET cells == Copied(b.cells, m % Total, Char(p, m))
         IN  /\ \A j \in 0 .. m % Total : cells[j] = Char(p, (m - (m % Total)) + j)
             /\ cells[(m % Total) + 1] = Nul
             /\ \A j \in 0 .. m % Total : cells[j] # Nul
<1> DEFINE r == m % Total
           cells == Copied(b.cells, r, Char(p, m))
<1>1. m \in Nat /\ r \in 0 .. Total - 1 /\ Total \in Nat /\ r <= m
  <2>1. m \in Nat
    BY MessageAssumption
  <2>2. Total * (m \div Total) = m - r /\ r \in 0 .. Total - 1 /\ m \div Total \in Nat
    BY <2>1, TotalType, Division
  <2>3. ASSUME NEW t \in Nat, NEW q \in Nat PROVE t * q >= 0
    OBVIOUS
  <2>4. Total * (m \div Total) >= 0
    BY <2>2, <2>3, TotalType
  <2> HIDE DEF r
  <2> QED
    BY <2>1, <2>2, <2>4, TotalType
<1>2. \A j \in 0 .. r - 1 : b.cells[j] = Char(p, (m - r) + j)
  BY DEF Begun
<1>3. b.cells = [k \in 0 .. Total |-> b.cells[k]]
  <2> DEFINE Cell == {Nul, NoByte} \cup {Char(q, n) : q \in Peers, n \in 0 .. NMsgs - 1}
  <2>1. b.cells \in [0 .. Total -> Cell]
    BY DEF Buffers
  <2> HIDE DEF Cell
  <2> QED
    BY <2>1
<1>4. cells = [k \in 0 .. Total |-> IF k = r + 1 THEN Nul ELSE IF k = r THEN Char(p, m) ELSE b.cells[k]]
  <2> HIDE DEF r
  <2> QED
    BY <1>1, <1>3 DEF Copied
<1> HIDE DEF r, cells
<1>5. cells[r + 1] = Nul
  BY <1>1, <1>4
<1>6. ASSUME NEW j \in 0 .. r PROVE cells[j] = Char(p, (m - r) + j)
  <2>1. CASE j = r
    <3>1. (m - r) + j = m
      BY <1>1, <2>1
    <3>2. cells[j] = Char(p, m)
      BY <1>1, <1>4, <2>1
    <3> QED
      BY <3>1, <3>2
  <2>2. CASE j # r
    BY <1>1, <1>2, <1>4, <2>2
  <2> QED
    BY <2>1, <2>2
<1>7. ASSUME NEW j \in 0 .. r PROVE cells[j] # Nul
  <2>1. (m - r) + j \in 0 .. NMsgs - 1
    BY <1>1, MessageAssumption
  <2> QED
    BY <1>6, <2>1, NullAssumption
<1> QED
  BY <1>5, <1>6, <1>7 DEF r, cells

\* A buffer with a whole series in it, as a string.
LEMMA TextOfSeries ==
  ASSUME NEW cells, cells[Total] = Nul, \A j \in 0 .. Total - 1 : cells[j] # Nul
  PROVE  Text(cells) = [j \in 1 .. Total |-> cells[j - 1]]
<1> DEFINE Size(n) == cells[n] = Nul /\ \A k \in 0 .. n - 1 : cells[k] # Nul
           size == CHOOSE n \in 0 .. Total : Size(n)
<1>1. Total \in 0 .. Total /\ Size(Total)
  BY TotalType
<1>2. size \in 0 .. Total /\ Size(size)
  <2> HIDE DEF Size
  <2> QED
    BY <1>1
<1>3. size = Total
  <2> HIDE DEF size
  <2> QED
    BY <1>2, TotalType
<1>4. Text(cells) = [k \in 1 .. size |-> cells[k - 1]]
  BY DEF Text
<1> HIDE DEF size
<1> QED
  BY <1>3, <1>4

\* One more series at the end of what was printed.
LEMMA AppendSeries ==
  ASSUME NEW p, NEW n \in Nat
  PROVE  Append([k \in 1 .. n |-> Series(p, k)], Series(p, n + 1)) = [k \in 1 .. n + 1 |-> Series(p, k)]
<1> DEFINE S(k) == Series(p, k)
           s == [k \in 1 .. n |-> S(k)]
           T == {S(k) : k \in 1 .. n + 1}
<1>1. s \in Seq(T) /\ Len(s) = n /\ S(n + 1) \in T
  <2> HIDE DEF S
  <2> QED
    OBVIOUS
<1> HIDE DEF S, T
<1>2. Append(s, S(n + 1)) = [k \in 1 .. n + 1 |-> S(k)]
  BY <1>1
<1> QED
  BY <1>2 DEF S

\* Message m fills the buffer, or there is more of the series to come.
LEMMA ReadMessageWhole ==
  ASSUME TypeInv, Owned, Whole, NEW ok \in BOOLEAN, ReadMessage(ok),
         ok \/ (rd[fdt[cur]] \div 2) % Total # 0
  PROVE  Whole'
<1> DEFINE p == fdt[cur]
           m == rd[p] \div 2
           r == m % Total
           data == SeriesBuffer(client[cur].data, r, ok)
           cells == Copied(data.cells, r, Char(p, m))
           last == r + 1 = Total
<1>1. p \in Peers /\ cur \in Fds /\ client[cur] # NoClient /\ p # NoPeer
  BY DataPeer, NullAssumption DEF ReadMessage
<1>2. data \in Buffers /\ data # NoData /\ data.live /\ Begun(data.cells, p, m)
  BY BufferThere
<1>3. /\ rd' = [rd EXCEPT ![p] = rd[p] + 1]
      /\ seen' = [seen EXCEPT ![p] = seen[p] + 1]
      /\ client' = [client EXCEPT ![cur].data = [live |-> ~last, cells |-> cells]]
      /\ printed' = IF last THEN [printed EXCEPT ![p] = Append(@, Text(cells))] ELSE printed
      /\ pc' = "scan"
      /\ UNCHANGED <<peer, backlog, fdt, stray>>
      /\ rd[p] < wr[p] /\ rd[p] % 2 = 1
      /\ Buffered /\ Printed
  BY <1>2 DEF ReadMessage, net, Whole
<1>4. seen[p] = m /\ m \in 0 .. NMsgs - 1 /\ m \in Nat
  <2>1. rd[p] \in Nat /\ wr[p] \in 0 .. 2 * NMsgs /\ NMsgs \in Nat
    BY <1>1, MessageAssumption DEF TypeInv, TypeOK
  <2>2. m \in 0 .. NMsgs - 1
    BY <1>3, <2>1, UnitOfMessage
  <2> QED
    BY <1>1, <2>1, <2>2 DEF TypeInv, Placed
<1>5. /\ \A j \in 0 .. r : cells[j] = Char(p, (m - r) + j)
      /\ cells[r + 1] = Nul
      /\ \A j \in 0 .. r : cells[j] # Nul
  <2> HIDE DEF data, m, p
  <2> QED
    BY <1>1, <1>2, <1>4, CopiedSeries
<1>6. /\ r + 1 = Total => (m + 1) \div Total = m \div Total + 1 /\ (m + 1) % Total = 0
      /\ r + 1 # Total => (m + 1) \div Total = m \div Total /\ (m + 1) % Total = r + 1
  <2> HIDE DEF m
  <2> QED
    BY <1>4, TotalType, NextMessage
<1>7. r \in 0 .. Total - 1 /\ Total * (m \div Total) = m - r /\ m \div Total \in Nat
  <2> HIDE DEF m
  <2> QED
    BY <1>4, TotalType, Division
<1>8. client'[cur].data = [live |-> ~last, cells |-> cells]
      /\ \A fd \in Fds \ {cur} : client'[fd] = client[fd] /\ fdt[fd] # p
  <2>1. client \in [Fds -> [data : {NoData} \cup Buffers] \cup {NoClient}]
    BY DEF TypeInv, TypeOK
  <2>2. client[cur] \in [data : {NoData} \cup Buffers]
    BY <1>1, <2>1
  <2>3. \A fd \in Fds \ {cur} : fdt[fd] # p
    BY <1>1 DEF Owned
  <2> HIDE DEF data, m, p, r, cells, last
  <2> QED
    BY <1>1, <1>3, <2>1, <2>2, <2>3
<1>9. /\ seen'[p] = m + 1
      /\ \A q \in Peers \ {p} : seen'[q] = seen[q] /\ rd'[q] = rd[q]
  <2> HIDE DEF m, p
  <2> QED
    BY <1>1, <1>3, <1>4 DEF TypeInv, TypeOK
<1>10. Fresh'
  <2>1. peer[p] # "new" /\ \A k \in DOMAIN backlog : backlog[k] # p
    BY <1>1 DEF Owned
  <2>2. \A k \in DOMAIN backlog : backlog[k] \in Peers
    BY DEF TypeInv, TypeOK
  <2> HIDE DEF p, m, r, data, cells, last
  <2> QED
    BY <1>3, <1>9, <2>1, <2>2 DEF Whole, Fresh
<1> HIDE DEF p, m, data, cells
<1>11. Buffered'
  <2>1. ASSUME NEW fd \in Fds, client'[fd] # NoClient, seen'[fdt'[fd]] % Total # 0, fd # cur
        PROVE  /\ client'[fd].data # NoData
               /\ client'[fd].data.live
               /\ Begun(client'[fd].data.cells, fdt'[fd], seen'[fdt'[fd]])
    <3>1. client'[fd] = client[fd] /\ fdt'[fd] = fdt[fd] /\ fdt[fd] # p /\ fdt[fd] \in Peers
      BY <1>3, <1>8, <2>1 DEF TypeInv, TypeOK, Placed
    <3>2. seen'[fdt'[fd]] = seen[fdt[fd]]
      BY <1>9, <3>1
    <3> QED
      BY <1>3, <2>1, <3>1, <3>2 DEF Buffered
  <2>2. ASSUME seen'[p] % Total # 0
        PROVE  /\ client'[cur].data # NoData
               /\ client'[cur].data.live
               /\ Begun(client'[cur].data.cells, p, seen'[p])
    <3>1. r + 1 # Total /\ (m + 1) % Total = r + 1
      BY <1>6, <1>9, <2>2
    <3>2. [live |-> ~last, cells |-> cells] \in Buffers
      BY <1>1, <1>2, <1>4, CopiedType DEF cells
    <3>3. client'[cur].data # NoData /\ client'[cur].data.live /\ client'[cur].data.cells = cells
      <4>1. client'[cur].data # NoData
        BY <1>8, <3>2, NullAssumption
      <4>2. client'[cur].data.cells = cells /\ client'[cur].data.live = ~last
        BY <1>8
      <4> QED
        BY <3>1, <4>1, <4>2
    <3>4. \A j \in 0 .. (r + 1) - 1 : cells[j] = Char(p, ((m + 1) - (r + 1)) + j)
      <4>1. (m + 1) - (r + 1) = m - r /\ (r + 1) - 1 = r
        BY <1>4, <1>7
      <4> QED
        BY <1>5, <4>1
    <3> HIDE DEF r
    <3>5. Begun(cells, p, m + 1)
      BY <3>1, <3>4 DEF Begun
    <3> QED
      BY <1>9, <3>3, <3>5
  <2>3. fdt'[cur] = p
    BY <1>3 DEF p
  <2> QED
    BY <2>1, <2>2, <2>3 DEF Buffered
<1>12. Printed'
  <2>1. ASSUME NEW q \in Peers, q # p
        PROVE  printed'[q] = [k \in 1 .. seen'[q] \div Total |-> Series(q, k)]
    <3>1. printed'[q] = printed[q] /\ seen'[q] = seen[q]
      BY <1>3, <1>9, <2>1 DEF TypeInv, TypeOK
    <3> QED
      BY <1>3, <3>1 DEF Printed
  <2>2. printed[p] = [k \in 1 .. m \div Total |-> Series(p, k)]
    BY <1>1, <1>3, <1>4 DEF Printed
  <2>3. CASE ~last
    <3>1. printed'[p] = printed[p] /\ seen'[p] \div Total = m \div Total
      BY <1>3, <1>6, <1>9, <2>3
    <3>2. printed'[p] = [k \in 1 .. seen'[p] \div Total |-> Series(p, k)]
      BY <2>2, <3>1
    <3> QED
      BY <2>1, <3>2 DEF Printed
  <2>4. CASE last
    <3>1. (m + 1) \div Total = m \div Total + 1
      BY <1>6, <2>4
    <3>2. Text(cells) = [j \in 1 .. Total |-> cells[j - 1]]
      BY <1>5, <1>7, <2>4, TextOfSeries
    <3>3. ASSUME NEW j \in 1 .. Total
          PROVE  cells[j - 1] = Char(p, ((m \div Total + 1) - 1) * Total + j - 1)
      <4>1. j - 1 \in 0 .. r
        BY <1>7, <2>4, TotalType
      <4>2. (m - r) + (j - 1) = ((m \div Total + 1) - 1) * Total + j - 1
        <5>1. ((m \div Total + 1) - 1) * Total = m - r
          BY <1>7, TotalType
        <5>2. m - r \in Int
          BY <1>4, <1>7
        <5> HIDE DEF r
        <5> QED
          BY <5>1, <5>2
      <4> QED
        BY <1>5, <4>1, <4>2
    <3>4. Text(cells) = Series(p, m \div Total + 1)
      BY <3>2, <3>3 DEF Series
    <3>5. printed'[p] = Append(printed[p], Text(cells))
      BY <1>1, <1>3, <2>4 DEF TypeInv, TypeOK
    <3>6. printed'[p] = [k \in 1 .. m \div Total + 1 |-> Series(p, k)]
      BY <1>7, <2>2, <3>4, <3>5, AppendSeries
    <3>7. seen'[p] \div Total = m \div Total + 1
      BY <1>9, <3>1
    <3>8. printed'[p] = [k \in 1 .. seen'[p] \div Total |-> Series(p, k)]
      BY <3>6, <3>7
    <3> QED
      BY <2>1, <3>8 DEF Printed
  <2> QED
    BY <2>3, <2>4
<1> QED
  BY <1>3, <1>10, <1>11, <1>12, GoesOn

\* Without memory for a buffer the message is copied to a null pointer.
LEMMA NoBufferWhole ==
  ASSUME TypeInv, Owned, Whole, ReadMessage(FALSE), (rd[fdt[cur]] \div 2) % Total = 0
  PROVE  Whole'
<1> DEFINE p == fdt[cur]
<1>1. p \in Peers /\ cur \in Fds /\ p # NoPeer
  BY DataPeer, NullAssumption DEF ReadMessage
<1>2. /\ rd' = [rd EXCEPT ![p] = rd[p] + 1]
      /\ pc' = "crashed" /\ denied' = denied \cup {p}
      /\ UNCHANGED <<peer, backlog, fdt, cur, printed>>
  <2>1. SeriesBuffer(client[cur].data, (rd[p] \div 2) % Total, FALSE) = NoData
    BY DEF SeriesBuffer
  <2> QED
    BY <2>1 DEF ReadMessage, net
<1>3. Fresh'
  <2>1. peer[p] # "new" /\ \A k \in DOMAIN backlog : backlog[k] # p /\ backlog[k] \in Peers
    BY <1>1 DEF Owned, TypeInv, TypeOK
  <2>2. \A q \in Peers \ {p} : rd'[q] = rd[q]
    BY <1>1, <1>2 DEF TypeInv, TypeOK
  <2> HIDE DEF p
  <2> QED
    BY <1>2, <2>1, <2>2 DEF Whole, Fresh
<1>4. NoCrash'
  BY <1>2 DEF NoCrash
<1>5. Shown'
  BY <1>2 DEF Whole, Shown
<1> QED
  BY <1>2, <1>3, <1>4, <1>5 DEF Whole

LEMMA AnyMessageWhole ==
  ASSUME TypeInv, Owned, Whole, NEW ok \in BOOLEAN, ReadMessage(ok)
  PROVE  Whole'
<1>1. CASE ok \/ (rd[fdt[cur]] \div 2) % Total # 0
  BY <1>1, ReadMessageWhole
<1>2. CASE ~ok /\ (rd[fdt[cur]] \div 2) % Total = 0
  BY <1>2, NoBufferWhole
<1> QED
  BY <1>1, <1>2

LEMMA StepWhole ==
  ASSUME TypeInv, Owned, Whole, [Next]_vars
  PROVE  Whole'
<1>1. ASSUME NEW p \in Peers, PeerConnect(p) PROVE Whole'
  <2>1. /\ backlog \in Seq(Peers)
        /\ backlog' = Append(backlog, p)
        /\ peer[p] = "new" /\ peer' = [peer EXCEPT ![p] = "open"]
        /\ UNCHANGED <<rd, fdt, client, server, history>>
    BY <1>1 DEF PeerConnect, TypeInv, TypeOK
  <2>2. \A k \in DOMAIN backlog' : \/ k \in DOMAIN backlog /\ backlog'[k] = backlog[k]
                                   \/ k = Len(backlog) + 1 /\ backlog'[k] = p
    BY <2>1, AppendBacklog
  <2>3. \A q \in Peers : peer'[q] = "new" => peer[q] = "new"
    BY <2>1 DEF TypeInv, TypeOK
  <2> QED
    BY <2>1, <2>2, <2>3 DEF Whole, Fresh, Buffered, Printed, Shown, NoCrash, server, history
<1>2. ASSUME NEW p \in Peers, NEW how \in {"fin", "reset"}, PeerLeave(p, how) PROVE Whole'
  <2>1. \A q \in Peers : peer'[q] = "new" => peer[q] = "new"
    BY <1>2 DEF PeerLeave, TypeInv, TypeOK
  <2> QED
    BY <1>2, <2>1 DEF PeerLeave, Whole, Fresh, Buffered, Printed, Shown, NoCrash, server, conns, history
<1>3. ASSUME NEW fd \in Fds, NEW ok \in BOOLEAN, Accept(fd, ok) PROVE Whole'
  <2>1. backlog # <<>> /\ backlog \in Seq(Peers)
    BY <1>3 DEF Accept, ScanAt, TypeInv, TypeOK, Placed
  <2>2. /\ Head(backlog) = backlog[1] /\ 1 \in DOMAIN backlog
        /\ \A k \in DOMAIN Tail(backlog) :
             k + 1 \in DOMAIN backlog /\ Tail(backlog)[k] = backlog[k + 1] /\ k + 1 # 1 /\ k \in Nat
    BY <2>1, TailBacklog
  <2>3. /\ fdt' = [fdt EXCEPT ![fd] = backlog[1]]
        /\ client' = [client EXCEPT ![fd] = IF ok THEN NewClient ELSE NoClient]
        /\ backlog' = Tail(backlog)
        /\ pc' = "check" /\ pc = "scan"
        /\ UNCHANGED <<peer, rd, seen, printed>>
    BY <1>3, <2>2 DEF Accept, ScanAt, net
  <2>4. backlog[1] \in Peers
    BY <2>1, <2>2
  <2>5. seen[backlog[1]] = 0
    <3>1. rd[backlog[1]] = 0
      BY <2>2 DEF Whole, Fresh
    <3>2. seen[backlog[1]] = 0 \div 2
      BY <2>4, <3>1 DEF TypeInv, Placed
    <3> QED
      BY <3>2
  <2>6. seen[backlog[1]] % Total = 0
    BY <2>5, ZeroOfSeries
  <2>7. \A g \in Fds \ {fd} : fdt'[g] = fdt[g] /\ client'[g] = client[g]
    BY <2>3 DEF TypeInv, TypeOK
  <2>8. fdt'[fd] = backlog[1]
    BY <2>3 DEF TypeInv, TypeOK
  <2>9. Buffered'
    BY <2>3, <2>6, <2>7, <2>8 DEF Whole, Buffered
  <2>10. Fresh'
    BY <2>2, <2>3 DEF Whole, Fresh
  <2> QED
    BY <2>3, <2>9, <2>10, GoesOn DEF Whole, Printed
<1>4. CASE CloseEvent
  <2>1. /\ cur \in Fds
        /\ \A fd \in Fds : client'[fd] # NoClient => client'[fd] = client[fd] /\ fdt'[fd] = fdt[fd]
    BY <1>4 DEF CloseEvent, TypeInv, TypeOK, Placed
  <2>2. pc' = "scan" /\ pc = "check" /\ UNCHANGED <<peer, rd, backlog, seen, printed>>
    BY <1>4 DEF CloseEvent, net
  <2>3. Buffered'
    BY <2>1, <2>2 DEF Whole, Buffered
  <2> QED
    BY <2>2, <2>3, GoesOn DEF Whole, Fresh, Printed
<1>5. CASE TcpServer_Stop
  BY <1>5, GoesOn DEF TcpServer_Stop, Whole, Fresh, Buffered, Printed, net
<1>6. CASE ReadHeader
  <2>1. fdt[cur] \in Peers /\ cur \in Fds
    BY <1>6, DataPeer DEF ReadHeader
  <2>2. peer[fdt[cur]] # "new" /\ \A k \in DOMAIN backlog : backlog[k] # fdt[cur]
    BY <2>1, NullAssumption DEF Owned
  <2>3. /\ rd' = [rd EXCEPT ![fdt[cur]] = rd[fdt[cur]] + 1]
        /\ UNCHANGED <<net, server, conns, history>>
    BY <1>6 DEF ReadHeader
  <2>4. \A k \in DOMAIN backlog : backlog[k] \in Peers
    BY DEF TypeInv, TypeOK
  <2>5. \A q \in Peers \ {fdt[cur]} : rd'[q] = rd[q]
    BY <2>1, <2>3 DEF TypeInv, TypeOK
  <2>6. Fresh'
    BY <2>2, <2>3, <2>4, <2>5 DEF Whole, Fresh, net, conns
  <2> QED
    BY <2>3, <2>6 DEF Whole, Buffered, Printed, Shown, NoCrash, server, conns, history
<1>7. CASE AcceptFails
  BY <1>7 DEF AcceptFails, ScanAt, Whole, Fresh, Buffered, Printed, Shown, NoCrash, net, conns
<1>8. CASE /\ UNCHANGED <<peer, rd, backlog, fdt, client, seen, printed>>
           /\ pc # "crashed" /\ pc' # "crashed"
  BY <1>8, GoesOn DEF Whole, Fresh, Buffered, Printed
<1>9. CASE UNCHANGED <<peer, rd, conns, server, history>>
  BY <1>9 DEF Whole, Fresh, Buffered, Printed, Shown, NoCrash, server, conns, history
<1> QED
  <2>1. ASSUME NEW p \in Peers, PeerSend(p) PROVE Whole'
    BY <2>1, <1>9 DEF PeerSend
  <2>2. CASE \E p \in Peers : PeerStep(p)
    BY <2>1, <2>2, <1>1, <1>2 DEF PeerStep
  <2>3. CASE ServerStep
    <3>1. CASE \/ Select \/ Finish \/ ScanEnd \/ NoListener \/ ConnEvent \/ DataEvent \/ ReadNothing
               \/ \E fd \in Fds : ScanData(fd)
      BY <3>1, <1>8 DEF Select, Finish, ScanEnd, NoListener, ConnEvent, DataEvent, ReadNothing,
         ScanData, ScanAt, net, conns, history
    <3> QED
      BY <2>3, <3>1, AnyMessageWhole, <1>3, <1>4, <1>6, <1>7, MessageAssumption DEF ServerStep
  <2>4. CASE UNCHANGED vars
    BY <2>4, <1>9 DEF vars, net
  <2> QED
    BY <2>2, <2>3, <2>4, <1>5 DEF Next

\* Every series that is printed is printed as it was sent, however the peers'
\* messages mix and whatever malloc refuses; and no character is copied to a buffer
\* that is not there, unless malloc refused it.
THEOREM PrintedWholeHolds == Spec => []PrintedWhole
<1>1. TypeInv /\ Owned /\ Whole /\ [Next]_vars => (TypeInv /\ Owned /\ Whole)'
  BY StepTypeInv, StepOwned, StepWhole
<1>2. Whole => PrintedWhole
  <2>1. ASSUME Whole, NEW p \in Peers, NEW k \in 1 .. NMsgs, k \in DOMAIN printed[p]
        PROVE  printed[p][k] = [j \in 1 .. Total |-> Char(p, (k - 1) * Total + j - 1)]
    BY <2>1 DEF Whole, Shown, Series
  <2> QED
    BY <2>1 DEF PrintedWhole, Whole
<1> QED
  BY <1>1, <1>2, InitTypeInv, InitOwned, InitWhole, PTL DEF Spec

\* Only an accept() that fails and a buffer that malloc refused make the server use
\* memory it does not own.
THEOREM NoCrashHolds == Spec => []NoCrash
<1>1. PrintedWhole => NoCrash
  BY DEF PrintedWhole
<1> QED
  BY <1>1, PrintedWholeHolds, PTL
================================================================================
