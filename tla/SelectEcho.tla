------------------------------- MODULE SelectEcho -------------------------------
(***************************************************************************)
(* The echo servers without a framework, in three editions:                *)
(*   "linux"    7.select-server, twice, and 2_select-server.cpp of         *)
(*              14.flags_parameter/msg_oob, whose loop is the same but for *)
(*              the descriptor the scan starts at, the signal handler and  *)
(*              the urgent data (which is not modelled);                   *)
(*   "winsock"  9.Win_Select, where a descriptor set is an array in the    *)
(*              order of arrival, and the scan runs over the set itself;   *)
(*   "serial"   3.echo_server_client, without select(): one client after   *)
(*              the other (8.WinSock is the same loop without signals).    *)
(*                                                                         *)
(* A client sends words, each Quit or Text, with the zero byte that ends   *)
(* them, as 3.echo_server_client/client.cpp does.  read() returns what has *)
(* arrived, cut anywhere between two words: the command is a Quit that is  *)
(* the first in its read, anything else is written back.                   *)
(***************************************************************************)
EXTENDS Integers, Sequences, SequencesExt

CONSTANTS
  Editions,     \* of "linux", "winsock" and "serial"
  SetSize,      \* FD_SETSIZE of Winsock: sockets that fit in a set
  Peers,        \* each connects at most once
  ServerFd,     \* server
  FdsOf,        \* descriptors accept() can hand out, for each edition
  MaxWords,     \* bound: words each peer sends
  MaxRead,      \* words that fit in buf
  Quit, Text,   \* the words
  NoPeer        \* a descriptor that is free

ASSUME EchoAssumption ==
  /\ ServerFd \in Nat
  /\ Editions \subseteq {"linux", "winsock", "serial"}
  /\ SetSize \in Nat \ {0}
  /\ \A e \in Editions : FdsOf[e] \subseteq Nat /\ \A fd \in FdsOf[e] : fd > ServerFd
  /\ MaxWords \in [Peers -> Nat]
  /\ MaxRead \in Nat \ {0}
  /\ Quit # Text
  /\ NoPeer \notin Peers

VARIABLES
  edition,  \* the program that runs
  alive,    \* the process runs
  ended,    \* the peer whose write raised SIGPIPE, or NoPeer (history)
  peer,     \* "new", "open", "fin" (its side is closed), "reset", or "broken"
            \* (reset after it had closed its side)
  sent,     \* words of a peer that have arrived in the socket
  rd,       \* how many of them the server has read
  echoed,   \* words written back to it
  backlog,  \* peers waiting for accept()
  fdt,      \* the peer each descriptor is connected to
  reads,    \* the fd_set reads, in the order of the scan; in "serial" what
            \* the thread waits for, the server or the one client
  unseen,   \* clients accepted when the set was full: they are not in it
  max,      \* max, in "linux"
  told,     \* descriptors that are open although a write to them has failed
  todo,     \* descriptors of temps the scan has still to come to, in order
  cur,      \* i, while its data is written back
  buf,      \* buf
  pc        \* "select", "scan" or "write"

net == <<peer, sent>>
life == <<alive, ended>>
sets == <<reads, unseen, max, told>>
vars == <<edition, life, net, rd, echoed, backlog, fdt, sets, todo, cur, buf, pc>>

--------------------------------------------------------------------------------
Fds == FdsOf[edition]
FreeFds == {fd \in Fds : fdt[fd] = NoPeer}
Connected(p) == \E fd \in Fds : fdt[fd] = p

\* What s has of the set S, in its order.
Kept(s, S) ==
  LET kept[k \in 0 .. Len(s)] ==
        IF k = 0 THEN <<>> ELSE IF s[k] \in S THEN Append(kept[k - 1], s[k]) ELSE kept[k - 1]
  IN kept[Len(s)]

\* select(): a connection waits, or there is a word, an end or an error to read.
Ready(fd) ==
  IF fd = ServerFd THEN backlog # <<>>
  ELSE rd[fdt[fd]] < Len(sent[fdt[fd]]) \/ peer[fdt[fd]] # "open"

Init ==
  /\ edition \in Editions
  /\ alive = TRUE
  /\ ended = NoPeer
  /\ peer = [p \in Peers |-> "new"]
  /\ sent = [p \in Peers |-> <<>>]
  /\ rd = [p \in Peers |-> 0]
  /\ echoed = [p \in Peers |-> <<>>]
  /\ backlog = <<>>
  /\ fdt = [fd \in Fds |-> NoPeer]
  /\ reads = <<ServerFd>>
  /\ unseen = {}
  /\ max = ServerFd
  /\ told = {}
  /\ todo = <<>>
  /\ cur = ServerFd
  /\ buf = <<>>
  /\ pc = "select"

--------------------------------------------------------------------------------
(* The clients, and the console. *)

Connect(p) ==
  /\ peer[p] = "new"
  /\ peer' = [peer EXCEPT ![p] = "open"]
  /\ backlog' = Append(backlog, p)
  /\ UNCHANGED <<edition, life, sent, rd, echoed, fdt, sets, todo, cur, buf, pc>>

Send(p, word) ==
  /\ peer[p] = "open"
  /\ Len(sent[p]) < MaxWords[p]
  /\ sent' = [sent EXCEPT ![p] = Append(@, word)]
  /\ UNCHANGED <<edition, life, peer, rd, echoed, backlog, fdt, sets, todo, cur, buf, pc>>

Leave(p, how) ==
  /\ \/ peer[p] = "open" /\ how \in {"fin", "reset"}
     \/ peer[p] = "fin" /\ how = "broken"
  /\ peer' = [peer EXCEPT ![p] = how]
  /\ UNCHANGED <<edition, life, sent, rd, echoed, backlog, fdt, sets, todo, cur, buf, pc>>

\* The process ends, and its memory, descriptors and backlog with it.
Exit ==
  /\ alive' = FALSE
  /\ backlog' = <<>>
  /\ fdt' = [fd \in Fds |-> NoPeer]
  /\ reads' = <<ServerFd>>
  /\ unseen' = {}
  /\ max' = ServerFd
  /\ told' = {}
  /\ todo' = <<>>
  /\ cur' = ServerFd
  /\ buf' = <<>>
  /\ pc' = "select"

\* SIGINT, wherever the loop is: with or without a handler the process ends.
Interrupt == Exit /\ UNCHANGED <<edition, ended, net, rd, echoed>>

--------------------------------------------------------------------------------
(* The loop of main. *)

\* select() with max for the number of descriptors, where max + 1 is due.
SelectBelowMax ==
  /\ pc = "select"
  /\ todo' = Kept(reads, {fd \in Range(reads) : (edition = "linux" => fd < max \/ fd = ServerFd) /\ Ready(fd)})
  /\ todo' # <<>>
  /\ pc' = "scan"
  /\ UNCHANGED <<edition, life, net, rd, echoed, backlog, fdt, sets, cur, buf>>

\* select(), or the accept() or recv() the thread of "serial" blocks in.
Select ==
  /\ pc = "select"
  /\ todo' = Kept(reads, {fd \in Range(reads) : (edition = "linux" => fd <= max) /\ Ready(fd)})
  /\ todo' # <<>>
  /\ pc' = "scan"
  /\ UNCHANGED <<edition, life, net, rd, echoed, backlog, fdt, sets, cur, buf>>

ScanAt(fd) == pc = "scan" /\ todo # <<>> /\ fd = Head(todo)

ScanEnd ==
  /\ pc = "scan"
  /\ todo = <<>>
  /\ pc' = "select"
  /\ UNCHANGED <<edition, life, net, rd, echoed, backlog, fdt, sets, todo, cur, buf>>

\* max with a new descriptor, kept as the number of descriptors.
HigherPlusOne(fd) == IF fd > max THEN fd + 1 ELSE max

\* max with a new descriptor
Higher(fd) == IF fd > max THEN fd ELSE max

\* FD_SET(fd, &reads): bits in the order of their numbers, or an array to which
\* nothing is added when it is full.
Full == edition = "winsock" /\ Len(reads) = SetSize
Watch(fd) ==
  CASE edition = "linux" ->
         Kept(reads, {r \in Range(reads) : r < fd}) \o <<fd>> \o Kept(reads, {r \in Range(reads) : r > fd})
    [] edition = "winsock" -> IF Full THEN reads ELSE Append(reads, fd)
    [] edition = "serial" -> <<fd>>

\* accept() hands out the lowest free descriptor.
Accept(fd) ==
  /\ ScanAt(ServerFd)
  /\ fd \in FreeFds
  /\ \A other \in FreeFds : fd <= other
  /\ fdt' = [fdt EXCEPT ![fd] = Head(backlog)]
  /\ backlog' = Tail(backlog)
  /\ reads' = Watch(fd)
  /\ unseen' = IF Full THEN unseen \cup {fd} ELSE unseen
  /\ max' = IF edition = "linux" THEN Higher(fd) ELSE max
  /\ todo' = Tail(todo)
  /\ UNCHANGED <<edition, life, net, rd, echoed, told, cur, buf, pc>>

\* The handler is left with the descriptor as it was.
Passed(fd) ==
  /\ todo' = Tail(todo)
  /\ UNCHANGED <<edition, life, net, rd, echoed, backlog, fdt, sets, cur, buf, pc>>

\* There is no descriptor: the connection goes on waiting; "serial" ends.
AcceptFails ==
  /\ ScanAt(ServerFd)
  /\ FreeFds = {}
  /\ IF edition = "serial" THEN Interrupt ELSE Passed(ServerFd)

\* What is still to be scanned after fd.  FD_CLR of an array moves what follows
\* fd to its place, which the scan has passed.
Unscanned(fd, rest) ==
  LET i == CHOOSE k \in DOMAIN reads : reads[k] = fd IN
  IF edition = "winsock" /\ i < Len(reads) THEN Kept(rest, Range(rest) \ {reads[i + 1]}) ELSE rest

\* The same without FD_CLR.
CloseKeepsRead(fd, rest) ==
  /\ fdt' = [fdt EXCEPT ![fd] = NoPeer]
  /\ todo' = rest
  /\ UNCHANGED sets

\* client_handler() returned -1: FD_CLR and close(), with rest still to be scanned.
Close(fd, rest) ==
  /\ fdt' = [fdt EXCEPT ![fd] = NoPeer]
  /\ reads' = IF edition = "serial" THEN <<ServerFd>> ELSE Kept(reads, Range(reads) \ {fd})
  /\ todo' = Unscanned(fd, rest)
  /\ told' = told \ {fd}
  /\ UNCHANGED <<unseen, max>>

Words(fd, n) == SubSeq(sent[fdt[fd]], rd[fdt[fd]] + 1, rd[fdt[fd]] + n)

\* read() > 0.  The buffer is compared as a string, which ends with its first
\* word: the command closes the connection, else all of it is written back.
Read(fd, n) ==
  LET p == fdt[fd] IN
  /\ ScanAt(fd)
  /\ fd # ServerFd
  /\ n <= MaxRead
  /\ rd[p] + n <= Len(sent[p])
  /\ rd' = [rd EXCEPT ![p] = @ + n]
  /\ IF Head(Words(fd, n)) = Quit
       THEN Close(fd, Tail(todo)) /\ pc' = "scan" /\ UNCHANGED <<cur, buf>>
       ELSE /\ buf' = Words(fd, n)
            /\ cur' = fd
            /\ todo' = Tail(todo)
            /\ pc' = "write"
            /\ UNCHANGED <<fdt, sets>>
  /\ UNCHANGED <<edition, life, net, echoed, backlog>>

Drained(fd) == ScanAt(fd) /\ fd # ServerFd /\ rd[fdt[fd]] = Len(sent[fdt[fd]])

Closed(fd) ==
  /\ Close(fd, Tail(todo))
  /\ UNCHANGED <<edition, life, net, rd, echoed, backlog, cur, buf, pc>>

\* The end of a stream is never an error.
ReadEofStays(fd) ==
  /\ Drained(fd)
  /\ peer[fdt[fd]] \in {"fin", "broken"}
  /\ Passed(fd)

\* read() = 0, which is not -1: the connection stays in reads, and readable.  In
\* "serial" the loop of the client ends.
ReadEof(fd) ==
  /\ Drained(fd)
  /\ peer[fdt[fd]] \in {"fin", "broken"}
  /\ IF edition = "serial" THEN Closed(fd) ELSE Passed(fd)

\* An end or an error: Winsock may still report the reset of a closed stream.
Failed(p) == peer[p] = "reset" \/ (edition = "winsock" /\ peer[p] = "broken")

\* read() = -1 is taken for the end of a stream like 0.
ReadErrorIgnored(fd) == Drained(fd) /\ Failed(fdt[fd]) /\ Passed(fd)

\* read() = -1 (in "serial" 0 if a write has reported the reset before).
ReadError(fd) == Drained(fd) /\ Failed(fdt[fd]) /\ Closed(fd)

\* The scan goes on.
Written == buf' = <<>> /\ cur' = ServerFd /\ pc' = "scan"

\* write() to the highest descriptor in the place of the one that was read.
WriteToMax ==
  /\ pc = "write"
  /\ peer[fdt[cur]] \in {"open", "fin"}
  /\ echoed' = [echoed EXCEPT ![IF max \in FreeFds \cup {ServerFd} THEN fdt[cur] ELSE fdt[max]] = @ \o buf]
  /\ Written
  /\ UNCHANGED <<edition, life, net, rd, backlog, fdt, sets, todo>>

Write ==
  /\ pc = "write"
  /\ peer[fdt[cur]] \in {"open", "fin"}
  /\ echoed' = [echoed EXCEPT ![fdt[cur]] = @ \o buf]
  /\ Written
  /\ UNCHANGED <<edition, life, net, rd, backlog, fdt, sets, todo>>

\* The connection was reset after the words were read, and no write has told so.
Refused == pc = "write" /\ Failed(fdt[cur]) /\ cur \notin told

\* The result of write() is looked at by none of the editions.
WriteErrorIgnored ==
  /\ Refused
  /\ told' = told \cup {cur}
  /\ Written
  /\ UNCHANGED <<edition, life, net, rd, echoed, backlog, fdt, reads, unseen, max, todo>>

\* write() = -1.  "serial" does not look at the result, and reads on.
WriteError ==
  /\ Refused
  /\ IF edition = "serial"
       THEN told' = told \cup {cur} /\ UNCHANGED <<fdt, reads, unseen, max, todo>>
       ELSE Close(cur, todo)
  /\ Written
  /\ UNCHANGED <<edition, life, net, rd, echoed, backlog>>

\* The reset was reported before, or the peer had closed before it: EPIPE, and
\* SIGPIPE ends the process.
WritePipe ==
  /\ pc = "write"
  /\ peer[fdt[cur]] = "broken" \/ cur \in told
  /\ edition # "winsock"
  /\ ended' = fdt[cur]
  /\ Exit
  /\ UNCHANGED <<edition, net, rd, echoed>>

--------------------------------------------------------------------------------
Peer(p) ==
  \/ Connect(p)
  \/ \E word \in {Quit, Text} : Send(p, word)
  \/ \E how \in {"fin", "reset", "broken"} : Leave(p, how)

ServerStep ==
  \/ Select
  \/ ScanEnd
  \/ \E fd \in Fds : Accept(fd) \/ ReadEof(fd) \/ ReadError(fd)
  \/ \E fd \in Fds, n \in 1 .. MaxRead : Read(fd, n)
  \/ AcceptFails
  \/ Write
  \/ WriteError
  \/ WritePipe

Next == alive /\ (ServerStep \/ Interrupt \/ \E p \in Peers : Peer(p))

Spec == Init /\ [][Next]_vars

\* The one thread runs; nothing is assumed of the clients.
FairSpec == Spec /\ WF_vars(alive /\ ServerStep)

--------------------------------------------------------------------------------
(* Properties. *)

\* Types; a thread that is about to write has a connection and something to say.
TypeOK ==
  /\ edition \in Editions
  /\ alive \in BOOLEAN
  /\ ended \in Peers \cup {NoPeer}
  /\ peer \in [Peers -> {"new", "open", "fin", "reset", "broken"}]
  /\ \A p \in Peers : sent[p] \in Seq({Quit, Text}) /\ rd[p] \in 0 .. Len(sent[p])
  /\ backlog \in Seq(Peers)
  /\ fdt \in [Fds -> Peers \cup {NoPeer}]
  /\ reads \in Seq(Fds \cup {ServerFd})
  /\ unseen \subseteq Fds
  /\ max \in Fds \cup {ServerFd}
  /\ told \subseteq Fds
  /\ Range(todo) \subseteq Range(reads)
  /\ cur \in Fds \cup {ServerFd}
  /\ pc \in {"select", "scan", "write"}
  /\ pc = "write" <=> buf # <<>>
  /\ pc = "write" <=> cur # ServerFd
  /\ pc = "write" => fdt[cur] # NoPeer

\* The descriptor set, the open descriptors and max agree at every step of the
\* scan, in which descriptors are closed and handed out again.  A client that is
\* open and in no set is one that was accepted when the set was full; "serial"
\* waits for its one client or for the next, never for both.
Registered ==
  LET open == {fd \in Fds : fdt[fd] # NoPeer} IN
  /\ unseen \subseteq open
  /\ IF edition = "serial"
       THEN \/ reads = <<ServerFd>> /\ open = {}
            \/ \E fd \in Fds : reads = <<fd>> /\ open = {fd}
       ELSE Range(reads) = {ServerFd} \cup (open \ unseen) /\ IsInjective(reads)
  /\ edition = "linux" => \A fd \in Range(reads) : fd <= max
  /\ \A f, g \in Fds : fdt[f] = fdt[g] /\ f # g => fdt[f] = NoPeer

\* What a client gets back is what it sent, from the beginning, in order and
\* without a gap, whatever else the one thread does in between.
EchoesPrefix == \A p \in Peers : IsPrefix(echoed[p], sent[p])

\* SIGPIPE ends a server only if a client that had closed its side resets the
\* connection; or in "serial", which reads on when a write has failed, if a client
\* resets it while two words or more of it are still to be written back.  The
\* others close the connection when they learn of the reset.
PipeAfterReset ==
  ended # NoPeer =>
    /\ edition # "winsock"
    /\ \/ peer[ended] = "broken"
       \/ /\ edition = "serial"
          /\ peer[ended] = "reset"
          /\ rd[ended] >= Len(echoed[ended]) + 2

\* Whatever a connected client sends is read and, unless it was the command,
\* written back, and a connection that was reset is closed: also while the streams
\* of others have ended and are found readable again and again, or the scan passes
\* over it because the one before it was closed.  (What clients send has an end, so
\* that the server catches up with all of it.  A connection whose peer has closed
\* it is never closed, but in "serial": read() = 0 for ever.)
Behind(p) ==
  /\ \E fd \in Fds \ unseen : fdt[fd] = p
  /\ peer[p] = "reset" \/ (peer[p] = "open" /\ echoed[p] # sent[p])
CaughtUp == (\E p \in Peers : Behind(p)) ~> (\A p \in Peers : ~Behind(p))

\* Connections that wait are accepted while there are descriptors; where one
\* client is served after the other they wait for one that stays.
Accepted ==
  backlog # <<>>
    ~> \/ backlog = <<>> \/ FreeFds = {}
       \/ edition = "serial" /\ \E p \in Peers : Connected(p) /\ peer[p] = "open"
================================================================================
