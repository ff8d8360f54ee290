# A verification project for STU_LINUX_NETWORK

The repository is a course in socket programming that grows, directory by
directory, into a small framework: a message format, a parser that puts messages
together from pieces, a client and a server framework on top of it, a datagram
framework, a file server that answers browsers, and a few containers and string
functions. It has no documentation of its own; what it promises is in its comments
and in what its test programs do. This project models the parts that have state and
in which the order of things matters, checks them with TLC on small instances, and
proves the most important results with TLAPS for every value of the constants.

`PROJECT.json` holds the same information for tools: the components, the runs, the
map from every definition to the lines it stands for, the hazards, the theorems.

## 1. Inventory

### Message (10.message)
- *State*: none; a header of 12 bytes and a payload of `length` bytes.
- *Operations*: `Message_New`, `Message_Size`, `Message_N2H`, `Message_H2N`.
- *Used by* the parser, the client and the datagram framework.
- *Correct when* header and payload come out as they were put in.

### Message parser (11.msg_parser, two editions)
- *State*: `header` (is the header complete), `need` (bytes that still complete the
  header or the payload), the cache of the header, the message under way.
- *Operations*: `MParser_ReadMem` (from memory), `MParser_ReadFd` (from a
  descriptor, with `ToRecv` that retries short reads), `MParser_Reset`. The first
  edition has `ReadMem` only and waits for a whole header.
- *Used by* `TcpClient`, `UdpPoint`, the test programs.
- *Hard*: messages cut anywhere, also in the header; reads of 0 bytes counted per
  call; `malloc` failing between header and payload; lengths that no `int` can hold;
  further messages in one piece, of which `MParser_ReadMem` reads no byte.
- *Correct when* `need` is what its comment says at every point of a stream, so that
  messages come out whole, once each and in order.

### TCP client framework (12.tcp_client_frame)
- *State*: descriptor, parser, a data pointer for the user.
- *Operations*: `New`, `From`, `Connect`, `Close`, `Del`, `IsValid` (asks the kernel
  for the TCP state), `SendMsg`, `SendRaw`, `RecvMsg`, `RecvRaw`, `Available`.
- *Interacts* with the peer through the stream, with the parser by calls.
- *Hard*: errors and ends of the stream in the middle of a message; closing and
  connecting again with the same object, or connecting again without closing it, which
  keeps a parser that may be in the middle of a message.
- *Correct when* it is a channel of whole messages for each connection.

### TCP server framework (13.tcp_server_frame) and its example
- *State*: `client[]` by descriptor, `valid`, the listener `cb`; in `DoWork` the set
  `reads`, its copy `rset` and `max`; in the example a buffer for each client.
- *Operations*: `New`, `Start`, `Stop`, `SetListener`, `DoWork`, `Accept`, `Del`; the
  listener is called back with `EVT_CONN`, `EVT_DATA`, `EVT_CLOSE`.
- *Hard*: the scan works on a copy taken before the callbacks, while descriptors are
  closed and handed out again; the listener may stop the server in the middle of it;
  `accept` and `malloc` fail; peers leave between `select` and the test; a listener
  that blocks stops everybody.
- *Correct when* descriptor set, client array and open descriptors agree, each
  connection gets its events in order, and messages reach the listener.

### UDP framework (18.udp_frame)
- *State*: descriptor and one parser for all remote points.
- *Operations*: `New`, `SendMsg`, `RecvMsg` (which first looks at a datagram to learn
  its length, then takes it), `SendRaw`, `RecvRaw`, `Available`, options.
- *Hard*: lost, doubled and reordered datagrams of several senders; what arrives
  between the two calls; timeouts and missing memory between them; long datagrams;
  raw receives between two calls of `RecvMsg`, which take datagrams of the same socket.
- *Correct when* datagrams come out as messages of their own, under their sender.

### File server (23.file_server)
- *State*: `g_status`, shared without a lock by the console and the thread that accepts,
  beside which there is a thread for each connection; `g_root` and `g_handler`, which
  do not change; in an answer, the list of entries and the table.
- *Operations*: commands `start`, `pause`, `exit`; `Server_Thread`, `Process_Thread`;
  `RequestHandler` with a page for a directory, the file, or an error page.
- *Hard*: the console races with accepting; who owns a client; browsers that leave at
  any time (a second send raises SIGPIPE); requests that arrive in pieces or are longer
  than what is looked at; the
  descriptor table filling up; the path being looked at three times while it is renamed;
  directories that change while they are read, twice, for one page; files written to
  while they are sent.
- *Correct when* every client has one owner, requests are answered whole, the status is
  true, the answer fits what the path named, and a page lists what was there.

### Echo servers without the framework
Three programs of one shape: the select server for Linux (7.select-server, and in 14
msg_oob), the one for Winsock (9.Win_Select), whose descriptor set is an array that closing
compacts, and the one that serves one client after the other (3.echo_server_client).
- *State*: `reads`, `max`, the scan; *operations*: accept, echo, close on the command `quit`.
- *Hard*: the end of a stream is not noticed (`read` = 0 is not -1), so that such a
  connection is found readable for ever; a send that failed is not noticed by the serial
  one, and the next raises SIGPIPE; reads merge what was sent; in Winsock the scan runs
  over an array that grows and shrinks meanwhile, and a client more than fits is in no set.
- *Correct when* what is read is echoed to the client it came from, everybody is served
  and accepted, and the set is right while descriptors are closed and reused.

### Address manager, list and utilities (19.client_base)
- *State*: a doubly linked list of command and address. *Operations*: `AddrMgr_Add`,
  `Find`, `Remove`, `Clear`; `FormatByChar`, `DivideByChar`, `CharCount`.
- *Hard*: raw pointers; a key that is cut when stored, perhaps to another that is used,
  and compared whole; `malloc` failing.
- *Correct when* the list is one ring, the manager a book, and a line is divided into
  its words.

### Not modelled
- Sequential demonstrations of single calls (1, 2, 4 to 6, 14 but for the select server, 15
  to 17, 21, 22), the unframed client and server of 10.message, the example of 18.udp_frame,
  and 20.client_input, all of which is commented out: they keep no state from which one
  step could disturb another.
- network_test of the parser keeps one parser for all its clients: that is the connection
  opened over a broken one of `TcpClient`, and no module of its own.
- `Malloc2d` and `Free2d` (one block with row pointers into it, two lines each), the
  functions of the vendored `list.h` that addr_mgr.cpp does not call, and the urgent data
  of msg_oob, which is printed and dropped.
- The last 12 lengths below 2^32, for which the size in `malloc(sizeof(cache) + need)` wraps
  to 0..11, so that it may succeed and the header is written to less than its size. Other
  lengths of 2^31 or more are negative as the `int` that `need` is, and find no memory.
- Descriptors of `FD_SETSIZE` or more, for which `FD_SET` on Linux writes behind the set
  (and `client[]` has no place): the process is taken to have fewer.
- Messages whose index and total are not those of a series: what the example server does
  with them is decided by the wire, and nothing in the repository sends them.
- Text: HTML, paths, links, dates, the digits of numbers.

`PROJECT.json` lists each component with its status and its reason.

## 2. The modules

| module | models | state and actions |
|---|---|---|
| `MsgParser` | the second edition's parser | operators on a parser record: `NewParser`, `Fill`, `AfterHeader`, `ReadMem`, ... A byte is whatever the user of the module says; a decoded length comes from a set |
| `FrameChannel` | abstract: what a client promises | frames sent, taken and handed out; `torn` once the object has lost its place in the stream, after which anything may be handed out until it is closed |
| `TcpClient` | tcp_client.cpp with `ReadFd`, one `read()` at a time | link, stream positions `wr`/`rd`, parser, place in the call; actions for connect, connect again over a broken link, close, each outcome of `read()`, missing memory, the peer |
| `MemReader` | a caller of `MParser_ReadMem`, with pieces that may reach through several messages, `malloc` failing or not | position in the stream, parser, messages returned, `refused` (those without memory), `astray` when the end of a piece was dropped in the middle of a message |
| `FirstParser` | the first edition beside it, given the same pieces, with `malloc` failing at other moments | the other parser, its messages, those without memory |
| `DatagramService` | abstract: what a datagram point promises | queue, handed out, dropped |
| `UdpPoint` | udp_point.cpp with `ReadMem` | network, socket queue, parser, place between the two calls; `UdpPoint_RecvRaw` between two whole calls of `UdpPoint_RecvMsg` |
| `TcpServer` | tcp_server.cpp and the listener of server.cpp | kernel (backlog, descriptors), server (`client`, `reads`, `max`, `todo`), the thread's place; one action for each outcome of each step of `SelectHandler`; `denied`, the peers `malloc` had nothing for |
| `FileServer` | main.cpp and the sends of response.cpp | console, acceptor, a thread for each connection, browsers that send their request in pieces, also more than are looked at, close and reset |
| `Listing` | `MakeHTML`, `GetEntry`, `SortFileEntry` and page.cpp | the directory on disk, the pass, the list and its capacity, the rows |
| `Response` | `RequestHandler` and its three handlers; extends `Listing` for the page | what the path names and the file's size, which others change; the place in the handler; what was sent |
| `SelectEcho` | the echo servers, in the editions "linux", "winsock" and "serial" | kernel, `reads` in the order of the scan, `max`, the scan, the buffer, `told` (a write has failed there) |
| `AddrBook` | abstract: a book of commands | book, number of entries of commands that nothing longer is cut to |
| `AddrMgr` | addr_mgr.cpp with list.h | nodes with their pointers |
| `Utility` | utility.cpp | operators with a recursive function for each loop, and the reference: the places where the words of a line begin and end |
| `ClientBase` | a program that uses both | composes `AddrMgr` and `Utility`; the line divided last |

`TcpClient`, `MemReader` and `UdpPoint` extend `MsgParser`; `FirstParser` extends
`MemReader` and `Response` extends `Listing`, which has no specification of its own.
`TcpClient` implements `FrameChannel`, `UdpPoint` implements `DatagramService`, `AddrMgr`
implements `AddrBook`; the refinement mappings are the instances `Channel`, `Service` and
`Book`. `MC*.tla` and `MC*.cfg` are the instances for TLC, `*Proofs.tla` the proofs.

How the code becomes actions. A step of a model is what one thread does up to the
next point where somebody else can change what it sees: a system call, a callback, a
variable shared between threads. In `TcpClient` that is one `read()`; in `TcpServer` one
step of the scan, with the callback's own reads as steps; in `FileServer` a test of
`g_status` or of the connection, or one send; in `Listing` and `Response` one `readdir()`,
`stat()`, `open()` or `read()`.
`MParser_ReadMem`, `AddrMgr_*` and the string functions touch nobody else's data and
are one step. Bytes are pairs or numbers that say where they come from, so that a
byte in the wrong place is seen; what bytes that are no header decode to is left open
(`GarbageLens`). Operators next to an action that do the same with one thing wrong
(`CloseKeepsRead`, `WriteToMax`, ...) are used by no specification: they are mistakes
that the properties are tested against, listed under `mutants`.

## 3. The runs

| run | question | result |
|---|---|---|
| `tcp_client` | Do parser and stream agree on where a message begins, for streams cut anywhere, with errors, ends, missing memory, closing or not before connecting again? Does the client implement the channel? Do messages arrive, do calls return? | yes: `TypeOK`, `NeedExact`, `ImplementsChannel`, `FrameDelivered`, `CallReturns`, all but `CallReturns` and `TypeOK` until the parser is torn from the stream |
| `tcp_server` | Three peers, two descriptors, series of two messages, `malloc` failing: do the records of a connection agree, do events come in order, are series put together whole and inside their buffers? | yes: `TypeOK`, `Registered`, `PrintedWhole`, `EventOrder` |
| `tcp_server_live` | Two peers with one series after the other: is every message received, every connection of a leaver closed, does a stopped server end? | yes: `NoCrash`, `MessageServed`, `LeaversClosed`, `StopEnds` |
| `tcp_server_stray` | Is the listener called with clients only? | no: when `accept` fails, `client[-1]` is used (`OnlyClients`) |
| `udp_point` | Datagrams lost, doubled, reordered, with failures between the two calls of a receive and raw receives between whole ones: is each a message of its own, under its sender? | yes: `TypeOK`, `BetweenMessages`, `ImplementsService`, `EachReturned` |
| `udp_point_long` | Is the sender that is reported the sender of the whole message? | no, for a datagram longer than the peek buffer (`SenderReported`) |
| `msg_parser_memory` | Messages in memory in pieces of all lengths, within a message and across several, `malloc` failing: is `need` exact, is each returned by the piece that ends it, do the editions agree? | yes: `NeedExact`, `ReturnedInTime` (for messages that found memory), `EditionsAgree` (for whole headers, messages with a payload and memory in the first edition); all of them until a piece ends in the middle of a message it does not read |
| `file_server` | Who owns a connection, is the status true, what does pause mean, with everything failing that can? | yes: `StatusTrue`, `Owned`, `PauseHolds`, and a browser can end the server in two ways only, `PipeInDownload` |
| `file_server_live` | Is each request answered whole, and if it is no longer than 2048 bytes with nothing left unread that would reset the connection, does each thread end? | yes: `RequestAnswered`, `ThreadsEnd` |
| `response` | Which answer does a path get that is renamed while it is looked at, is a page right while the directory changes and memory is short, is a file sent with its length, and whole unless a read fails? | yes: `TypeOK`, `WithinCapacity`, `PageTrue`, `AnswerFits`, `LengthTrue` |
| `select_echo` | Is everything echoed to whom it came from, and everybody accepted, while others end, reset and are found readable for ever, in all three editions, and who can end the server? | yes: `TypeOK`, `Registered`, `EchoesPrefix`, `CaughtUp`, `Accepted`; a client can in two ways, `PipeAfterReset` |
| `client_base` | Is the list a ring, the manager a book, also when a command is cut to another one, a line divided into its words, and into none without memory? | yes: `Linked` (with the types), `ImplementsBook`, `Divided` |

Deadlock is not checked: connections, messages, requests and changes are bounded, so
every model really comes to an end in which nobody has anything left to do; the file
server and the select servers also end by themselves.

### Bounds
- `tcp_client`: two frames, the second without a payload, a header of two bytes, two
  connections, two retries, two errors, `malloc` that may fail: each read can end before,
  in and after the header and the payload, and a second connection can follow at any
  point, closed before or not. Bytes that are no header decode to lengths 0, 3 and 9.
- `tcp_server`: three peers on two descriptors, so that `accept` fails and descriptors
  are used again while another connection is up; two messages are one series. The live
  run has series of one message, so that a second one follows a finished one, whose
  buffer was freed. `malloc` may fail for any client and any buffer in `tcp_server`, so that
  descriptors without a client lie between others; in the live run it does not, for
  nothing is promised to a client without memory.
- `udp_point`: three messages, two senders, each datagram up to twice, one failure, a
  socket for two, so that a third is lost; a raw buffer of three bytes takes some datagrams
  whole and cuts others; `udp_point_long` has a payload that does not fit in the peek buffer.
- `msg_parser_memory`: a header of three bytes, so that it can be cut twice; payloads of 2,
  1, 0 and 1, so that messages with and without a payload follow one that ends in a piece;
  `malloc` may fail for any message in either edition. Bytes that are no header decode to 1
  or to 9, which is negative in the model's `int` of four bits, as it is in the runs of
  `tcp_client` and `udp_point`.
- `file_server`: two browsers, whose requests have two pieces of which one fits in what is
  looked at, three descriptors, so that `accept` and `open` meet the
  limit, files of two blocks, so that there is a send after the one that failed, two
  sockets lost to starts that fail. `file_server_live`: enough descriptors and no failing
  calls, without which no answer is promised, files of one block; one browser has a
  request of three pieces of which two fit, the other of one, so that all of a request, a
  part, and as much as fits may have arrived when it is looked at.
- `response`: "." and two entries of every type, one change to the directory and two to
  the path or the file, at any moment, so that a path may go and come back; a list that
  grows by two, so that it grows once or twice and is full in between; files of up to four
  blocks with an `int` that ends below four, so that one file is too long for it.
- `select_echo`: three clients, one of which sends two words that may be read at once or one
  by one; two descriptors with a gap, so that they are used again and `max` is not the
  last one; for Winsock three, in a set with room for two besides the server.
- `client_base`: three nodes, two commands that fit, one that is cut to one of those and one
  that is cut to no other, two addresses, so that an older entry comes to light when the one
  that hid it is removed; all lines of up to three characters and six longer ones, into two
  rows and three columns, so that words are cut and left over and separators stand twice
  between words and at both ends.

`SYMMETRY` is used for peers, browsers, nodes and addresses, in runs without liveness.

### Fairness
- `TcpClient`: weak fairness of the application's calls while the client is valid
  (12.tcp_client_frame/server.cpp calls `RecvMsg` in a loop until it is not) and of the
  reads of a call (the thread runs). Nothing is assumed of the peer.
- `TcpServer`: weak fairness of the server's only thread, and that a peer which began a
  message sends the rest (12.tcp_client_frame/client.cpp writes a message with one
  call). Without the second a peer that stops in the middle of a message stops the whole
  server, for the listener blocks in its read: that is so in the code and the reason why
  the assumption is stated.
- `UdpPoint`: weak fairness of the receiver; `EachReturned` starts when everything
  has arrived, so that nothing is assumed of the network.
- `FileServer`: weak fairness of each thread; what is typed and what browsers do is free.
- `SelectEcho`: weak fairness of the one thread. Clients send a bounded number of words,
  so that the server can catch up with all of them.

### What the models contain that no property promises
These are defects or limits of the code which the models show and which no
comment denies, so that they are not reported as findings:
- `SelectHandler` takes every state but ESTABLISHED for disconnected: a peer that sends
  and closes at once loses the messages that were not read yet (`CloseEvent`;
  `MessageServed` excepts peers that leave).
- A connection for which `TcpClient_From` has no memory stays open for good, without a
  client (`Orphan` in `TcpServer`); a series whose buffer finds no memory ends the server
  (`NoCrash` names it).
- A browser that leaves before an answer is chosen for it leaks its client and descriptor,
  also when its request had arrived, and so does a thread that cannot be made (`Owned`
  names the cases); one that resets during a download, or after it had closed its side,
  ends the whole server with SIGPIPE (`PipeInDownload` says that there are no other ways). A request whose second piece
  comes late, or that is longer than 2048 bytes, is answered after its first part, and what
  is left of it unread makes `close()` reset the connection (`RequestAnswered` excepts it).
- `TcpClient_Connect` over a broken connection keeps the parser, and a `malloc` that fails
  after a header was read loses the place in the stream: both are `torn`, from which
  only `TcpClient_Close` recovers.
- `MParser_ReadMem` drops what follows the first message that a piece completes, or a header
  whose message finds no memory (`astray` if the piece does not end with a message).
- A start that fails after `bind` loses the socket and with it the port (`StartFails`).
- Select servers never close a connection whose stream has ended (`ReadEof`); the serial one
  ends when `accept` fails (`AcceptFails`) and by SIGPIPE when it sends twice to a client that
  has reset (`PipeAfterReset` names the cases; 8.WinSock is the same loop without signals);
  a client that Winsock's set has no room for is connected and never heard (`unseen`).
- A path that becomes a directory between `GetEntryCount` and `open` gets a head with a
  length that is none and no body, also when it was a directory before and was only away
  while it was counted (`AnswerFits`); an `int` counts the bytes of a file, so that from 2 GB
  on the length is wrong (`LengthTrue` names both).
- Commands longer than 47 characters are stored again at each `AddrMgr_Add` and never
  found; a command of 47 characters that is the beginning of one finds the address of that
  one then, until it is removed (`AddrBook`: a `Write` or `Strike` of a command that is not
  in `Own`).
- An entry whose file system gives no type is not listed (kind "other"); without memory
  for a row the page silently lacks it.

## 4. What is proved

`TcpClientProofs` (any number of frames and connections, any header size, payload
lengths and bounds):
- `TypeCorrect`: `Spec => []TypeOK`, with or without memory. `TypeInv` is `TypeOK` with
  the messages as a set, and is inductive by itself: it holds the bounds of `need` and of
  what was read, so that `ToRecv` never stores outside the region it fills.
- `NeedIsExact`: `Spec => []NeedExact`, with or without memory. `NeedExact` says where the
  part being parsed ends, unless the parser is torn from the stream; it is not inductive,
  since it does not say which bytes the parser holds, and thus not which length they
  decode to. `InSync` says both: the next byte of the stream belongs to frame number
  `frames`, right behind the bytes that the cache or the payload already holds. `Sync` is
  `InSync` unless torn, and `TcpClient_Close` makes `InSync` true again.
- `Implements`: `Spec => ImplementsChannel`, from `Sync`: each step of the client is a step of
  the channel or leaves it unchanged.

`TcpServerProofs` (any peers, any descriptors above the server's, any number of
messages), in layers of which each uses the ones before:
- `TypeCorrect`: `Spec => []TypeOK` from `TypeInv`, which adds where the thread can be (a
  callback's descriptor has a client; `accept` is called while a connection waits), and
  that index is -1 only after an `accept` that failed, which with a listener was a crash.
- `RegisteredHolds`: `Spec => []Registered`, with or without memory, from `Owned` (a connection
  has one descriptor or one place in the backlog) and `Registry` (the records agree, and a
  descriptor without a client belongs to a peer for which `malloc` returned null).
- `EventOrderHolds`: `Spec => EventOrder`, with or without memory, from `Staged`, which
  says which callbacks a connection has had by where it is.
- `PrintedWholeHolds` and `NoCrashHolds`: `Spec => []PrintedWhole` and `Spec => []NoCrash`, with
  or without memory, from `Whole`: nothing is read of a connection before `accept` (`Fresh`,
  without which a first message might not begin a series), a client in the middle of a
  series has a live buffer with the messages of it so far (`Buffered`), and each series that
  is over was printed (`Printed`). The index of a message in its series is a remainder;
  `Division`, `Quotient` and `NextMessage` are what the proof needs of it.

`FileServerProofs` (any number of browsers, descriptors and blocks, with calls that fail or
not), from one invariant whose parts are preserved one after the other:
- `TypeCorrect`: `Spec => []TypeOK`, which needs `Running` (a start finds no client in the
  hands of a thread that does not run). The other parts use it; no run checks it.
- `StatusIsTrue`: `Spec => []StatusTrue`, from `Running`, which also says what holds between
  `pthread_create` and the end of `Start_Handler`, where the status is still STOP.
- `PauseHoldsAlways`: `Spec => []PauseHolds`, from `Pausing`: a second thread would need a
  second test of the status after the pause.
- `OwnedHolds`: `Spec => []Owned`, from `Lined` (a browser waits for `accept()` once and has
  neither client nor thread then) and `Answering` (nothing is answered before the request).
- `PipeOnlyInDownload`: `Spec => []PipeInDownload`, from `Piping`: after a send that failed
  there is another one only behind the head of a file.

`UdpPointProofs` (any messages, senders, copies and failures, with raw receives between those of
messages) when no datagram is longer than what `UdpPoint_RecvMsg` looks at (`Fits`; 4096 bytes in the
code). For a longer one it is false, as `udp_point_long` shows.
- `BetweenMessagesHolds`: `Spec => []BetweenMessages`. `UdpInv` adds that the length which was
  looked at is that of the datagram at the head of the queue, also when others have
  arrived since; `Whole` is what `MParser_ReadMem` makes of a whole datagram.
- `Implements`: `Spec => ImplementsService`, from `UdpInv`: a receive is a `Take` or, without
  memory, a `Drop`; `Same` says that what is returned belongs to one message.
- `TypeCorrect`: `Spec => []TypeOK`, without `Fits`. `TypeInv` adds `Sound` (the parser misses no
  more than the region that it fills, also between the two calls, with a datagram cut off
  or a header that is none, its length negative as an `int` or not) and the bounds of
  copies and failures.

`ResponseProofs` (directories, files and `int`s of any size, any `STEP`, any number of
changes, calls that fail):
- `WithinCapacityHolds`: `Spec => []WithinCapacity`, from `Room`: the list is empty before a pass
  and holds no more than its limit in it.
- `TypeCorrect`: `Spec => []TypeOK`, which says that no entry is listed twice and that the
  limit of the list is at most one `STEP` beyond what it holds, from `Distinct` (an entry is
  listed only after it was read) and `Placed`.
- `AnswerFitsAlways`: `Spec => []AnswerFits`, from `Fitting`, which says for each place in the
  handlers what is known of the path when nothing has failed.
- `LengthTrueHolds`: `Spec => []LengthTrue`, from `Sending`, which says for each place in
  `FileReqHandler` how far the file was read and sent; a read that failed ends it short.
- `PageTrueHolds`: `Spec => []PageTrue`, from `Faultless`: as long as nothing failed the rows
  are in order (`Shown`), complete and exact for what no change touched, for the folders
  once their pass is over (`Complete`), and the list of the pass under way has what was
  read (`Collected`, `Listed`). It rests on lemmas that `SortFileEntry` sorts what it is
  given (`MinFromIs`, `SwapParts`, `RoundParts`, `SortedParts`), by induction on its rounds.

`SelectEchoProofs` (the three editions, any clients, descriptors, words and size of a set),
from one invariant: `TypeCorrect`, `RegisteredHolds` and `EchoesPrefixHolds`, that is `Spec =>`
`[]TypeOK`, `[]Registered` and `[]EchoesPrefix`. `Registered` is inductive beside `Typed`, `Lined`
(a client waits once, and has no descriptor then) and `Scanning` (what is still to be
scanned is in the set; in Winsock's array, which moves under the scan, in its rest).
`EchoesPrefix` needs `Echoing`: what was read and not written back is in the buffer, and the
thread writes it to whom it came from. `PipeAfterResetHolds`, `Spec => []PipeAfterReset`, needs
  `Telling`: a connection that a write has failed on is open still in the serial edition only,
  and what it failed to write was not echoed (`Owed`). `Kept`, what is left of an array when descriptors
are cleared, is known by induction on the array.

`FirstParserProofs` (any stream of messages and headers of any size, cut in any way, `malloc`
failing or not):
- `NeedExactHolds` and `ReturnedInTimeHolds`: `Spec => []NeedExact` and `Spec => ReturnedInTime`,
  from `StreamInv`: unless the caller went astray, the parser holds byte for byte what the
  stream has between the start of a message and the position (`Held`, `Place`). One lemma for
  each branch of `MParser_ReadMem` carries it on.
- `EditionsAgreeHolds`: `SpecBoth => []EditionsAgree`, from `BothInv`, which says the same of the
  first edition's parser for whole headers and messages with a payload that find memory.

`ClientBaseProofs` (any nodes, commands, addresses and lines, `malloc` failing or not):
- `LinkedHolds`: `Spec => []Linked`. `Linked` says what walks through the list come to, which is
  not inductive; `Ring` is: the allocated nodes can be numbered so that `next` and `prev`
  lead from each number to its neighbours. What a walk comes to follows from `Ring` by
  induction on its steps (`At`, `Entry`).
- `ImplementsBookHolds`: `Spec => ImplementsBook`, from `Ring` and `Unique` (two entries have two
  commands, unless something longer is cut to theirs): `AddrMgr_Find`, which walks, finds the
  entry with the lowest number of those with the command (`Foremost`), which an entry added at
  the head changes for its own command only, and one removed likewise.
- `DividedHolds`: `Spec => []Divided`, for lines of any length; without memory for the copy there
  are no words. Else the proof numbers the words and
  notes where each begins and ends, in the line (`Parts`) and in what `FormatByChar` leaves
  of it (`Tight`: one separator between two words, none at the ends). The first loop makes
  the one from the other, character by character (`Copied`: nothing, a separator, the next
  or the first character of a word is copied); of what it leaves the second takes the
  words out again (`DividedParts`). `WordsAreParts` says that the numbered parts are the
  words which `Divided` asks for.

The assumptions on the constants are the `ASSUME`s of the modules (layout of the frames,
values that are no messages, descriptors that are numbers above the server's, a finite
set of browsers, lengths for which no size wraps to less than a header, commands that are cut
to something that fits); TLC evaluates them in the runs. The models themselves take three
things as given: `readdir()` returns a name once in a pass (POSIX leaves open whether it
returns one again that was removed and added meanwhile), a freed client's descriptor reads as
none (`Freed` in `FileServer`), and descriptors are below `FD_SETSIZE`.

Induction, where a proof needs it (sorting, walks, clearing a set, the loops over a line), is stated about sets of
numbers instead of predicates: the least number that is not in the set is what the library's
`WFMin` gives for `NatLessThanWellFounded`. Recursive definitions are functions.

Only model-checked: the liveness properties, for which TLAPS has no means (`FrameDelivered`,
`CallReturns`, `MessageServed`, `LeaversClosed`, `StopEnds`, `EachReturned`, `RequestAnswered`,
`ThreadsEnd`, `CaughtUp`, `Accepted`). Every other property of the runs that pass is a theorem.

## 5. Plan

Done: the parser, its callers and the frames on it; the server with its listener; the
datagram point; the file server, its answers and its pages; the echo servers; the address
manager and the utilities; proofs of every safety property and refinement that the runs
check. The code that is left is listed under "Not modelled" with the reasons.

Next: shorter proofs where two modules have the same argument (the parser in
`TcpClientProofs`, `UdpPointProofs` and `FirstParserProofs`), and the action properties that
the inductive invariants already give.
