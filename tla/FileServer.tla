------------------------------- MODULE FileServer -------------------------------
(***************************************************************************)
(* 23.file_server: the console thread with the commands start, pause and   *)
(* exit, the thread that accepts connections, one thread for each of them, *)
(* and the g_status they share.  A browser connects, sends its request in  *)
(* one piece or more, and leaves when it likes.                            *)
(*                                                                         *)
(* An answer is a page, sent with one SendRaw, or a file, sent with one    *)
(* SendRaw for the head and one for each block that is read.               *)
(***************************************************************************)
EXTENDS Integers, Sequences, FiniteSets

CONSTANTS
  Clients,         \* browsers, each connects at most once
  MaxFds,          \* descriptors the process has for connections and files
  Works,           \* malloc, pthread_create and bind never fail
  Blocks,          \* blocks of BUF_SIZE bytes in a file
  Pieces,          \* bound: pieces in the request of each
  PeekSize,        \* as many of them fit in the 2048 bytes of TcpClient_Available
  MaxLost,         \* bound: server sockets lost to starts that failed
  NoOne            \* no client

ASSUME LimitAssumption ==
  /\ MaxFds \in Nat
  /\ Works \in BOOLEAN
  /\ Blocks \in Nat
  /\ Pieces \in [Clients -> Nat]
  /\ PeekSize \in Nat \ {0}
  /\ MaxLost \in Nat
  /\ NoOne \notin Clients
  /\ IsFiniteSet(Clients)

VARIABLES
  alive,      \* the process runs
  pipe,       \* connection whose send raised SIGPIPE, or NoOne (history)
  status,     \* g_status: "STOP", "RUN" or "PAUSE"
  late,       \* threads made while the server is paused (history)
  con,        \* console thread: "prompt", or "started" before the end of Start_Handler
  listening,  \* a socket of the process listens at the port
  lost,       \* server sockets that belong to no server any more
  srv,        \* Server_Thread: "none", "accept", "accepted", "create"
  held,       \* client in Server_Thread
  backlog,    \* connections waiting for accept()
  peer,       \* browser: "new", "open", "fin" (has closed its side), "reset", or
              \* "broken" (reset after it had closed its side)
  wr,         \* pieces of its request that have arrived
  left,       \* pieces of it that had arrived and that DoResp did not take (history)
  obj,        \* its TcpClient: "none", "live", "deleted"
  th,         \* its Process_Thread: "none", "check" (while), "avail" (TcpClient_
              \* Available), "respond", "delete", "freed" (while, after the
              \* client was deleted), "end"
  plan,       \* SendRaw calls its answer takes
  out,        \* SendRaw calls made
  err         \* one of them has returned -1

console == <<status, late, con, listening, lost>>
acceptor == <<srv, held, backlog>>
browser == <<peer, wr>>
life == <<alive, pipe>>
answer == <<plan, left, out, err>>
process == <<th, answer>>
vars == <<life, console, acceptor, browser, obj, process>>

--------------------------------------------------------------------------------
Init ==
  /\ alive = TRUE
  /\ pipe = NoOne
  /\ status = "STOP"
  /\ late = 0
  /\ con = "prompt"
  /\ listening = FALSE
  /\ lost = 0
  /\ srv = "none"
  /\ held = NoOne
  /\ backlog = <<>>
  /\ peer = [c \in Clients |-> "new"]
  /\ wr = [c \in Clients |-> 0]
  /\ left = [c \in Clients |-> 0]
  /\ obj = [c \in Clients |-> "none"]
  /\ th = [c \in Clients |-> "none"]
  /\ plan = [c \in Clients |-> 0]
  /\ out = [c \in Clients |-> 0]
  /\ err = [c \in Clients |-> FALSE]

\* Connections, the files that are being sent, and server sockets.
SendsFile(c) == th[c] = "respond" /\ plan[c] > 1
OpenFds == Cardinality({c \in Clients : obj[c] = "live"})
           + Cardinality({c \in Clients : SendsFile(c)})
           + lost + (IF listening THEN 1 ELSE 0)

\* What malloc, pthread_create and bind (when this process has not got the port)
\* may answer.
Outcomes == IF Works THEN {TRUE} ELSE BOOLEAN

FdFree == OpenFds < MaxFds
Closed(c) == peer[c] \in {"reset", "broken"}

--------------------------------------------------------------------------------
(* The console thread, Run. *)

\* Start_Handler of a server that is stopped, as far as pthread_create.
StartServer(created) ==
  /\ con = "prompt"
  /\ status = "STOP"
  /\ ~listening
  /\ FdFree
  /\ listening' = TRUE
  /\ con' = IF created THEN "started" ELSE "prompt"
  /\ srv' = IF created THEN "accept" ELSE srv
  /\ UNCHANGED <<life, status, late, lost, held, backlog, browser, obj, process>>

\* The port is in use, perhaps by a server of this process whose thread could
\* not be made, or there is no descriptor for a socket: status stays STOP.  A
\* socket that could not be bound stays open.
StartRefused(next) ==
  /\ con = "prompt"
  /\ status = "STOP"
  /\ listening \/ ~Works \/ ~FdFree
  /\ lost < MaxLost
  /\ lost' = IF FdFree THEN lost + 1 ELSE lost
  /\ status' = next
  /\ UNCHANGED <<life, late, con, listening, acceptor, browser, obj, process>>

StartFailsUnnoticed == StartRefused("RUN")                   \* err is not set
StartFails == StartRefused("STOP")

\* TcpServer_New returns null, and TcpServer_Start uses it.
StartNoMemory ==
  /\ con = "prompt"
  /\ status = "STOP"
  /\ ~Works
  /\ alive' = FALSE
  /\ UNCHANGED <<pipe, console, acceptor, browser, obj, process>>

\* g_status = RUN, at the end of Start_Handler or at once if it was not STOP.
StartDone ==
  /\ con = "started" \/ (con = "prompt" /\ status # "STOP")
  /\ status' = "RUN"
  /\ late' = 0
  /\ con' = "prompt"
  /\ UNCHANGED <<life, listening, lost, acceptor, browser, obj, process>>

Pause_Handler ==
  /\ con = "prompt"
  /\ status = "RUN"
  /\ status' = "PAUSE"
  /\ UNCHANGED <<life, late, con, listening, lost, acceptor, browser, obj, process>>

Exit_Handler ==
  /\ con = "prompt"
  /\ alive' = FALSE
  /\ UNCHANGED <<pipe, console, acceptor, browser, obj, process>>

--------------------------------------------------------------------------------
(* Server_Thread. *)

\* TcpServer_Accept; the connection is closed if there is no memory for a client.
\* Without a free descriptor it returns null and the loop goes on.
TcpServer_Accept(ok) ==
  /\ srv = "accept"
  /\ backlog # <<>>
  /\ FdFree
  /\ backlog' = Tail(backlog)
  /\ obj' = [obj EXCEPT ![Head(backlog)] = IF ok THEN "live" ELSE "deleted"]
  /\ held' = IF ok THEN Head(backlog) ELSE NoOne
  /\ srv' = IF ok THEN "accepted" ELSE "accept"
  /\ UNCHANGED <<life, console, browser, process>>

ServeOr(refused) ==
  /\ srv = "accepted"
  /\ IF refused
       THEN obj' = [obj EXCEPT ![held] = "deleted"] /\ held' = NoOne /\ srv' = "accept"
       ELSE srv' = "create" /\ UNCHANGED <<obj, held>>
  /\ UNCHANGED <<life, console, backlog, browser, process>>

DecideRunning == ServeOr(status # "RUN")                     \* RUN == g_status
DecideNever == ServeOr(FALSE)                                \* only client is tested
\* PAUSE != g_status
Decide == ServeOr(status = "PAUSE")

\* pthread_create, whose result is not looked at.
Create(created) ==
  /\ srv = "create"
  /\ th' = IF created THEN [th EXCEPT ![held] = "check"] ELSE th
  /\ late' = IF created /\ status = "PAUSE" THEN late + 1 ELSE late
  /\ held' = NoOne
  /\ srv' = "accept"
  /\ UNCHANGED <<life, status, con, listening, lost, backlog, browser, obj, answer>>

--------------------------------------------------------------------------------
(* Process_Thread and DoResp. *)

GoOnWhile(c, valid) ==
  /\ th[c] = "check"
  /\ th' = [th EXCEPT ![c] = IF valid THEN "avail" ELSE "end"]
  /\ UNCHANGED <<life, console, acceptor, browser, obj, answer>>

CheckNotReset(c) == GoOnWhile(c, ~Closed(c))                 \* CLOSE_WAIT is taken for valid
\* while (TcpClient_IsValid(arg)): the thread of a connection that is not
\* established ends, and its client is not deleted.
Check(c) == GoOnWhile(c, peer[c] = "open")

Unread(c, next) ==
  /\ th[c] = "avail"
  /\ wr[c] = 0
  /\ th' = [th EXCEPT ![c] = next]
  /\ UNCHANGED <<life, console, acceptor, browser, obj, answer>>

NothingYetEnds(c) == Unread(c, "end")                        \* if for while
\* TcpClient_Available: nothing to read, and the loop goes on.
NothingYet(c) == Unread(c, "check")

TakeOne(c) == 1                                              \* a buffer for one piece
\* TcpClient_RecvRaw of what TcpClient_Available has seen, 2048 bytes at most.
Take(c) == IF wr[c] < PeekSize THEN wr[c] ELSE PeekSize

\* What was taken is the request, and RequestHandler chooses the answer.  A page
\* for a path that exists and a file need a descriptor to be read; without it, or
\* without memory, nothing is sent.
Request(c, calls) ==
  /\ th[c] = "avail"
  /\ wr[c] > 0
  /\ calls > 1 => FdFree
  /\ calls = 0 => ~FdFree \/ ~Works
  /\ left' = [left EXCEPT ![c] = wr[c] - Take(c)]
  /\ plan' = [plan EXCEPT ![c] = calls]
  /\ th' = [th EXCEPT ![c] = IF calls = 0 THEN "delete" ELSE "respond"]
  /\ UNCHANGED <<life, console, acceptor, browser, obj, out, err>>

\* No memory for buf or req: the client is deleted and nothing is received.
NoBuffer(c) ==
  /\ th[c] = "avail"
  /\ wr[c] > 0
  /\ ~Works
  /\ left' = [left EXCEPT ![c] = wr[c]]
  /\ th' = [th EXCEPT ![c] = "delete"]
  /\ UNCHANGED <<life, console, acceptor, browser, obj, plan, out, err>>

\* TcpClient_SendRaw of the next part
SendRaw(c) ==
  /\ th[c] = "respond"
  /\ out[c] < plan[c]
  /\ ~Closed(c)
  /\ out' = [out EXCEPT ![c] = @ + 1]
  /\ UNCHANGED <<life, console, acceptor, browser, obj, th, plan, left, err>>

\* Blocks are sent whatever became of the head.
SendFailsOn(c) ==
  /\ th[c] = "respond"
  /\ out[c] < plan[c]
  /\ peer[c] = "reset"
  /\ ~err[c]
  /\ err' = [err EXCEPT ![c] = TRUE]
  /\ out' = [out EXCEPT ![c] = @ + 1]
  /\ UNCHANGED <<life, console, acceptor, browser, obj, th, plan, left>>

\* The connection was reset: the first send() returns -1 (ECONNRESET).  Without the
\* head there are no blocks to send; a block that was not sent is only not counted.
SendFails(c) ==
  /\ th[c] = "respond"
  /\ out[c] < plan[c]
  /\ peer[c] = "reset"
  /\ ~err[c]
  /\ err' = [err EXCEPT ![c] = TRUE]
  /\ out' = [out EXCEPT ![c] = IF @ = 0 THEN plan[c] ELSE @ + 1]
  /\ UNCHANGED <<life, console, acceptor, browser, obj, th, plan, left>>

\* Another block after that, or any part on a connection that was reset after the
\* browser had closed its side (EPIPE): the signal SIGPIPE, which is not handled,
\* ends the process.
SendPipe(c) ==
  /\ th[c] = "respond"
  /\ out[c] < plan[c]
  /\ err[c] \/ peer[c] = "broken"
  /\ alive' = FALSE
  /\ pipe' = c
  /\ UNCHANGED <<console, acceptor, browser, obj, process>>

Responded(c) ==
  /\ th[c] = "respond"
  /\ out[c] = plan[c]
  /\ th' = [th EXCEPT ![c] = "delete"]
  /\ UNCHANGED <<life, console, acceptor, browser, obj, answer>>

\* TcpClient_Del at the end of DoResp.
Delete(c) ==
  /\ th[c] = "delete"
  /\ obj' = [obj EXCEPT ![c] = "deleted"]
  /\ th' = [th EXCEPT ![c] = "freed"]
  /\ UNCHANGED <<life, console, acceptor, browser, answer>>

\* while (TcpClient_IsValid(arg)) reads the fd of the client that was just freed.
\* The C library keeps a block of that size in the freeing thread's own cache
\* and writes its link over fd: what is read is no descriptor of a connection.
Freed(c) ==
  /\ th[c] = "freed"
  /\ th' = [th EXCEPT ![c] = "end"]
  /\ UNCHANGED <<life, console, acceptor, browser, obj, answer>>

--------------------------------------------------------------------------------
(* The browsers.  What one does after the server has closed its connection is
   not seen by the server.                                                       *)

Connect(c) ==
  /\ peer[c] = "new"
  /\ listening
  /\ peer' = [peer EXCEPT ![c] = "open"]
  /\ backlog' = Append(backlog, c)
  /\ UNCHANGED <<life, console, srv, held, wr, obj, process>>

SendRequest(c) ==
  /\ peer[c] = "open"
  /\ obj[c] # "deleted"
  /\ wr[c] < Pieces[c]
  /\ wr' = [wr EXCEPT ![c] = @ + 1]
  /\ UNCHANGED <<life, console, acceptor, peer, obj, process>>

Leave(c, how) ==
  /\ obj[c] # "deleted"
  /\ \/ peer[c] = "open" /\ how \in {"fin", "reset"}
     \/ peer[c] = "fin" /\ how = "broken"
  /\ peer' = [peer EXCEPT ![c] = how]
  /\ UNCHANGED <<life, console, acceptor, wr, obj, process>>

--------------------------------------------------------------------------------
Console ==
  \/ \E created \in Outcomes : StartServer(created)
  \/ StartFails
  \/ StartNoMemory
  \/ StartDone
  \/ Pause_Handler
  \/ Exit_Handler

Server_Thread ==
  \/ \E ok \in Outcomes : TcpServer_Accept(ok)
  \/ Decide
  \/ \E created \in Outcomes : Create(created)

Process_Thread(c) ==
  \/ Check(c)
  \/ NothingYet(c)
  \/ \E calls \in {0, 1, 1 + Blocks} : Request(c, calls)
  \/ NoBuffer(c)
  \/ SendRaw(c)
  \/ SendFails(c)
  \/ SendPipe(c)
  \/ Responded(c)
  \/ Delete(c)
  \/ Freed(c)

Browser(c) ==
  \/ Connect(c)
  \/ SendRequest(c)
  \/ \E how \in {"fin", "reset", "broken"} : Leave(c, how)

Next ==
  alive /\ (Console \/ Server_Thread \/ \E c \in Clients : Process_Thread(c) \/ Browser(c))

Spec == Init /\ [][Next]_vars

\* Every thread runs; what is typed at the console and what browsers do is free.
FairSpec ==
  /\ Spec
  /\ WF_vars(alive /\ Server_Thread)
  /\ WF_vars(alive /\ con = "started" /\ StartDone)
  /\ \A c \in Clients : WF_vars(alive /\ Process_Thread(c))

--------------------------------------------------------------------------------
Serving(c) == th[c] \in {"check", "avail", "respond", "delete"}

(* The variables have their types: there is a client in Server_Thread between
   accept and create and at no other time, and no answer has more parts than it
   can have.                                                                     *)
TypeOK ==
  /\ alive \in BOOLEAN
  /\ pipe \in Clients \cup {NoOne}
  /\ status \in {"STOP", "RUN", "PAUSE"}
  /\ late \in Nat
  /\ con \in {"prompt", "started"}
  /\ listening \in BOOLEAN
  /\ lost \in 0 .. MaxLost
  /\ srv \in {"none", "accept", "accepted", "create"}
  /\ held \in IF srv \in {"accepted", "create"} THEN Clients ELSE {NoOne}
  /\ backlog \in Seq(Clients)
  /\ peer \in [Clients -> {"new", "open", "fin", "reset", "broken"}]
  /\ wr \in [Clients -> Nat]
  /\ left \in [Clients -> Nat]
  /\ obj \in [Clients -> {"none", "live", "deleted"}]
  /\ th \in [Clients -> {"none", "check", "avail", "respond", "delete", "freed", "end"}]
  /\ plan \in [Clients -> {0, 1, 1 + Blocks}]
  /\ out \in [Clients -> 0 .. 1 + Blocks]
  /\ err \in [Clients -> BOOLEAN]

(* What g_status says at the prompt is true: STOP means that no thread accepts
   connections, anything else that one does.  (Between pthread_create and the end
   of Start_Handler it is not: connections are served while it is still STOP.)    *)
StatusTrue ==
  con = "prompt" => (status = "STOP" <=> srv = "none")

(* A client that was accepted belongs to one thread at a time and is not used by
   a thread once it is deleted, the test after DoResp apart.  One that is not
   deleted has no owner any more only if its browser has left and no answer was
   chosen for it (its request may have arrived: the thread that tests the
   connection after the browser left does not look), or if the thread that was
   to have it could not be made.                                                 *)
Owned ==
  \A c \in Clients :
    /\ c = held => obj[c] = "live" /\ th[c] = "none"
    /\ Serving(c) => obj[c] = "live"
    /\ obj[c] = "live" /\ c # held /\ ~Serving(c) =>
         \/ th[c] = "end" /\ peer[c] # "open" /\ plan[c] = 0
         \/ th[c] = "none" /\ ~Works
    /\ (\E i \in 1 .. Len(backlog) : backlog[i] = c) => obj[c] = "none" /\ th[c] = "none"

(* The command pause races with the thread that accepts, which reads g_status
   before it makes a thread: at most one connection is served after it.          *)
PauseHolds == late <= 1

(* A browser that goes away ends the server only if it had been sent the head of
   a file and resets the connection during the blocks, or if it first closes its
   side and then resets.  A page, or a file whose head could not be sent, does not. *)
PipeInDownload ==
  pipe # NoOne => \/ peer[pipe] = "broken"
                  \/ plan[pipe] > 1 /\ out[pipe] > 1

(* A browser that sends a request to a server and waits gets the whole answer,
   unless it was refused or leaves, or the server is paused or ends, and as long as
   calls do not fail.  It is so too for one that is accepted while Start_Handler has not yet said
   that the server runs.  And of a request that fits in the 2048 bytes that are
   looked at nothing that had arrived is left unread, which would make close()
   reset the connection before the browser has read the answer.  (A longer request
   does so, and one in two pieces that is answered after the first.)             *)
RequestAnswered ==
  \A c \in Clients :
    Works /\ srv # "none" /\ peer[c] = "open" /\ wr[c] > 0 /\ plan[c] = 0 /\ obj[c] # "deleted"
      ~> \/ /\ obj[c] = "deleted" /\ out[c] > 0 /\ out[c] = plan[c]
            /\ left[c] = 0 \/ wr[c] > PeekSize
         \/ peer[c] # "open" \/ status = "PAUSE" \/ ~alive

(* The thread of a browser that has left ends, whether it was waiting for the
   request or answering it, unless the process does.                             *)
ThreadsEnd ==
  \A c \in Clients :
    Serving(c) /\ peer[c] # "open" ~> th[c] = "end" \/ ~alive
================================================================================
