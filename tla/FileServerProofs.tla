---------------------------- MODULE FileServerProofs ----------------------------
(***************************************************************************)
(* Proofs about FileServer.tla, for any number of browsers, descriptors    *)
(* and blocks, with calls that fail or not.                                *)
(*                                                                         *)
(* The inductive invariant is made of parts that are preserved one after   *)
(* the other: TypeOK, Running (what g_status says), Pausing (threads made  *)
(* while it says PAUSE), Answering (an answer has begun only in its        *)
(* thread), Owning (each client has one owner) and Piping (which sends     *)
(* raise SIGPIPE).                                                         *)
(***************************************************************************)
EXTENDS FileServer, SequenceTheorems, TLAPS

\* STOP means that no thread accepts; between pthread_create and the end of
\* Start_Handler there is one although g_status is still STOP.
Running ==
  /\ con = "prompt" => (status = "STOP" <=> srv = "none")
  /\ con = "started" => status = "STOP" /\ srv # "none"

\* Only a connection that had passed the test before the pause makes a thread
\* after it, and it is the only one.
Pausing ==
  /\ status # "PAUSE" => late = 0
  /\ srv = "create" => late = 0
  /\ late <= 1

\* Before the request was taken nothing was answered.
Answering ==
  \A c \in Clients : th[c] \in {"none", "check", "avail"} => plan[c] = 0 /\ out[c] = 0 /\ ~err[c]

\* A browser is in the backlog once, and only while it waits for accept().
Waiting(c) == \E i \in 1 .. Len(backlog) : backlog[i] = c
Lined ==
  /\ \A i, j \in 1 .. Len(backlog) : backlog[i] = backlog[j] => i = j
  /\ \A c \in Clients : peer[c] = "new" => obj[c] = "none" /\ th[c] = "none" /\ ~Waiting(c)
Owning == Lined /\ Owned

\* After a send that failed there is another only if the head had been sent.
Piping ==
  /\ alive => pipe = NoOne
  /\ \A c \in Clients : err[c] => out[c] = plan[c] \/ out[c] > 1
  /\ PipeInDownload

--------------------------------------------------------------------------------
(* Types. *)

LEMMA TypeStep ==
  ASSUME TypeOK, Running, Next
  PROVE  TypeOK'
<1> USE LimitAssumption
<1>1. CASE Console
  <2>1. ASSUME NEW created \in Outcomes, StartServer(created) PROVE TypeOK'
    BY <2>1 DEF TypeOK, Running, StartServer, life, browser, process, answer
  <2>2. CASE StartFails
    BY <2>2 DEF TypeOK, StartFails, StartRefused, life, acceptor, browser, process, answer
  <2>3. CASE StartNoMemory
    BY <2>3 DEF TypeOK, StartNoMemory, console, acceptor, browser, process, answer
  <2>4. CASE StartDone
    BY <2>4 DEF TypeOK, StartDone, life, acceptor, browser, process, answer
  <2>5. CASE Pause_Handler
    BY <2>5 DEF TypeOK, Pause_Handler, life, acceptor, browser, process, answer
  <2>6. CASE Exit_Handler
    BY <2>6 DEF TypeOK, Exit_Handler, console, acceptor, browser, process, answer
  <2> QED
    BY <1>1, <2>1, <2>2, <2>3, <2>4, <2>5, <2>6 DEF Console
<1>2. CASE Server_Thread
  <2>1. ASSUME NEW ok \in Outcomes, TcpServer_Accept(ok) PROVE TypeOK'
    <3>1. Head(backlog) \in Clients /\ Tail(backlog) \in Seq(Clients)
      BY <2>1, HeadTailProperties DEF TypeOK, TcpServer_Accept
    <3> QED
      BY <2>1, <3>1 DEF TypeOK, TcpServer_Accept, life, console, browser, process, answer
  <2>2. CASE Decide
    BY <2>2 DEF TypeOK, Decide, ServeOr, life, console, browser, process, answer
  <2>3. ASSUME NEW created \in Outcomes, Create(created) PROVE TypeOK'
    BY <2>3 DEF TypeOK, Create, life, browser, answer
  <2> QED
    BY <1>2, <2>1, <2>2, <2>3 DEF Server_Thread
<1>3. ASSUME NEW c \in Clients, Process_Thread(c) PROVE TypeOK'
  <2> USE DEF TypeOK, life, console, acceptor, browser, answer
  <2>1. CASE Check(c)
    BY <2>1 DEF Check, GoOnWhile
  <2>2. CASE NothingYet(c)
    BY <2>2 DEF NothingYet, Unread
  <2>3. ASSUME NEW calls \in {0, 1, 1 + Blocks}, Request(c, calls) PROVE TypeOK'
    <3>1. wr[c] - Take(c) \in Nat
      <4>1. wr[c] \in Nat
        OBVIOUS
      <4> QED
        BY <4>1 DEF Take
    <3>2. left' = [left EXCEPT ![c] = wr[c] - Take(c)]
      BY <2>3 DEF Request
    <3>4. left' \in [Clients -> Nat]
      BY <3>1, <3>2
    <3>3. plan' \in [Clients -> {0, 1, 1 + Blocks}]
      BY <2>3 DEF Request
    <3> QED
      BY <2>3, <3>3, <3>4 DEF Request
  <2>4. CASE SendRaw(c)
    <3>1. out[c] + 1 \in 0 .. 1 + Blocks
      <4>0. out[c] \in 0 .. 1 + Blocks /\ plan[c] \in {0, 1, 1 + Blocks}
        BY Zenon
      <4>1. out[c] \in Nat /\ plan[c] \in Nat /\ plan[c] <= 1 + Blocks
        BY <4>0
      <4>2. out[c] < plan[c]
        BY <2>4 DEF SendRaw
      <4> QED
        BY <4>1, <4>2
    <3> QED
      BY <2>4, <3>1 DEF SendRaw
  <2>5. CASE SendFails(c)
    <3>1. out[c] \in 0 .. 1 + Blocks /\ plan[c] \in {0, 1, 1 + Blocks} /\ out[c] < plan[c]
      BY <2>5, Zenon DEF SendFails
    <3>2. plan[c] \in 0 .. 1 + Blocks /\ out[c] + 1 \in 0 .. 1 + Blocks
      BY <3>1
    <3>3. out' \in [Clients -> 0 .. 1 + Blocks]
      <4>1. (IF out[c] = 0 THEN plan[c] ELSE out[c] + 1) \in 0 .. 1 + Blocks
        BY <3>2
      <4> QED
        BY <2>5, <4>1 DEF SendFails
    <3>4. err' \in [Clients -> BOOLEAN]
      BY <2>5, Zenon DEF SendFails
    <3> QED
      BY <2>5, <3>3, <3>4 DEF SendFails
  <2>6. CASE SendPipe(c)
    BY <2>6 DEF SendPipe, process
  <2>7. CASE Responded(c)
    BY <2>7 DEF Responded
  <2>8. CASE Delete(c)
    BY <2>8 DEF Delete
  <2>9. CASE Freed(c)
    BY <2>9 DEF Freed
  <2>10. CASE NoBuffer(c)
    BY <2>10 DEF NoBuffer
  <2> QED
    BY <1>3, <2>1, <2>2, <2>3, <2>4, <2>5, <2>6, <2>7, <2>8, <2>9, <2>10 DEF Process_Thread
<1>4. ASSUME NEW c \in Clients, Browser(c) PROVE TypeOK'
  <2> USE DEF TypeOK, life, console, acceptor, process, answer
  <2>1. CASE Connect(c)
    <3>1. Append(backlog, c) \in Seq(Clients)
      BY AppendProperties DEF TypeOK
    <3> QED
      BY <2>1, <3>1 DEF Connect
  <2>2. CASE SendRequest(c)
    BY <2>2 DEF SendRequest
  <2>3. ASSUME NEW how \in {"fin", "reset", "broken"}, Leave(c, how) PROVE TypeOK'
    BY <2>3 DEF Leave
  <2> QED
    BY <1>4, <2>1, <2>2, <2>3 DEF Browser
<1> QED
  BY <1>1, <1>2, <1>3, <1>4 DEF Next

--------------------------------------------------------------------------------
(* The status. *)

LEMMA RunningStep ==
  ASSUME TypeOK, Running, Next
  PROVE  Running'
<1> USE DEF Running
<1>1. CASE Console
  <2>1. ASSUME NEW created \in Outcomes, StartServer(created) PROVE Running'
    BY <2>1 DEF StartServer
  <2>2. CASE StartFails
    BY <2>2 DEF StartFails, StartRefused, acceptor
  <2>3. CASE StartNoMemory
    BY <2>3 DEF StartNoMemory, console, acceptor
  <2>4. CASE StartDone
    BY <2>4 DEF StartDone, acceptor
  <2>5. CASE Pause_Handler
    BY <2>5 DEF Pause_Handler, acceptor
  <2>6. CASE Exit_Handler
    BY <2>6 DEF Exit_Handler, console, acceptor
  <2> QED
    BY <1>1, <2>1, <2>2, <2>3, <2>4, <2>5, <2>6 DEF Console
<1>2. CASE Server_Thread
  <2>1. ASSUME NEW ok \in Outcomes, TcpServer_Accept(ok) PROVE Running'
    BY <2>1 DEF TcpServer_Accept, console
  <2>2. CASE Decide
    BY <2>2 DEF Decide, ServeOr, console
  <2>3. ASSUME NEW created \in Outcomes, Create(created) PROVE Running'
    BY <2>3 DEF Create
  <2> QED
    BY <1>2, <2>1, <2>2, <2>3 DEF Server_Thread
<1>3. ASSUME NEW c \in Clients, Process_Thread(c) PROVE Running'
  <2>1. UNCHANGED <<status, con, srv>>
    BY <1>3 DEF Process_Thread, Check, GoOnWhile, NothingYet, Unread, Request, NoBuffer, SendRaw, SendFails,
                SendPipe, Responded, Delete, Freed, console, acceptor
  <2> QED
    BY <2>1
<1>4. ASSUME NEW c \in Clients, Browser(c) PROVE Running'
  <2>1. UNCHANGED <<status, con, srv>>
    BY <1>4 DEF Browser, Connect, SendRequest, Leave, console, acceptor
  <2> QED
    BY <2>1
<1> QED
  BY <1>1, <1>2, <1>3, <1>4 DEF Next

LEMMA PausingStep ==
  ASSUME TypeOK, Pausing, Next
  PROVE  Pausing'
<1> USE DEF Pausing
<1>1. CASE Console
  <2>1. ASSUME NEW created \in Outcomes, StartServer(created) PROVE Pausing'
    BY <2>1 DEF StartServer
  <2>2. CASE StartFails
    BY <2>2 DEF StartFails, StartRefused, acceptor
  <2>3. CASE StartNoMemory
    BY <2>3 DEF StartNoMemory, console, acceptor
  <2>4. CASE StartDone
    BY <2>4 DEF StartDone, acceptor
  <2>5. CASE Pause_Handler
    BY <2>5 DEF Pause_Handler, acceptor
  <2>6. CASE Exit_Handler
    BY <2>6 DEF Exit_Handler, console, acceptor
  <2> QED
    BY <1>1, <2>1, <2>2, <2>3, <2>4, <2>5, <2>6 DEF Console
<1>2. CASE Server_Thread
  <2>1. ASSUME NEW ok \in Outcomes, TcpServer_Accept(ok) PROVE Pausing'
    BY <2>1 DEF TcpServer_Accept, console
  <2>2. CASE Decide
    BY <2>2 DEF Decide, ServeOr, console
  <2>3. ASSUME NEW created \in Outcomes, Create(created) PROVE Pausing'
    BY <2>3 DEF Create, TypeOK
  <2> QED
    BY <1>2, <2>1, <2>2, <2>3 DEF Server_Thread
<1>3. ASSUME NEW c \in Clients, Process_Thread(c) PROVE Pausing'
  <2>1. UNCHANGED <<status, late, srv>>
    BY <1>3 DEF Process_Thread, Check, GoOnWhile, NothingYet, Unread, Request, NoBuffer, SendRaw, SendFails,
                SendPipe, Responded, Delete, Freed, console, acceptor
  <2> QED
    BY <2>1
<1>4. ASSUME NEW c \in Clients, Browser(c) PROVE Pausing'
  <2>1. UNCHANGED <<status, late, srv>>
    BY <1>4 DEF Browser, Connect, SendRequest, Leave, console, acceptor
  <2> QED
    BY <2>1
<1> QED
  BY <1>1, <1>2, <1>3, <1>4 DEF Next

--------------------------------------------------------------------------------
(* Clients, their owners and their answers. *)

LEMMA AnsweringStep ==
  ASSUME TypeOK, Answering, Owned, Next
  PROVE  Answering'
<1> USE DEF Answering
<1>1. ASSUME Console \/ (\E ok \in Outcomes : TcpServer_Accept(ok)) \/ Decide
             \/ \E c \in Clients : Browser(c)
      PROVE  Answering'
  <2>1. UNCHANGED <<th, plan, out, err>>
    BY <1>1 DEF Console, StartServer, StartFails, StartRefused, StartNoMemory, StartDone,
                Pause_Handler, Exit_Handler, TcpServer_Accept, Decide, ServeOr, Browser, Connect,
                SendRequest, Leave, process, answer
  <2> QED
    BY <2>1
<1>2. ASSUME NEW created \in Outcomes, Create(created) PROVE Answering'
  <2>1. held \in Clients /\ th[held] = "none"
    BY <1>2 DEF Create, TypeOK, Owned
  <2> QED
    BY <1>2, <2>1 DEF Create, answer, TypeOK
<1>3. ASSUME NEW c \in Clients, Process_Thread(c) PROVE Answering'
  <2> USE DEF TypeOK
  <2>1. CASE Check(c)
    BY <2>1 DEF Check, GoOnWhile, answer
  <2>2. CASE NothingYet(c)
    BY <2>2 DEF NothingYet, Unread, answer
  <2>3. ASSUME NEW calls \in {0, 1, 1 + Blocks}, Request(c, calls) PROVE Answering'
    BY <2>3 DEF Request
  <2>4. CASE SendRaw(c)
    BY <2>4 DEF SendRaw
  <2>5. CASE SendFails(c)
    BY <2>5 DEF SendFails
  <2>6. CASE SendPipe(c)
    BY <2>6 DEF SendPipe, process, answer
  <2>7. CASE Responded(c)
    BY <2>7 DEF Responded, answer
  <2>8. CASE Delete(c)
    BY <2>8 DEF Delete, answer
  <2>9. CASE Freed(c)
    BY <2>9 DEF Freed, answer
  <2>10. CASE NoBuffer(c)
    BY <2>10 DEF NoBuffer
  <2> QED
    BY <1>3, <2>1, <2>2, <2>3, <2>4, <2>5, <2>6, <2>7, <2>8, <2>9, <2>10 DEF Process_Thread
<1> QED
  BY <1>1, <1>2, <1>3 DEF Next, Server_Thread

LEMMA LinedStep ==
  ASSUME TypeOK, Owning, Next
  PROVE  Lined'
<1> USE DEF Lined, Waiting
<1> Lined /\ Owned
  BY DEF Owning
<1>1. ASSUME Console PROVE Lined'
  <2>1. UNCHANGED <<backlog, peer, obj, th>>
    BY <1>1 DEF Console, StartServer, StartFails, StartRefused, StartNoMemory, StartDone,
                Pause_Handler, Exit_Handler, acceptor, browser, process
  <2> QED
    BY <2>1
<1>2. ASSUME NEW ok \in Outcomes, TcpServer_Accept(ok) PROVE Lined'
  <2>1. /\ backlog # <<>> /\ backlog' = Tail(backlog)
        /\ obj' = [obj EXCEPT ![Head(backlog)] = IF ok THEN "live" ELSE "deleted"]
        /\ UNCHANGED <<peer, th>>
    BY <1>2 DEF TcpServer_Accept, browser, process
  <2>2. /\ Head(backlog) \in Clients /\ Len(Tail(backlog)) = Len(backlog) - 1
        /\ \A i \in 1 .. Len(Tail(backlog)) : Tail(backlog)[i] = backlog[i + 1]
    BY <2>1, HeadTailProperties DEF TypeOK
  <2>3. Len(backlog) \in Nat /\ Len(backlog) >= 1 /\ Head(backlog) = backlog[1]
    BY <2>1 DEF TypeOK
  <2>4. \A i \in 1 .. Len(backlog') : i + 1 \in 1 .. Len(backlog) /\ backlog'[i] = backlog[i + 1]
    BY <2>1, <2>2, <2>3
  <2>5. \A i, j \in 1 .. Len(backlog') : backlog'[i] = backlog'[j] => i = j
    <3> TAKE i, j \in 1 .. Len(backlog')
    <3> HAVE backlog'[i] = backlog'[j]
    <3>1. i + 1 = j + 1
      BY <2>4
    <3>2. i \in Int /\ j \in Int
      OBVIOUS
    <3> QED
      BY <3>1, <3>2
  <2>6. \A c \in Clients : peer'[c] = "new" => obj'[c] = "none" /\ th'[c] = "none" /\ ~Waiting(c)'
    <3> TAKE c \in Clients
    <3> HAVE peer'[c] = "new"
    <3>1. obj[c] = "none" /\ th[c] = "none" /\ ~Waiting(c)
      BY <2>1
    <3>2. c # Head(backlog)
      BY <2>3, <3>1
    <3>3. ~Waiting(c)'
      BY <2>4, <3>1
    <3> QED
      BY <2>1, <3>1, <3>2, <3>3 DEF TypeOK
  <2> QED
    BY <2>5, <2>6
<1>3. CASE Decide
  <2>1. /\ held \in Clients
        /\ obj' = obj \/ obj' = [obj EXCEPT ![held] = "deleted"]
        /\ UNCHANGED <<backlog, peer, th>>
    BY <1>3 DEF Decide, ServeOr, browser, process, TypeOK
  <2>2. obj[held] = "live"
    BY <2>1 DEF Owned
  <2> QED
    BY <2>1, <2>2 DEF TypeOK
<1>4. ASSUME NEW created \in Outcomes, Create(created) PROVE Lined'
  <2>1. /\ held \in Clients
        /\ th' = th \/ th' = [th EXCEPT ![held] = "check"]
        /\ UNCHANGED <<backlog, peer, obj>>
    BY <1>4 DEF Create, browser, TypeOK
  <2>2. obj[held] = "live"
    BY <2>1 DEF Owned
  <2> QED
    BY <2>1, <2>2 DEF TypeOK
<1>5. ASSUME NEW c \in Clients, Process_Thread(c) PROVE Lined'
  <2>1. UNCHANGED <<backlog, peer>>
    BY <1>5 DEF Process_Thread, Check, GoOnWhile, NothingYet, Unread, Request, NoBuffer, SendRaw, SendFails,
                SendPipe, Responded, Delete, Freed, acceptor, browser
  <2>2. /\ th[c] # "none"
        /\ \A d \in Clients \ {c} : obj'[d] = obj[d] /\ th'[d] = th[d]
    BY <1>5 DEF Process_Thread, Check, GoOnWhile, NothingYet, Unread, Request, NoBuffer, SendRaw, SendFails,
                SendPipe, Responded, Delete, Freed, process, answer, TypeOK
  <2> QED
    BY <2>1, <2>2
<1>6. ASSUME NEW c \in Clients, Connect(c) PROVE Lined'
  <2>1. /\ peer[c] = "new" /\ backlog' = Append(backlog, c)
        /\ peer' = [peer EXCEPT ![c] = "open"]
        /\ UNCHANGED <<obj, th>>
    BY <1>6 DEF Connect, process
  <2>2. /\ Len(backlog) \in Nat /\ Len(backlog') = Len(backlog) + 1
        /\ backlog'[Len(backlog) + 1] = c
        /\ \A i \in 1 .. Len(backlog) : backlog'[i] = backlog[i]
    BY <2>1, AppendProperties DEF TypeOK
  <2>3. ~Waiting(c)
    BY <2>1
  <2>4. \A i, j \in 1 .. Len(backlog') : backlog'[i] = backlog'[j] => i = j
    <3> TAKE i, j \in 1 .. Len(backlog')
    <3> HAVE backlog'[i] = backlog'[j]
    <3>1. CASE i \in 1 .. Len(backlog) /\ j \in 1 .. Len(backlog)
      BY <2>2, <3>1
    <3>2. CASE i \notin 1 .. Len(backlog)
      <4>1. i = Len(backlog) + 1
        BY <2>2, <3>2
      <4>2. j \notin 1 .. Len(backlog)
        BY <2>2, <2>3, <4>1
      <4> QED
        BY <2>2, <4>1, <4>2
    <3>3. CASE j \notin 1 .. Len(backlog)
      <4>1. j = Len(backlog) + 1
        BY <2>2, <3>3
      <4>2. i \notin 1 .. Len(backlog)
        BY <2>2, <2>3, <4>1
      <4> QED
        BY <2>2, <4>1, <4>2
    <3> QED
      BY <3>1, <3>2, <3>3
  <2>5. \A d \in Clients : peer'[d] = "new" => obj'[d] = "none" /\ th'[d] = "none" /\ ~Waiting(d)'
    <3> TAKE d \in Clients
    <3> HAVE peer'[d] = "new"
    <3>1. d # c /\ peer[d] = "new"
      BY <2>1 DEF TypeOK
    <3>2. ~Waiting(d)'
      <4> SUFFICES ASSUME NEW i \in 1 .. Len(backlog'), backlog'[i] = d PROVE FALSE
        OBVIOUS
      <4>1. i \in 1 .. Len(backlog) \/ i = Len(backlog) + 1
        BY <2>2
      <4> QED
        BY <2>2, <3>1, <4>1
    <3> QED
      BY <2>1, <3>1, <3>2
  <2> QED
    BY <2>4, <2>5
<1>7. ASSUME NEW c \in Clients, SendRequest(c) PROVE Lined'
  <2>1. UNCHANGED <<backlog, peer, obj, th>>
    BY <1>7 DEF SendRequest, acceptor, process
  <2> QED
    BY <2>1
<1>8. ASSUME NEW c \in Clients, NEW how \in {"fin", "reset", "broken"}, Leave(c, how) PROVE Lined'
  <2>1. UNCHANGED <<backlog, obj, th>> /\ peer' = [peer EXCEPT ![c] = how]
    BY <1>8 DEF Leave, acceptor, process
  <2> QED
    BY <2>1 DEF TypeOK
<1> QED
  BY <1>1, <1>2, <1>3, <1>4, <1>5, <1>6, <1>7, <1>8 DEF Next, Server_Thread, Browser

\* A client whose record, thread and browser a step does not touch keeps its owner.
OwnedOne(c) ==
  /\ c = held => obj[c] = "live" /\ th[c] = "none"
  /\ Serving(c) => obj[c] = "live"
  /\ obj[c] = "live" /\ c # held /\ ~Serving(c) =>
       \/ th[c] = "end" /\ peer[c] # "open" /\ plan[c] = 0
       \/ th[c] = "none" /\ ~Works
  /\ Waiting(c) => obj[c] = "none" /\ th[c] = "none"

LEMMA OwnedStep ==
  ASSUME TypeOK, Answering, Owning, Next
  PROVE  Owned'
<1>0. /\ Lined
      /\ Owned <=> \A c \in Clients : OwnedOne(c)
      /\ Owned' <=> \A c \in Clients : OwnedOne(c)'
      /\ \A c \in Clients : OwnedOne(c)
  BY DEF Owning, Owned, OwnedOne, Waiting
<1> USE DEF OwnedOne, Serving
<1>1. ASSUME Console PROVE Owned'
  <2>1. UNCHANGED <<held, backlog, peer, obj, th, plan>>
    BY <1>1 DEF Console, StartServer, StartFails, StartRefused, StartNoMemory, StartDone,
                Pause_Handler, Exit_Handler, acceptor, browser, process, answer
  <2> QED
    BY <1>0, <2>1 DEF Waiting
<1>2. ASSUME NEW ok \in Outcomes, TcpServer_Accept(ok) PROVE Owned'
  <2>1. /\ backlog # <<>> /\ backlog' = Tail(backlog)
        /\ obj' = [obj EXCEPT ![Head(backlog)] = IF ok THEN "live" ELSE "deleted"]
        /\ held' = IF ok THEN Head(backlog) ELSE NoOne
        /\ held = NoOne
        /\ UNCHANGED <<peer, th, plan>>
    BY <1>2 DEF TcpServer_Accept, browser, process, answer, TypeOK
  <2>2. /\ Head(backlog) \in Clients /\ Len(Tail(backlog)) = Len(backlog) - 1
        /\ \A i \in 1 .. Len(Tail(backlog)) : Tail(backlog)[i] = backlog[i + 1]
    BY <2>1, HeadTailProperties DEF TypeOK
  <2>3. Len(backlog) \in Nat /\ Len(backlog) >= 1 /\ Head(backlog) = backlog[1]
    BY <2>1 DEF TypeOK
  <2> PICK h \in Clients : h = Head(backlog)
    BY <2>2
  <2>4. obj[h] = "none" /\ th[h] = "none"
    BY <1>0, <2>2, <2>3 DEF Waiting
  <2>5. \A c \in Clients : Waiting(c)' => Waiting(c) /\ c # h
    <3> SUFFICES ASSUME NEW c \in Clients, NEW i \in 1 .. Len(backlog'), backlog'[i] = c
                 PROVE  Waiting(c) /\ c # h
      BY DEF Waiting
    <3>1. i \in Nat /\ i >= 1 /\ i + 1 \in 1 .. Len(backlog) /\ backlog[i + 1] = c
      BY <2>1, <2>2, <2>3
    <3>2. i + 1 # 1 /\ 1 \in 1 .. Len(backlog)
      BY <2>3, <3>1
    <3> QED
      BY <1>0, <2>3, <3>1, <3>2 DEF Waiting, Lined
  <2>6. ASSUME NEW c \in Clients, c # h PROVE OwnedOne(c)'
    BY <1>0, <2>1, <2>2,  <2>5, <2>6, LimitAssumption DEF TypeOK
  <2>7. OwnedOne(h)'
    <3>1. obj'[h] = IF ok THEN "live" ELSE "deleted"
      BY <2>1, <2>2 DEF TypeOK
    <3>2. ~Waiting(h)'
      BY <2>2, <2>5
    <3> QED
      BY <2>1, <2>2, <2>4, <3>1, <3>2, LimitAssumption
  <2> QED
    BY <1>0, <2>6, <2>7
<1>3. CASE Decide
  <2>1. /\ held \in Clients
        /\ \/ obj' = obj /\ held' = held
           \/ obj' = [obj EXCEPT ![held] = "deleted"] /\ held' = NoOne
        /\ UNCHANGED <<backlog, peer, th, plan>>
    BY <1>3 DEF Decide, ServeOr, browser, process, answer, TypeOK
  <2>2. obj[held] = "live" /\ th[held] = "none"
    BY <1>0, <2>1
  <2>3. ASSUME NEW c \in Clients PROVE OwnedOne(c)'
    <3>1. (c # held => obj'[c] = obj[c]) /\ (Waiting(c)' <=> Waiting(c)) /\ c # NoOne
      BY <2>1, LimitAssumption DEF TypeOK, Waiting
    <3>2. OwnedOne(c)
      BY <1>0
    <3>3. c = held => obj'[c] \in {"live", "deleted"} /\ ((obj'[c] = "live" /\ held' = held) \/ (obj'[c] = "deleted" /\ held' = NoOne))
      BY <2>1, <2>2 DEF TypeOK
    <3> QED
      BY <2>1, <2>2, <3>1, <3>2, <3>3
  <2> QED
    BY <1>0, <2>3
<1>4. ASSUME NEW created \in Outcomes, Create(created) PROVE Owned'
  <2>1. /\ held \in Clients /\ held' = NoOne
        /\ \/ th' = th /\ ~Works
           \/ th' = [th EXCEPT ![held] = "check"]
        /\ UNCHANGED <<backlog, peer, obj, plan>>
    BY <1>4, LimitAssumption DEF Create, browser, answer, TypeOK, Outcomes
  <2>2. obj[held] = "live" /\ th[held] = "none"
    BY <1>0, <2>1
  <2>3. ASSUME NEW c \in Clients PROVE OwnedOne(c)'
    BY <1>0, <2>1, <2>2, LimitAssumption DEF TypeOK, Waiting
  <2> QED
    BY <1>0, <2>3
<1>5. ASSUME NEW c \in Clients, Process_Thread(c) PROVE Owned'
  <2>1. UNCHANGED <<held, backlog, peer>>
    BY <1>5 DEF Process_Thread, Check, GoOnWhile, NothingYet, Unread, Request, NoBuffer, SendRaw, SendFails,
                SendPipe, Responded, Delete, Freed, acceptor, browser
  <2>2. ASSUME NEW d \in Clients, d # c PROVE OwnedOne(d)'
    <3>1. obj'[d] = obj[d] /\ th'[d] = th[d] /\ plan'[d] = plan[d]
      BY <1>5, <2>2 DEF Process_Thread, Check, GoOnWhile, NothingYet, Unread, Request, NoBuffer, SendRaw,
                SendFails, SendPipe, Responded, Delete, Freed, process, answer, TypeOK
    <3> QED
      BY <1>0, <2>1, <3>1 DEF Waiting
  <2>3. OwnedOne(c)'
    <3>0. OwnedOne(c) /\ th[c] # "none"
      BY <1>0, <1>5 DEF Process_Thread, Check, GoOnWhile, NothingYet, Unread, Request, NoBuffer, SendRaw, SendFails,
                SendPipe, Responded, Delete, Freed
    <3>1. c # held /\ ~Waiting(c) /\ ~Waiting(c)' /\ c # held'
      BY <2>1, <3>0 DEF Waiting
    <3>2. CASE Check(c)
      BY <3>0, <3>1, <3>2, <2>1 DEF Check, GoOnWhile, answer, Answering, TypeOK
    <3>3. CASE NothingYet(c)
      BY <3>0, <3>1, <3>3 DEF NothingYet, Unread, TypeOK
    <3>4. ASSUME NEW calls \in {0, 1, 1 + Blocks}, Request(c, calls) PROVE OwnedOne(c)'
      <4>1. obj'[c] = obj[c] /\ th'[c] \in {"delete", "respond"} /\ th[c] = "avail"
        BY <3>4 DEF Request, TypeOK
      <4> QED
        BY <3>0, <3>1, <4>1
    <3>5. ASSUME SendRaw(c) \/ SendFails(c) \/ SendPipe(c) PROVE OwnedOne(c)'
      BY <3>0, <3>1, <3>5 DEF SendRaw, SendFails, SendPipe, process
    <3>6. CASE Responded(c)
      BY <3>0, <3>1, <3>6 DEF Responded, TypeOK
    <3>7. CASE Delete(c)
      BY <3>0, <3>1, <3>7 DEF Delete, TypeOK
    <3>8. CASE Freed(c)
      BY <3>0, <3>1, <3>8 DEF Freed, TypeOK
    <3>9. CASE NoBuffer(c)
      BY <3>0, <3>1, <3>9 DEF NoBuffer, TypeOK
    <3> QED
      BY <1>5, <3>2, <3>3, <3>4, <3>5, <3>6, <3>7, <3>8, <3>9 DEF Process_Thread
  <2> QED
    BY <1>0, <2>2, <2>3
<1>6. ASSUME NEW c \in Clients, Connect(c) PROVE Owned'
  <2>1. /\ peer[c] = "new" /\ backlog' = Append(backlog, c)
        /\ peer' = [peer EXCEPT ![c] = "open"]
        /\ UNCHANGED <<held, obj, th, plan>>
    BY <1>6 DEF Connect, process, answer
  <2>2. obj[c] = "none" /\ th[c] = "none"
    BY <1>0, <2>1 DEF Lined
  <2>3. ASSUME NEW d \in Clients, d # c PROVE OwnedOne(d)'
    <3>1. Waiting(d)' => Waiting(d)
      <4> SUFFICES ASSUME NEW i \in 1 .. Len(backlog'), backlog'[i] = d PROVE Waiting(d)
        BY DEF Waiting
      <4>0. backlog \in Seq(Clients)
        BY DEF TypeOK
      <4>1. /\ Len(backlog) \in Nat /\ Len(backlog') = Len(backlog) + 1
            /\ backlog'[Len(backlog) + 1] = c
            /\ \A k \in 1 .. Len(backlog) : backlog'[k] = backlog[k]
        BY <2>1, <4>0, AppendProperties, LenProperties
      <4>2. i \in 1 .. Len(backlog)
        BY <2>3, <4>1
      <4> QED
        BY <4>1, <4>2 DEF Waiting
    <3>2. peer'[d] = peer[d]
      BY <2>1, <2>3 DEF TypeOK
    <3> QED
      BY <1>0, <2>1, <3>1, <3>2
  <2>4. OwnedOne(c)'
    BY <1>0, <2>1, <2>2
  <2> QED
    BY <1>0, <2>3, <2>4
<1>7. ASSUME NEW c \in Clients, SendRequest(c) PROVE Owned'
  <2>1. UNCHANGED <<held, backlog, peer, obj, th, plan>>
    BY <1>7 DEF SendRequest, acceptor, process, answer
  <2> QED
    BY <1>0, <2>1 DEF Waiting
<1>8. ASSUME NEW c \in Clients, NEW how \in {"fin", "reset", "broken"}, Leave(c, how) PROVE Owned'
  <2>1. UNCHANGED <<held, backlog, obj, th, plan>> /\ peer' = [peer EXCEPT ![c] = how]
    BY <1>8 DEF Leave, acceptor, process, answer
  <2>2. ASSUME NEW d \in Clients PROVE peer'[d] = "open" => peer[d] = "open"
    BY <2>1 DEF TypeOK
  <2> QED
    BY <1>0, <2>1, <2>2 DEF Waiting
<1> QED
  BY <1>1, <1>2, <1>3, <1>4, <1>5, <1>6, <1>7, <1>8 DEF Next, Server_Thread, Browser

--------------------------------------------------------------------------------
(* SIGPIPE. *)

LEMMA PipingStep ==
  ASSUME TypeOK, Answering, Piping, Next
  PROVE  Piping'
<1> USE DEF Piping, PipeInDownload
<1>0. alive /\ pipe = NoOne
  BY DEF Next
<1>1. ASSUME Console \/ Server_Thread \/ \E c \in Clients : Browser(c) PROVE Piping'
  <2>1. UNCHANGED <<pipe, plan, out, err>>
    BY <1>1 DEF Console, StartServer, StartFails, StartRefused, StartNoMemory, StartDone,
                Pause_Handler, Exit_Handler, Server_Thread, TcpServer_Accept, Decide, ServeOr,
                Create, Browser, Connect, SendRequest, Leave, process, answer, life
  <2> QED
    BY <1>0, <2>1
<1>2. ASSUME NEW c \in Clients,
             Check(c) \/ NothingYet(c) \/ NoBuffer(c) \/ Responded(c) \/ Delete(c) \/ Freed(c)
      PROVE Piping'
  <2>1. UNCHANGED <<pipe, plan, out, err>>
    BY <1>2 DEF Check, GoOnWhile, NothingYet, Unread, NoBuffer, Responded, Delete, Freed, answer, life
  <2> QED
    BY <1>0, <2>1
<1>3. ASSUME NEW c \in Clients, NEW calls \in {0, 1, 1 + Blocks}, Request(c, calls) PROVE Piping'
  <2>1. ~err[c]
    BY <1>3 DEF Request, Answering
  <2>2. /\ UNCHANGED <<pipe, out, err>>
        /\ \A d \in Clients \ {c} : plan'[d] = plan[d]
    BY <1>3 DEF Request, life, TypeOK
  <2> QED
    BY <1>0, <2>1, <2>2
<1>4. ASSUME NEW c \in Clients, SendRaw(c) PROVE Piping'
  <2>1. /\ UNCHANGED <<pipe, plan, err>>
        /\ out[c] \in Nat /\ out'[c] = out[c] + 1 /\ out[c] # plan[c]
        /\ \A d \in Clients \ {c} : out'[d] = out[d]
    BY <1>4, LimitAssumption DEF SendRaw, life, TypeOK
  <2>2. err[c] => out'[c] > 1
    BY <2>1
  <2> QED
    BY <1>0, <2>1, <2>2
<1>5. ASSUME NEW c \in Clients, SendFails(c) PROVE Piping'
  <2>1. /\ UNCHANGED <<pipe, plan>>
        /\ out[c] \in Nat
        /\ out'[c] = IF out[c] = 0 THEN plan[c] ELSE out[c] + 1
        /\ \A d \in Clients \ {c} : out'[d] = out[d] /\ err'[d] = err[d]
    BY <1>5, LimitAssumption DEF SendFails, life, TypeOK
  <2>2. out'[c] = plan'[c] \/ out'[c] > 1
    BY <2>1
  <2> QED
    BY <1>0, <2>1, <2>2
<1>6. ASSUME NEW c \in Clients, SendPipe(c) PROVE Piping'
  <2>1. /\ alive' = FALSE /\ pipe' = c
        /\ UNCHANGED <<plan, out, err, peer>>
        /\ out[c] < plan[c] /\ (err[c] \/ peer[c] = "broken")
    BY <1>6 DEF SendPipe, browser, process, answer
  <2>2. out[c] \in Nat /\ plan[c] \in Nat
    <3>1. out[c] \in 0 .. 1 + Blocks /\ plan[c] \in {0, 1, 1 + Blocks}
      BY DEF TypeOK
    <3> QED
      BY <3>1, LimitAssumption
  <2>3. err[c] => out[c] > 1 /\ plan[c] > 1
    BY <2>1, <2>2
  <2> QED
    BY <2>1, <2>3
<1> QED
  BY <1>1, <1>2, <1>3, <1>4, <1>5, <1>6 DEF Next, Process_Thread

--------------------------------------------------------------------------------
(* The invariant. *)

FileServerInv ==
  /\ TypeOK
  /\ Running
  /\ Pausing
  /\ Answering
  /\ Owning
  /\ Piping

LEMMA InitInv ==
  ASSUME Init
  PROVE  FileServerInv
<1> USE LimitAssumption DEF Init
<1>1. TypeOK
  <2>1. plan \in [Clients -> {0, 1, 1 + Blocks}]
    OBVIOUS
  <2>2. out \in [Clients -> 0 .. 1 + Blocks] /\ wr \in [Clients -> Nat] /\ left \in [Clients -> Nat]
    OBVIOUS
  <2>3. err \in [Clients -> BOOLEAN]
    BY Zenon
  <2>4. lost \in 0 .. MaxLost /\ backlog \in Seq(Clients)
    OBVIOUS
  <2>5. /\ peer \in [Clients -> {"new", "open", "fin", "reset", "broken"}]
        /\ obj \in [Clients -> {"none", "live", "deleted"}]
        /\ th \in [Clients -> {"none", "check", "avail", "respond", "delete", "freed", "end"}]
    OBVIOUS
  <2> QED
    BY <2>1, <2>2, <2>3, <2>4, <2>5 DEF TypeOK
<1>3. Running /\ Pausing /\ Answering
  BY DEF Running, Pausing, Answering
<1>4. Owning
  BY DEF Owning, Lined, Owned, Waiting, Serving
<1>5. Piping
  BY DEF Piping, PipeInDownload
<1> QED
  BY <1>1, <1>3, <1>4, <1>5 DEF FileServerInv

LEMMA StepInv ==
  ASSUME FileServerInv, [Next]_vars
  PROVE  FileServerInv'
<1>1. CASE Next
  <2>1. TypeOK /\ Running /\ Pausing /\ Answering /\ Owning /\ Piping /\ Owned
    BY DEF FileServerInv, Owning
  <2>2. TypeOK' /\ Running' /\ Pausing'
    BY <1>1, <2>1, TypeStep, RunningStep, PausingStep
  <2>4. Answering' /\ Piping'
    BY <1>1, <2>1, AnsweringStep, PipingStep
  <2>5. Owning'
    BY <1>1, <2>1, LinedStep, OwnedStep DEF Owning
  <2> QED
    BY <2>2, <2>4, <2>5 DEF FileServerInv
<1>2. CASE UNCHANGED vars
  BY <1>2 DEF FileServerInv, TypeOK, Running, Pausing, Answering, Owning,
              Lined, Owned, Waiting, Serving, Piping, PipeInDownload, vars, life, console,
              acceptor, browser, process, answer
<1> QED
  BY <1>1, <1>2

LEMMA Invariance == Spec => []FileServerInv
BY InitInv, StepInv, PTL DEF Spec

(* The variables have their types: Server_Thread has a client from accept to
   create and at no other time, and no answer has more parts than it can have,
   whatever fails and however many browsers come.                                *)
THEOREM TypeCorrect == Spec => []TypeOK
<1>1. FileServerInv => TypeOK
  BY DEF FileServerInv
<1> QED
  BY <1>1, Invariance, PTL

(* g_status, at the prompt, says truly whether Server_Thread accepts connections. *)
THEOREM StatusIsTrue == Spec => []StatusTrue
<1>1. FileServerInv => StatusTrue
  BY DEF FileServerInv, Running, StatusTrue
<1> QED
  BY <1>1, Invariance, PTL

(* However many browsers come, at most one of them is served by a thread made after
   the command pause.                                                            *)
THEOREM PauseHoldsAlways == Spec => []PauseHolds
<1>1. FileServerInv => PauseHolds
  BY DEF FileServerInv, Pausing, PauseHolds
<1> QED
  BY <1>1, Invariance, PTL

(* Each client has one owner and is not used after TcpClient_Del, and it is lost
   only in the ways Owned names.                                                 *)
THEOREM OwnedHolds == Spec => []Owned
<1>1. FileServerInv => Owned
  BY DEF FileServerInv, Owning
<1> QED
  BY <1>1, Invariance, PTL

(* A browser that goes away ends the server only in the middle of a file or with a
   reset after it had closed its side.                                           *)
THEOREM PipeOnlyInDownload == Spec => []PipeInDownload
<1>1. FileServerInv => PipeInDownload
  BY DEF FileServerInv, Piping
<1> QED
  BY <1>1, Invariance, PTL
================================================================================
