----------------------------- MODULE FrameChannel -----------------------------
(***************************************************************************)
(* What a TcpClient promises its caller, with the parser, the partial      *)
(* reads and the byte stream left out: on each connection the peer's       *)
(* frames come out of TcpClient_RecvMsg whole, once each and in the order  *)
(* they were sent, and a new connection starts again from its first frame. *)
(* Once the object has lost its place in the stream (torn) a message may be *)
(* anything, until the object is closed.                                   *)
(* TcpClient.tla is shown to implement this specification.                 *)
(***************************************************************************)
EXTENDS Integers, Sequences

CONSTANTS
  NFrames,   \* frames the peer sends on one connection
  MaxConns   \* bound: connections opened one after the other

Frames == 0 .. NFrames - 1

VARIABLES
  conn,      \* number of the current (or last) connection
  sent,      \* frames that arrived completely on it
  taken,     \* frames of it already handed to the caller
  out,       \* everything handed out: a sequence of <<connection, frame>>
  torn       \* the object has lost its place in the stream

vars == <<conn, sent, taken, out, torn>>

\* What is handed out: a frame, or a message the peer never sent.
Handed == ((1 .. MaxConns) \X Frames) \cup {<<0, 0>>}

Init ==
  /\ conn = 0
  /\ sent = {}
  /\ taken = 0
  /\ out = <<>>
  /\ torn = FALSE

\* Bytes arrive; any number of frames become complete.
Arrive ==
  /\ \E more \in SUBSET Frames : sent' = sent \cup more
  /\ UNCHANGED <<conn, taken, out, torn>>

\* The next frame is handed out, once it is complete.
Deliver ==
  /\ taken \in sent
  /\ out' = Append(out, <<conn, taken>>)
  /\ taken' = taken + 1
  /\ UNCHANGED <<conn, sent, torn>>

\* There was no memory for a frame: the object no longer knows where one begins.
Tear ==
  /\ torn' = TRUE
  /\ UNCHANGED <<conn, sent, taken, out>>

\* What a torn object hands out.
Garbled ==
  /\ torn
  /\ \E x \in Handed : out' = Append(out, x)
  /\ taken' = taken + 1
  /\ UNCHANGED <<conn, sent, torn>>

\* The connection is given up, with whatever was not read from it.
Hangup ==
  /\ sent' = {}
  /\ taken' = 0
  /\ torn' = FALSE
  /\ UNCHANGED <<conn, out>>

\* A further connection is opened; its first byte may meet an object that is
\* still inside a frame of the last one.
Open ==
  /\ conn < MaxConns
  /\ conn' = conn + 1
  /\ sent' = {}
  /\ taken' = 0
  /\ torn' \in {torn, TRUE}
  /\ UNCHANGED out

Next == Arrive \/ Deliver \/ Tear \/ Garbled \/ Hangup \/ Open

Spec == Init /\ [][Next]_vars
===============================================================================
