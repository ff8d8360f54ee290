---------------------------- MODULE DatagramService ----------------------------
(***************************************************************************)
(* What a UdpPoint promises the caller of UdpPoint_RecvMsg: the messages   *)
(* that arrive come out whole, with their sender, in the order in which    *)
(* they arrived, and none is lost inside the object unless something       *)
(* failed.  UdpPoint.tla is shown to implement this specification.         *)
(***************************************************************************)
EXTENDS Integers, Sequences

CONSTANTS
  Frames     \* messages that can be sent, each with one sender

VARIABLES
  queue,     \* arrived, not yet asked for
  out,       \* handed out
  dropped    \* how many were lost to a failure

vars == <<queue, out, dropped>>

Init == queue = <<>> /\ out = <<>> /\ dropped = 0

Arrive(f) == queue' = Append(queue, f) /\ UNCHANGED <<out, dropped>>

Take ==
  /\ queue # <<>>
  /\ queue' = Tail(queue)
  /\ out' = Append(out, Head(queue))
  /\ UNCHANGED dropped

Drop ==
  /\ queue # <<>>
  /\ dropped' = dropped + 1
  /\ queue' = Tail(queue)
  /\ UNCHANGED out

Next == (\E f \in Frames : Arrive(f)) \/ Take \/ Drop

Spec == Init /\ [][Next]_vars
================================================================================
