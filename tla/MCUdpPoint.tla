------------------------------- MODULE MCUdpPoint -------------------------------
(* Instances of UdpPoint for TLC: three messages of two remote points, one of   *)
(* them without a payload, and a two byte header.                               *)
EXTENDS UdpPoint, TLC

CONSTANTS a, b   \* remote addresses
MCFrames == {1, 2, 3}
MCSender == 1 :> a @@ 2 :> b @@ 3 :> a
MCPLen == 1 :> 2 @@ 2 :> 1 @@ 3 :> 0
LongPLen == 1 :> 5 @@ 2 :> 1 @@ 3 :> 0   \* the first does not fit in PeekSize
Always == {TRUE}
Sometimes == {TRUE, FALSE}
MCGarbage == {0, 1, 3, 9}   \* 9 is negative as an int
================================================================================
