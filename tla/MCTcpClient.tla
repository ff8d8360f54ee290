------------------------------ MODULE MCTcpClient ------------------------------
(* Instances of TcpClient for TLC: two frames, the second one without a     *)
(* payload, a two byte header, and everything the payloads can be cut into. *)
EXTENDS TcpClient, TLC

MCPLen == 0 :> 2 @@ 1 :> 0
MCStart == 0 :> 0 @@ 1 :> 4 @@ 2 :> 6
Sometimes == {TRUE, FALSE}
MCGarbage == {0, 3, 9}   \* 9 is negative as an int
================================================================================
