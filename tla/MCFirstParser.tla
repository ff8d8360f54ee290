----------------------------- MODULE MCFirstParser -----------------------------
(* Instance of FirstParser for TLC: four messages with a header of three bytes,  *)
(* the last but one without a payload, cut into pieces in all ways.            *)
EXTENDS FirstParser, TLC

MCPLen == 0 :> 2 @@ 1 :> 1 @@ 2 :> 0 @@ 3 :> 1
MCStart == 0 :> 0 @@ 1 :> 5 @@ 2 :> 9 @@ 3 :> 12 @@ 4 :> 16
MCGarbage == {1, 9}   \* 9 is negative as an int
Sometimes == {TRUE, FALSE}
================================================================================
