------------------------------ MODULE MCFileServer -----------------------------
(* The file server with the browsers and descriptors that the runs give it:     *)
(* requests of one length, longer than what is looked at, for the safety run,   *)
(* and of three pieces and of one for the other.                                *)
EXTENDS FileServer, TLC

CONSTANTS b1, b2
MCClients == {b1, b2}
MCPieces == b1 :> 2 @@ b2 :> 2
MCLivePieces == b1 :> 3 @@ b2 :> 1

Symmetry == Permutations(MCClients)
================================================================================
