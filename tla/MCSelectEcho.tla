------------------------------ MODULE MCSelectEcho -----------------------------
(* Instance of SelectEcho for TLC: three clients, of which two send nothing,   *)
(* and the three editions.  Two descriptors, with one between them that the    *)
(* process uses otherwise, or three and a set too small for all of them.       *)
EXTENDS SelectEcho, TLC

CONSTANTS p1, p2, p3
MCPeers == {p1, p2, p3}
MCEditions == {"linux", "winsock", "serial"}
MCFds == [linux |-> {4, 6}, winsock |-> {4, 5, 6}, serial |-> {4, 6}]
MCWords == p1 :> 2 @@ p2 :> 0 @@ p3 :> 0
================================================================================
