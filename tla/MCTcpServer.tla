------------------------------ MODULE MCTcpServer ------------------------------
(* Instances of TcpServer for TLC: two or three peers on one or two             *)
(* descriptors, so that descriptors are used again, and series of one or two    *)
(* messages.                                                                    *)
EXTENDS TcpServer, TLC

CONSTANTS p1, p2, p3
TwoPeers == {p1, p2}
ThreePeers == {p1, p2, p3}
OneFd == {4}
TwoFds == {4, 5}
Always == {TRUE}
TrueOrFalse == BOOLEAN
Symmetry3 == Permutations(ThreePeers)
================================================================================
