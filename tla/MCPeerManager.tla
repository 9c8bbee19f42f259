--------------------------- MODULE MCPeerManager ---------------------------
(***************************************************************************)
(* PeerManager with two outgoing and one incoming connection of one host,  *)
(* which declares no address, and one outgoing connection of another.      *)
(***************************************************************************)
EXTENDS PeerManager, TLC

CONSTANTS h1, h2, o1, o2, o3, i1

MCHostOf == [c \in Conns |-> IF c = o3 THEN h2 ELSE h1]

\* The two outgoing connections of the same host are alike.
MCSymmetry == Permutations({o1, o2})
=============================================================================
