------------------------------ MODULE MCPeers ------------------------------
(* A small pool for TLC: uploads of one action through both servers, and a *)
(* download of it.                                                         *)
EXTENDS Peers

CONSTANTS a, b, p1

TheHomes == [r \in Reqs |-> IF r = p1 THEN a ELSE b]
TheKeys  == [r \in Reqs |-> CHOOSE k \in Keys : TRUE]
=============================================================================
