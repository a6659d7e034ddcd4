----------------------------- MODULE MCNetwork ------------------------------
(* Three peers, so that isolate cuts more than one link.  Peers are       *)
(* interchangeable (every rule and message names them only as ids), so    *)
(* they are model values under symmetry.                                   *)
EXTENDS Network

CONSTANTS p1, p2, p3, App

MCPeer == {p1, p2, p3}
MCMsgType == {App}
MCSymmetry == Permutations(MCPeer)
=============================================================================
