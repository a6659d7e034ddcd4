---------------------------- MODULE MCReadOnly ----------------------------
(* The ReadOnly struct driven by an arbitrary caller: three contexts, three *)
(* node ids and commit indexes 0..2.                                        *)
EXTENDS ReadOnly

CONSTANTS c1, c2, c3

MCCtx == {c1, c2, c3}
MCPeer == {1, 2, 3}
MCSymmetry == Permutations(MCCtx)
=============================================================================
