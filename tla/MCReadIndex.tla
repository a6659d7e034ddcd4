---------------------------- MODULE MCReadIndex ----------------------------
(* Three servers, two read contexts, terms up to 2 and commit indexes up to *)
(* 2: enough for a leader of term 1 to commit before Self, a stale leader,  *)
(* takes over in term 2, and for two reads to be queued at once.            *)
EXTENDS ReadIndex

CONSTANTS s1, s2, s3, c1, c2

MCServer == {s1, s2, s3}
MCCtx == {c1, c2}
MCCtx1 == {c1}
MCSymmetry == Permutations(MCCtx) \cup Permutations({s2, s3})
=============================================================================
