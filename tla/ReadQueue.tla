------------------------------ MODULE ReadQueue -----------------------------
(***************************************************************************)
(* What the ReadIndex registry promises its caller, without the map, the  *)
(* acks or the readiness counter: a FIFO of pending reads, each a context *)
(* and the index captured when it was registered.  A read joins at the    *)
(* back, only while no pending read has its context; reads leave only as  *)
(* a non-empty prefix of the queue, or all at once when the engine        *)
(* discards the registry; a pending read's index never changes.           *)
(***************************************************************************)
EXTENDS Naturals, Sequences, SequencesExt

CONSTANTS Ctx, Index

VARIABLE pending

Read == [ctx : Ctx, index : Index]

Contexts == {pending[k].ctx : k \in 1..Len(pending)}

Init == pending = <<>>

Register(ctx, index) ==
  /\ ctx \notin Contexts
  /\ pending' = Append(pending, [ctx |-> ctx, index |-> index])

ReleasePrefix(n) ==
  pending' = SubSeq(pending, n + 1, Len(pending))

\* Leadership lost: every pending read is Discarded (spec.md section 4).
Discard == pending' = <<>>

Next ==
  \/ \E ctx \in Ctx, index \in Index : Register(ctx, index)
  \/ \E n \in 1..Len(pending) : ReleasePrefix(n)
  \/ Discard

Spec == Init /\ [][Next]_pending
=============================================================================
