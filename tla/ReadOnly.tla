------------------------------ MODULE ReadOnly ------------------------------
(***************************************************************************)
(* The ReadIndex registry of raft-rs (src/src/read_only.rs, struct        *)
(* ReadOnly).  Its state is one record `ro` with one field per member of   *)
(* the struct: the map from request context to ReadIndexStatus, the queue *)
(* of contexts in registration order, and waiting_for_ready.              *)
(*                                                                         *)
(* Every method is written as an operator from the record (and the        *)
(* method's arguments) to the new record, and, where the method returns a *)
(* value, a second operator giving that value computed on the old record.  *)
(* The engine model (ReadIndex.tla) composes them inside its handlers; the *)
(* Spec of this module lets an arbitrary caller invoke any method in any  *)
(* order, which is the contract the struct itself offers.                  *)
(*                                                                         *)
(* Request messages are abstracted to their context (m.entries[0].data,   *)
(* or m.context for acks), a model value of Ctx; node ids are Peer.        *)
(***************************************************************************)
EXTENDS Naturals, Sequences, SequencesExt, FiniteSets, Functions, TLC

CONSTANTS
  Ctx,      \* request contexts (opaque byte strings in the code)
  Peer,     \* node ids
  MaxIndex  \* largest commit index passed to the registry

VARIABLE ro

Index == 0..MaxIndex

\* struct ReadIndexStatus, without the request message beyond its context.
ReadIndexStatus == [index : Index, acks : SUBSET Peer]

\* A drained status handed back to the caller, tagged with its context.
Released == [ctx : Ctx, index : Index, acks : SUBSET Peer]

\* enum ReadOnlyOption and its Default.  The registry only stores it; the
\* engine reads it to choose between the registry and a lease.
ReadOnlyOption == {"Safe", "LeaseBased"}
DefaultOption == "Safe"

\* ReadOnly::new(option): empty map, empty queue, nothing waiting.
new(option) ==
  [option             |-> option,
   pending_read_index |-> [c \in {} |-> [index |-> 0, acks |-> {}]],
   read_index_queue   |-> <<>>,
   waiting_for_ready  |-> 0]

\* Faulty variants of the methods, each defined before the method it
\* replaces, to confirm that the properties detect such faults.
add_request_next_index(r, index, ctx) ==
  IF ctx \in DOMAIN r.pending_read_index
  THEN r
  ELSE [r EXCEPT !.pending_read_index =
                   @ @@ (ctx :> [index |-> index + 1, acks |-> {}]),
                 !.read_index_queue = Append(@, ctx)]

add_request_push_front(r, index, ctx) ==
  IF ctx \in DOMAIN r.pending_read_index
  THEN r
  ELSE [r EXCEPT !.pending_read_index =
                   @ @@ (ctx :> [index |-> index, acks |-> {}]),
                 !.read_index_queue = <<ctx>> \o @]

add_request_no_dedup(r, index, ctx) ==
  [r EXCEPT !.pending_read_index = (ctx :> [index |-> index, acks |-> {}]) @@ @,
            !.read_index_queue = Append(@, ctx)]

\* add_request: a context already pending makes the call a no-op;
\* otherwise a status with no acks is inserted and the context queued.
add_request(r, index, ctx) ==
  IF ctx \in DOMAIN r.pending_read_index
  THEN r
  ELSE [r EXCEPT !.pending_read_index =
                   @ @@ (ctx :> [index |-> index, acks |-> {}]),
                 !.read_index_queue = Append(@, ctx)]

\* recv_ack, its effect: the sender joins the acks of a pending context.
recv_ack(r, from, ctx) ==
  IF ctx \in DOMAIN r.pending_read_index
  THEN [r EXCEPT !.pending_read_index[ctx].acks = @ \cup {from}]
  ELSE r

\* recv_ack, its result: empty for an unknown context, otherwise the
\* stored acks (sender included) together with the local node `to`.
recv_ack_result(r, from, to, ctx) ==
  IF ctx \in DOMAIN r.pending_read_index
  THEN r.pending_read_index[ctx].acks \cup {from} \cup {to}
  ELSE {}

\* Position (1-based) of ctx in the queue, 0 when absent
\* (read_index_queue.iter().position, shifted by one).
position(r, ctx) == SelectInSeq(r.read_index_queue, LAMBDA x : x = ctx)

\* The first n statuses of the queue, in queue order, as the code pushes
\* them onto the returned vector.
front(r, n) ==
  [k \in 1..n |->
     LET c == r.read_index_queue[k]
     IN  [ctx |-> c] @@ r.pending_read_index[c]]

pop_front_keep_map(r, n) ==
  [r EXCEPT !.read_index_queue = SubSeq(@, n + 1, Len(@))]

\* Pop the first n contexts from the queue and remove each from the map.
pop_front(r, n) ==
  [r EXCEPT
     !.read_index_queue = SubSeq(@, n + 1, Len(@)),
     !.pending_read_index =
        Restrict(@, DOMAIN @ \ ToSet(SubSeq(r.read_index_queue, 1, n)))]

advance_wait_all(r, ctx, ready) ==
  LET i == position(r, ctx) IN
  IF i = 0 THEN r
  ELSE IF ~ready
       THEN [r EXCEPT !.waiting_for_ready = Len(r.read_index_queue)]
       ELSE pop_front(r, i)

\* advance, its effect: nothing for an unknown context; when not ready,
\* waiting_for_ready rises to cover the context; when ready, the queue is
\* drained up to and including the context.
advance(r, ctx, ready) ==
  LET i == position(r, ctx) IN
  IF i = 0 THEN r
  ELSE IF ~ready
       THEN [r EXCEPT !.waiting_for_ready = Max({@, i})]
       ELSE pop_front(r, i)

\* advance, its result: the drained statuses in queue order.
advance_result(r, ctx, ready) ==
  LET i == position(r, ctx) IN
  IF i = 0 \/ ~ready THEN <<>> ELSE front(r, i)

advance_by_commit_no_reset(r, committed) ==
  IF r.waiting_for_ready > 0
  THEN pop_front(r, r.waiting_for_ready)
  ELSE r

\* advance_by_commit, its effect: when something waits, split the queue at
\* waiting_for_ready, drop the front part from the map and reset the
\* counter.  VecDeque::split_off panics when waiting_for_ready exceeds the
\* queue length; that precondition is the invariant WaitingWithinQueue.
advance_by_commit(r, committed) ==
  IF r.waiting_for_ready > 0
  THEN [pop_front(r, r.waiting_for_ready) EXCEPT !.waiting_for_ready = 0]
  ELSE r

advance_by_commit_result_keep_index(r, committed) ==
  IF r.waiting_for_ready > 0 THEN front(r, r.waiting_for_ready) ELSE <<>>

\* advance_by_commit, its result: the drained statuses, each with its index
\* overwritten by the committed index.
advance_by_commit_result(r, committed) ==
  IF r.waiting_for_ready > 0
  THEN [k \in 1..r.waiting_for_ready |->
          [front(r, r.waiting_for_ready)[k] EXCEPT !.index = committed]]
  ELSE <<>>

last_pending_request_ctx_none(r) == {}

\* last_pending_request_ctx: the tail of the queue, if any.
last_pending_request_ctx(r) ==
  IF r.read_index_queue = <<>> THEN {} ELSE {Last(r.read_index_queue)}

\* pending_read_count: the queue length.
pending_read_count(r) == Len(r.read_index_queue)

-----------------------------------------------------------------------------
(* The struct on its own: any caller, any order of calls.                  *)

Init == ro = new(DefaultOption)

AddRequest ==
  \E index \in Index, ctx \in Ctx : ro' = add_request(ro, index, ctx)

RecvAck ==
  \E from \in Peer, ctx \in Ctx : ro' = recv_ack(ro, from, ctx)

Advance ==
  \E ctx \in Ctx, ready \in BOOLEAN : ro' = advance(ro, ctx, ready)

AdvanceByCommit ==
  \E committed \in Index :
    /\ ro.waiting_for_ready <= Len(ro.read_index_queue)
    /\ ro' = advance_by_commit(ro, committed)

Next == AddRequest \/ RecvAck \/ Advance \/ AdvanceByCommit

Spec == Init /\ [][Next]_ro

-----------------------------------------------------------------------------
(* The registry seen as the queue of reads it promises (ReadQueue.tla):   *)
(* the queued contexts, in order, with the index stored for each.          *)

RQ == INSTANCE ReadQueue WITH
        pending <- [k \in 1..Len(ro.read_index_queue) |->
                      [ctx |-> ro.read_index_queue[k],
                       index |-> ro.pending_read_index[ro.read_index_queue[k]].index]]

-----------------------------------------------------------------------------
TypeOK ==
  /\ ro.option \in ReadOnlyOption
  /\ DOMAIN ro.pending_read_index \subseteq Ctx
  /\ \A c \in DOMAIN ro.pending_read_index :
       ro.pending_read_index[c] \in ReadIndexStatus
  /\ ro.read_index_queue \in Seq(Ctx)
  /\ ro.waiting_for_ready \in Nat

\* The map and the queue hold the same contexts and the queue holds each
\* once: the debug_assert in advance (read_only.rs:127) and the unwraps in
\* advance and advance_by_commit rely on it.
QueueMapConsistent ==
  /\ ToSet(ro.read_index_queue) = DOMAIN ro.pending_read_index
  /\ Len(ro.read_index_queue) = Cardinality(DOMAIN ro.pending_read_index)

\* waiting_for_ready never counts more entries than the queue holds, so
\* advance_by_commit's split_off (read_only.rs:146) cannot panic.
WaitingWithinQueue == ro.waiting_for_ready <= Len(ro.read_index_queue)

\* Whatever order a caller invokes the methods in, the registry behaves as
\* the FIFO of ReadQueue: add_request appends a new context at the back
\* with its index, advance and advance_by_commit remove only a prefix of
\* the queue, and no other call changes the queued reads or their indexes.
RefinesReadQueue == RQ!Spec
=============================================================================
