------------------------------ MODULE ReadIndex ------------------------------
(***************************************************************************)
(* The ReadIndex protocol of a raft-rs leader, composed with the ReadOnly  *)
(* registry (ReadOnly.tla).  The engine (raft.rs) is not in this           *)
(* repository's src/: its handlers are modelled from spec.md (sections 2,  *)
(* 4 and 5), and they call the registry's methods exactly as spec.md says: *)
(*   - a read request on the leader: add_request(committed, m), then a     *)
(*     heartbeat carrying the context to every other server;              *)
(*   - a heartbeat response: recv_ack, and when the returned set is a      *)
(*     quorum, advance(m, commit_to_current_term);                         *)
(*   - the commit index advancing: advance_by_commit(committed).           *)
(*                                                                         *)
(* The rest of the cluster is abstracted to what a read's safety depends   *)
(* on: every server's term, elections won by a quorum, and the highest     *)
(* index committed anywhere in the cluster (clusterCommit).  Raft's        *)
(* Leader Completeness is assumed: a new leader's own commit index may lag *)
(* clusterCommit, but its first entry lands above it.                      *)
(***************************************************************************)
EXTENDS Naturals, Sequences, SequencesExt, FiniteSets, Functions, TLC

CONSTANTS
  Server,    \* node ids
  Self,      \* the node whose leader-side read path is modelled
  Ctx,       \* read request contexts
  MaxTerm,   \* bound on terms (elections)
  MaxIndex,  \* bound on commit indexes
  ReuseCtx   \* may the application reuse a context once it was released?

ASSUME Self \in Server /\ ReuseCtx \in BOOLEAN

VARIABLES
  ro,            \* Raft.read_only of Self
  currentTerm,   \* every server's term
  isLeader,      \* Self is leader in currentTerm[Self]
  committed,     \* Self's raft_log.committed
  termCommitted, \* Self's commit_to_current_term()
  leaderTerms,   \* terms in which some other server won an election
  clusterCommit, \* highest index committed anywhere (environment)
  msgs,          \* heartbeats and heartbeat responses in flight
  read_states,   \* Raft.read_states (never taken: Ready is not modelled)
  \* history, for the properties only:
  arrival,       \* per context: clusterCommit and readiness at registration
  used,          \* contexts ever registered
  regLog,        \* contexts registered in Self's current leadership, in order
  releasedLog,   \* contexts released in Self's current leadership, in order
  confirmedUpTo  \* highest registration position whose round saw a quorum

vars == <<ro, currentTerm, isLeader, committed, termCommitted, leaderTerms,
          clusterCommit, msgs, read_states, arrival, used, regLog,
          releasedLog, confirmedUpTo>>
history == <<arrival, used, regLog, releasedLog, confirmedUpTo>>

RO == INSTANCE ReadOnly WITH Peer <- Server

Term == 0..MaxTerm
Index == 0..MaxIndex
IsQuorum(S) == 2 * Cardinality(S) > Cardinality(Server)
Quorums == {Q \in SUBSET Server : IsQuorum(Q)}

Heartbeat == [type : {"hb"}, to : Server, term : Term, ctx : Ctx]
HeartbeatResponse == [type : {"hbresp"}, from : Server, term : Term, ctx : Ctx]

\* ReadState of the code (index, request_ctx), with two history fields: the
\* cluster commit index when the request arrived, and whether the leader
\* had committed in its term by then; `path` names the release path.
ReadState == [ctx : Ctx, index : Index, bound : Index, readyAtArrival : BOOLEAN,
              path : {"ack", "commit"}]

\* bcast_heartbeat_with_ctx: one heartbeat per other server.
BcastHeartbeat(ctx) ==
  {[type |-> "hb", to |-> p, term |-> currentTerm[Self], ctx |-> ctx] :
     p \in Server \ {Self}}

\* Statuses drained by the registry become read states of the Ready.
ToReadStates(statuses, path) ==
  [k \in DOMAIN statuses |->
     [ctx |-> statuses[k].ctx, index |-> statuses[k].index,
      bound |-> arrival[statuses[k].ctx].bound,
      readyAtArrival |-> arrival[statuses[k].ctx].ready, path |-> path]]

Released(statuses) == [k \in DOMAIN statuses |-> statuses[k].ctx]

\* Raft::reset as called by become_leader / become_follower: a fresh
\* registry; the history of the leadership starts over.
ResetReadOnly ==
  /\ ro' = RO!new(ro.option)
  /\ regLog' = <<>>
  /\ releasedLog' = <<>>
  /\ confirmedUpTo' = 0

-----------------------------------------------------------------------------
Init ==
  /\ ro = RO!new(RO!DefaultOption)
  /\ currentTerm = [s \in Server |-> 0]
  /\ isLeader = FALSE
  /\ committed = 0
  /\ termCommitted = FALSE
  /\ leaderTerms = {}
  /\ clusterCommit = 0
  /\ msgs = {}
  /\ read_states = <<>>
  /\ arrival = [c \in Ctx |-> [bound |-> 0, ready |-> FALSE]]
  /\ used = {}
  /\ regLog = <<>>
  /\ releasedLog = <<>>
  /\ confirmedUpTo = 0

\* Self wins an election in term t with the votes of Q; become_leader
\* resets the registry.  Its commit index is whatever it had learned.
BecomeLeader(Q, t) ==
  /\ Self \in Q
  /\ \A q \in Q : currentTerm[q] < t
  /\ currentTerm' = [s \in Server |-> IF s \in Q THEN t ELSE currentTerm[s]]
  /\ isLeader' = TRUE
  /\ termCommitted' = FALSE
  /\ \E c \in committed..clusterCommit : committed' = c
  /\ ResetReadOnly
  /\ UNCHANGED <<leaderTerms, clusterCommit, msgs, read_states, arrival, used>>

\* Another server wins term t with the votes of Q; if Self voted, it
\* becomes a follower and its registry is reset.
OtherBecomesLeader(Q, t) ==
  /\ \A q \in Q : currentTerm[q] < t
  /\ currentTerm' = [s \in Server |-> IF s \in Q THEN t ELSE currentTerm[s]]
  /\ leaderTerms' = leaderTerms \cup {t}
  /\ IF Self \in Q
     THEN /\ isLeader' = FALSE
          /\ ResetReadOnly
     ELSE UNCHANGED <<isLeader, ro, regLog, releasedLog, confirmedUpTo>>
  /\ UNCHANGED <<committed, termCommitted, clusterCommit, msgs, read_states,
                 arrival, used>>

\* The leader of term t, another server, heartbeats p: a server in a lower
\* term adopts t; Self, if it led a lower term, becomes a follower and its
\* registry is reset.
OtherHeartbeat(t, p) ==
  /\ t \in leaderTerms
  /\ p # Self \/ ~isLeader \/ currentTerm[Self] < t
  /\ currentTerm[p] <= t
  /\ currentTerm' = [currentTerm EXCEPT ![p] = t]
  /\ IF p = Self /\ isLeader
     THEN /\ isLeader' = FALSE
          /\ ResetReadOnly
     ELSE UNCHANGED <<isLeader, ro, regLog, releasedLog, confirmedUpTo>>
  /\ UNCHANGED <<committed, termCommitted, leaderTerms, clusterCommit, msgs,
                 read_states, arrival, used>>

\* The leader of term t, another server, commits an entry replicated on a
\* quorum still in term t.
OtherCommit(t) ==
  /\ t \in leaderTerms
  /\ \E Q \in Quorums : \A q \in Q : currentTerm[q] = t
  /\ clusterCommit < MaxIndex
  /\ clusterCommit' = clusterCommit + 1
  /\ UNCHANGED <<ro, currentTerm, isLeader, committed, termCommitted,
                 leaderTerms, msgs, read_states, history>>

\* Self, leader, commits its next entry (the first is its empty entry of
\* the term) on a quorum in its term.  The commit index advancing calls
\* advance_by_commit, whose statuses join the read states.
LeaderCommit ==
  /\ isLeader
  /\ \E Q \in Quorums : \A q \in Q : currentTerm[q] = currentTerm[Self]
  /\ clusterCommit < MaxIndex
  /\ LET c == clusterCommit + 1
         out == RO!advance_by_commit_result(ro, c)
     IN  /\ committed' = c
         /\ clusterCommit' = c
         /\ termCommitted' = TRUE
         /\ ro' = RO!advance_by_commit(ro, c)
         /\ read_states' = read_states \o ToReadStates(out, "commit")
         /\ releasedLog' = releasedLog \o Released(out)
  /\ UNCHANGED <<currentTerm, isLeader, leaderTerms, msgs, arrival, used,
                 regLog, confirmedUpTo>>

\* MsgReadIndex on the leader: register with the current commit index and
\* broadcast a heartbeat carrying the context.
ReadIndex(ctx) ==
  /\ isLeader
  /\ ReuseCtx \/ ctx \notin used
  /\ ro' = RO!add_request(ro, committed, ctx)
  /\ msgs' = msgs \cup BcastHeartbeat(ctx)
  /\ IF ctx \in DOMAIN ro.pending_read_index
     THEN UNCHANGED <<arrival, used, regLog>>
     ELSE /\ arrival' = [arrival EXCEPT ![ctx] =
                           [bound |-> clusterCommit, ready |-> termCommitted]]
          /\ used' = used \cup {ctx}
          /\ regLog' = Append(regLog, ctx)
  /\ UNCHANGED <<currentTerm, isLeader, committed, termCommitted, leaderTerms,
                 clusterCommit, read_states, releasedLog, confirmedUpTo>>

\* Heartbeat tick with requests pending: the leader broadcasts a heartbeat
\* carrying the context of the last pending request.
Beat ==
  /\ isLeader
  /\ \E c \in RO!last_pending_request_ctx(ro) :
       msgs' = msgs \cup BcastHeartbeat(c)
  /\ UNCHANGED <<ro, currentTerm, isLeader, committed, termCommitted,
                 leaderTerms, clusterCommit, read_states, history>>

\* Heartbeat tick with nothing pending: the heartbeat to p carries no
\* context, so its response is ignored by handle_heartbeat_response; only
\* its effect on p's term matters, and it is applied on delivery here.
BeatNoCtx(p) ==
  /\ isLeader
  /\ RO!last_pending_request_ctx(ro) = {}
  /\ p # Self
  /\ currentTerm[p] <= currentTerm[Self]
  /\ currentTerm' = [currentTerm EXCEPT ![p] = currentTerm[Self]]
  /\ UNCHANGED <<ro, isLeader, committed, termCommitted, leaderTerms,
                 clusterCommit, msgs, read_states, history>>

\* What is left in flight once m is delivered: m is gone, or, when the
\* transport delivers a duplicate (dup), a copy of it is still in flight.
Rest(m, dup) == IF dup THEN msgs ELSE msgs \ {m}

\* A server receives a heartbeat: of a lower term it is ignored, otherwise
\* the server adopts the term and echoes the context back.
HandleHeartbeat(m, dup) ==
  /\ m \in msgs
  /\ m.type = "hb"
  /\ IF m.term >= currentTerm[m.to]
     THEN /\ currentTerm' = [currentTerm EXCEPT ![m.to] = m.term]
          /\ msgs' = Rest(m, dup) \cup
               {[type |-> "hbresp", from |-> m.to, term |-> m.term,
                 ctx |-> m.ctx]}
     ELSE /\ msgs' = Rest(m, dup)
          /\ UNCHANGED currentTerm
  /\ UNCHANGED <<ro, isLeader, committed, termCommitted, leaderTerms,
                 clusterCommit, read_states, history>>

\* The leader receives a heartbeat response carrying a context: recv_ack; if
\* the acks form a quorum, advance with readiness commit_to_current_term.
HandleHeartbeatResponse(m, dup) ==
  /\ m \in msgs
  /\ m.type = "hbresp"
  /\ msgs' = Rest(m, dup)
  /\ IF isLeader /\ m.term = currentTerm[Self]
     THEN LET r1   == RO!recv_ack(ro, m.from, m.ctx)
              acks == RO!recv_ack_result(ro, m.from, Self, m.ctx)
              out  == RO!advance_result(r1, m.ctx, termCommitted)
          IN  IF IsQuorum(acks)
              THEN /\ ro' = RO!advance(r1, m.ctx, termCommitted)
                   /\ read_states' = read_states \o ToReadStates(out, "ack")
                   /\ releasedLog' = releasedLog \o Released(out)
                   /\ confirmedUpTo' =
                        Max({confirmedUpTo,
                             Len(releasedLog) + RO!position(r1, m.ctx)})
              ELSE /\ ro' = r1
                   /\ UNCHANGED <<read_states, releasedLog, confirmedUpTo>>
     ELSE UNCHANGED <<ro, read_states, releasedLog, confirmedUpTo>>
  /\ UNCHANGED <<currentTerm, isLeader, committed, termCommitted, leaderTerms,
                 clusterCommit, arrival, used, regLog>>

\* The network loses a message.
DropMessage(m) ==
  /\ m \in msgs
  /\ msgs' = msgs \ {m}
  /\ UNCHANGED <<ro, currentTerm, isLeader, committed, termCommitted,
                 leaderTerms, clusterCommit, read_states, history>>

Next ==
  \/ \E Q \in Quorums, t \in Term : BecomeLeader(Q, t)
  \/ \E Q \in Quorums, t \in Term : OtherBecomesLeader(Q, t)
  \/ \E t \in Term, p \in Server : OtherHeartbeat(t, p)
  \/ \E t \in Term : OtherCommit(t)
  \/ LeaderCommit
  \/ \E c \in Ctx : ReadIndex(c)
  \/ Beat
  \/ \E p \in Server : BeatNoCtx(p)
  \/ \E m \in msgs, dup \in BOOLEAN : HandleHeartbeat(m, dup)
  \/ \E m \in msgs, dup \in BOOLEAN : HandleHeartbeatResponse(m, dup)
  \/ \E m \in msgs : DropMessage(m)

Spec == Init /\ [][Next]_vars

\* The leader's heartbeat tick fires while reads are pending; each link
\* between Self and another server that carries messages again and again
\* delivers one eventually (drops disable delivery only intermittently);
\* the leader of a newer term keeps heartbeating, so a stale Self
\* eventually hears of it.
DeliverHeartbeat(p) ==
  \E m \in msgs, dup \in BOOLEAN :
    m.type = "hb" /\ m.to = p /\ HandleHeartbeat(m, dup)
DeliverResponse(p) ==
  \E m \in msgs, dup \in BOOLEAN :
    m.type = "hbresp" /\ m.from = p /\ HandleHeartbeatResponse(m, dup)

Fairness ==
  /\ WF_vars(Beat)
  /\ \A p \in Server \ {Self} :
       SF_vars(DeliverHeartbeat(p)) /\ SF_vars(DeliverResponse(p))
  /\ WF_vars(\E t \in Term : OtherHeartbeat(t, Self))

LiveSpec == Spec /\ Fairness

-----------------------------------------------------------------------------
TypeOK ==
  /\ RO!TypeOK
  /\ currentTerm \in [Server -> Term]
  /\ isLeader \in BOOLEAN /\ termCommitted \in BOOLEAN
  /\ committed \in Index /\ clusterCommit \in Index
  /\ leaderTerms \subseteq Term
  /\ msgs \subseteq Heartbeat \cup HeartbeatResponse
  /\ read_states \in Seq(ReadState)

\* The engine never lets waiting_for_ready exceed the queue, so
\* advance_by_commit's split_off (read_only.rs:146) cannot panic: it calls
\* advance with ready only once the leader has committed in its term, and
\* that commit drains everything that was waiting.
WaitingWithinQueue == RO!WaitingWithinQueue

\* Within one leadership, reads are released in the order they were
\* registered, none is lost and none released twice: what was registered
\* is exactly what was released followed by what is still queued
\* (advance's pop loop, read_only.rs:134-138, and advance_by_commit).
ReleaseOrder == regLog = releasedLog \o ro.read_index_queue

\* Every released read was registered no later than some read whose
\* heartbeat round reached a quorum in this leadership: neither release
\* path (read_only.rs:124-156) hands out a read whose leadership check has
\* not happened.
ReleasedConfirmed == Len(releasedLog) <= confirmedUpTo

\* A read state is fresh when its index covers everything committed in the
\* cluster when the request arrived.
Fresh(rs) == rs.index >= rs.bound

\* Reads released by advance_by_commit, and reads that arrived after the
\* leader had committed in its term, are fresh: advance_by_commit stamps the
\* new commit index over the stale one (read_only.rs:151).
GatedReadsFresh ==
  \A k \in DOMAIN read_states :
    read_states[k].path = "commit" \/ read_states[k].readyAtArrival
      => Fresh(read_states[k])

\* A read pending on a leader that has committed in its term is eventually
\* released, or dropped because the leader stepped down: lost heartbeat
\* responses are made up for by the heartbeat tick carrying
\* last_pending_request_ctx (read_only.rs:159), and a release through
\* advance removes every earlier read too.
ReadEventuallyReleased ==
  \A c \in Ctx :
    [](isLeader /\ termCommitted /\ c \in DOMAIN ro.pending_read_index
         => <>(c \notin DOMAIN ro.pending_read_index \/ ~isLeader))

\* Every read state is fresh: the linearizability spec.md section 1 claims.
ReadIndexLinearizable ==
  \A k \in DOMAIN read_states : Fresh(read_states[k])
=============================================================================
