# TLA+ models of raft-rs's ReadIndex subsystem

This directory holds TLA+ models of the code under `src/` and the TLC
configurations that check them. `PROJECT.json` lists the components, the
runs, the mutants that show each property can fail, the map from every
model definition to the source lines it translates, the findings and the
hazards.

In every module, an operator whose name extends a method's name with a
suffix (`add_request_push_front`, `Error_eq_config_any`,
`SendStep_new_first`, `read_expected_skip_first`, …) is a faulty variant
of that method. It is used only to confirm that a property detects the
fault (`PROJECT.json` "mutants").

## 1. Inventory

### Components

| Component | Source | State | Operations |
|---|---|---|---|
| ReadOnly registry | `src/src/read_only.rs` | `pending_read_index` (context → `ReadIndexStatus{req, index, acks}`), `read_index_queue` (contexts in registration order), `waiting_for_ready` (how many queued reads wait for the term commit), `option` | `new`, `add_request`, `recv_ack`, `advance`, `advance_by_commit`, `last_pending_request_ctx`, `pending_read_count` |
| Leader read path of the engine | `raft.rs`, **not in this repository**; described by `spec.md` §2, §4, §5 | term, role, commit index, `commit_to_current_term`, `read_states` | MsgReadIndex on the leader, heartbeat tick, heartbeat response, commit advance, `reset` on becoming leader or follower |
| Error types | `src/src/errors.rs` | none (values) | `PartialEq::eq` for `Error` and `StorageError` |
| Test network | `src/harness/src/network.rs` | peers, drop rates per link, delays per link, ignored message types | `filter`, `send`, `dispatch`, `drop`, `delay`, `cut`, `isolate`, `recover` |
| Datadriven reader | `src/datadriven/src/test_data_reader.rs` | a line scanner and the current `TestData` | `next`, `read_expected` |
| Benchmarks | `src/benches/suites/raw_node.rs` | none | timing loops |

### How they interact

The engine owns one `ReadOnly`. When a read request (MsgReadIndex) reaches
the leader, the engine calls `add_request(committed, m)` and broadcasts a
heartbeat that carries the request's context. Each follower echoes the
context in its heartbeat response. For each response the engine calls
`recv_ack`. When the returned set is a quorum, it calls
`advance(m, commit_to_current_term)`:
- **ready:** this drains the acknowledged read and every read queued before it;
- **not yet ready:** it raises `waiting_for_ready` over them instead.

Whenever the commit index advances, the engine calls
`advance_by_commit(committed)`. That drains the waiting reads and stamps them
with the new commit index. Drained reads become `ReadState`s of the next
Ready. When the engine becomes leader or follower, `reset` replaces the
registry with a fresh one.

All of this runs on the engine's single thread, one message at a time. The
concurrency that matters is in the cluster:
- elections depose the leader while it still serves reads;
- heartbeat responses are lost, delayed and reordered;
- the commit of the leader's first entry in its term races the
  acknowledgements of reads.

The test network and the datadriven reader are test infrastructure. The
network is a sequential worklist with random drops. The reader is a
line-scanning state machine.

### What makes each component correct

- **ReadOnly:** the map and the queue hold the same contexts, each queued
  once (the `debug_assert` and `unwrap`s depend on it).
  `waiting_for_ready` never exceeds the queue length (else `split_off`
  panics). Reads are released in registration order and only behind a
  quorum round that started after they arrived.
- **Read path:** every released read's index covers everything committed in
  the cluster before the request arrived (linearizability, `spec.md` §1).
- **Errors:** equality agrees, in both argument orders, with value
  equality on every variant the `match` lists.
- **Network:** `send` terminates when peers go quiet, and `isolate` and `cut`
  drop exactly the links they name.
- **Reader:** well-formed files are read without panicking, and an expected
  block is returned with its lines in file order.

### Hard behaviours

`PROJECT.json` "hazards" lists them at their lines. The main ones:
- the race between a read's quorum ack and the term commit;
- `waiting_for_ready` going stale after a token-driven release;
- a delayed heartbeat response confirming a later read that reuses its context;
- reads released on the strength of a later read's round;
- liveness of pending reads when responses are lost.

## 2. Plan

1. **`ReadOnly.tla`** (done): the registry, one operator per method (its
   effect, and its result where it returns one). It has its own `Spec`, in
   which an arbitrary caller invokes any method in any order.
2. **`ReadIndex.tla`** (done): the leader read path composed with `ReadOnly`
   through `INSTANCE ReadOnly`, over an abstract cluster. The cluster has
   per-server terms, elections won by quorums, another leader that may
   commit, and a cluster-wide commit index. Heartbeats and responses can be
   lost, delayed and reordered.
3. **Liveness run** for `ReadIndex` (done): a pending read is eventually
   released while the leader stays leader and a quorum answers (see Fairness, section 4).
4. **Abstract registry `ReadQueue.tla`** (done): a FIFO of pending reads
   whose only release is a prefix. `ReadOnly` is shown to refine it, and
   its `Spec` is checked as a `PROPERTY`.
5. **`ErrorsEq.tla`** (done): both `PartialEq` impls as operators over
   the variants, checked against a reference equality.
6. **`Network.tla`** (done): the fault rules, `send`, `dispatch` and
   `read_messages` over abstract peers, with random drops as
   nondeterminism.
7. **`TestDataReader.tla`** (done): `next` and `read_expected` over files
   rendered from bounded lists of test cases, checked against the cases.

8. **`ReadOnly` refines `ReadQueue`** (done): `ReadQueue` has a `Discard`
   step for the engine's `reset` on a role change. The `readonly_contract`
   run checks `RefinesReadQueue` as a `PROPERTY` under arbitrary callers.

`send`'s loop is covered by `SendProgress`. Given finitely many
messages, every step lowers a bounded measure, so the loop returns.
Follower-originated reads are not modelled. spec.md does not describe
them, and the engine code is not in the repository.

## 3. Modules

### `ReadOnly.tla` — `src/src/read_only.rs`

The state is one variable, `ro`, a record with fields `option`,
`pending_read_index`, `read_index_queue` and `waiting_for_ready`, like the
struct. A request
message is reduced to its context: a model value of `Ctx`. Node ids are
`Peer`. Each method `f` is an operator `f(r, args)` that gives the new
record. A method that returns something also has `f_result(r, args)`, the
value it returns, computed on the old record. The engine composes both
inside one handler. Operators and their source lines:
- `new(option)`, `ReadOnlyOption` and `DefaultOption`: lines 22–40 and 62–80;
- `add_request`: lines 88–103;
- `recv_ack` and `recv_ack_result`: lines 108–119;
- `advance` and `advance_result`: lines 124–141, with helpers `position`,
  `front` and `pop_front`;
- `advance_by_commit` and `advance_by_commit_result`: lines 143–156;
- `last_pending_request_ctx` and `pending_read_count`: lines 158–166.

`split_off` panics when `waiting_for_ready` is larger than the queue. In
the standalone `Spec`, such a panic ends the process, so `AdvanceByCommit`
is disabled in that state. The invariant `WaitingWithinQueue` states the
precondition.

Operators named `*_next_index`, `*_push_front`, `*_keep_map`, `*_wait_all`,
`*_no_reset`, `*_keep_index`, `*_no_dedup` and `*_none` are faulty variants of the methods. They
are used only to confirm that the properties detect such faults
(`PROJECT.json` "mutants").

`ReadOnlyOption` is only stored: `new(option)` keeps it and no method reads
it. The standalone `Spec` starts from the default, `Safe`. The engine
model keeps the option across `reset`, as `Raft::reset` does. Under
`LeaseBased` the engine does not use the registry, so only `Safe` reads
reach it.

### `ReadIndex.tla` — the leader read path (`spec.md`), over `ReadOnly`

The variables:
- `ro`: the registry of the modelled node `Self`.
- `currentTerm`, `isLeader`, `committed` and `termCommitted`: `Self`'s
  term, role, commit index and `commit_to_current_term()`.
- `leaderTerms`: the terms other servers won.
- `clusterCommit`: the highest index committed anywhere.
- `msgs`: heartbeats and responses in flight.
- `read_states`: the released reads.
- History variables: `arrival`, `used`, `regLog`, `releasedLog` and
  `confirmedUpTo`.

The actions:
- `ReadIndex(ctx)` calls `add_request(committed, ctx)` and broadcasts
  heartbeats carrying `ctx`.
- `HandleHeartbeatResponse(m)` calls `recv_ack`. On a quorum it calls
  `advance(ctx, termCommitted)`.
- `LeaderCommit` commits the leader's next entry and calls
  `advance_by_commit`.
- `Beat` is the heartbeat tick with `last_pending_request_ctx`. `BeatNoCtx`
  is the tick with nothing pending; only its effect on a follower's term
  matters.
- `HandleHeartbeat` is a follower answering or ignoring a heartbeat.
- `BecomeLeader`, `OtherBecomesLeader` and `OtherHeartbeat` cover elections
  and a stale `Self` stepping down. Each `reset`s the registry.
- The environment: `OtherCommit` and `DropMessage`.

Leader Completeness is assumed: a new leader's commit index may be anything
up to `clusterCommit`, and its first entry lands above `clusterCommit`.

Messages can also be duplicated. A handler takes a flag `dup`: when it is
set, the delivered message stays in flight (`Rest(m, dup)`), so it can be
delivered again later, including after its read was released. Every
property of the `read_index` run holds with duplicates: `recv_ack` counts
a sender once and ignores contexts that are no longer pending. Taking Ready is not modelled either: it
does not touch the registry.

### `ReadQueue.tla` — what `ReadOnly` promises

One variable, `pending`: a sequence of reads, each a context and an index.
`Register` appends a read whose context is not pending. `ReleasePrefix(n)`
removes the first `n` reads, `n >= 1`. `Discard` empties the queue: this is
spec.md's "Discarded" state, reached when the engine replaces the
registry on a role change. `ReadOnly.tla` instantiates it as
`RQ`. The refinement mapping lists the queued contexts in order, each with
the index its map entry stores. `RefinesReadQueue == RQ!Spec` is checked as
a `PROPERTY` of `readonly_contract`. Under it, `recv_ack`, `advance` with
`ready = false`, and a duplicate `add_request` are stuttering steps. The
standalone `Spec` calls `add_request` with contexts that are already
pending, so the property checks the early return at line 91. Without that
return, the context would be queued twice and its index overwritten
(mutant `add_request_no_dedup`). The engine calls the registry
only with sequences the standalone `Spec` already makes, and its `reset`
is a `Discard` step. The engine run therefore does not check the
refinement or the map/queue agreement again.

### `ErrorsEq.tla` — `src/src/errors.rs`

An error is a record tagged with its variant. The payloads come from small
sets: an `io::Error` is its kind and message, and `Exists`/`NotExists` are
a node id and a set name. `Error_eq` and `StorageError_eq` translate the
two `match`es arm by arm. The state machine compares any two errors, one
pair per step. `EqMatchesReference` compares `Error_eq`, in both argument
orders, with a reference equality. That reference is value equality with
an `io::Error` identified by its kind, which is what `test_error_equal`
asserts for a handful of pairs. `TestAsserts` lists the pairs that
`test_error_equal` and `test_storage_error_equal` assert equal or unequal.
An `ASSUME` checks that the reference agrees with every one of them, so
the reference means what the tests mean. The `_ => false` arm makes `CodecError`,
`Exists` and `NotExists` unequal to themselves. `PartialEq` does not
require reflexivity and nothing in the repository claims it, so
`EqMatchesReference` leaves those left-hand sides out.

### `Network.tla` — `src/harness/src/network.rs`

The variables:
- the rule maps `dropm`, `delaym` and `ignorem`;
- each peer's `outbox`, the messages its Raft has queued;
- `pc`, with `msgs` and `new_msgs`, for the loops of `send` and `dispatch`;
- the history variables `lastStepped` and `lastSn`, and `gone`, the
  messages that have left the network.

A peer is abstracted to its outbox. Stepping it may queue one message to
any other peer (`Emissions`). Between calls, `PeerEmit` stands for the
peer's own ticks. Each rule-changing method is an action, guarded by
`pc = "idle"`: the methods take `&mut self`, so none runs during `send`.

`send` is the action `Send`, taking a batch the test built or the result
of `read_messages()`. It is followed by one `SendStep` per stepped
message, which also drains that peer's outbox through `filter`. `SendRound`
turns `new_msgs` into the next round, and `SendReturn` ends the call.
`dispatch` filters first, then steps message by message, and stops at a
failing step.

`CutLinksSilent` is about messages queued while a link was cut, and it
fails (run `network_cut`).


`NoSilentLoss` is a conservation law. The history variable `gone`
collects the serial numbers of messages that left legitimately:

- stepped at their destination;
- dropped by `filter`;
- abandoned with the rest of a batch when a `dispatch` step fails
  (network.rs:195).

Every message made so far is either in `gone` or in flight, never both.
In flight means in an outbox, in `msgs`, or in `new_msgs`. The law fails
if `send`'s read after a step, or `read_messages`, loses part of an
outbox. The mutant `SendStep_drop_leftover` forgets what the outbox held
before the step, and TLC finds the violation.

`SendProgress` is the termination argument for `send`'s loop
(network.rs:172), stated as an action property. `SendMeasure` weights:

- messages not yet made and messages in outboxes by 3;
- `new_msgs` by 2;
- the current round by 1.

Every step that stays inside `send` must lower `SendMeasure`, which is
bounded below by 0. So when peers make finitely many messages, every call
returns. The mutant `SendRound_keep_new` breaks this: its round does not
empty `new_msgs`, and TLC finds the violation. With it, `send` would loop
forever.

Drop rates and `rand::random` draws are in quarters. That keeps the `>=`
boundary of `filter`: a rate of 1.0 drops everything, a rate of 0
nothing. `maybe_delay` only sleeps, so `delaym` is state that nothing
reads. Peers are model values under symmetry. `isolate` loops over ids
`1..peers.len()`, and `new_with_config` always numbers the peers that
way, so it cuts every link of the node.

### `TestDataReader.tla` — `src/datadriven/src/test_data_reader.rs`

Lines are tokens: a directive, `subtest`, a comment, a blank line,
`----`, and the text lines `a` and `b`. Concatenating pushed lines is
appending tokens. A blank line pushes nothing, and no token is a
concatenation of others, so equal sequences mean equal strings.

`next`, `read_expected`, `single_block` and `double_block` are recursive
operators over the file and the number of lines scanned. They return the
new position, the `TestData`, the `bool`, and whether an `expect` or
`assert` panicked. The state machine renders a file from a list of test
cases (`Render`) and calls `next` until it returns `false`, as the runner
does. `ReadsBackCases` says that every case is handed back, in order,
without a panic.

`Shapes` selects the layouts that are rendered:
- `single`: lines closed by a blank line;
- `subtest`;
- `empty`: no expected lines;
- `double`: `----` `----` … `----` `----`;
- `eof`: a block that runs to the end of the file.

`LineScanner` and `parse_line` are not in the repository. `scan` is
assumed to return the lines and then `None`, like `str::lines`.
`parse_line` is assumed to return a one-word line as the command.

## 4. Runs

| Run | Module / cfg | Expect | What it shows |
|---|---|---|---|
| `readonly_contract` | `MCReadOnly` / `MCReadOnly.cfg` | pass | Any call sequence keeps map and queue consistent, and the registry refines `ReadQueue` (57,700 states). |
| `readonly_split_off` | `MCReadOnly` / `MCReadOnly_split.cfg` | violation | `advance(c,false)` then `advance(c,true)` leaves `waiting_for_ready` = 1 with an empty queue, so the next `advance_by_commit` panics in `split_off`. |
| `read_index` | `MCReadIndex` / `MCReadIndex.cfg` | pass | Under elections, stale leaders, and lost or delayed heartbeats: `split_off` cannot panic; reads are released in registration order and only behind a quorum round; reads gated on the term commit, or arriving after it, are fresh. |
| `read_index_liveness` | `MCReadIndex` / `MCReadIndex_live.cfg` | pass | Under `LiveSpec`, a read pending on a leader that has committed in its term is eventually released, or dropped when the leader steps down. This holds even when every heartbeat of the read's first round is lost: the tick's `last_pending_request_ctx` makes up for them. |
| `read_index_linearizable` | `MCReadIndex` / `MCReadIndex_linearizable.cfg` | violation | A read registered before the term commit, acked after it, is released at its stale index. |
| `read_index_ctx_reuse` | `MCReadIndex` / `MCReadIndex_reuse.cfg` | violation | With a reused context, a late response of the earlier round confirms the new read on a deposed leader. |
| `errors_eq` | `MCErrorsEq` / `MCErrorsEq.cfg` | pass | `Error::eq` agrees with the reference equality on all 361 pairs whose left side the match lists, in both orders. |
| `network_fifo` | `MCNetwork` / `MCNetwork.cfg` | pass | A peer's messages to one destination are stepped in the order it queued them, across rounds, `dispatch` and `read_messages`. No message is lost except by stepping, filtering or a failing dispatch step (`NoSilentLoss`). Every step inside `send` lowers a bounded measure, so `send` returns (`SendProgress`) (780,285 states, about 2 minutes). |
| `network_cut` | `MCNetwork` / `MCNetwork_cut.cfg` | violation | A message queued while its link was cut is delivered by `send(read_messages())`. |
| `datadriven_reader` | `TestDataReader` / `MCTestDataReader.cfg` | pass | Files of up to two subtests and single blocks, with comment or blank lines between them, are read back case by case (6,203 states). |
| `datadriven_layouts` | `TestDataReader` / `MCTestDataReader_layouts.cfg` | violation | Empty blocks, double-separator blocks and blocks ending at end of file are not read back. Each layout fails on its own. |

### Findings

1. **The term commit races the ack** (`read_index_linearizable`). The
   trace: another server leads term 1 and commits index 1. `Self` wins term
   2 knowing commit index 0. A read arrives and is registered with index 0.
   `Self` commits its first entry (index 2), and only then do the acks
   reach a quorum. `advance(…, ready=true)` returns the read with index 0,
   which misses index 1. Only the commit path overwrites the index
   (`read_only.rs:151`).
2. **Reusing a context** (`read_index_ctx_reuse`). `recv_ack` accepts any
   response carrying the context. A response left over from the earlier
   round confirms a read registered after `Self` was deposed and a newer
   leader committed.
3. **`waiting_for_ready` outlives a token-driven release**
   (`readonly_split_off`). The engine as modelled never produces this
   sequence: it is ready only after the term commit, and that commit drains
   everything waiting. The struct on its own allows it, though, and
   `spec.md` §3 describes the counter as counting the blocked entries.
4. **Cut links leak** (`network_cut`). `filter` runs on what a step
   produces (`network.rs:181`) and on `dispatch`'s argument. It does not
   run on `send`'s own argument or in `read_messages`. A message queued
   while `cut` or `isolate` was in force is delivered by
   `send(read_messages())`, or by any `send` after `recover`.
5. **Empty and double-separator expected blocks are misread**
   (`datadriven_layouts`). `read_expected` pushes the first line after
   `----` before deciding what it is (`test_data_reader.rs:98`):
   - **An empty block:** the blank line is pushed, and the reader runs on
     to the next blank line, swallowing the next test case.
   - **A double-separator block:** its opening `----` lands in the
     output, and a `----` inside the block is pushed after the line that
     follows it (line 117).
6. **A block ending at end of file panics** (`datadriven_layouts`,
   `test_data_reader.rs:123`), through `expect`.

### Bounds

`MCReadIndex` has three servers (quorum 2), two contexts, terms 0..2 and
commit indexes 0..2. Two terms let one leader commit before the stale
`Self` takes over, which is the smallest setting for finding 1. Two
contexts let two reads be queued at once, which order, prefix release and
the gate need. Three servers are the smallest cluster where quorums
intersect non-trivially and one server can lag.

`MCReadOnly` has three contexts, three node ids and indexes 0..2. Three
contexts are enough for a blocked prefix, a target and a later read.

Symmetry is used over contexts, and over the two servers other than `Self`.
Both are model values compared only for equality.

`MCNetwork` has three peers (so `isolate` cuts two links at once), one
message type, at most 3 messages and at most 2 rule changes per behaviour.
Three messages allow a peer to queue two messages to one destination
through different paths, which is what FIFO needs. Two rule changes allow
a cut followed by `recover`. The run stops when the bounds are exhausted,
as a test ends, so deadlock is not checked.

`MCErrorsEq` uses two io kinds and two messages, so that equal kinds with
different messages occur. It also uses two descriptions and two node
ids.

`MCTestDataReader` renders up to two test cases, each with up to one
input line, up to two expected lines, and an optional comment or blank
line before it. Two cases are the fewest in which one block can swallow
the next. The run ends when `next` returns `false`, so deadlock is not
checked.

### Fairness

The safety runs assume no fairness. `LiveSpec` (run `read_index_liveness`)
adds three conditions:
- **Weak fairness of `Beat`.** A leader's heartbeat tick keeps firing, and
  while a read is pending each tick carries its context.
- **Strong fairness of delivery on each link between `Self` and another
  server** (`DeliverHeartbeat(p)`, `DeliverResponse(p)`). Drops may disable
  delivery, but only intermittently: this is the fair-lossy link that
  Raft's retries presuppose. Per-message strong fairness would say the
  same more finely, but with one condition per message the tableau
  becomes too large for TLC.
- **Weak fairness of the newest leader's heartbeat to `Self`.** A stale
  `Self` eventually learns the newer term and steps down.

Nothing forces the leader to commit, so the property is stated only for a
leader that has committed in its term. Before that commit, reads may wait
on `waiting_for_ready` as long as the commit is delayed.

The liveness run uses one context (`MCCtx1`), with terms and indexes up to
2, and takes seconds. With two contexts, the state graph times the tableau
grows past the time budget at terms up to 2. With two contexts and terms
up to 1, the property also holds (checked once, in about 2 minutes).

## 5. Not modelled

- The engine's log replication and elections beyond terms and quorums.
- Follower-originated reads (MsgReadIndexResp).
- `LeaseBased` reads.
- The benchmarks.
- The `MsgHup` assertion in `Network::filter`: Raft peers never queue
  `MsgHup`.
- The network's `new_with_config` checks of a peer's position, and the
  liveness of `send` (it depends on the Raft peers falling quiet).
- Continuation lines and `parse_line` errors in the datadriven reader:
  `parse_line` is not in the repository.
- Descriptions and `Display` strings of the errors: nothing compares them.
