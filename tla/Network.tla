------------------------------ MODULE Network ------------------------------
(***************************************************************************)
(* The simulated network of raft-rs's test harness                          *)
(* (src/harness/src/network.rs, struct Network).                           *)
(*                                                                         *)
(* The network owns the fault rules (dropm, delaym, ignorem) and moves     *)
(* messages between peers.  A peer is abstracted to its outbox, the        *)
(* messages its Raft has queued and read_messages drains: stepping a peer  *)
(* may queue any message from it to another peer.  Messages are records    *)
(* with a serial number `sn` in creation order and two history fields:     *)
(* `src` (made by a peer, or by the test calling send/dispatch directly)   *)
(* and `cut` (its link's drop rate was 1 when the peer made it).           *)
(*                                                                         *)
(* Drop rates and rand::random::<f64>() are in quarters: a rate is one of  *)
(* 0, 2 or 4 (0.0, 0.5, 1.0) and a draw one of 0..3 (random is in [0, 1)), *)
(* so `draw >= rate` keeps the boundary cases of filter.                   *)
(*                                                                         *)
(* send and dispatch take &mut self, so no rule changes while they run:   *)
(* the test's calls are actions enabled only when pc = "idle", and the    *)
(* loops of send and dispatch are steps taken while pc says so.            *)
(***************************************************************************)
EXTENDS Naturals, Sequences, SequencesExt, FiniteSets, Functions

CONSTANTS
  Peer,       \* peer ids; new_with_config numbers them 1..peers.len()
  MsgType,    \* message types that travel between peers
  MaxMsgs,    \* bound on the messages created in a behaviour
  MaxConfig   \* bound on the calls that change the fault rules

Link == {l \in Peer \X Peer : l[1] # l[2]}
Rate == {0, 2, 4}
Draw == 0..3

Msg == [from : Peer, to : Peer, type : MsgType, sn : 1..MaxMsgs,
        src : {"peer", "caller"}, cut : BOOLEAN]
NoMsg == [sn |-> 0]

VARIABLES
  dropm,        \* Link -> drop rate; 0 stands for an absent entry
  delaym,       \* links with a delay rule (timing only)
  ignorem,      \* message types dropped by filter
  outbox,       \* Peer -> messages queued by the peer's Raft
  pc,           \* "idle", "send" or "dispatch"
  msgs,         \* the worklist of send, the filtered list of dispatch
  new_msgs,     \* responses gathered in the current round of send
  nextSn,       \* messages created so far
  configs,      \* rule-changing calls made so far
  lastStepped,  \* the message the last step stepped at a peer, or NoMsg
  lastSn,       \* Link -> sn of the last peer message stepped over it
  gone          \* sns of messages stepped, dropped by filter or abandoned

vars == <<dropm, delaym, ignorem, outbox, pc, msgs, new_msgs, nextSn,
          configs, lastStepped, lastSn, gone>>

\* Network::new_with_config: the peers, no rules.
Init ==
  /\ dropm = [l \in Link |-> 0]
  /\ delaym = {}
  /\ ignorem = {}
  /\ outbox = [p \in Peer |-> <<>>]
  /\ pc = "idle"
  /\ msgs = <<>>
  /\ new_msgs = <<>>
  /\ nextSn = 0
  /\ configs = 0
  /\ lastStepped = NoMsg
  /\ lastSn = [l \in Link |-> 0]
  /\ gone = {}

-----------------------------------------------------------------------------
(* filter: a message survives when its type is not ignored and the draw   *)
(* is at least its link's drop rate.                                       *)

Pass(m, draw) ==
  /\ m.type \notin ignorem
  /\ draw >= dropm[<<m.from, m.to>>]

RECURSIVE filter(_, _)
filter(s, draws) ==
  IF s = <<>> THEN <<>>
  ELSE (IF Pass(Head(s), Head(draws)) THEN <<Head(s)>> ELSE <<>>)
       \o filter(Tail(s), Tail(draws))

\* The serial numbers of a list of messages, and of those filter drops.
Sns(s) == {s[k].sn : k \in 1..Len(s)}
Filtered(s, draws) == Sns(s) \ Sns(filter(s, draws))

\* The draws filter may make for a list of messages.
Draws(s) == [1..Len(s) -> Draw]

\* What stepping peer p may queue: nothing, or one message to another
\* peer, while fewer than MaxMsgs messages exist.
Emissions(p) ==
  {<<>>} \cup
  IF nextSn < MaxMsgs
  THEN {<<[from |-> p, to |-> q, type |-> t, sn |-> nextSn + 1,
           src |-> "peer", cut |-> dropm[<<p, q>>] = 4]>> :
          q \in Peer \ {p}, t \in MsgType}
  ELSE {}

\* Step m at its destination: the stepped message is recorded, and so is
\* the serial number of a peer message on its link.
Stepped(m) ==
  /\ lastStepped' = m
  /\ lastSn' = IF m.src = "peer" THEN [lastSn EXCEPT ![<<m.from, m.to>>] = m.sn]
               ELSE lastSn

-----------------------------------------------------------------------------
(* The rule-changing calls of a test; each is one call of the method.     *)

Configure(rules) ==
  /\ pc = "idle"
  /\ configs < MaxConfig
  /\ configs' = configs + 1
  /\ rules
  /\ lastStepped' = NoMsg
  /\ UNCHANGED <<outbox, pc, msgs, new_msgs, nextSn, lastSn, gone>>

\* ignore(t)
Ignore(t) ==
  Configure(ignorem' = ignorem \cup {t} /\ UNCHANGED <<dropm, delaym>>)

\* drop(from, to, perc)
Drop(from, to, perc) ==
  Configure(dropm' = [dropm EXCEPT ![<<from, to>>] = perc]
            /\ UNCHANGED <<delaym, ignorem>>)

\* delay(from, to, perc, duration): a rule only when duration > 0.
Delay(from, to, duration) ==
  Configure(/\ delaym' = IF duration > 0 THEN delaym \cup {<<from, to>>}
                         ELSE delaym
            /\ UNCHANGED <<dropm, ignorem>>)

\* cut(one, other): drop both directions at 1.0.
Cut(one, other) ==
  Configure(/\ dropm' = [dropm EXCEPT ![<<one, other>>] = 4,
                                      ![<<other, one>>] = 4]
            /\ UNCHANGED <<delaym, ignorem>>)

\* isolate(id): drop both directions between id and every nid in
\* 1..peers.len() other than id; the peers' ids are exactly that range.
Isolate(id) ==
  Configure(/\ dropm' = [l \in Link |-> IF id \in {l[1], l[2]} THEN 4 ELSE dropm[l]]
            /\ UNCHANGED <<delaym, ignorem>>)

\* recover(): every rule map emptied.
Recover ==
  Configure(/\ dropm' = [l \in Link |-> 0]
            /\ delaym' = {}
            /\ ignorem' = {})

-----------------------------------------------------------------------------
(* The peers' own activity between calls (a tick, a proposal): a peer     *)
(* queues a message.                                                       *)

PeerEmit(p) ==
  /\ pc = "idle"
  /\ \E out \in Emissions(p) \ {<<>>} :
       /\ outbox' = [outbox EXCEPT ![p] = @ \o out]
       /\ nextSn' = nextSn + 1
  /\ lastStepped' = NoMsg
  /\ UNCHANGED <<dropm, delaym, ignorem, pc, msgs, new_msgs, configs, lastSn,
                 gone>>

\* A message the test builds itself (new_message), from any peer to any
\* other, of any type.
CallerMsg ==
  {[from |-> l[1], to |-> l[2], type |-> t, sn |-> nextSn + 1,
    src |-> "caller", cut |-> FALSE] : l \in Link, t \in MsgType}

\* read_messages(): every peer's outbox drained, in HashMap order (any
\* order of the peers), without filtering.
ReadMessages(order) == FoldLeft(LAMBDA acc, p : acc \o outbox[p], <<>>, order)

\* The batches a test passes to send or dispatch: one message it built,
\* or the non-empty list read_messages() returns.
Batches ==
  (IF nextSn < MaxMsgs THEN {<<m>> : m \in CallerMsg} ELSE {})
  \cup ({ReadMessages(order) : order \in SetToSeqs(Peer)} \ {<<>>})

\* Building batch b: a message of the test's takes a serial number;
\* read_messages() empties every outbox.
TakeBatch(b) ==
  IF Head(b).src = "caller"
  THEN nextSn' = nextSn + 1 /\ UNCHANGED outbox
  ELSE outbox' = [p \in Peer |-> <<>>] /\ UNCHANGED nextSn

-----------------------------------------------------------------------------
(* send(msgs): the worklist loop.  The test's batch is not filtered; each *)
(* message is stepped at its destination, whose outbox read_messages then *)
(* drains through filter into new_msgs; when the round's list is empty,   *)
(* new_msgs becomes the next round; send returns when both are empty.     *)

Send ==
  /\ pc = "idle"
  /\ \E b \in Batches : TakeBatch(b) /\ msgs' = b
  /\ pc' = "send"
  /\ lastStepped' = NoMsg
  /\ UNCHANGED <<dropm, delaym, ignorem, new_msgs, configs, lastSn, gone>>

SendStep_new_first ==
  /\ pc = "send"
  /\ msgs # <<>>
  /\ LET m == Head(msgs)
         p == m.to
     IN  \E out \in Emissions(p) :
           LET resp == out \o outbox[p] IN
           \E draws \in Draws(resp) :
             /\ new_msgs' = new_msgs \o filter(resp, draws)
             /\ gone' = gone \cup {m.sn} \cup Filtered(resp, draws)
             /\ outbox' = [outbox EXCEPT ![p] = <<>>]
             /\ nextSn' = nextSn + Len(out)
             /\ msgs' = Tail(msgs)
             /\ Stepped(m)
  /\ UNCHANGED <<dropm, delaym, ignorem, pc, configs>>

SendStep_drop_leftover ==
  /\ pc = "send"
  /\ msgs # <<>>
  /\ LET m == Head(msgs)
         p == m.to
     IN  \E out \in Emissions(p) :
           LET resp == out IN
           \E draws \in Draws(resp) :
             /\ new_msgs' = new_msgs \o filter(resp, draws)
             /\ gone' = gone \cup {m.sn} \cup Filtered(resp, draws)
             /\ outbox' = [outbox EXCEPT ![p] = <<>>]
             /\ nextSn' = nextSn + Len(out)
             /\ msgs' = Tail(msgs)
             /\ Stepped(m)
  /\ UNCHANGED <<dropm, delaym, ignorem, pc, configs>>

SendStep ==
  /\ pc = "send"
  /\ msgs # <<>>
  /\ LET m == Head(msgs)
         p == m.to
     IN  \E out \in Emissions(p) :
           LET resp == outbox[p] \o out IN
           \E draws \in Draws(resp) :
             /\ new_msgs' = new_msgs \o filter(resp, draws)
             /\ gone' = gone \cup {m.sn} \cup Filtered(resp, draws)
             /\ outbox' = [outbox EXCEPT ![p] = <<>>]
             /\ nextSn' = nextSn + Len(out)
             /\ msgs' = Tail(msgs)
             /\ Stepped(m)
  /\ UNCHANGED <<dropm, delaym, ignorem, pc, configs>>

SendRound_keep_new ==
  /\ pc = "send"
  /\ msgs = <<>>
  /\ new_msgs # <<>>
  /\ msgs' = new_msgs
  /\ new_msgs' = new_msgs
  /\ lastStepped' = NoMsg
  /\ UNCHANGED <<dropm, delaym, ignorem, outbox, pc, nextSn, configs, lastSn,
                 gone>>

SendRound ==
  /\ pc = "send"
  /\ msgs = <<>>
  /\ new_msgs # <<>>
  /\ msgs' = new_msgs
  /\ new_msgs' = <<>>
  /\ lastStepped' = NoMsg
  /\ UNCHANGED <<dropm, delaym, ignorem, outbox, pc, nextSn, configs, lastSn,
                 gone>>

SendReturn ==
  /\ pc = "send"
  /\ msgs = <<>>
  /\ new_msgs = <<>>
  /\ pc' = "idle"
  /\ lastStepped' = NoMsg
  /\ UNCHANGED <<dropm, delaym, ignorem, outbox, msgs, new_msgs, nextSn,
                 configs, lastSn, gone>>

-----------------------------------------------------------------------------
(* dispatch(messages): the batch is filtered first, then each message is  *)
(* stepped in turn without gathering responses; the first step that fails *)
(* returns the error, and the rest of the batch is never stepped.         *)

Dispatch ==
  /\ pc = "idle"
  /\ \E b \in Batches :
       /\ TakeBatch(b)
       /\ \E draws \in Draws(b) :
            msgs' = filter(b, draws) /\ gone' = gone \cup Filtered(b, draws)
  /\ pc' = "dispatch"
  /\ lastStepped' = NoMsg
  /\ UNCHANGED <<dropm, delaym, ignorem, new_msgs, configs, lastSn>>

DispatchStep ==
  /\ pc = "dispatch"
  /\ msgs # <<>>
  /\ LET m == Head(msgs) IN
     \E out \in Emissions(m.to), failed \in BOOLEAN :
       /\ outbox' = [outbox EXCEPT ![m.to] = @ \o out]
       /\ nextSn' = nextSn + Len(out)
       /\ msgs' = IF failed THEN <<>> ELSE Tail(msgs)
       /\ gone' = gone \cup {m.sn} \cup (IF failed THEN Sns(Tail(msgs)) ELSE {})
       /\ pc' = IF failed THEN "idle" ELSE pc
       /\ Stepped(m)
  /\ UNCHANGED <<dropm, delaym, ignorem, new_msgs, configs>>

DispatchReturn ==
  /\ pc = "dispatch"
  /\ msgs = <<>>
  /\ pc' = "idle"
  /\ lastStepped' = NoMsg
  /\ UNCHANGED <<dropm, delaym, ignorem, outbox, msgs, new_msgs, nextSn,
                 configs, lastSn, gone>>

-----------------------------------------------------------------------------
Next ==
  \/ \E t \in MsgType : Ignore(t)
  \/ \E l \in Link, perc \in Rate : Drop(l[1], l[2], perc)
  \/ \E l \in Link, duration \in {0, 1} : Delay(l[1], l[2], duration)
  \/ \E l \in Link : Cut(l[1], l[2])
  \/ \E id \in Peer : Isolate(id)
  \/ Recover
  \/ \E p \in Peer : PeerEmit(p)
  \/ Send \/ SendStep \/ SendRound \/ SendReturn
  \/ Dispatch \/ DispatchStep \/ DispatchReturn

Spec == Init /\ [][Next]_vars

-----------------------------------------------------------------------------
\* Messages a peer queued for one destination are stepped there in the
\* order the peer queued them, whatever mix of send rounds, read_messages
\* and dispatch calls carries them: send's worklist appends each round
\* behind the last and read_messages drains an outbox front to back.
PerLinkFifo ==
  [][lastStepped'.sn # 0 /\ lastStepped'.src = "peer" =>
       lastStepped'.sn > lastSn[<<lastStepped'.from, lastStepped'.to>>]]_vars

\* The messages still in flight: queued by a peer, in the worklist of send
\* or dispatch, or gathered for send's next round.
InFlight == UNION {Sns(outbox[p]) : p \in Peer} \cup Sns(msgs) \cup Sns(new_msgs)

\* No message vanishes and none is in two places: every message made so
\* far is still in flight, or it has left through an exit the code has,
\* and then it is in flight nowhere.  The exits are being stepped at the
\* destination, being dropped by filter, and being abandoned with the
\* rest of a batch when a dispatch step fails (network.rs:195).  It needs
\* read_messages and send's read after each step (network.rs:163-166,
\* 180) to move a peer's outbox whole into the worklist.
NoSilentLoss ==
  /\ \A n \in 1..nextSn : n \in gone \cup InFlight
  /\ gone \cap InFlight = {}

\* A measure of the work left to send: messages still to be made, queued
\* in outboxes, gathered for the next round, and in the current round,
\* each weighted by the moves it still has to make.
SendMeasure ==
  3 * (MaxMsgs - nextSn)
  + 3 * FoldFunction(+, 0, [p \in Peer |-> Len(outbox[p])])
  + 2 * Len(new_msgs) + Len(msgs)

\* send's loop (network.rs:172) always makes progress: each step it takes
\* without returning lowers a measure bounded below, so as long as peers
\* make finitely many messages every call of send returns.  It needs each
\* step to consume its message, and each round to empty new_msgs as it
\* becomes the worklist, the work of drain(..) and append.
SendProgress ==
  [][pc = "send" /\ pc' = "send" => SendMeasure' < SendMeasure]_vars

\* No message a peer queued while its link was cut (drop rate 1.0, as set
\* by cut or isolate) is ever stepped at its destination: "isolate the
\* given raft to and from all other raft in the cluster".
CutLinksSilent ==
  lastStepped.sn # 0 => ~lastStepped.cut
====
