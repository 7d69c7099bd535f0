-------------------------------- MODULE Node --------------------------------
(***************************************************************************)
(* One member of a Tier-1 cluster (cluster/node.go): the state machine of  *)
(* the highest-bid election, as operators on a node record.  Every method  *)
(* of the Go type that changes it is an operator that returns the changed  *)
(* record; messages are appended to its outbox, as in the code.  The       *)
(* outbox is kept by destination: one queue carries a member's messages to *)
(* another, and messages to different members have no order.               *)
(*                                                                         *)
(* Members are numbered in the order of their ids, so a member is also its *)
(* MemberIndex and the string comparison of ids is the order on numbers.   *)
(* The timers (standAt, decideAt, nextHBAt, lastHeard) are left out: the   *)
(* modules that drive a node let them fire at any time.  live is the set   *)
(* of peers whose ackedAt is younger than FailureTimeout.                  *)
(***************************************************************************)
EXTENDS Integers, Sequences, FiniteSetsExt

CONSTANTS
  N,              \* number of members
  MaxLagToVote    \* Config.MaxLagToVote

ASSUME NodeAssumption == N \in 1 .. 255 /\ MaxLagToVote \in Nat

Members == 1 .. N
NoLeader == 0
Roles == {"joining", "follower", "candidate", "leader"}

-----------------------------------------------------------------------------
(* History tags and positions. *)

HistoryTag_EpochOnly(epoch, index) == epoch * 256

HistoryTag(epoch, index) == epoch * 256 + (index % 256)

TagEpoch(tag) == tag \div 256

Position(n) == [lastEpoch |-> n.lastEpoch, lsn |-> n.applied]

\* Position.Less: history tags first, then LSNs.
Less(a, b) ==
  \/ a.lastEpoch < b.lastEpoch
  \/ a.lastEpoch = b.lastEpoch /\ a.lsn < b.lsn

-----------------------------------------------------------------------------
(* Construction and the calls of the replication layer. *)

NoBids == [x \in {} |-> 0]

EmptyOutbox == [q \in Members |-> <<>>]

NewNode(p) ==
  [id |-> p, role |-> "joining", epoch |-> 0, leaderID |-> NoLeader,
   applied |-> 0, lastEpoch |-> 0, head |-> 0, hold |-> FALSE, bids |-> NoBids,
   winBid |-> 0, live |-> {}, acked |-> [q \in Members |-> 0], outbox |-> EmptyOutbox]

caughtUp(n) == n.head <= n.applied \/ n.head - n.applied <= MaxLagToVote

Eligible(n) == n.role # "joining" /\ caughtUp(n)

\* A joining node that has caught up takes part in elections.
promoted(n) ==
  IF n.role = "joining" /\ ~n.hold /\ caughtUp(n)
    THEN [n EXCEPT !.role = "follower"] ELSE n

SetPosition_KeepsEpoch(n, pos) ==
  promoted([n EXCEPT !.applied = pos.lsn, !.lastEpoch = pos.lastEpoch])

SetPosition(n, pos) ==
  promoted([n EXCEPT !.applied = pos.lsn, !.lastEpoch = pos.lastEpoch,
                     !.epoch = Max({@, TagEpoch(pos.lastEpoch)})])

HoldJoining(n) ==
  [n EXCEPT !.hold = TRUE, !.role = "joining",
            !.leaderID = IF n.role = "joining" THEN @ ELSE NoLeader]

MarkCaughtUp(n) ==
  [n EXCEPT !.hold = FALSE,
            !.role = IF @ = "joining" THEN "follower" ELSE @]

StepDown(n) ==
  IF n.role # "leader" THEN n
  ELSE [n EXCEPT !.role = "follower", !.leaderID = NoLeader, !.bids = NoBids]

-----------------------------------------------------------------------------
(* Messages. *)

bidMessage(n) ==
  [type |-> "bid", epoch |-> n.epoch, bid |-> n.bids[n.id].bid,
   pos |-> Position(n)]

heartbeat(n) ==
  [type |-> "heartbeat", epoch |-> n.epoch, lsn |-> n.applied, bid |-> n.winBid]

ackMessage(n) ==
  [type |-> "ack", epoch |-> n.epoch, pos |-> Position(n)]

send(n, to, m) == [n EXCEPT !.outbox[to] = Append(@, m)]

\* One copy to every other member.
broadcast(n, m) ==
  [n EXCEPT !.outbox =
     [q \in Members |-> IF q = n.id THEN @[q] ELSE Append(@[q], m)]]

-----------------------------------------------------------------------------
(* The timers: Tick. *)

broadcastHeartbeat(n) == broadcast(n, heartbeat(n))

\* A round this node takes part in, with its own bid and those in others.
enterRound(n, epoch, bid, others) ==
  LET own == [bid |-> bid, pos |-> Position(n)]
      c == [n EXCEPT !.epoch = epoch, !.role = "candidate", !.leaderID = NoLeader,
                     !.bids = [q \in DOMAIN others \cup {n.id} |->
                                 IF q = n.id THEN own ELSE others[q]]]
  IN  broadcast(c, bidMessage(c))

startElection(n, bid) == enterRound(n, n.epoch + 1, bid, NoBids)

\* The order of highestBidder: position, then bid, then id.
outbids(bids, q, r) ==
  \/ Less(bids[r].pos, bids[q].pos)
  \/ /\ bids[r].pos = bids[q].pos
     /\ \/ bids[q].bid > bids[r].bid
        \/ bids[q].bid = bids[r].bid /\ q > r

highestBidder(bids) ==
  CHOOSE q \in DOMAIN bids : \A r \in DOMAIN bids \ {q} : outbids(bids, q, r)

becomeLeader(n) ==
  broadcastHeartbeat(
    [n EXCEPT !.role = "leader", !.leaderID = n.id, !.winBid = n.bids[n.id].bid,
              !.bids = NoBids, !.live = {}, !.acked = [q \in Members |-> 0]])

decideElection_KeepsBids(n) ==
  IF highestBidder(n.bids) = n.id THEN becomeLeader(n)
  ELSE [n EXCEPT !.role = "follower", !.leaderID = NoLeader]

decideElection_TieToSelf(n) ==
  LET own == n.bids[n.id]
      beaten == \E q \in DOMAIN n.bids :
                  \/ Less(own.pos, n.bids[q].pos)
                  \/ own.pos = n.bids[q].pos /\ n.bids[q].bid > own.bid
  IN  IF ~beaten THEN becomeLeader(n)
      ELSE [n EXCEPT !.role = "follower", !.leaderID = NoLeader, !.bids = NoBids]

decideElection(n) ==
  IF highestBidder(n.bids) = n.id THEN becomeLeader(n)
  ELSE [n EXCEPT !.role = "follower", !.leaderID = NoLeader, !.bids = NoBids]

-----------------------------------------------------------------------------
(* Messages received: Recv. *)

\* A newer round is joined with a bid of its own (also by a running leader);
\* a node that may not stand only follows the round.
handleBid(n, from, m, bid) ==
  CASE m.epoch < n.epoch -> n
    [] m.epoch > n.epoch ->
         IF Eligible(n)
           THEN enterRound(n, m.epoch, bid,
                           [q \in {from} |-> [bid |-> m.bid, pos |-> m.pos]])
           ELSE [n EXCEPT !.epoch = m.epoch, !.leaderID = NoLeader,
                          !.role = IF @ = "joining" THEN @ ELSE "follower",
                          !.bids = NoBids]
    [] OTHER ->
         IF n.role # "candidate" THEN n
         ELSE [n EXCEPT !.bids =
                [q \in DOMAIN @ \cup {from} |->
                   IF q = from THEN [bid |-> m.bid, pos |-> m.pos] ELSE @[q]]]

handleHeartbeat_NoTieBreak(n, from, m) ==
  CASE m.epoch < n.epoch -> n
    [] m.epoch = n.epoch /\ n.role = "leader" ->
         IF m.bid > n.winBid
           THEN LET f == [n EXCEPT !.role = "follower", !.leaderID = from,
                                   !.bids = NoBids, !.head = m.lsn]
                IN  send(f, from, ackMessage(f))
           ELSE n
    [] OTHER ->
         LET h == [n EXCEPT !.epoch = m.epoch, !.leaderID = from,
                            !.head = m.lsn, !.bids = NoBids,
                            !.role = IF @ = "joining" THEN @ ELSE "follower"]
             f == promoted(h)
         IN  send(f, from, ackMessage(f))

handleHeartbeat(n, from, m) ==
  CASE m.epoch < n.epoch -> n
    [] m.epoch = n.epoch /\ n.role = "leader" ->
         \* Two leaders in one epoch: the larger (bid, id) stays.
         IF m.bid > n.winBid \/ (m.bid = n.winBid /\ from > n.id)
           THEN LET f == [n EXCEPT !.role = "follower", !.leaderID = from,
                                   !.bids = NoBids, !.head = m.lsn]
                IN  send(f, from, ackMessage(f))
           ELSE n
    [] OTHER ->
         LET h == [n EXCEPT !.epoch = m.epoch, !.leaderID = from,
                            !.head = m.lsn, !.bids = NoBids,
                            !.role = IF @ = "joining" THEN @ ELSE "follower"]
             f == promoted(h)
         IN  send(f, from, ackMessage(f))

handleHeartbeatAck(n, from, m) ==
  IF n.role # "leader" \/ m.epoch # n.epoch THEN n
  ELSE [n EXCEPT !.live = @ \cup {from},
                 !.acked[from] = Max({@, m.pos.lsn})]

\* bid is the draw the node makes if the message opens a new round.
Recv(n, from, m, bid) ==
  CASE m.type = "bid" -> handleBid(n, from, m, bid)
    [] m.type = "heartbeat" -> handleHeartbeat(n, from, m)
    [] OTHER -> handleHeartbeatAck(n, from, m)

-----------------------------------------------------------------------------
(* What the leader knows of its followers. *)

LiveFollowers(n) == IF n.role = "leader" THEN n.live \ {n.id} ELSE {}

DurableLSN_OwnPosition(n, ackCount) == IF n.role = "leader" THEN n.applied ELSE 0

\* The largest LSN that ackCount followers have acknowledged; 0 if there are
\* fewer of them.
DurableLSN(n, ackCount) ==
  LET reached == {l \in {n.acked[q] : q \in Members} :
                    Cardinality({q \in Members : n.acked[q] >= l}) >= ackCount}
  IN  CASE n.role # "leader" -> 0
        [] n.role = "leader" /\ ackCount <= 0 -> n.applied
        [] OTHER -> IF reached = {} THEN 0 ELSE Max(reached)
=============================================================================
