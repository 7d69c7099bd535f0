------------------------------- MODULE Cluster -------------------------------
(***************************************************************************)
(* A Tier-1 cluster: members of module Replicator, each driven by its      *)
(* engine goroutine (clustering/engine.go), over the lossy queues of the   *)
(* TCP transport.                                                          *)
(*                                                                         *)
(* Module Election has the bid messages; here rounds holds every bid made, *)
(* and a candidate decides with any of those that can reach it, because a  *)
(* bid may be late or lost.  A bid that opens no new round has one other   *)
(* effect, left out here: a follower repeats a catch-up request.           *)
(***************************************************************************)
EXTENDS Replicator

CONSTANTS
  AckCount,     \* DurabilityAckCount: followers that must have a write
  Legacy,       \* members whose data may have no recorded position
  Draws,        \* the bids each member may draw
  Links,        \* <<p, q>>: frames of p can reach q
  Lossy,        \* whether connections break
  OneWinner,    \* whether every round is won by one member only
  QueueLen,     \* bound of a send queue (2048 in the code)
  MaxEpoch,     \* bound on the epochs
  MaxWrites,    \* bound on the writes
  Crashing,     \* members that may be killed
  MaxRestarts   \* bound on the restarts

ASSUME ClusterAssumption ==
  /\ AckCount \in 0 .. N
  /\ DOMAIN Draws = Members /\ UNION {Draws[p] : p \in Members} \subseteq Nat \ {0}
  /\ Legacy \subseteq Members
  /\ Crashing \subseteq Members
  /\ Links \subseteq Members \X Members
  /\ {Lossy, OneWinner} \subseteq BOOLEAN
  /\ QueueLen \in Nat \ {0}
  /\ {MaxEpoch, MaxWrites, MaxRestarts} \subseteq Nat

VARIABLES
  member,     \* each member's replicator
  engine,     \* each engine: waiters, and whether the grace window is open
  net,        \* the frames on their way from p to q
  rounds,     \* the bids made: [epoch, from, bid, pos]
  wins,       \* the epochs won: <<epoch, member>> (only kept for OneWinner)
  held,       \* for each write, the members that ever stored it
  reported,   \* the writes a client was told are committed
  writes,     \* number of writes so far
  restarts

vars == <<member, engine, net, rounds, wins, held, reported, writes, restarts>>

Channels == {x \in Links : x[1] # x[2]}
Writes == 1 .. MaxWrites

-----------------------------------------------------------------------------
\* Send for each frame: no queue to an unknown peer, and a full one drops it.
deliver(q, frames) ==
  LET all == q \o frames
  IN  SubSeq(all, 1, Min({Len(all), QueueLen}))

writesIn(data, lsn) == {data[i].w : i \in 1 .. lsn}

\* What only a leader reads, and a new leader sets again, is dropped when a member
\* does not lead.
tidy(c) ==
  IF c.n.role = "leader" THEN [c EXCEPT !.out = EmptyOutbox]
  ELSE [c EXCEPT !.out = EmptyOutbox, !.committed = 0, !.n.live = {}, !.n.winBid = 0,
                 !.n.acked = [q \in Members |-> 0]]

\* afterStep: member p is now c; waiters whose LSN is committed are answered, and
\* all fail when p does not lead.  A new leader's grace window opens.
step(p, next, ws, queues) ==
  \E c \in {next} :
  LET leads == c.n.role = "leader"
      done == {x \in ws : leads /\ c.committed >= x.lsn}
  IN  /\ member' = [member EXCEPT ![p] = tidy(c)]
      /\ engine' = [engine EXCEPT ![p] =
                      [waiters |-> IF leads THEN ws \ done ELSE {},
                       grace |-> leads /\ (@.grace \/ member[p].n.role # "leader")]]
      /\ net' = [x \in DOMAIN queues |->
                   IF x[1] = p THEN deliver(queues[x], c.out[x[2]]) ELSE queues[x]]
      /\ held' = [w \in Writes |-> IF w \in writesIn(c.data, replLSN(c))
                                     THEN held[w] \cup {p} ELSE held[w]]
      /\ reported' = reported \cup {x.w : x \in done}

\* Tick ends with drainNode and refreshCommitted.
tick(p, n) ==
  step(p, refreshCommitted(drainNode([member[p] EXCEPT !.n = n])),
       engine[p].waiters, net)

Init ==
  /\ \E old \in SUBSET Legacy :
       member = [p \in Members |-> NewReplicator(p, <<>>, EmptyLog, p \in old, AckCount)]
  /\ engine = [p \in Members |-> [waiters |-> {}, grace |-> FALSE]]
  /\ net = [x \in Channels |-> <<>>]
  /\ rounds = {}
  /\ wins = {}
  /\ held = [w \in Writes |-> {}]
  /\ reported = {}
  /\ writes = 0
  /\ restarts = 0

-----------------------------------------------------------------------------
(* The timers of a node. *)

TickLeader(p) ==
  /\ member[p].n.role = "leader"
  /\ tick(p, broadcastHeartbeat(member[p].n))
  /\ UNCHANGED <<rounds, wins, writes, restarts>>

\* A node without its bid messages, which rounds stands for.
bidding(n) == [n EXCEPT !.outbox = EmptyOutbox]

bidOf(n) == [epoch |-> n.epoch, from |-> n.id, bid |-> n.bids[n.id].bid,
             pos |-> Position(n)]

Stand(p, bid) ==
  LET n == bidding(startElection(member[p].n, bid))
  IN  /\ member[p].n.role = "follower"
      /\ Eligible(member[p].n)
      /\ member[p].n.epoch < MaxEpoch
      /\ tick(p, n)
      /\ rounds' = rounds \cup {bidOf(n)}
      /\ UNCHANGED <<wins, writes, restarts>>

\* A bid of q for a newer round arrives; p's own bid, if it may stand, is bid.
Join(p, q, bid) ==
  /\ <<q, p>> \in Channels
  /\ \E r \in rounds :
       LET m == [type |-> "bid", epoch |-> r.epoch, bid |-> r.bid, pos |-> r.pos]
           n == bidding(handleBid(member[p].n, q, m, bid))
       IN  /\ r.from = q
           /\ r.epoch > member[p].n.epoch
           /\ step(p, maybeCatchUp(refreshCommitted([member[p] EXCEPT !.n = n])),
                   engine[p].waiters, net)
           /\ rounds' = IF n.role = "candidate" THEN rounds \cup {bidOf(n)} ELSE rounds
  /\ UNCHANGED <<wins, writes, restarts>>

\* The bids that had arrived, with those in heard.
collected(bids, heard) ==
  [q \in DOMAIN bids \cup {r.from : r \in heard} |->
     IF \E r \in heard : r.from = q
       THEN LET r == CHOOSE r \in heard : r.from = q
            IN  [bid |-> r.bid, pos |-> r.pos]
       ELSE bids[q]]

\* The window of p closes, and the bids in some set have arrived.
Decide(p) ==
  LET n == member[p].n
      sent == {r \in rounds : r.epoch = n.epoch /\ <<r.from, p>> \in Channels}
  IN  /\ n.role = "candidate"
      /\ \E heard \in SUBSET sent :
           LET d == decideElection([n EXCEPT !.bids = collected(@, heard)])
           IN  /\ OneWinner /\ d.role = "leader" => \A x \in wins : x[1] # n.epoch
               /\ tick(p, d)
               /\ wins' = IF OneWinner /\ d.role = "leader"
                           THEN wins \cup {<<n.epoch, p>>} ELSE wins
      /\ UNCHANGED <<rounds, writes, restarts>>

\* A follower has not acknowledged for FailureTimeout.
Expire(p, q) ==
  /\ q \in member[p].n.live
  /\ member' = [member EXCEPT ![p].n.live = @ \ {q}]
  /\ UNCHANGED <<engine, net, rounds, wins, held, reported, writes, restarts>>

-----------------------------------------------------------------------------
(* The engine: proposals. *)

\* A leader has led for FailureTimeout.
GraceOver(p) ==
  /\ engine[p].grace
  /\ engine' = [engine EXCEPT ![p].grace = FALSE]
  /\ UNCHANGED <<member, net, rounds, wins, held, reported, writes, restarts>>

\* handleProposal: a write on a leader that can commit or is still new.
Propose(p) ==
  LET c == member[p]
      w == writes + 1
  IN  /\ writes < MaxWrites
      /\ c.n.role = "leader"
      /\ canCommit(c) \/ engine[p].grace
      /\ writes' = w
      /\ step(p, capture(c, w),
              engine[p].waiters \cup {[lsn |-> replLSN(c) + 1, w |-> w]}, net)
      /\ UNCHANGED <<rounds, wins, restarts>>

\* The commit timeout of a waiter.
CommitTimeout(p) ==
  /\ \E x \in engine[p].waiters : engine' = [engine EXCEPT ![p].waiters = @ \ {x}]
  /\ UNCHANGED <<member, net, rounds, wins, held, reported, writes, restarts>>

-----------------------------------------------------------------------------
(* The network and crashes. *)

Receive(p, q) ==
  /\ <<p, q>> \in Channels
  /\ net[<<p, q>>] # <<>>
  /\ step(q, recvFrame(member[q], p, Head(net[<<p, q>>])), engine[q].waiters,
          [net EXCEPT ![<<p, q>>] = Tail(@)])
  /\ UNCHANGED <<rounds, wins, writes, restarts>>

Lose(p, q) ==
  /\ Lossy
  /\ <<p, q>> \in Channels
  /\ net[<<p, q>>] # <<>>
  /\ net' = [net EXCEPT ![<<p, q>>] = Tail(@)]
  /\ UNCHANGED <<member, engine, rounds, wins, held, reported, writes, restarts>>

\* A process is killed and starts from its database and its log.  Module Election
\* restarts members that have stored nothing.
Restart(p) ==
  LET c == member[p]
  IN  /\ p \in Crashing
      /\ restarts < MaxRestarts
      /\ c.data # <<>>
      /\ restarts' = restarts + 1
      /\ member' = [member EXCEPT ![p] =
                      NewReplicator(p, c.data, c.log, c.needSnapshot, AckCount)]
      /\ engine' = [engine EXCEPT ![p] = [waiters |-> {}, grace |-> FALSE]]
      /\ UNCHANGED <<net, rounds, wins, held, reported, writes>>

Next ==
  \/ \E p \in Members : TickLeader(p)
  \/ \E p \in Members : \E bid \in Draws[p] : Stand(p, bid)
  \/ \E p, q \in Members : \E bid \in Draws[p] : Join(p, q, bid)
  \/ \E p \in Members : Decide(p)
  \/ \E p, q \in Members : Expire(p, q)
  \/ \E p \in Members : GraceOver(p)
  \/ \E p \in Members : Propose(p)
  \/ \E p \in Members : CommitTimeout(p)
  \/ \E p, q \in Members : Receive(p, q)
  \/ \E p, q \in Members : Lose(p, q)
  \/ \E p \in Members : Restart(p)

Spec == Init /\ [][Next]_vars

-----------------------------------------------------------------------------
\* node.go (HistoryTag): two members that stand at the same position have the
\* same history, so a leader that compares positions never takes another history
\* for its own.
SamePositionSameData ==
  \A p, q \in Members :
    LET a == member[p].data
        b == member[q].data
    IN  \A i \in 1 .. Min({Len(a), Len(b)}) :
          a[i].tag = b[i].tag => SubSeq(a, 1, i) = SubSeq(b, 1, i)

\* A write is reported as committed only when AckCount followers have stored it
\* besides the leader (DurableLSN, admitFollower, afterStep).
ReportedIsHeld == \A w \in reported : Cardinality(held[w]) > AckCount

\* A read, or a request that changes nothing, is proposed like a write and reports
\* what the leader has once all of that counts as committed (handleProposal).
readable(c) ==
  IF c.n.role = "leader" /\ c.committed >= replLSN(c)
    THEN writesIn(c.data, replLSN(c)) ELSE {}

\* docs/resilience.md: a leader's read reports only what the write quorum has.
ReadIsHeld ==
  \A p \in Members : \A w \in readable(member[p]) : Cardinality(held[w]) > AckCount

\* No member is ever taken back to an older position, neither by a batch nor by a
\* snapshot (applyIncoming, restore): elections go by positions.
PositionsAdvance ==
  [][\A p \in Members :
       ~Less(storedPosition(member'[p].data), storedPosition(member[p].data))]_vars

\* filestore/replication.go (MutationBatch): a zero Epoch means a batch from a
\* release that did not record epochs; all batches here are of the current one.
ZeroEpochIsOld ==
  \A p \in Members : \A i \in 1 .. Len(member[p].data) : member[p].data[i].tag # 0

\* A member whose data has no known position stores nothing of the leader's stream
\* before a snapshot has replaced that data, and it takes no part in elections
\* (New, applyIncoming, HoldJoining).
UnknownDataWaits ==
  \A p \in Members :
    member[p].needSnapshot => member[p].data = <<>> /\ member[p].n.role = "joining"

\* config.go (MaxLagToVote): a stale node must never win and truncate committed
\* work.  A member that stored a write keeps it once it is reported as committed;
\* a rollback (restore) discards only other writes.
CommittedNotTruncated ==
  \A w \in reported : \A p \in held[w] : w \in writesIn(member[p].data, replLSN(member[p]))
=============================================================================
