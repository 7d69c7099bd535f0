------------------------------ MODULE Election ------------------------------
(***************************************************************************)
(* The election of a Tier-1 cluster: the nodes of module Node, connected   *)
(* by the TCP transport (clustering/tcptransport.go), one bounded queue    *)
(* per pair of members that drops frames when it is full and when its      *)
(* connection breaks.  Replication is left out: each node keeps the        *)
(* position it starts with.                                                *)
(*                                                                         *)
(* seen records, for each node, the rounds it decided in its own favour    *)
(* and whose bids it had then.                                             *)
(***************************************************************************)
EXTENDS Node

CONSTANTS
  Bids,         \* the draws of rnd.Float64, in order
  Positions,    \* replication positions at the start
  Links,        \* <<p, q, type>>: p's frames of this type can reach q
  Lossy,        \* whether connections break
  QueueLen,     \* bound of a send queue (2048 in the code)
  MaxEpoch,     \* bound on the epochs
  MaxRestarts   \* bound on the restarts

VARIABLES node, net, seen, restarts

vars == <<node, net, seen, restarts>>

ASSUME ElectionAssumption ==
  /\ Bids \subseteq Nat \ {0}
  /\ Bids # {}
  /\ Positions \subseteq [lastEpoch : Nat, lsn : Nat]
  /\ Links \subseteq Members \X Members \X {"bid", "heartbeat", "ack"}
  /\ Lossy \in BOOLEAN
  /\ QueueLen \in Nat \ {0}
  /\ MaxEpoch \in Nat
  /\ \A pos \in Positions : TagEpoch(pos.lastEpoch) <= MaxEpoch
  /\ MaxRestarts \in Nat

-----------------------------------------------------------------------------
\* Links carry a node's frames to a peer: a step sends it one at most.
linked(from, to, frames) ==
  \A i \in 1 .. Len(frames) : <<from, to, frames[i].type>> \in Links

\* Send for each frame: a full queue drops it.
deliver(q, frames) ==
  LET all == q \o frames
  IN  IF Len(all) <= QueueLen THEN all ELSE SubSeq(all, 1, QueueLen)

\* drainNode: node p becomes n, and the outbox of n is sent.  (m is n, bound so that
\* TLC computes it once.)
step(p, n, queues) ==
  \E m \in {n} :
    /\ node' = [node EXCEPT ![p] = [m EXCEPT !.outbox = EmptyOutbox]]
    /\ net' = [c \in DOMAIN queues |->
                 IF c[1] = p /\ linked(p, c[2], m.outbox[c[2]])
                   THEN deliver(queues[c], m.outbox[c[2]]) ELSE queues[c]]

\* Build and New: a fresh node at the position of its data.
started(p, pos) == SetPosition(MarkCaughtUp(NewNode(p)), pos)

Init ==
  /\ \E pos \in [Members -> Positions] :
       node = [p \in Members |-> started(p, pos[p])]
  /\ net = [c \in {x \in Members \X Members : x[1] # x[2]} |-> <<>>]
  /\ seen = {}
  /\ restarts = 0

\* Tick of a leader whose heartbeat is due.
TickLeader(p) ==
  /\ node[p].role = "leader"
  /\ step(p, broadcastHeartbeat(node[p]), net)
  /\ UNCHANGED <<seen, restarts>>

\* Tick of a candidate whose window has closed.
TickCandidate(p) ==
  LET n == node[p]
      won == decideElection(n).role = "leader"
  IN  /\ n.role = "candidate"
      /\ step(p, decideElection(n), net)
      /\ seen' = IF won
                   THEN seen \cup {[by |-> p, epoch |-> n.epoch, bids |-> n.bids]}
                   ELSE seen
      /\ UNCHANGED restarts

\* Tick of a follower that has not heard a leader for the failure timeout.
TickFollower(p, bid) ==
  /\ node[p].role = "follower"
  /\ Eligible(node[p])
  /\ node[p].epoch < MaxEpoch
  /\ step(p, startElection(node[p], bid), net)
  /\ UNCHANGED <<seen, restarts>>

Receive(p, q, bid) ==
  /\ net[<<p, q>>] # <<>>
  /\ step(q, Recv(node[q], p, Head(net[<<p, q>>]), bid),
          [net EXCEPT ![<<p, q>>] = Tail(@)])
  /\ UNCHANGED <<seen, restarts>>

\* A frame is lost with the connection it was written to.
Lose(p, q) ==
  /\ Lossy
  /\ net[<<p, q>>] # <<>>
  /\ net' = [net EXCEPT ![<<p, q>>] = Tail(@)]
  /\ UNCHANGED <<node, seen, restarts>>

\* A process is killed and started again: it keeps its position only.  Frames on
\* their way from and to it may still arrive.
Restart(p) ==
  /\ restarts < MaxRestarts
  /\ restarts' = restarts + 1
  /\ node' = [node EXCEPT ![p] = started(p, Position(node[p]))]
  /\ UNCHANGED <<net, seen>>

Next ==
  \/ \E p \in Members : TickLeader(p)
  \/ \E p \in Members : TickCandidate(p)
  \/ \E p \in Members, bid \in Bids : TickFollower(p, bid)
  \/ \E p, q \in Members, bid \in Bids : p # q /\ Receive(p, q, bid)
  \/ \E p, q \in Members : p # q /\ Lose(p, q)
  \/ \E p \in Members : Restart(p)

Spec == Init /\ [][Next]_vars

\* The engine's ticker and its frame queue are served for ever, in no order among the
\* peers; a follower that knows no leader stands when its timer fires.
FairSpec ==
  /\ Spec
  /\ \A p \in Members :
       /\ WF_vars(TickLeader(p))
       /\ WF_vars(TickCandidate(p))
       /\ WF_vars(node[p].leaderID = NoLeader /\ \E bid \in Bids : TickFollower(p, bid))
       /\ WF_vars(\E q \in Members \ {p}, bid \in Bids : Receive(q, p, bid))

-----------------------------------------------------------------------------
Pos == [lastEpoch : Nat, lsn : Nat]
Bid == [bid : Bids, pos : Pos]
Message ==
  [type : {"bid"}, epoch : 0 .. MaxEpoch, bid : Bids, pos : Pos]
    \cup [type : {"heartbeat"}, epoch : 0 .. MaxEpoch, lsn : Nat, bid : Bids]
    \cup [type : {"ack"}, epoch : 0 .. MaxEpoch, pos : Pos]

\* Every node, queue and history entry is well formed; only candidates hold bids,
\* their own among them, and only a leader names itself.
TypeOK ==
  /\ \A p \in Members :
       LET n == node[p]
       IN  /\ n.id = p
           /\ n.role \in Roles
           /\ n.epoch \in 0 .. MaxEpoch
           /\ n.leaderID \in Members \cup {NoLeader}
           /\ {n.applied, n.lastEpoch, n.head} \subseteq Nat
           /\ n.hold \in BOOLEAN
           /\ n.live \subseteq Members
           /\ \A q \in DOMAIN n.bids : q \in Members /\ n.bids[q] \in Bid
           /\ (n.role = "candidate") = (p \in DOMAIN n.bids)
           /\ (n.role = "leader") = (n.leaderID = p)
           /\ n.outbox = EmptyOutbox
  /\ \A c \in DOMAIN net :
       Len(net[c]) <= QueueLen /\ \A i \in 1 .. Len(net[c]) : net[c][i] \in Message

\* Two nodes that win the same round did not both have the other's bid
\* (highestBidder, decideElection): every node computes the same winner from the
\* same bids, so a double win needs a bid that was lost or late, or that a restarted
\* node drew again.
DoubleWinNeedsLostBid ==
  \A a, b \in seen :
    LET has(x, y) == y.by \in DOMAIN x.bids /\ x.bids[y.by] = y.bids[y.by]
    IN  a.epoch = b.epoch /\ a.by # b.by => ~has(a, b) \/ ~has(b, a)

\* A node wins only epochs above every batch it holds, also after a restart that
\* forgot its epoch (SetPosition): the batches it then writes never carry the tag
\* of older ones.
WinsAboveItsHistory ==
  \A s \in seen : s.epoch > TagEpoch(node[s.by].lastEpoch)

\* doc.go: at most one leader serves writes at a time.
AtMostOneServing ==
  \A p, q \in Members : node[p].role = "leader" /\ node[q].role = "leader" => p = q

\* The cluster settles: once no follower suspects its leader any more, one node
\* leads and all others follow it in its epoch, whatever double wins and failed
\* rounds came before (handleHeartbeat resolves them).
Settles ==
  <>[](\E p \in Members :
         /\ node[p].role = "leader"
         /\ \A q \in Members : node[q].leaderID = p /\ node[q].epoch = node[p].epoch)
=============================================================================
