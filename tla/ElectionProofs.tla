--------------------------- MODULE ElectionProofs ---------------------------
(***************************************************************************)
(* Proofs about module Election, for any number of members, bids, starting *)
(* positions, links and bounds: the type invariant, that a node wins only  *)
(* epochs above its history, and that two nodes win one round only when    *)
(* one of them did not have the other's bid.                               *)
(***************************************************************************)
EXTENDS Election, WellFoundedInduction, TLAPS

Channels == {x \in Members \X Members : x[1] # x[2]}

BidMaps == UNION {[D -> Bid] : D \in SUBSET Members}

NodeType ==
  [id : Members, role : Roles, epoch : 0 .. MaxEpoch,
   leaderID : Members \cup {NoLeader}, applied : Nat, lastEpoch : Nat, head : Nat,
   hold : BOOLEAN, bids : BidMaps, winBid : Nat, live : SUBSET Members,
   acked : [Members -> Nat], outbox : [Members -> Seq(Message)]]

\* Only candidates hold bids and only a leader names itself.
RoleInv(n) ==
  /\ n.role = "candidate" <=> n.id \in DOMAIN n.bids
  /\ n.role = "leader" <=> n.leaderID = n.id
  /\ n.role = "leader" => n.winBid \in Bids

\* A node's epoch is not below its history, and a round it takes part in is above.
EpochInv(n) ==
  /\ TagEpoch(n.lastEpoch) <= n.epoch
  /\ n.role = "candidate" => TagEpoch(n.lastEpoch) < n.epoch

Legal(n) == n \in NodeType /\ RoleInv(n) /\ EpochInv(n)

NodesInv ==
  /\ node \in [Members -> NodeType]
  /\ \A p \in Members : Legal(node[p]) /\ node[p].id = p /\ node[p].outbox = EmptyOutbox

Queues == {q \in Seq(Message) : Len(q) <= QueueLen}

NetInv == net \in [Channels -> Queues]

\* A win: the winner's own bid was among those it had and beat all of them.
Wins ==
  {s \in [by : Members, epoch : Nat, bids : BidMaps] :
     s.by \in DOMAIN s.bids /\ highestBidder(s.bids) = s.by}

SeenInv ==
  /\ seen \subseteq Wins
  /\ \A s \in seen : s.epoch > TagEpoch(node[s.by].lastEpoch)

IInv == NodesInv /\ NetInv /\ SeenInv

-----------------------------------------------------------------------------
(* The operators of module Node. *)

LEMMA MaxOfTwo ==
  ASSUME NEW a \in Int, NEW b \in Int
  PROVE  Max({a, b}) \in {a, b} /\ Max({a, b}) >= a /\ Max({a, b}) >= b
<1>1. \E x \in {a, b} : \A y \in {a, b} : x >= y
  OBVIOUS
<1> QED
  BY <1>1, Zenon DEF Max

LEMMA TagEpochType ==
  ASSUME NEW t \in Nat PROVE TagEpoch(t) \in Nat
BY DEF TagEpoch

\* The three messages are well formed.
LEMMA MessageTypes ==
  ASSUME NEW n \in NodeType
  PROVE  /\ n.id \in DOMAIN n.bids => bidMessage(n) \in Message
         /\ n.winBid \in Bids => heartbeat(n) \in Message
         /\ ackMessage(n) \in Message
<1>1. n.epoch \in 0 .. MaxEpoch /\ n.applied \in Nat /\ n.lastEpoch \in Nat
  BY Zenon DEF NodeType
<1>2. Position(n) \in Pos
  BY <1>1, Zenon DEF Position, Pos
<1>3. ASSUME n.id \in DOMAIN n.bids PROVE n.bids[n.id].bid \in Bids
  <2>1. n.bids \in BidMaps
    BY Zenon DEF NodeType
  <2>2. n.bids[n.id] \in Bid
    BY <1>3, <2>1, Zenon DEF BidMaps
  <2> QED
    BY <2>2, Zenon DEF Bid
<1>4. ASSUME n.id \in DOMAIN n.bids PROVE bidMessage(n) \in Message
  BY <1>1, <1>2, <1>3, <1>4, Zenon DEF bidMessage, Message
<1>5. ASSUME n.winBid \in Bids PROVE heartbeat(n) \in Message
  BY <1>1, <1>5, Zenon DEF heartbeat, Message
<1>6. ackMessage(n) \in Message
  BY <1>1, <1>2, Zenon DEF ackMessage, Message
<1> QED
  BY <1>4, <1>5, <1>6, Zenon

\* Sending changes only the outbox.
LEMMA SendLegal ==
  ASSUME NEW n, Legal(n), NEW to \in Members, NEW m \in Message
  PROVE  /\ Legal(send(n, to, m))
         /\ send(n, to, m).id = n.id /\ send(n, to, m).lastEpoch = n.lastEpoch
<1> DEFINE o == [n.outbox EXCEPT ![to] = Append(@, m)]
           s == [n EXCEPT !.outbox = o]
<1>1. n \in NodeType
  BY Zenon DEF Legal
<1>2. n.outbox \in [Members -> Seq(Message)]
  BY <1>1, Zenon DEF NodeType
<1>3. Append(n.outbox[to], m) \in Seq(Message)
  BY <1>2
<1>4. o \in [Members -> Seq(Message)]
  BY <1>2, <1>3, Zenon
<1>5. send(n, to, m) = s
  BY <1>1, <1>2, Zenon DEF send, NodeType
<1> HIDE DEF o
<1>6. s \in NodeType
  BY <1>1, <1>4, ZenonT(60) DEF NodeType
<1>7. /\ s.id = n.id /\ s.lastEpoch = n.lastEpoch /\ s.role = n.role /\ s.bids = n.bids
      /\ s.leaderID = n.leaderID /\ s.winBid = n.winBid /\ s.epoch = n.epoch
  BY <1>1, Zenon DEF NodeType
<1> HIDE DEF s
<1> QED
  BY <1>5, <1>6, <1>7, Zenon DEF Legal, RoleInv, EpochInv

LEMMA BroadcastLegal ==
  ASSUME NEW n, Legal(n), NEW m \in Message
  PROVE  /\ Legal(broadcast(n, m))
         /\ broadcast(n, m).id = n.id /\ broadcast(n, m).lastEpoch = n.lastEpoch
         /\ broadcast(n, m).role = n.role
<1> DEFINE o == [q \in Members |-> IF q = n.id THEN n.outbox[q] ELSE Append(n.outbox[q], m)]
           s == [n EXCEPT !.outbox = o]
<1>1. n \in NodeType
  BY Zenon DEF Legal
<1>2. n.outbox \in [Members -> Seq(Message)]
  BY <1>1, Zenon DEF NodeType
<1>3. \A q \in Members : n.outbox[q] \in Seq(Message) /\ Append(n.outbox[q], m) \in Seq(Message)
  BY <1>2
<1>4. o \in [Members -> Seq(Message)]
  BY <1>3, Zenon
<1>5. broadcast(n, m) = s
  BY Zenon DEF broadcast
<1> HIDE DEF o
<1>6. s \in NodeType
  BY <1>1, <1>4, ZenonT(60) DEF NodeType
<1>7. /\ s.id = n.id /\ s.lastEpoch = n.lastEpoch /\ s.role = n.role /\ s.bids = n.bids
      /\ s.leaderID = n.leaderID /\ s.winBid = n.winBid /\ s.epoch = n.epoch
  BY <1>1, Zenon DEF NodeType
<1> HIDE DEF s
<1> QED
  BY <1>5, <1>6, <1>7, Zenon DEF Legal, RoleInv, EpochInv

-----------------------------------------------------------------------------
(* The highest bidder. *)

LEMMA Bounds ==
  /\ Bids \subseteq Nat \ {0} /\ Positions \subseteq Pos
  /\ QueueLen \in Nat \ {0} /\ MaxEpoch \in Nat /\ MaxRestarts \in Nat
  /\ \A pos \in Positions : TagEpoch(pos.lastEpoch) <= MaxEpoch
BY ElectionAssumption, Zenon DEF Pos

LEMMA BidsAreNat == \A b \in Bids : b \in Int
<1>1. \A b \in Bids : b \in Nat
  BY Bounds, Zenon
<1> QED
  BY <1>1

LEMMA BidMapProperties ==
  ASSUME NEW bids \in BidMaps
  PROVE  /\ DOMAIN bids \subseteq Members
         /\ \A q \in DOMAIN bids : bids[q] \in Bid
<1>1. PICK D \in SUBSET Members : bids \in [D -> Bid]
  BY Zenon DEF BidMaps
<1> QED
  BY <1>1, Zenon

\* highestBidder orders the bids of different members totally.
LEMMA OutbidsTotal ==
  ASSUME NEW bids \in BidMaps, NEW q \in DOMAIN bids, NEW r \in DOMAIN bids, q # r
  PROVE  /\ outbids(bids, q, r) \/ outbids(bids, r, q)
         /\ ~(outbids(bids, q, r) /\ outbids(bids, r, q))
<1>1. q \in Int /\ r \in Int
  BY BidMapProperties, NodeAssumption DEF Members
<1>2. bids[q] \in Bid /\ bids[r] \in Bid
  BY BidMapProperties, Zenon
<1>3. bids[q].bid \in Int /\ bids[r].bid \in Int
  <2>1. bids[q].bid \in Bids /\ bids[r].bid \in Bids
    BY <1>2, Zenon DEF Bid
  <2> QED
    BY <2>1, BidsAreNat, SMT
<1>4. bids[q].pos \in Pos /\ bids[r].pos \in Pos
  BY <1>2, Zenon DEF Bid
<1> QED
  BY <1>1, <1>3, <1>4 DEF outbids, Less, Pos

LEMMA OutbidsTransitive ==
  ASSUME NEW bids \in BidMaps, NEW q \in DOMAIN bids, NEW r \in DOMAIN bids,
         NEW s \in DOMAIN bids, outbids(bids, q, r), outbids(bids, r, s)
  PROVE  outbids(bids, q, s)
<1>1. q \in Int /\ r \in Int /\ s \in Int
  BY BidMapProperties, NodeAssumption DEF Members
<1>2. bids[q] \in Bid /\ bids[r] \in Bid /\ bids[s] \in Bid
  BY BidMapProperties, Zenon
<1>3. bids[q].bid \in Int /\ bids[r].bid \in Int /\ bids[s].bid \in Int
  <2>1. bids[q].bid \in Bids /\ bids[r].bid \in Bids /\ bids[s].bid \in Bids
    BY <1>2, Zenon DEF Bid
  <2> QED
    BY <2>1, BidsAreNat, SMT
<1>4. bids[q].pos \in Pos /\ bids[r].pos \in Pos /\ bids[s].pos \in Pos
  BY <1>2, Zenon DEF Bid
<1> QED
  BY <1>1, <1>3, <1>4 DEF outbids, Less, Pos

\* The bidders among the first k members have a highest one: there is no least k
\* for which they have none.
LEMMA HighestExists ==
  ASSUME NEW bids \in BidMaps, DOMAIN bids # {}
  PROVE  \E q \in DOMAIN bids : \A r \in DOMAIN bids \ {q} : outbids(bids, q, r)
<1> DEFINE upTo(k) == {q \in DOMAIN bids : q <= k}
           top(q, S) == \A r \in S \ {q} : outbids(bids, q, r)
           bad == {k \in Nat : upTo(k) # {} /\ \A q \in upTo(k) : ~top(q, upTo(k))}
<1>1. DOMAIN bids \subseteq 1 .. N /\ N \in Nat
  BY BidMapProperties, NodeAssumption DEF Members
<1>2. upTo(N) = DOMAIN bids
  BY <1>1
<1>3. bad = {}
  <2> SUFFICES ASSUME bad # {} PROVE FALSE
    BY Zenon
  <2>1. PICK k \in bad : \A j \in bad : ~(<<j, k>> \in OpToRel(<, Nat))
    BY NatLessThanWellFounded, WFMin, Zenon
  <2>2. k \in Nat /\ \A j \in bad : ~(j < k)
    <3> SUFFICES ASSUME NEW j \in bad, j < k PROVE FALSE
      BY <2>1, Zenon
    <3>1. <<j, k>> \in OpToRel(<, Nat)
      BY <2>1, Zenon DEF OpToRel
    <3> QED
      BY <2>1, <3>1, Zenon
  <2>3. upTo(k) # {} /\ \A q \in upTo(k) : ~top(q, upTo(k))
    BY <2>1, Zenon
  <2>4. k # 0 /\ k - 1 \in Nat
    BY <1>1, <2>2, <2>3
  <2>5. k - 1 \notin bad
    BY <2>2, <2>4
  <2>6. /\ k \in DOMAIN bids => upTo(k) = upTo(k - 1) \cup {k}
        /\ k \notin DOMAIN bids => upTo(k) = upTo(k - 1)
    <3>1. \A x \in Int : x <= k <=> x <= k - 1 \/ x = k
      BY <2>4
    <3>2. DOMAIN bids \subseteq Int
      BY <1>1
    <3> QED
      BY <3>1, <3>2, Zenon
  <2>7. k \in DOMAIN bids
    BY <2>3, <2>4, <2>5, <2>6, Zenon
  <2>8. upTo(k - 1) # {}
    BY <2>3, <2>6, <2>7, Zenon
  <2>9. PICK q \in upTo(k - 1) : top(q, upTo(k - 1))
    BY <2>4, <2>5, <2>8, Zenon
  <2>10. q \in DOMAIN bids /\ q # k /\ q \in upTo(k)
    BY <1>1, <2>2, <2>6, <2>9, Zenon
  <2>11. ~outbids(bids, q, k)
    BY <2>3, <2>6, <2>7, <2>9, <2>10, Zenon
  <2>12. outbids(bids, k, q)
    BY <2>7, <2>10, <2>11, OutbidsTotal, Zenon
  <2>13. \A r \in upTo(k) \ {k} : outbids(bids, k, r)
    BY <2>6, <2>7, <2>9, <2>10, <2>12, OutbidsTransitive, Zenon
  <2> QED
    BY <2>3, <2>6, <2>7, <2>13, Zenon
<1> QED
  BY <1>1, <1>2, <1>3, Zenon

\* Two winners of a round each beat every other bid they had.
LEMMA HighestBidder ==
  ASSUME NEW bids \in BidMaps, NEW q \in DOMAIN bids, highestBidder(bids) = q,
         NEW r \in DOMAIN bids, q # r
  PROVE  outbids(bids, q, r)
BY HighestExists, Zenon DEF highestBidder

-----------------------------------------------------------------------------
(* The operations keep a node legal, its identity and its position. *)

Same(n, s) == s.id = n.id /\ s.lastEpoch = n.lastEpoch

LEMMA NoBidsType == NoBids \in BidMaps /\ DOMAIN NoBids = {}
<1>1. NoBids \in [{} -> Bid]
  BY Zenon DEF NoBids
<1> QED
  BY <1>1, Zenon DEF BidMaps

\* 0 names no member.
LEMMA NoLeaderIsNoMember == NoLeader \notin Members
BY NodeAssumption DEF NoLeader, Members

LEMMA EnterRoundLegal ==
  ASSUME NEW n, Legal(n), NEW epoch \in 0 .. MaxEpoch, TagEpoch(n.lastEpoch) < epoch,
         NEW bid \in Bids, NEW others \in BidMaps
  PROVE  Legal(enterRound(n, epoch, bid, others)) /\ Same(n, enterRound(n, epoch, bid, others))
<1> DEFINE own == [bid |-> bid, pos |-> Position(n)]
           b == [q \in DOMAIN others \cup {n.id} |-> IF q = n.id THEN own ELSE others[q]]
           c == [n EXCEPT !.epoch = epoch, !.role = "candidate", !.leaderID = NoLeader,
                          !.bids = b]
<1>1. n \in NodeType /\ n.id \in Members /\ n.applied \in Nat /\ n.lastEpoch \in Nat
  BY Zenon DEF Legal, NodeType
<1>2. own \in Bid
  <2>1. Position(n) \in Pos
    BY <1>1, Zenon DEF Position, Pos
  <2> QED
    BY <2>1, Zenon DEF Bid
<1>3. DOMAIN b \in SUBSET Members /\ n.id \in DOMAIN b
  BY <1>1, BidMapProperties, Zenon
<1>4. b \in BidMaps
  <2>1. b \in [DOMAIN b -> Bid]
    BY <1>2, BidMapProperties, Zenon
  <2> QED
    BY <1>3, <2>1, Zenon DEF BidMaps
<1>5. enterRound(n, epoch, bid, others) = broadcast(c, bidMessage(c))
  BY Zenon DEF enterRound
<1> HIDE DEF b
<1>6. c \in NodeType
  BY <1>1, <1>4, ZenonT(60) DEF NodeType, Roles
<1>7. /\ c.id = n.id /\ c.lastEpoch = n.lastEpoch /\ c.role = "candidate" /\ c.bids = b
      /\ c.leaderID = NoLeader /\ c.epoch = epoch
  BY <1>1, Zenon DEF NodeType
<1> HIDE DEF c
<1>8. RoleInv(c)
  BY <1>1, <1>3, <1>7, NoLeaderIsNoMember, Zenon DEF RoleInv
<1>9. EpochInv(c)
  BY <1>1, <1>7, TagEpochType, Bounds DEF EpochInv
<1>10. Legal(c) /\ bidMessage(c) \in Message
  BY <1>3, <1>6, <1>7, <1>8, <1>9, MessageTypes, Zenon DEF Legal
<1> QED
  BY <1>5, <1>7, <1>10, BroadcastLegal, Zenon DEF Same

LEMMA StartElectionLegal ==
  ASSUME NEW n, Legal(n), n.epoch < MaxEpoch, NEW bid \in Bids
  PROVE  Legal(startElection(n, bid)) /\ Same(n, startElection(n, bid))
<1>1. n.epoch \in 0 .. MaxEpoch /\ n.lastEpoch \in Nat /\ TagEpoch(n.lastEpoch) <= n.epoch
  BY Zenon DEF Legal, NodeType, EpochInv
<1>2. MaxEpoch \in Nat
  BY Bounds, Zenon
<1>3. n.epoch + 1 \in 0 .. MaxEpoch /\ TagEpoch(n.lastEpoch) < n.epoch + 1
  BY <1>1, <1>2, TagEpochType
<1> QED
  BY <1>3, EnterRoundLegal, NoBidsType, Zenon DEF startElection

\* A node leads only when its own bid is the highest it has.
LEMMA DecideElectionLegal ==
  ASSUME NEW n, Legal(n), n.role = "candidate"
  PROVE  /\ Legal(decideElection(n)) /\ Same(n, decideElection(n))
         /\ decideElection(n).role = "leader" => highestBidder(n.bids) = n.id
<1> DEFINE a == [q \in Members |-> 0]
           bid == n.bids[n.id].bid
           w == [n EXCEPT !.role = "leader", !.leaderID = n.id, !.winBid = bid,
                          !.bids = NoBids, !.live = {}, !.acked = a]
           f == [n EXCEPT !.role = "follower", !.leaderID = NoLeader, !.bids = NoBids]
<1>1. /\ n \in NodeType /\ n.id \in Members /\ n.bids \in BidMaps /\ n.id \in DOMAIN n.bids
      /\ TagEpoch(n.lastEpoch) <= n.epoch
  BY Zenon DEF Legal, NodeType, RoleInv, EpochInv
<1>2. bid \in Bids /\ bid \in Nat
  <2>1. bid \in Bids
    BY <1>1, BidMapProperties, Zenon DEF Bid
  <2> QED
    BY <2>1, Bounds, Zenon
<1>3. a \in [Members -> Nat]
  BY Zenon
<1> HIDE DEF a, bid
<1>4. CASE highestBidder(n.bids) = n.id
  <2>1. w \in NodeType
    BY <1>1, <1>2, <1>3, NoBidsType, ZenonT(60) DEF NodeType, Roles
  <2>2. /\ w.id = n.id /\ w.lastEpoch = n.lastEpoch /\ w.role = "leader" /\ w.bids = NoBids
        /\ w.leaderID = n.id /\ w.epoch = n.epoch /\ w.winBid = bid
    BY <1>1, Zenon DEF NodeType
  <2>3. decideElection(n) = broadcast(w, heartbeat(w))
    BY <1>4, Zenon DEF decideElection, becomeLeader, broadcastHeartbeat, a, bid
  <2> HIDE DEF w
  <2>4. RoleInv(w)
    BY <1>2, <2>2, NoBidsType, Zenon DEF RoleInv
  <2>5. EpochInv(w)
    BY <1>1, <2>2, Zenon DEF EpochInv
  <2>6. Legal(w) /\ heartbeat(w) \in Message
    BY <1>2, <2>1, <2>2, <2>4, <2>5, MessageTypes, Zenon DEF Legal
  <2> QED
    BY <1>4, <2>2, <2>3, <2>6, BroadcastLegal, Zenon DEF Same
<1>5. CASE highestBidder(n.bids) # n.id
  <2>1. f \in NodeType
    BY <1>1, NoBidsType, ZenonT(60) DEF NodeType, Roles
  <2>2. /\ f.id = n.id /\ f.lastEpoch = n.lastEpoch /\ f.role = "follower" /\ f.bids = NoBids
        /\ f.leaderID = NoLeader /\ f.epoch = n.epoch
    BY <1>1, Zenon DEF NodeType
  <2>3. decideElection(n) = f
    BY <1>5, Zenon DEF decideElection
  <2> HIDE DEF f
  <2>4. RoleInv(f)
    BY <1>1, <2>2, NoBidsType, NoLeaderIsNoMember, Zenon DEF RoleInv
  <2>5. EpochInv(f)
    BY <1>1, <2>2, Zenon DEF EpochInv
  <2> QED
    BY <2>1, <2>2, <2>3, <2>4, <2>5, Zenon DEF Legal, Same
<1> QED
  BY <1>4, <1>5, Zenon

LEMMA HandleBidLegal ==
  ASSUME NEW n, Legal(n), NEW from \in Members, NEW bid \in Bids,
         NEW m \in Message, m.type = "bid"
  PROVE  Legal(handleBid(n, from, m, bid)) /\ Same(n, handleBid(n, from, m, bid))
<1> DEFINE theirs == [bid |-> m.bid, pos |-> m.pos]
           one == [q \in {from} |-> theirs]
           b == [q \in DOMAIN n.bids \cup {from} |-> IF q = from THEN theirs ELSE n.bids[q]]
           r == IF n.role = "joining" THEN n.role ELSE "follower"
           f == [n EXCEPT !.epoch = m.epoch, !.leaderID = NoLeader, !.role = r,
                          !.bids = NoBids]
           c == [n EXCEPT !.bids = b]
<1>1. /\ n \in NodeType /\ n.id \in Members /\ n.bids \in BidMaps /\ n.role \in Roles
      /\ n.epoch \in 0 .. MaxEpoch /\ n.lastEpoch \in Nat /\ TagEpoch(n.lastEpoch) <= n.epoch
  BY Zenon DEF Legal, NodeType, RoleInv, EpochInv
<1>2. m.epoch \in 0 .. MaxEpoch /\ m.bid \in Bids /\ m.pos \in Pos
  BY Zenon DEF Message
<1>3. theirs \in Bid
  BY <1>2, Zenon DEF Bid
<1>4. MaxEpoch \in Nat
  BY Bounds, Zenon
<1>5. n.epoch \in Int /\ m.epoch \in Int /\ TagEpoch(n.lastEpoch) \in Int
  BY <1>1, <1>2, <1>4, TagEpochType
<1> HIDE DEF theirs
<1>6. CASE m.epoch < n.epoch
  <2>1. handleBid(n, from, m, bid) = n
    BY <1>5, <1>6 DEF handleBid
  <2> QED
    BY <2>1, Zenon DEF Same
<1>7. CASE m.epoch > n.epoch /\ Eligible(n)
  <2>1. one \in BidMaps
    <3>1. one \in [{from} -> Bid]
      BY <1>3, Zenon
    <3> QED
      BY <3>1, Zenon DEF BidMaps
  <2>2. TagEpoch(n.lastEpoch) < m.epoch
    BY <1>1, <1>5, <1>7
  <2>3. handleBid(n, from, m, bid) = enterRound(n, m.epoch, bid, one)
    BY <1>5, <1>7 DEF handleBid, theirs
  <2> QED
    BY <1>2, <2>1, <2>2, <2>3, EnterRoundLegal, Zenon
<1>8. CASE m.epoch > n.epoch /\ ~Eligible(n)
  <2>1. handleBid(n, from, m, bid) = f
    BY <1>5, <1>8 DEF handleBid
  <2>2. r \in Roles /\ r \notin {"candidate", "leader"}
    BY Zenon DEF Roles
  <2> HIDE DEF r
  <2>3. f \in NodeType
    BY <1>1, <1>2, <2>2, NoBidsType, ZenonT(60) DEF NodeType
  <2>4. /\ f.id = n.id /\ f.lastEpoch = n.lastEpoch /\ f.role = r /\ f.bids = NoBids
        /\ f.leaderID = NoLeader /\ f.epoch = m.epoch
    BY <1>1, Zenon DEF NodeType
  <2> HIDE DEF f
  <2>5. RoleInv(f)
    BY <1>1, <2>2, <2>4, NoBidsType, NoLeaderIsNoMember, Zenon DEF RoleInv
  <2>6. EpochInv(f)
    BY <1>1, <1>5, <1>8, <2>2, <2>4 DEF EpochInv
  <2> QED
    BY <2>1, <2>3, <2>4, <2>5, <2>6, Zenon DEF Legal, Same
<1>9. CASE m.epoch = n.epoch /\ n.role # "candidate"
  <2>1. handleBid(n, from, m, bid) = n
    BY <1>5, <1>9 DEF handleBid
  <2> QED
    BY <2>1, Zenon DEF Same
<1>10. CASE m.epoch = n.epoch /\ n.role = "candidate"
  <2>1. handleBid(n, from, m, bid) = c
    BY <1>5, <1>10 DEF handleBid, theirs
  <2>2. DOMAIN b \in SUBSET Members /\ DOMAIN n.bids \subseteq DOMAIN b
    BY <1>1, BidMapProperties, Zenon
  <2>3. b \in BidMaps
    <3>1. b \in [DOMAIN b -> Bid]
      BY <1>1, <1>3, BidMapProperties, Zenon
    <3> QED
      BY <2>2, <3>1, Zenon DEF BidMaps
  <2> HIDE DEF b
  <2>4. c \in NodeType
    BY <1>1, <2>3, ZenonT(60) DEF NodeType
  <2>5. /\ c.id = n.id /\ c.lastEpoch = n.lastEpoch /\ c.role = n.role /\ c.bids = b
        /\ c.leaderID = n.leaderID /\ c.epoch = n.epoch /\ c.winBid = n.winBid
    BY <1>1, Zenon DEF NodeType
  <2> HIDE DEF c
  <2>6. RoleInv(c)
    BY <1>10, <2>2, <2>5, Zenon DEF Legal, RoleInv
  <2>7. EpochInv(c)
    BY <2>5, Zenon DEF Legal, EpochInv
  <2> QED
    BY <2>1, <2>4, <2>5, <2>6, <2>7, Zenon DEF Legal, Same
<1> QED
  BY <1>5, <1>6, <1>7, <1>8, <1>9, <1>10

\* A node that follows a leader and acknowledges its heartbeat.
LEMMA FollowLegal ==
  ASSUME NEW n, Legal(n), NEW from \in Members, from # n.id, NEW lsn \in Nat,
         NEW epoch \in 0 .. MaxEpoch, n.epoch <= epoch,
         NEW r \in Roles, r \notin {"candidate", "leader"}
  PROVE  LET f == [n EXCEPT !.epoch = epoch, !.leaderID = from, !.head = lsn,
                            !.bids = NoBids, !.role = r]
         IN  Legal(f) /\ Same(n, f)
<1> DEFINE f == [n EXCEPT !.epoch = epoch, !.leaderID = from, !.head = lsn,
                          !.bids = NoBids, !.role = r]
<1>1. /\ n \in NodeType /\ n.id \in Members /\ n.epoch \in 0 .. MaxEpoch
      /\ n.lastEpoch \in Nat /\ TagEpoch(n.lastEpoch) <= n.epoch
  BY Zenon DEF Legal, NodeType, EpochInv
<1>2. n.epoch \in Int /\ epoch \in Int /\ TagEpoch(n.lastEpoch) \in Int
  BY <1>1, TagEpochType
<1>3. f \in NodeType
  BY <1>1, NoBidsType, ZenonT(60) DEF NodeType
<1>4. /\ f.id = n.id /\ f.lastEpoch = n.lastEpoch /\ f.role = r /\ f.bids = NoBids
      /\ f.leaderID = from /\ f.epoch = epoch
  BY <1>1, Zenon DEF NodeType
<1> HIDE DEF f
<1>5. RoleInv(f)
  BY <1>4, NoBidsType, Zenon DEF RoleInv
<1>6. EpochInv(f)
  BY <1>1, <1>2, <1>4 DEF EpochInv
<1>7. Legal(f) /\ Same(n, f)
  BY <1>3, <1>4, <1>5, <1>6, Zenon DEF Legal, Same
<1> QED
  BY <1>7, Zenon DEF f

LEMMA PromotedLegal ==
  ASSUME NEW n, Legal(n)
  PROVE  /\ Legal(promoted(n)) /\ Same(n, promoted(n))
         /\ promoted(n).role = n.role \/ promoted(n).role = "follower"
<1> DEFINE f == [n EXCEPT !.role = "follower"]
<1>1. n \in NodeType
  BY Zenon DEF Legal
<1>2. CASE n.role = "joining" /\ promoted(n) = f
  <2>1. f \in NodeType
    BY <1>1, ZenonT(60) DEF NodeType, Roles
  <2>2. /\ f.id = n.id /\ f.lastEpoch = n.lastEpoch /\ f.role = "follower" /\ f.bids = n.bids
        /\ f.leaderID = n.leaderID /\ f.epoch = n.epoch /\ f.winBid = n.winBid
    BY <1>1, Zenon DEF NodeType
  <2> HIDE DEF f
  <2>3. RoleInv(f)
    BY <1>2, <2>2, Zenon DEF Legal, RoleInv
  <2>4. EpochInv(f)
    BY <2>2, Zenon DEF Legal, EpochInv
  <2> QED
    BY <1>2, <2>1, <2>2, <2>3, <2>4, Zenon DEF Legal, Same
<1>3. CASE promoted(n) = n
  BY <1>3, Zenon DEF Same
<1>4. promoted(n) = n \/ (n.role = "joining" /\ promoted(n) = f)
  BY Zenon DEF promoted
<1> QED
  BY <1>2, <1>3, <1>4, Zenon

LEMMA HandleHeartbeatLegal ==
  ASSUME NEW n, Legal(n), NEW from \in Members, from # n.id,
         NEW m \in Message, m.type = "heartbeat"
  PROVE  Legal(handleHeartbeat(n, from, m)) /\ Same(n, handleHeartbeat(n, from, m))
<1> DEFINE r == IF n.role = "joining" THEN n.role ELSE "follower"
           f == [n EXCEPT !.role = "follower", !.leaderID = from, !.bids = NoBids,
                          !.head = m.lsn]
           g == [n EXCEPT !.epoch = n.epoch, !.leaderID = from, !.head = m.lsn,
                          !.bids = NoBids, !.role = "follower"]
           h == [n EXCEPT !.epoch = m.epoch, !.leaderID = from, !.head = m.lsn,
                          !.bids = NoBids, !.role = r]
<1>1. n \in NodeType /\ n.epoch \in 0 .. MaxEpoch
  BY Zenon DEF Legal, NodeType
<1>2. m.epoch \in 0 .. MaxEpoch /\ m.lsn \in Nat
  BY Zenon DEF Message
<1>3. n.epoch \in Int /\ m.epoch \in Int
  BY <1>1, <1>2
<1>4. r \in Roles /\ r \notin {"candidate", "leader"} /\ "follower" \in Roles
  BY Zenon DEF Roles
<1>5. ASSUME NEW x, Legal(x), Same(n, x)
      PROVE  Legal(send(x, from, ackMessage(x))) /\ Same(n, send(x, from, ackMessage(x)))
  <2>1. ackMessage(x) \in Message
    BY <1>5, MessageTypes, Zenon DEF Legal
  <2> QED
    BY <1>5, <2>1, SendLegal, Zenon DEF Same
<1>6. CASE m.epoch < n.epoch
  <2>1. handleHeartbeat(n, from, m) = n
    BY <1>3, <1>6 DEF handleHeartbeat
  <2> QED
    BY <2>1, Zenon DEF Same
<1>7. CASE m.epoch = n.epoch /\ n.role = "leader"
  <2>1. g = f
    BY <1>1, Zenon DEF NodeType
  <2>2. Legal(g) /\ Same(n, g)
    <3>1. n.epoch <= n.epoch
      BY <1>3
    <3>2. "follower" \notin {"candidate", "leader"}
      BY Zenon
    <3> HIDE DEF g
    <3> QED
      BY <1>1, <1>2, <1>4, <3>1, <3>2, FollowLegal, Zenon DEF g
  <2>3. Legal(f) /\ Same(n, f)
    BY <2>1, <2>2, Zenon
  <2>4. handleHeartbeat(n, from, m) \in {n, send(f, from, ackMessage(f))}
    BY <1>3, <1>7, Zenon DEF handleHeartbeat
  <2> HIDE DEF f
  <2> QED
    BY <1>5, <2>3, <2>4, Zenon DEF Same
<1>8. CASE m.epoch >= n.epoch /\ ~(m.epoch = n.epoch /\ n.role = "leader")
  <2> DEFINE x == promoted(h)
  <2>1. handleHeartbeat(n, from, m) = send(x, from, ackMessage(x))
    BY <1>3, <1>8 DEF handleHeartbeat
  <2>2. Legal(h) /\ Same(n, h)
    <3>1. n.epoch <= m.epoch
      BY <1>3, <1>8, Zenon
    <3> HIDE DEF r
    <3> QED
      BY <1>2, <1>4, <3>1, FollowLegal, Zenon
  <2> HIDE DEF h
  <2>3. Legal(x) /\ Same(n, x)
    BY <2>2, PromotedLegal, Zenon DEF Same
  <2> HIDE DEF x
  <2> QED
    BY <1>5, <2>1, <2>3, Zenon
<1> QED
  BY <1>3, <1>6, <1>7, <1>8

LEMMA HandleHeartbeatAckLegal ==
  ASSUME NEW n, Legal(n), NEW from \in Members, NEW m \in Message, m.type = "ack"
  PROVE  Legal(handleHeartbeatAck(n, from, m)) /\ Same(n, handleHeartbeatAck(n, from, m))
<1> DEFINE a == [n.acked EXCEPT ![from] = Max({@, m.pos.lsn})]
           v == n.live \cup {from}
           s == [n EXCEPT !.live = v, !.acked = a]
<1>1. n \in NodeType /\ n.acked \in [Members -> Nat] /\ n.live \subseteq Members
  BY Zenon DEF Legal, NodeType
<1>2. m.pos.lsn \in Nat
  BY Zenon DEF Message, Pos
<1>3. Max({n.acked[from], m.pos.lsn}) \in Nat
  <2>1. n.acked[from] \in Nat
    BY <1>1, Zenon
  <2>2. n.acked[from] \in Int /\ m.pos.lsn \in Int
    BY <1>2, <2>1
  <2>3. Max({n.acked[from], m.pos.lsn}) \in {n.acked[from], m.pos.lsn}
    BY <2>2, MaxOfTwo, Zenon
  <2> QED
    BY <1>2, <2>1, <2>3, Zenon
<1>4. a \in [Members -> Nat] /\ v \in SUBSET Members
  BY <1>1, <1>3, Zenon
<1>5. handleHeartbeatAck(n, from, m) \in {n, s}
  BY <1>1, Zenon DEF handleHeartbeatAck
<1> HIDE DEF a, v
<1>6. s \in NodeType
  BY <1>1, <1>4, ZenonT(60) DEF NodeType
<1>7. /\ s.id = n.id /\ s.lastEpoch = n.lastEpoch /\ s.role = n.role /\ s.bids = n.bids
      /\ s.leaderID = n.leaderID /\ s.winBid = n.winBid /\ s.epoch = n.epoch
  BY <1>1, Zenon DEF NodeType
<1> HIDE DEF s
<1> QED
  BY <1>5, <1>6, <1>7, Zenon DEF Legal, RoleInv, EpochInv, Same

LEMMA RecvLegal ==
  ASSUME NEW n, Legal(n), NEW from \in Members, from # n.id, NEW m \in Message,
         NEW bid \in Bids
  PROVE  Legal(Recv(n, from, m, bid)) /\ Same(n, Recv(n, from, m, bid))
<1>1. CASE m.type = "bid"
  <2>1. Recv(n, from, m, bid) = handleBid(n, from, m, bid)
    BY <1>1, Zenon DEF Recv
  <2> QED
    BY <1>1, <2>1, HandleBidLegal, Zenon
<1>2. CASE m.type = "heartbeat"
  <2>1. Recv(n, from, m, bid) = handleHeartbeat(n, from, m)
    BY <1>2, Zenon DEF Recv
  <2> QED
    BY <1>2, <2>1, HandleHeartbeatLegal, Zenon
<1>3. CASE m.type = "ack"
  <2>1. Recv(n, from, m, bid) = handleHeartbeatAck(n, from, m)
    BY <1>3, Zenon DEF Recv
  <2> QED
    BY <1>3, <2>1, HandleHeartbeatAckLegal, Zenon
<1>4. m.type \in {"bid", "heartbeat", "ack"}
  BY Zenon DEF Message
<1> QED
  BY <1>1, <1>2, <1>3, <1>4, Zenon

\* A node that starts, or starts again, at a position.
LEMMA StartedLegal ==
  ASSUME NEW p \in Members, NEW pos \in Pos, TagEpoch(pos.lastEpoch) <= MaxEpoch
  PROVE  /\ Legal(started(p, pos)) /\ started(p, pos).id = p
         /\ started(p, pos).lastEpoch = pos.lastEpoch
         /\ started(p, pos).outbox = EmptyOutbox
<1> DEFINE e == Max({0, TagEpoch(pos.lastEpoch)})
           s == [id |-> p, role |-> "follower", epoch |-> e, leaderID |-> NoLeader,
                 applied |-> pos.lsn, lastEpoch |-> pos.lastEpoch, head |-> 0,
                 hold |-> FALSE, bids |-> NoBids, winBid |-> 0, live |-> {},
                 acked |-> [q \in Members |-> 0], outbox |-> EmptyOutbox]
<1>1. pos.lsn \in Nat /\ pos.lastEpoch \in Nat /\ MaxEpoch \in Nat
  BY Bounds, Zenon DEF Pos
<1>2. e \in 0 .. MaxEpoch /\ e >= TagEpoch(pos.lastEpoch)
  <2>1. TagEpoch(pos.lastEpoch) \in Nat
    BY <1>1, TagEpochType, Zenon
  <2>2. /\ e \in {0, TagEpoch(pos.lastEpoch)} /\ e >= 0 /\ e >= TagEpoch(pos.lastEpoch)
    <3>1. 0 \in Int /\ TagEpoch(pos.lastEpoch) \in Int
      BY <2>1
    <3> QED
      BY <3>1, MaxOfTwo, Zenon
  <2> QED
    BY <1>1, <2>1, <2>2
<1>3. started(p, pos) = s
  BY ZenonT(60) DEF started, SetPosition, MarkCaughtUp, NewNode, promoted
<1> HIDE DEF e
<1>4. EmptyOutbox \in [Members -> Seq(Message)]
  BY DEF EmptyOutbox
<1>5. s \in NodeType
  BY <1>1, <1>2, <1>4, NoBidsType, Zenon DEF NodeType, Roles
<1>6. RoleInv(s)
  BY NoBidsType, NoLeaderIsNoMember, Zenon DEF RoleInv
<1>7. EpochInv(s)
  BY <1>2, Zenon DEF EpochInv
<1> QED
  BY <1>3, <1>5, <1>6, <1>7 DEF Legal

-----------------------------------------------------------------------------
(* Steps. *)

LEMMA DeliverType ==
  ASSUME NEW q \in Queues, NEW f \in Seq(Message) PROVE deliver(q, f) \in Queues
<1> DEFINE all == q \o f
<1>1. q \in Seq(Message) /\ Len(q) <= QueueLen
  BY Zenon DEF Queues
<1>2. all \in Seq(Message) /\ Len(all) \in Nat
  BY <1>1
<1>3. QueueLen \in Nat \ {0}
  BY Bounds, Zenon
<1>4. deliver(q, f) = IF Len(all) <= QueueLen THEN all ELSE SubSeq(all, 1, QueueLen)
  BY Zenon DEF deliver
<1> HIDE DEF all
<1>5. CASE Len(all) <= QueueLen
  BY <1>2, <1>4, <1>5, Zenon DEF Queues
<1>6. CASE ~(Len(all) <= QueueLen)
  <2>1. 1 \in 1 .. Len(all) + 1 /\ QueueLen \in 1 - 1 .. Len(all)
    BY <1>2, <1>3, <1>6
  <2>2. SubSeq(all, 1, QueueLen) \in Seq(Message) /\ Len(SubSeq(all, 1, QueueLen)) = QueueLen
    BY <1>2, <1>3, <2>1
  <2>3. QueueLen <= QueueLen
    BY <1>3
  <2>4. deliver(q, f) = SubSeq(all, 1, QueueLen)
    BY <1>4, <1>6, Zenon
  <2>5. Len(deliver(q, f)) <= QueueLen
    BY <2>2, <2>3, <2>4, Zenon
  <2> QED
    BY <2>2, <2>4, <2>5, Zenon DEF Queues
<1> QED
  BY <1>5, <1>6, Zenon

\* A node is replaced by a legal one at the same position.
LEMMA ReplaceNode ==
  ASSUME NodesInv, NEW p \in Members, NEW n, Legal(n), Same(node[p], n),
         n.outbox = EmptyOutbox, node' = [node EXCEPT ![p] = n]
  PROVE  NodesInv' /\ \A q \in Members : node'[q].lastEpoch = node[q].lastEpoch
<1>1. node \in [Members -> NodeType] /\ n \in NodeType
  BY Zenon DEF NodesInv, Legal
<1>2. node' \in [Members -> NodeType]
  BY <1>1, Zenon
<1>3. ASSUME NEW q \in Members
      PROVE  /\ Legal(node'[q]) /\ node'[q].id = q /\ node'[q].outbox = EmptyOutbox
             /\ node'[q].lastEpoch = node[q].lastEpoch
  <2>1. CASE q = p
    BY <1>1, <2>1, Zenon DEF NodesInv, Same
  <2>2. CASE q # p
    BY <1>1, <2>2, Zenon DEF NodesInv
  <2> QED
    BY <2>1, <2>2, Zenon
<1> QED
  BY <1>2, <1>3, Zenon DEF NodesInv

LEMMA StepKeeps ==
  ASSUME NodesInv, NEW p \in Members, NEW n, Legal(n), Same(node[p], n),
         NEW queues \in [Channels -> Queues], step(p, n, queues)
  PROVE  NodesInv' /\ NetInv' /\ \A q \in Members : node'[q].lastEpoch = node[q].lastEpoch
<1> DEFINE s == [n EXCEPT !.outbox = EmptyOutbox]
<1>1. n \in NodeType /\ n.outbox \in [Members -> Seq(Message)]
  BY Zenon DEF Legal, NodeType
<1>2. /\ node' = [node EXCEPT ![p] = s]
      /\ net' = [c \in DOMAIN queues |->
                   IF c[1] = p /\ linked(p, c[2], n.outbox[c[2]])
                     THEN deliver(queues[c], n.outbox[c[2]]) ELSE queues[c]]
  BY Zenon DEF step
<1>3. NetInv'
  <2>1. DOMAIN queues = Channels
    BY Zenon
  <2>2. ASSUME NEW c \in Channels
        PROVE  queues[c] \in Queues /\ deliver(queues[c], n.outbox[c[2]]) \in Queues
    <3>1. c[2] \in Members
      BY Zenon DEF Channels
    <3> QED
      BY <1>1, <3>1, DeliverType, Zenon
  <2>3. net' \in [Channels -> Queues]
    BY <1>2, <2>1, <2>2, Zenon
  <2> QED
    BY <2>3, Zenon DEF NetInv
<1>4. EmptyOutbox \in [Members -> Seq(Message)]
  BY DEF EmptyOutbox
<1>5. s \in NodeType
  BY <1>1, <1>4, ZenonT(60) DEF NodeType
<1>6. /\ s.id = n.id /\ s.lastEpoch = n.lastEpoch /\ s.role = n.role /\ s.bids = n.bids
      /\ s.leaderID = n.leaderID /\ s.winBid = n.winBid /\ s.epoch = n.epoch
      /\ s.outbox = EmptyOutbox
  BY <1>1, Zenon DEF NodeType
<1> HIDE DEF s
<1>7. Legal(s) /\ Same(node[p], s)
  BY <1>5, <1>6, Zenon DEF Legal, RoleInv, EpochInv, Same
<1> QED
  BY <1>2, <1>3, <1>6, <1>7, ReplaceNode, Zenon

\* The wins so far stay above the winners' positions, which no step changes.
LEMMA SeenKept ==
  ASSUME SeenInv, seen' = seen, \A q \in Members : node'[q].lastEpoch = node[q].lastEpoch
  PROVE  SeenInv'
<1>1. \A s \in seen : s.by \in Members
  BY Zenon DEF SeenInv, Wins
<1> QED
  BY <1>1, Zenon DEF SeenInv

-----------------------------------------------------------------------------
(* The invariant. *)

LEMMA InitInv == Init => IInv
<1> SUFFICES ASSUME Init PROVE IInv
  BY Zenon
<1>1. PICK pos \in [Members -> Positions] : node = [p \in Members |-> started(p, pos[p])]
  BY Zenon DEF Init
<1>2. ASSUME NEW p \in Members
      PROVE  /\ Legal(started(p, pos[p])) /\ started(p, pos[p]).id = p
             /\ started(p, pos[p]).outbox = EmptyOutbox
  <2>1. pos[p] \in Pos /\ TagEpoch(pos[p].lastEpoch) <= MaxEpoch
    BY Bounds, Zenon
  <2> QED
    BY <2>1, StartedLegal, Zenon
<1>3. node \in [Members -> NodeType]
  BY <1>1, <1>2, Zenon DEF Legal
<1>4. NodesInv
  BY <1>1, <1>2, <1>3, Zenon DEF NodesInv
<1>5. <<>> \in Queues
  BY Bounds DEF Queues
<1>6. NetInv
  BY <1>5, Zenon DEF Init, NetInv, Channels
<1>7. SeenInv
  BY Zenon DEF Init, SeenInv
<1> QED
  BY <1>4, <1>6, <1>7, Zenon DEF IInv

\* The next frame of a queue, and the queues without it.
LEMMA TakeFrame ==
  ASSUME NetInv, NEW p \in Members, NEW q \in Members, p # q, net[<<p, q>>] # <<>>
  PROVE  /\ Head(net[<<p, q>>]) \in Message
         /\ [net EXCEPT ![<<p, q>>] = Tail(@)] \in [Channels -> Queues]
<1>1. net \in [Channels -> Queues]
  BY Zenon DEF NetInv
<1>2. <<p, q>> \in Channels
  BY Zenon DEF Channels
<1> DEFINE s == net[<<p, q>>]
<1>3. s \in Seq(Message) /\ s # <<>> /\ Len(s) <= QueueLen
  BY <1>1, <1>2, Zenon DEF Queues
<1>4. QueueLen \in Nat
  BY Bounds, Zenon
<1> HIDE DEF s
<1>5. Head(s) \in Message /\ Tail(s) \in Seq(Message) /\ Len(Tail(s)) = Len(s) - 1
  BY <1>3
<1>6. Len(Tail(s)) <= QueueLen
  BY <1>3, <1>4, <1>5
<1>7. Tail(s) \in Queues
  BY <1>5, <1>6, Zenon DEF Queues
<1> QED
  BY <1>1, <1>2, <1>5, <1>7, Zenon DEF s

LEMMA NextInv == IInv /\ [Next]_vars => IInv'
<1> SUFFICES ASSUME IInv, [Next]_vars PROVE IInv'
  BY Zenon
<1>1. NodesInv /\ NetInv /\ SeenInv
  BY Zenon DEF IInv
<1>2. net \in [Channels -> Queues]
  BY <1>1, Zenon DEF NetInv
<1>3. \A p \in Members : Legal(node[p]) /\ node[p].id = p
  BY <1>1, Zenon DEF NodesInv
<1>4. ASSUME NEW p \in Members, TickLeader(p) PROVE IInv'
  <2>1. heartbeat(node[p]) \in Message
    BY <1>3, <1>4, MessageTypes, Zenon DEF TickLeader, Legal, RoleInv
  <2>2. Legal(broadcastHeartbeat(node[p])) /\ Same(node[p], broadcastHeartbeat(node[p]))
    BY <1>3, <2>1, BroadcastLegal, Zenon DEF broadcastHeartbeat, Same
  <2>3. step(p, broadcastHeartbeat(node[p]), net) /\ seen' = seen
    BY <1>4, Zenon DEF TickLeader
  <2> QED
    BY <1>1, <1>2, <2>2, <2>3, StepKeeps, SeenKept, Zenon DEF IInv
<1>5. ASSUME NEW p \in Members, TickCandidate(p) PROVE IInv'
  <2> DEFINE n == node[p]
             d == decideElection(n)
             w == [by |-> p, epoch |-> n.epoch, bids |-> n.bids]
  <2>1. /\ n.role = "candidate" /\ step(p, d, net)
        /\ seen' = IF d.role = "leader" THEN seen \cup {w} ELSE seen
    BY <1>5, Zenon DEF TickCandidate
  <2>2. Legal(d) /\ Same(n, d) /\ (d.role = "leader" => highestBidder(n.bids) = p)
    BY <1>3, <2>1, DecideElectionLegal, Zenon
  <2>3. NodesInv' /\ NetInv' /\ \A q \in Members : node'[q].lastEpoch = node[q].lastEpoch
    BY <1>1, <1>2, <2>1, <2>2, StepKeeps, Zenon
  <2>4. ASSUME d.role = "leader" PROVE w \in Wins /\ w.epoch > TagEpoch(node[p].lastEpoch)
    <3>1. /\ n.epoch \in 0 .. MaxEpoch /\ n.lastEpoch \in Nat /\ n.bids \in BidMaps
          /\ p \in DOMAIN n.bids /\ TagEpoch(n.lastEpoch) < n.epoch
      <4>1. n \in NodeType /\ RoleInv(n) /\ EpochInv(n) /\ n.id = p
        BY <1>3, Zenon DEF Legal
      <4> HIDE DEF n
      <4>2. n.epoch \in 0 .. MaxEpoch /\ n.lastEpoch \in Nat /\ n.bids \in BidMaps
        BY <4>1, Zenon DEF NodeType
      <4> QED
        BY <2>1, <4>1, <4>2, Zenon DEF RoleInv, EpochInv
    <3>2. n.epoch \in Nat /\ n.epoch > TagEpoch(n.lastEpoch)
      BY <3>1, TagEpochType
    <3>3. w.by = p /\ w.epoch = n.epoch /\ w.bids = n.bids
      BY Zenon
    <3>4. w \in [by : Members, epoch : Nat, bids : BidMaps]
      BY <3>1, <3>2, Zenon
    <3> HIDE DEF w, n
    <3> QED
      BY <2>2, <2>4, <3>1, <3>2, <3>3, <3>4, Zenon DEF Wins, n
  <2>5. w.by = p
    BY Zenon
  <2> HIDE DEF w, d
  <2>6. CASE d.role = "leader"
    <3>1. seen' = seen \cup {w} /\ w \in Wins /\ w.epoch > TagEpoch(node'[w.by].lastEpoch)
      BY <2>1, <2>3, <2>4, <2>5, <2>6, Zenon
    <3>2. \A s \in seen : s \in Wins /\ s.by \in Members
      BY <1>1, Zenon DEF SeenInv, Wins
    <3>3. \A s \in seen : s.epoch > TagEpoch(node'[s.by].lastEpoch)
      BY <1>1, <2>3, <3>2, Zenon DEF SeenInv
    <3>4. SeenInv'
      BY <3>1, <3>2, <3>3, Zenon DEF SeenInv
    <3> QED
      BY <2>3, <3>4, Zenon DEF IInv
  <2>7. CASE d.role # "leader"
    BY <1>1, <2>1, <2>3, <2>7, SeenKept, Zenon DEF IInv
  <2> QED
    BY <2>6, <2>7, Zenon
<1>6. ASSUME NEW p \in Members, NEW bid \in Bids, TickFollower(p, bid) PROVE IInv'
  <2>1. /\ node[p].epoch < MaxEpoch /\ step(p, startElection(node[p], bid), net)
        /\ seen' = seen
    BY <1>6, Zenon DEF TickFollower
  <2>2. Legal(startElection(node[p], bid)) /\ Same(node[p], startElection(node[p], bid))
    BY <1>3, <2>1, StartElectionLegal, Zenon
  <2> QED
    BY <1>1, <1>2, <2>1, <2>2, StepKeeps, SeenKept, Zenon DEF IInv
<1>7. ASSUME NEW p \in Members, NEW q \in Members, NEW bid \in Bids, p # q, Receive(p, q, bid)
      PROVE  IInv'
  <2> DEFINE m == Head(net[<<p, q>>])
             rest == [net EXCEPT ![<<p, q>>] = Tail(@)]
  <2>1. net[<<p, q>>] # <<>> /\ step(q, Recv(node[q], p, m, bid), rest) /\ seen' = seen
    BY <1>7, Zenon DEF Receive
  <2>2. m \in Message /\ rest \in [Channels -> Queues]
    BY <1>1, <1>7, <2>1, TakeFrame, Zenon
  <2> HIDE DEF m, rest
  <2>3. Legal(Recv(node[q], p, m, bid)) /\ Same(node[q], Recv(node[q], p, m, bid))
    BY <1>3, <1>7, <2>2, RecvLegal, Zenon
  <2> QED
    BY <1>1, <2>1, <2>2, <2>3, StepKeeps, SeenKept, Zenon DEF IInv
<1>8. ASSUME NEW p \in Members, NEW q \in Members, p # q, Lose(p, q) PROVE IInv'
  <2>1. /\ net[<<p, q>>] # <<>> /\ net' = [net EXCEPT ![<<p, q>>] = Tail(@)]
        /\ UNCHANGED <<node, seen, restarts>>
    BY <1>8, Zenon DEF Lose
  <2>2. NetInv'
    BY <1>1, <1>8, <2>1, TakeFrame, Zenon DEF NetInv
  <2>3. NodesInv' /\ SeenInv'
    BY <1>1, <2>1, Zenon DEF NodesInv, SeenInv
  <2> QED
    BY <2>2, <2>3, Zenon DEF IInv
<1>9. ASSUME NEW p \in Members, Restart(p) PROVE IInv'
  <2> DEFINE n == node[p]
             s == started(p, Position(n))
  <2>1. node' = [node EXCEPT ![p] = s] /\ UNCHANGED <<net, seen>>
    BY <1>9, Zenon DEF Restart
  <2>2. /\ n.epoch \in 0 .. MaxEpoch /\ n.applied \in Nat /\ n.lastEpoch \in Nat
        /\ TagEpoch(n.lastEpoch) <= n.epoch /\ n.id = p
    BY <1>3, Zenon DEF Legal, NodeType, EpochInv
  <2>3. Position(n) \in Pos /\ Position(n).lastEpoch = n.lastEpoch
    BY <2>2, Zenon DEF Position, Pos
  <2>4. TagEpoch(n.lastEpoch) <= MaxEpoch
    <3>1. MaxEpoch \in Nat
      BY Bounds, Zenon
    <3> QED
      BY <2>2, <3>1, TagEpochType
  <2> HIDE DEF n
  <2>5. Legal(s) /\ s.id = p /\ s.lastEpoch = n.lastEpoch /\ s.outbox = EmptyOutbox
    BY <2>3, <2>4, StartedLegal, Zenon
  <2> HIDE DEF s
  <2>6. NodesInv' /\ \A q \in Members : node'[q].lastEpoch = node[q].lastEpoch
    BY <1>1, <2>1, <2>2, <2>5, ReplaceNode, Zenon DEF n, Same
  <2>7. NetInv'
    BY <1>1, <2>1, Zenon DEF NetInv
  <2> QED
    BY <1>1, <2>1, <2>6, <2>7, SeenKept, Zenon DEF IInv
<1>10. CASE UNCHANGED vars
  BY <1>1, <1>10, Zenon DEF vars, IInv, NodesInv, NetInv, SeenInv
<1> QED
  BY <1>4, <1>5, <1>6, <1>7, <1>8, <1>9, <1>10, Zenon DEF Next

LEMMA Invariance == Spec => []IInv
BY InitInv, NextInv, PTL DEF Spec

-----------------------------------------------------------------------------
(* The theorems. *)

\* Every node, queue and history entry stays well formed, whatever is lost, reordered
\* between peers or restarted (TypeOK, node.go).
THEOREM ElectionTypes == Spec => []TypeOK
<1>1. IInv => TypeOK
  <2> SUFFICES ASSUME IInv PROVE TypeOK
    BY Zenon
  <2>1. NodesInv /\ NetInv
    BY Zenon DEF IInv
  <2>2. ASSUME NEW p \in Members
        PROVE  LET n == node[p]
               IN  /\ n.id = p /\ n.role \in Roles /\ n.epoch \in 0 .. MaxEpoch
                   /\ n.leaderID \in Members \cup {NoLeader}
                   /\ {n.applied, n.lastEpoch, n.head} \subseteq Nat
                   /\ n.hold \in BOOLEAN /\ n.live \subseteq Members
                   /\ \A q \in DOMAIN n.bids : q \in Members /\ n.bids[q] \in Bid
                   /\ (n.role = "candidate") = (p \in DOMAIN n.bids)
                   /\ (n.role = "leader") = (n.leaderID = p)
                   /\ n.outbox = EmptyOutbox
    <3> DEFINE n == node[p]
    <3>1. n \in NodeType /\ RoleInv(n) /\ n.id = p /\ n.outbox = EmptyOutbox
      BY <2>1, Zenon DEF NodesInv, Legal
    <3> HIDE DEF n
    <3>2. /\ n.role \in Roles /\ n.epoch \in 0 .. MaxEpoch
          /\ n.leaderID \in Members \cup {NoLeader}
          /\ n.applied \in Nat /\ n.lastEpoch \in Nat /\ n.head \in Nat
          /\ n.hold \in BOOLEAN /\ n.live \subseteq Members /\ n.bids \in BidMaps
      BY <3>1, Zenon DEF NodeType
    <3>3. \A q \in DOMAIN n.bids : q \in Members /\ n.bids[q] \in Bid
      BY <3>2, BidMapProperties, Zenon
    <3>4. /\ (n.role = "candidate") = (p \in DOMAIN n.bids)
          /\ (n.role = "leader") = (n.leaderID = p)
      BY <3>1 DEF RoleInv
    <3> QED
      BY <3>1, <3>2, <3>3, <3>4, Zenon DEF n
  <2>3. ASSUME NEW c \in DOMAIN net
        PROVE  Len(net[c]) <= QueueLen /\ \A i \in 1 .. Len(net[c]) : net[c][i] \in Message
    <3>1. net[c] \in Seq(Message) /\ Len(net[c]) <= QueueLen
      BY <2>1, Zenon DEF NetInv, Queues
    <3> QED
      BY <3>1
  <2> QED
    BY <2>2, <2>3, Zenon DEF TypeOK
<1> QED
  BY <1>1, Invariance, PTL

\* A node wins only epochs above every batch it holds, also after a restart that
\* forgot its epoch (SetPosition, startElection, handleBid).
THEOREM EpochsAboveHistory == Spec => []WinsAboveItsHistory
<1>1. IInv => WinsAboveItsHistory
  BY Zenon DEF IInv, SeenInv, WinsAboveItsHistory
<1> QED
  BY <1>1, Invariance, PTL

\* Two nodes that win the same round did not both have the other's bid, for any
\* number of nodes, bids and positions (highestBidder, decideElection).
THEOREM DoubleWins == Spec => []DoubleWinNeedsLostBid
<1>1. IInv => DoubleWinNeedsLostBid
  <2> SUFFICES ASSUME IInv, NEW a \in seen, NEW b \in seen, a.by # b.by,
                      b.by \in DOMAIN a.bids, a.bids[b.by] = b.bids[b.by],
                      a.by \in DOMAIN b.bids, b.bids[a.by] = a.bids[a.by]
               PROVE  FALSE
    BY Zenon DEF DoubleWinNeedsLostBid
  <2>1. a \in Wins /\ b \in Wins
    BY Zenon DEF IInv, SeenInv
  <2>2. /\ a.bids \in BidMaps /\ a.by \in DOMAIN a.bids /\ highestBidder(a.bids) = a.by
        /\ b.bids \in BidMaps /\ b.by \in DOMAIN b.bids /\ highestBidder(b.bids) = b.by
    BY <2>1, Zenon DEF Wins
  <2>3. outbids(a.bids, a.by, b.by) /\ outbids(b.bids, b.by, a.by)
    BY <2>2, HighestBidder, Zenon
  <2>4. outbids(b.bids, a.by, b.by)
    BY <2>3, Zenon DEF outbids
  <2> QED
    BY <2>2, <2>3, <2>4, OutbidsTotal, Zenon
<1> QED
  BY <1>1, Invariance, PTL
=============================================================================
