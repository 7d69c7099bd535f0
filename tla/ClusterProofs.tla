---------------------------- MODULE ClusterProofs ----------------------------
(***************************************************************************)
(* Proof that a member whose data has no known position waits for a        *)
(* snapshot (UnknownDataWaits), for any number of members, links, losses,  *)
(* epochs, writes and restarts.                                            *)
(*                                                                         *)
(* The property is not inductive: what keeps such a member in the role     *)
(* "joining" when it catches up with a leader's position is its hold flag. *)
(***************************************************************************)
EXTENDS Cluster, TLAPS

NodeFields ==
  {"id", "role", "epoch", "leaderID", "applied", "lastEpoch", "head", "hold", "bids",
   "winBid", "live", "acked", "outbox"}
MemberFields ==
  {"n", "data", "log", "committed", "wasLeader", "needSnapshot", "ackCount", "out"}

\* Records with the fields of a node, and with those of a replicator.
IsNode(n) == n = [f \in NodeFields |-> n[f]]
IsMember(c) == c = [f \in MemberFields |-> c[f]]

Held(n) == n.role = "joining" /\ n.hold = TRUE

Waits(c) ==
  /\ IsMember(c)
  /\ IsNode(c.n)
  /\ c.needSnapshot \in BOOLEAN
  /\ c.needSnapshot => c.data = <<>> /\ Held(c.n)

IInv ==
  /\ member = [p \in Members |-> member[p]]
  /\ \A p \in Members : Waits(member[p])

-----------------------------------------------------------------------------
(* The node: a held node stays one, whatever it receives. *)

Keeps(n, m) == IsNode(m) /\ (Held(n) => Held(m))

LEMMA KeepsTrans ==
  ASSUME NEW n, NEW m, NEW l, Keeps(n, m), Keeps(m, l) PROVE Keeps(n, l)
BY Zenon DEF Keeps

LEMMA SendKeeps ==
  ASSUME NEW n, IsNode(n), NEW to, NEW m PROVE Keeps(n, send(n, to, m))
<1> DEFINE o == [n.outbox EXCEPT ![to] = Append(@, m)]
           s == [n EXCEPT !.outbox = o]
<1>1. send(n, to, m) = s
  BY Zenon DEF send
<1> HIDE DEF o
<1>2. IsNode(s)
  BY ZenonT(60) DEF IsNode, NodeFields
<1>3. s.role = n.role /\ s.hold = n.hold
  BY Zenon DEF IsNode, NodeFields
<1> QED BY <1>1, <1>2, <1>3, Zenon DEF Keeps, Held

LEMMA BroadcastKeeps ==
  ASSUME NEW n, IsNode(n), NEW m PROVE Keeps(n, broadcast(n, m)) /\ broadcast(n, m).role = n.role
<1> DEFINE o == [q \in Members |-> IF q = n.id THEN n.outbox[q] ELSE Append(n.outbox[q], m)]
           s == [n EXCEPT !.outbox = o]
<1>1. broadcast(n, m) = s
  BY Zenon DEF broadcast
<1> HIDE DEF o
<1>2. IsNode(s)
  BY ZenonT(60) DEF IsNode, NodeFields
<1>3. s.role = n.role /\ s.hold = n.hold
  BY Zenon DEF IsNode, NodeFields
<1> QED BY <1>1, <1>2, <1>3, Zenon DEF Keeps, Held

LEMMA PromotedKeeps ==
  ASSUME NEW n, IsNode(n) PROVE Keeps(n, promoted(n))
<1> DEFINE s == [n EXCEPT !.role = "follower"]
<1>1. IsNode(s)
  BY ZenonT(60) DEF IsNode, NodeFields
<1>2. promoted(n) = n \/ (~n.hold /\ promoted(n) = s)
  BY Zenon DEF promoted
<1>3. CASE promoted(n) = n
  BY <1>3, Zenon DEF Keeps
<1>4. CASE ~n.hold /\ promoted(n) = s
  BY <1>1, <1>4, Zenon DEF Keeps, Held
<1> QED BY <1>2, <1>3, <1>4, Zenon

LEMMA SetPositionNode ==
  ASSUME NEW n, IsNode(n), NEW pos PROVE IsNode(SetPosition(n, pos))
<1>1. PICK lsn : lsn = pos.lsn
  BY Zenon
<1>2. PICK ep : ep = pos.lastEpoch
  BY Zenon
<1>3. PICK top : top = Max({n.epoch, TagEpoch(pos.lastEpoch)})
  BY Zenon
<1> DEFINE s == [n EXCEPT !.applied = lsn, !.lastEpoch = ep, !.epoch = top]
<1>4. SetPosition(n, pos) = promoted(s)
  BY <1>1, <1>2, <1>3, Zenon DEF SetPosition
<1>5. IsNode(s)
  BY ZenonT(60) DEF IsNode, NodeFields
<1> QED BY <1>4, <1>5, PromotedKeeps, Zenon DEF Keeps

LEMMA MarkCaughtUpNode ==
  ASSUME NEW n, IsNode(n) PROVE IsNode(MarkCaughtUp(n))
<1>1. PICK role : role = IF n.role = "joining" THEN "follower" ELSE n.role
  BY Zenon
<1>2. PICK no : no = FALSE
  BY Zenon
<1> DEFINE s == [n EXCEPT !.hold = no, !.role = role]
<1>3. MarkCaughtUp(n) = s
  BY <1>1, <1>2, Zenon DEF MarkCaughtUp
<1>4. IsNode(s)
  BY ZenonT(60) DEF IsNode, NodeFields
<1> QED BY <1>3, <1>4, Zenon

LEMMA HoldJoiningHeld ==
  ASSUME NEW n, IsNode(n) PROVE IsNode(HoldJoining(n)) /\ Held(HoldJoining(n))
<1>1. PICK l : l = IF n.role = "joining" THEN n.leaderID ELSE NoLeader
  BY Zenon
<1>2. PICK yes : yes = TRUE
  BY Zenon
<1> DEFINE s == [n EXCEPT !.hold = yes, !.role = "joining", !.leaderID = l]
<1>3. HoldJoining(n) = s
  BY <1>1, <1>2, Zenon DEF HoldJoining
<1>4. IsNode(s)
  BY ZenonT(60) DEF IsNode, NodeFields
<1>5. s.hold = yes /\ s.role = "joining"
  BY Zenon DEF IsNode, NodeFields
<1> QED BY <1>2, <1>3, <1>4, <1>5, Zenon DEF Held

LEMMA StepDownKeeps ==
  ASSUME NEW n, IsNode(n) PROVE Keeps(n, StepDown(n))
<1> DEFINE s == [n EXCEPT !.role = "follower", !.leaderID = NoLeader, !.bids = NoBids]
<1>1. IsNode(s)
  BY ZenonT(60) DEF IsNode, NodeFields
<1>2. StepDown(n) = n \/ (n.role = "leader" /\ StepDown(n) = s)
  BY Zenon DEF StepDown
<1> QED BY <1>1, <1>2, Zenon DEF Keeps, Held

\* A round is entered only by a node that may stand.
LEMMA EnterRoundNode ==
  ASSUME NEW n, IsNode(n), NEW epoch, NEW bid, NEW others
  PROVE  IsNode(enterRound(n, epoch, bid, others))
<1>1. PICK bids : bids = [q \in DOMAIN others \cup {n.id} |->
                            IF q = n.id THEN [bid |-> bid, pos |-> Position(n)] ELSE others[q]]
  BY Zenon
<1> DEFINE c == [n EXCEPT !.epoch = epoch, !.role = "candidate", !.leaderID = NoLeader,
                          !.bids = bids]
<1>2. enterRound(n, epoch, bid, others) = broadcast(c, bidMessage(c))
  BY <1>1, Zenon DEF enterRound
<1>3. IsNode(c)
  BY ZenonT(60) DEF IsNode, NodeFields
<1> HIDE DEF c
<1> QED BY <1>2, <1>3, BroadcastKeeps, Zenon DEF Keeps

LEMMA BecomeLeaderNode ==
  ASSUME NEW n, IsNode(n) PROVE IsNode(becomeLeader(n))
<1>1. PICK bid : bid = n.bids[n.id].bid
  BY Zenon
<1>2. PICK id : id = n.id
  BY Zenon
<1>3. PICK acked : acked = [q \in Members |-> 0]
  BY Zenon
<1> DEFINE c == [n EXCEPT !.role = "leader", !.leaderID = id, !.winBid = bid,
                          !.bids = NoBids, !.live = {}, !.acked = acked]
<1>4. becomeLeader(n) = broadcast(c, heartbeat(c))
  BY <1>1, <1>2, <1>3, Zenon DEF becomeLeader, broadcastHeartbeat
<1>5. IsNode(c)
  BY ZenonT(60) DEF IsNode, NodeFields
<1> HIDE DEF c
<1> QED BY <1>4, <1>5, BroadcastKeeps, Zenon DEF Keeps

LEMMA DecideElectionNode ==
  ASSUME NEW n, IsNode(n) PROVE IsNode(decideElection(n))
<1> DEFINE s == [n EXCEPT !.role = "follower", !.leaderID = NoLeader, !.bids = NoBids]
<1>1. IsNode(s)
  BY ZenonT(60) DEF IsNode, NodeFields
<1>2. decideElection(n) \in {becomeLeader(n), s}
  BY Zenon DEF decideElection
<1> QED BY <1>1, <1>2, BecomeLeaderNode, Zenon

LEMMA HandleBidKeeps ==
  ASSUME NEW n, IsNode(n), NEW from, NEW m, NEW bid PROVE Keeps(n, handleBid(n, from, m, bid))
<1> DEFINE others == [q \in {from} |-> [bid |-> m.bid, pos |-> m.pos]]
           joined == enterRound(n, m.epoch, bid, others)
           follows == [n EXCEPT !.epoch = m.epoch, !.leaderID = NoLeader,
                                !.role = IF @ = "joining" THEN @ ELSE "follower",
                                !.bids = NoBids]
           bids == [q \in DOMAIN n.bids \cup {from} |->
                      IF q = from THEN [bid |-> m.bid, pos |-> m.pos] ELSE n.bids[q]]
           more == [n EXCEPT !.bids = bids]
           newer == IF Eligible(n) THEN joined ELSE follows
           same == IF n.role # "candidate" THEN n ELSE more
<1>1. handleBid(n, from, m, bid) \in {n, newer, same}
  <2>1. handleBid(n, from, m, bid) =
          CASE m.epoch < n.epoch -> n [] m.epoch > n.epoch -> newer [] OTHER -> same
    BY Zenon DEF handleBid
  <2> HIDE DEF newer, same
  <2> QED BY <2>1, Zenon
<1>2. IsNode(joined)
  <2> HIDE DEF others
  <2> QED BY EnterRoundNode, Zenon
<1>3. Keeps(n, follows)
  <2>1. PICK epoch : epoch = m.epoch
    BY Zenon
  <2>2. PICK role : role = IF n.role = "joining" THEN n.role ELSE "follower"
    BY Zenon
  <2> DEFINE s == [n EXCEPT !.epoch = epoch, !.leaderID = NoLeader, !.role = role,
                            !.bids = NoBids]
  <2>3. follows = s
    BY <2>1, <2>2, Zenon
  <2>4. IsNode(s)
    BY ZenonT(60) DEF IsNode, NodeFields
  <2>5. s.role = role /\ s.hold = n.hold
    BY Zenon DEF IsNode, NodeFields
  <2> QED BY <2>2, <2>3, <2>4, <2>5, Zenon DEF Keeps, Held
<1>4. Keeps(n, more)
  <2> HIDE DEF bids
  <2>1. IsNode(more)
    BY ZenonT(60) DEF IsNode, NodeFields
  <2>2. more.role = n.role /\ more.hold = n.hold
    BY Zenon DEF IsNode, NodeFields
  <2> QED BY <2>1, <2>2, Zenon DEF Keeps, Held
<1> HIDE DEF joined, follows, more
<1>5. Keeps(n, newer)
  BY <1>2, <1>3, Zenon DEF Keeps, Held, Eligible
<1>6. Keeps(n, n) /\ Keeps(n, same)
  BY <1>4, Zenon DEF Keeps
<1> QED BY <1>1, <1>5, <1>6, Zenon

LEMMA HandleHeartbeatKeeps ==
  ASSUME NEW n, IsNode(n), NEW from, NEW m PROVE Keeps(n, handleHeartbeat(n, from, m))
<1> DEFINE yields == [n EXCEPT !.role = "follower", !.leaderID = from, !.bids = NoBids,
                               !.head = m.lsn]
           follows == [n EXCEPT !.epoch = m.epoch, !.leaderID = from, !.head = m.lsn,
                                !.bids = NoBids,
                                !.role = IF @ = "joining" THEN @ ELSE "follower"]
           f == promoted(follows)
           ack(x) == send(x, from, ackMessage(x))
           larger == m.bid > n.winBid \/ (m.bid = n.winBid /\ from > n.id)
           rival == IF larger THEN ack(yields) ELSE n
<1>1. \/ handleHeartbeat(n, from, m) \in {n, ack(f)}
      \/ handleHeartbeat(n, from, m) = rival /\ n.role = "leader"
  <2>1. handleHeartbeat(n, from, m) =
          CASE m.epoch < n.epoch -> n [] m.epoch = n.epoch /\ n.role = "leader" -> rival
            [] OTHER -> ack(f)
    BY Zenon DEF handleHeartbeat
  <2> HIDE DEF rival, ack
  <2> QED BY <2>1, Zenon
<1>2. Keeps(n, follows)
  <2>1. PICK epoch : epoch = m.epoch
    BY Zenon
  <2>2. PICK role : role = IF n.role = "joining" THEN n.role ELSE "follower"
    BY Zenon
  <2>3. PICK head : head = m.lsn
    BY Zenon
  <2> DEFINE s == [n EXCEPT !.epoch = epoch, !.leaderID = from, !.head = head,
                            !.bids = NoBids, !.role = role]
  <2>4. follows = s
    BY <2>1, <2>2, <2>3, Zenon
  <2>5. IsNode(s)
    BY ZenonT(60) DEF IsNode, NodeFields
  <2>6. s.role = role /\ s.hold = n.hold
    BY Zenon DEF IsNode, NodeFields
  <2> QED BY <2>2, <2>4, <2>5, <2>6, Zenon DEF Keeps, Held
<1>3. IsNode(yields)
  BY ZenonT(60) DEF IsNode, NodeFields
<1> HIDE DEF yields, follows
<1>4. Keeps(n, f)
  BY <1>2, PromotedKeeps, KeepsTrans, Zenon DEF Keeps
<1> HIDE DEF f
<1>5. Keeps(n, ack(f))
  BY <1>4, SendKeeps, KeepsTrans, Zenon DEF Keeps
<1>6. IsNode(rival)
  BY <1>3, SendKeeps, Zenon DEF Keeps
<1> QED BY <1>1, <1>5, <1>6, Zenon DEF Keeps, Held

LEMMA HandleHeartbeatAckKeeps ==
  ASSUME NEW n, IsNode(n), NEW from, NEW m PROVE Keeps(n, handleHeartbeatAck(n, from, m))
<1>1. PICK live : live = n.live \cup {from}
  BY Zenon
<1>2. PICK acked : acked = [n.acked EXCEPT ![from] = Max({@, m.pos.lsn})]
  BY Zenon
<1> DEFINE s == [n EXCEPT !.live = live, !.acked = acked]
<1>3. handleHeartbeatAck(n, from, m) \in {n, s}
  BY <1>1, <1>2, Zenon DEF handleHeartbeatAck
<1>4. IsNode(s)
  BY ZenonT(60) DEF IsNode, NodeFields
<1>5. s.role = n.role /\ s.hold = n.hold
  BY Zenon DEF IsNode, NodeFields
<1> QED BY <1>3, <1>4, <1>5, Zenon DEF Keeps, Held

LEMMA RecvKeeps ==
  ASSUME NEW n, IsNode(n), NEW from, NEW m, NEW bid PROVE Keeps(n, Recv(n, from, m, bid))
<1>1. Recv(n, from, m, bid) \in {handleBid(n, from, m, bid), handleHeartbeat(n, from, m),
                                 handleHeartbeatAck(n, from, m)}
  BY Zenon DEF Recv
<1> QED BY <1>1, HandleBidKeeps, HandleHeartbeatKeeps, HandleHeartbeatAckKeeps, Zenon

-----------------------------------------------------------------------------
(* The replicator. *)

LEMMA WaitsOut ==
  ASSUME NEW c, Waits(c), NEW o PROVE Waits([c EXCEPT !.out = o])
<1> DEFINE s == [c EXCEPT !.out = o]
<1>1. IsMember(c)
  BY Zenon DEF Waits
<1>2. IsMember(s)
  BY <1>1, ZenonT(60) DEF IsMember, MemberFields
<1>3. s.n = c.n /\ s.data = c.data /\ s.needSnapshot = c.needSnapshot
  BY <1>1, Zenon DEF IsMember, MemberFields
<1> QED BY <1>2, <1>3, Zenon DEF Waits

LEMMA WaitsNode ==
  ASSUME NEW c, Waits(c), NEW n, Keeps(c.n, n) PROVE Waits([c EXCEPT !.n = n])
<1> DEFINE s == [c EXCEPT !.n = n]
<1>1. IsMember(c)
  BY Zenon DEF Waits
<1>2. IsMember(s)
  BY <1>1, ZenonT(60) DEF IsMember, MemberFields
<1>3. s.n = n /\ s.data = c.data /\ s.needSnapshot = c.needSnapshot
  BY <1>1, Zenon DEF IsMember, MemberFields
<1> QED BY <1>2, <1>3, Zenon DEF Waits, Keeps

\* A member that has a position and a node of any kind.
LEMMA WaitsNoMore ==
  ASSUME NEW c, IsMember(c), IsNode(c.n), c.needSnapshot = FALSE PROVE Waits(c)
BY Zenon DEF Waits

LEMMA EmitWaits ==
  ASSUME NEW c, Waits(c), NEW to, NEW f PROVE Waits(emit(c, to, f))
<1> DEFINE o == [c.out EXCEPT ![to] = Append(@, f)]
<1>1. emit(c, to, f) = [c EXCEPT !.out = o]
  BY Zenon DEF emit
<1> HIDE DEF o
<1>2. Waits([c EXCEPT !.out = o])
  BY WaitsOut, Zenon
<1> QED BY <1>1, <1>2, Zenon

LEMMA DrainNodeWaits ==
  ASSUME NEW c, Waits(c) PROVE Waits(drainNode(c))
<1>1. PICK o : o = [q \in Members |-> c.out[q] \o [i \in 1 .. Len(c.n.outbox[q]) |->
                                        [kind |-> "msg", msg |-> c.n.outbox[q][i]]]]
  BY Zenon
<1> DEFINE d == [c EXCEPT !.out = o]
           n == [c.n EXCEPT !.outbox = EmptyOutbox]
<1>2. IsMember(c) /\ IsNode(c.n)
  BY Zenon DEF Waits
<1>3. d.n = c.n
  BY <1>2, Zenon DEF IsMember, MemberFields
<1>4. drainNode(c) = [c EXCEPT !.out = o, !.n.outbox = EmptyOutbox]
  BY <1>1, Zenon DEF drainNode
<1>5. drainNode(c) = [d EXCEPT !.n = n]
  BY <1>3, <1>4, Zenon
<1>6. IsNode(n)
  BY <1>2, ZenonT(60) DEF IsNode, NodeFields
<1>7. n.role = c.n.role /\ n.hold = c.n.hold
  BY <1>2, Zenon DEF IsNode, NodeFields
<1> HIDE DEF n
<1>8. Keeps(d.n, n)
  BY <1>3, <1>6, <1>7, Zenon DEF Keeps, Held
<1>9. Waits(d)
  BY WaitsOut, Zenon
<1> HIDE DEF d
<1> QED BY <1>5, <1>8, <1>9, WaitsNode, Zenon

LEMMA RefreshCommittedWaits ==
  ASSUME NEW c, Waits(c) PROVE Waits(refreshCommitted(c))
<1>1. PICK no : no = FALSE
  BY Zenon
<1>2. PICK yes : yes = TRUE
  BY Zenon
<1>3. PICK top : top = Max({IF c.wasLeader THEN c.committed ELSE replLSN(c),
                            DurableLSN(c.n, c.ackCount)})
  BY Zenon
<1> DEFINE d == [c EXCEPT !.wasLeader = no]
           e == [c EXCEPT !.wasLeader = yes, !.committed = top]
<1>4. refreshCommitted(c) \in {d, e}
  BY <1>1, <1>2, <1>3, Zenon DEF refreshCommitted
<1>5. IsMember(c)
  BY Zenon DEF Waits
<1>6. IsMember(d) /\ IsMember(e)
  BY <1>5, ZenonT(60) DEF IsMember, MemberFields
<1>7. /\ d.n = c.n /\ d.data = c.data /\ d.needSnapshot = c.needSnapshot
      /\ e.n = c.n /\ e.data = c.data /\ e.needSnapshot = c.needSnapshot
  BY <1>5, Zenon DEF IsMember, MemberFields
<1> HIDE DEF d, e
<1>8. Waits(d) /\ Waits(e)
  BY <1>6, <1>7, Zenon DEF Waits
<1> QED BY <1>4, <1>8, Zenon

LEMMA ServeSnapshotWaits ==
  ASSUME NEW c, Waits(c), NEW to PROVE Waits(serveSnapshot(c, to))
<1>1. serveSnapshot(c, to) \in {c, emit(c, to, [kind |-> "snapshot", data |-> c.data])}
  BY Zenon DEF serveSnapshot
<1> QED BY <1>1, EmitWaits, Zenon

LEMMA RefuseWaits ==
  ASSUME NEW c, Waits(c), NEW from, NEW pos PROVE Waits(refuse(c, from, pos))
<1> DEFINE d == [c EXCEPT !.n = StepDown(c.n)]
<1>1. refuse(c, from, pos) \in {drainNode(d), serveSnapshot(c, from)}
  BY Zenon DEF refuse
<1>2. Waits(d)
  BY StepDownKeeps, WaitsNode, Zenon DEF Waits
<1> HIDE DEF d
<1> QED BY <1>1, <1>2, DrainNodeWaits, ServeSnapshotWaits, Zenon

LEMMA ServeCatchupWaits ==
  ASSUME NEW c, Waits(c), NEW from, NEW pos PROVE Waits(serveCatchup(c, from, pos))
<1> DEFINE o == [c.out EXCEPT ![from] = @ \o [i \in 1 .. replLSN(c) - pos.lsn |->
                       batchFrame(pos.lsn + i, indexedEpoch(c.log.epochs, pos.lsn + i),
                                  c.data[pos.lsn + i].w)]]
           behind == IF pos.lsn >= replLSN(c) THEN c
                     ELSE IF pos.lsn + 1 < firstLSN(c.log) THEN serveSnapshot(c, from)
                     ELSE resend(c, from, pos.lsn)
<1>1. serveCatchup(c, from, pos) \in {c, refuse(c, from, pos), behind}
  <2> DEFINE leads == c.n.role = "leader"
  <2>1. serveCatchup(c, from, pos) =
          CASE ~leads -> c
            [] leads /\ ~admitted(c, pos) -> refuse(c, from, pos)
            [] leads /\ admitted(c, pos) -> behind
    BY Zenon DEF serveCatchup
  <2> HIDE DEF behind, leads
  <2> QED BY <2>1, Zenon
<1>2. Waits(resend(c, from, pos.lsn))
  <2>1. resend(c, from, pos.lsn) = [c EXCEPT !.out = o]
    BY Zenon DEF resend
  <2> HIDE DEF o
  <2>2. Waits([c EXCEPT !.out = o])
    BY WaitsOut, Zenon
  <2> QED BY <2>1, <2>2, Zenon
<1>3. Waits(behind)
  BY <1>2, ServeSnapshotWaits, Zenon
<1> HIDE DEF behind
<1> QED BY <1>1, <1>3, RefuseWaits, Zenon

LEMMA AckLeaderWaits ==
  ASSUME NEW c, Waits(c) PROVE Waits(ackLeader(c))
<1>1. PICK f : f = [kind |-> "msg", msg |-> ackMessage(c.n)]
  BY Zenon
<1>2. ackLeader(c) \in {c, emit(c, c.n.leaderID, f)}
  BY <1>1, Zenon DEF ackLeader
<1> QED BY <1>2, EmitWaits, Zenon

LEMMA RequestSnapshotWaits ==
  ASSUME NEW c, Waits(c) PROVE Waits(requestSnapshot(c))
<1>1. PICK f : f = [kind |-> "snapshotReq"]
  BY Zenon
<1>2. requestSnapshot(c) \in {c, emit(c, c.n.leaderID, f)}
  BY <1>1, Zenon DEF requestSnapshot
<1> QED BY <1>2, EmitWaits, Zenon

LEMMA MaybeCatchUpWaits ==
  ASSUME NEW c, Waits(c) PROVE Waits(maybeCatchUp(c))
<1> DEFINE asks == IF c.n.head > replLSN(c) THEN emit(c, c.n.leaderID, catchupRequest(c)) ELSE c
<1>1. maybeCatchUp(c) \in {c, requestSnapshot(c), asks}
  <2> DEFINE A == c.n.role = "leader" \/ ~following(c)
             B == c.n.role # "leader" /\ following(c) /\ c.needSnapshot
  <2>1. maybeCatchUp(c) = CASE A -> c [] B -> requestSnapshot(c) [] OTHER -> asks
    BY Zenon DEF maybeCatchUp
  <2> HIDE DEF asks, A, B
  <2> QED BY <2>1, Zenon
<1>2. Waits(asks)
  BY EmitWaits, Zenon
<1> HIDE DEF asks
<1> QED BY <1>1, <1>2, RequestSnapshotWaits, Zenon

\* A batch is stored only by a member that has a position.
LEMMA StoreWaits ==
  ASSUME NEW c, Waits(c), c.needSnapshot = FALSE, NEW tag, NEW w
  PROVE  Waits(store(c, tag, w))
<1>1. PICK d : d = Append(c.data, [tag |-> tag, w |-> w])
  BY Zenon
<1>2. PICK l : l = appendLog(c.log, replLSN(c) + 1, tag)
  BY Zenon
<1>3. PICK n : n = SetPosition(c.n, [lastEpoch |-> tag, lsn |-> replLSN(c) + 1])
  BY Zenon
<1> DEFINE s == [c EXCEPT !.data = d, !.log = l, !.n = n]
<1>4. store(c, tag, w) = s
  BY <1>1, <1>2, <1>3, Zenon DEF store
<1>5. IsMember(c) /\ IsNode(c.n)
  BY Zenon DEF Waits
<1>6. IsNode(n)
  BY <1>3, <1>5, SetPositionNode, Zenon
<1>7. IsMember(s)
  BY <1>5, ZenonT(60) DEF IsMember, MemberFields
<1>8. s.n = n /\ s.needSnapshot = c.needSnapshot
  BY <1>5, Zenon DEF IsMember, MemberFields
<1> HIDE DEF s
<1> QED BY <1>4, <1>6, <1>7, <1>8, WaitsNoMore, Zenon

LEMMA ApplyIncomingWaits ==
  ASSUME NEW c, Waits(c), NEW from, NEW f PROVE Waits(applyIncoming(c, from, f))
<1> DEFINE stored == ackLeader(store(c, f.tag, f.w))
           asks == emit(c, from, catchupRequest(c))
           applies == CASE f.lsn <= replLSN(c) -> c [] f.lsn = replLSN(c) + 1 -> stored
                        [] OTHER -> asks
<1>1. applyIncoming(c, from, f) =
        CASE c.n.leaderID # from -> c
          [] c.n.leaderID = from /\ c.needSnapshot -> requestSnapshot(c)
          [] OTHER -> applies
  BY Zenon DEF applyIncoming
<1>2. applies \in {c, stored, asks}
  <2> HIDE DEF stored, asks
  <2> QED BY Zenon
<1>3. Waits(asks)
  BY EmitWaits, Zenon
<1>4. c.needSnapshot = FALSE => Waits(stored)
  BY StoreWaits, AckLeaderWaits, Zenon
<1> HIDE DEF asks, stored, applies
<1>5. c.needSnapshot \in BOOLEAN
  BY Zenon DEF Waits
<1>6. CASE c.needSnapshot = FALSE
  <2>1. applyIncoming(c, from, f) \in {c, requestSnapshot(c), applies}
    BY <1>1, Zenon
  <2> QED BY <1>2, <1>3, <1>4, <1>6, <2>1, RequestSnapshotWaits, Zenon
<1>7. CASE c.needSnapshot = TRUE
  <2>1. applyIncoming(c, from, f) \in {c, requestSnapshot(c)}
    BY <1>1, <1>7, Zenon
  <2> QED BY <2>1, RequestSnapshotWaits, Zenon
<1> QED BY <1>5, <1>6, <1>7, Zenon

\* A snapshot gives a member its position.
LEMMA RestoreWaits ==
  ASSUME NEW c, Waits(c), NEW from, NEW snap PROVE Waits(restore(c, from, snap))
<1>1. PICK n : n = MarkCaughtUp(SetPosition(c.n, storedPosition(snap)))
  BY Zenon
<1>2. PICK l : l = resetLog(storedPosition(snap).lsn + 1, storedPosition(snap).lastEpoch)
  BY Zenon
<1>3. PICK no : no = FALSE
  BY Zenon
<1> DEFINE s == [c EXCEPT !.data = snap, !.n = n, !.needSnapshot = no, !.log = l]
<1>4. restore(c, from, snap) \in {c, ackLeader(s)}
  BY <1>1, <1>2, <1>3, Zenon DEF restore
<1>5. IsMember(c) /\ IsNode(c.n)
  BY Zenon DEF Waits
<1>6. IsNode(n)
  BY <1>1, <1>5, SetPositionNode, MarkCaughtUpNode, Zenon
<1>7. IsMember(s)
  BY <1>5, ZenonT(60) DEF IsMember, MemberFields
<1>8. s.n = n /\ s.needSnapshot = no
  BY <1>5, Zenon DEF IsMember, MemberFields
<1> HIDE DEF s
<1>9. Waits(s)
  BY <1>3, <1>6, <1>7, <1>8, WaitsNoMore, Zenon
<1> QED BY <1>4, <1>9, AckLeaderWaits, Zenon

LEMMA CaptureWaits ==
  ASSUME NEW c, Waits(c), c.needSnapshot = FALSE, NEW w PROVE Waits(capture(c, w))
<1>1. PICK tag : tag = HistoryTag(c.n.epoch, c.n.id)
  BY Zenon
<1>2. PICK s : s = store(c, tag, w)
  BY Zenon
<1>3. PICK o : o = [q \in Members |-> IF q \in LiveFollowers(s.n)
                      THEN Append(s.out[q], batchFrame(replLSN(s), tag, w)) ELSE s.out[q]]
  BY Zenon
<1>4. capture(c, w) = [s EXCEPT !.out = o]
  BY <1>1, <1>2, <1>3, Zenon DEF capture, emitAll
<1>5. Waits(s)
  BY <1>2, StoreWaits, Zenon
<1>6. Waits([s EXCEPT !.out = o])
  BY <1>5, WaitsOut, Zenon
<1> QED BY <1>4, <1>6, Zenon

LEMMA RecvMsgWaits ==
  ASSUME NEW c, Waits(c), NEW from, NEW m PROVE Waits(recvMsg(c, from, m))
<1>1. PICK n : n = Recv(c.n, from, m, 1)
  BY Zenon
<1> DEFINE d == [c EXCEPT !.n = n]
<1>2. recvMsg(c, from, m) \in
        {refuse(c, from, m.pos), maybeCatchUp(refreshCommitted(drainNode(d)))}
  BY <1>1, Zenon DEF recvMsg
<1>3. Keeps(c.n, n)
  BY <1>1, RecvKeeps, Zenon DEF Waits
<1>4. Waits(d)
  BY <1>3, WaitsNode, Zenon
<1> HIDE DEF d
<1>5. Waits(maybeCatchUp(refreshCommitted(drainNode(d))))
  BY <1>4, DrainNodeWaits, RefreshCommittedWaits, MaybeCatchUpWaits, Zenon
<1> QED BY <1>2, <1>5, RefuseWaits, Zenon

LEMMA RecvFrameWaits ==
  ASSUME NEW c, Waits(c), NEW from, NEW f PROVE Waits(recvFrame(c, from, f))
<1>1. recvFrame(c, from, f) \in
        {recvMsg(c, from, f.msg), applyIncoming(c, from, f), serveCatchup(c, from, f.pos),
         serveSnapshot(c, from), restore(c, from, f.data), c}
  BY Zenon DEF recvFrame
<1> QED BY <1>1, RecvMsgWaits, ApplyIncomingWaits, ServeCatchupWaits, ServeSnapshotWaits,
          RestoreWaits, Zenon

\* A process that starts with data of unknown position holds its node back.
LEMMA NewReplicatorWaits ==
  ASSUME NEW p, NEW data, NEW log, NEW legacy \in BOOLEAN, legacy => data = <<>>, NEW acks
  PROVE  Waits(NewReplicator(p, data, log, legacy, acks))
<1>1. PICK n : n = SetPosition(MarkCaughtUp(NewNode(p)), storedPosition(data))
  BY Zenon
<1>2. PICK m : m = IF legacy THEN HoldJoining(n) ELSE n
  BY Zenon
<1>3. PICK l : l = IF LastEpoch(log) = storedPosition(data).lastEpoch
                      /\ log.last = storedPosition(data).lsn
                     THEN log
                     ELSE resetLog(storedPosition(data).lsn + 1, storedPosition(data).lastEpoch)
  BY Zenon
<1>4. PICK no : no = FALSE
  BY Zenon
<1> DEFINE c == [n |-> m, data |-> data, log |-> l, committed |-> 0, wasLeader |-> no,
                 needSnapshot |-> legacy, ackCount |-> acks, out |-> EmptyOutbox]
<1>5. NewReplicator(p, data, log, legacy, acks) = c
  BY <1>1, <1>2, <1>3, <1>4, Zenon DEF NewReplicator
<1>6. IsNode(NewNode(p))
  BY ZenonT(60) DEF NewNode, IsNode, NodeFields
<1>7. IsNode(n)
  BY <1>1, <1>6, MarkCaughtUpNode, SetPositionNode, Zenon
<1>8. IsNode(m) /\ (legacy => Held(m))
  BY <1>2, <1>7, HoldJoiningHeld, Zenon
<1>9. IsMember(c)
  BY ZenonT(60) DEF IsMember, MemberFields
<1>10. c.n = m /\ c.data = data /\ c.needSnapshot = legacy
  BY Zenon
<1> HIDE DEF c
<1> QED BY <1>5, <1>8, <1>9, <1>10, Zenon DEF Waits

-----------------------------------------------------------------------------
(* The engine and the steps of the cluster. *)

LEMMA TidyWaits ==
  ASSUME NEW c, Waits(c) PROVE Waits(tidy(c))
<1> DEFINE d == [c EXCEPT !.out = EmptyOutbox]
<1>1. PICK acked : acked = [q \in Members |-> 0]
  BY Zenon
<1>2. IsMember(c) /\ IsNode(c.n)
  BY Zenon DEF Waits
<1> DEFINE n == [c.n EXCEPT !.live = {}, !.winBid = 0, !.acked = acked]
           e == [c EXCEPT !.out = EmptyOutbox, !.committed = 0, !.n = n]
<1>3. tidy(c) \in {d, e}
  <2>1. tidy(c) \in {d, [c EXCEPT !.out = EmptyOutbox, !.committed = 0, !.n.live = {},
                                   !.n.winBid = 0, !.n.acked = acked]}
    BY <1>1, Zenon DEF tidy
  <2>2. [c EXCEPT !.out = EmptyOutbox, !.committed = 0, !.n.live = {},
                  !.n.winBid = 0, !.n.acked = acked] = e
    BY <1>2, ZenonT(60) DEF IsMember, MemberFields
  <2> QED BY <2>1, <2>2, Zenon
<1>4. Waits(d)
  BY WaitsOut, Zenon
<1>5. IsNode(n)
  BY <1>2, ZenonT(60) DEF IsNode, NodeFields
<1>6. n.role = c.n.role /\ n.hold = c.n.hold
  BY <1>2, Zenon DEF IsNode, NodeFields
<1> HIDE DEF n
<1>7. IsMember(e)
  BY <1>2, ZenonT(60) DEF IsMember, MemberFields
<1>8. e.n = n /\ e.data = c.data /\ e.needSnapshot = c.needSnapshot
  BY <1>2, Zenon DEF IsMember, MemberFields
<1> HIDE DEF d, e
<1>9. Waits(e)
  BY <1>5, <1>6, <1>7, <1>8, Zenon DEF Waits, Held
<1> QED BY <1>3, <1>4, <1>9, Zenon

\* One member becomes one that keeps the invariant.
LEMMA MemberStep ==
  ASSUME IInv, NEW p \in Members, NEW c, Waits(c), member' = [member EXCEPT ![p] = c]
  PROVE  IInv'
<1>1. member' = [q \in Members |-> IF q = p THEN c ELSE member[q]]
  BY Zenon DEF IInv
<1>2. \A q \in Members : member'[q] = IF q = p THEN c ELSE member[q]
  BY <1>1, Zenon
<1>3. member' = [q \in Members |-> member'[q]]
  BY <1>1, Zenon
<1> QED BY <1>2, <1>3, Zenon DEF IInv

LEMMA StepWaits ==
  ASSUME IInv, NEW p \in Members, NEW c, Waits(c), NEW ws, NEW queues, step(p, c, ws, queues)
  PROVE  IInv'
<1>1. member' = [member EXCEPT ![p] = tidy(c)]
  BY Zenon DEF step
<1>2. Waits(tidy(c))
  BY TidyWaits, Zenon
<1> QED BY <1>1, <1>2, MemberStep, Zenon

LEMMA TickWaits ==
  ASSUME IInv, NEW p \in Members, NEW n, tick(p, n), Keeps(member[p].n, n) PROVE IInv'
<1> DEFINE c == [member[p] EXCEPT !.n = n]
           d == refreshCommitted(drainNode(c))
<1>1. Waits(c)
  BY WaitsNode, Zenon DEF IInv
<1> HIDE DEF c
<1>2. Waits(d)
  BY <1>1, DrainNodeWaits, RefreshCommittedWaits, Zenon
<1>3. step(p, d, engine[p].waiters, net)
  BY Zenon DEF tick, c
<1> HIDE DEF d
<1> QED BY <1>2, <1>3, StepWaits, Zenon

\* A node that is not joining belongs to a member that has a position.
LEMMA Placed ==
  ASSUME IInv, NEW p \in Members, member[p].n.role # "joining"
  PROVE  member[p].needSnapshot = FALSE /\ ~Held(member[p].n)
BY Zenon DEF IInv, Waits, Held

LEMMA TickLeaderWaits ==
  ASSUME IInv, NEW p \in Members, TickLeader(p) PROVE IInv'
<1>1. Keeps(member[p].n, broadcastHeartbeat(member[p].n))
  BY BroadcastKeeps, Zenon DEF broadcastHeartbeat, IInv, Waits
<1> QED BY <1>1, TickWaits, Zenon DEF TickLeader

LEMMA BiddingNode ==
  ASSUME NEW n, IsNode(n)
  PROVE  IsNode(bidding(n)) /\ bidding(n).role = n.role /\ bidding(n).hold = n.hold
<1>1. IsNode(bidding(n))
  BY ZenonT(60) DEF bidding, IsNode, NodeFields
<1>2. bidding(n).role = n.role /\ bidding(n).hold = n.hold
  BY Zenon DEF bidding, IsNode, NodeFields
<1> QED BY <1>1, <1>2, Zenon

LEMMA StandWaits ==
  ASSUME IInv, NEW p \in Members, NEW bid, Stand(p, bid) PROVE IInv'
<1> DEFINE n == bidding(startElection(member[p].n, bid))
<1>1. member[p].n.role = "follower" /\ tick(p, n)
  BY Zenon DEF Stand
<1>2. IsNode(member[p].n)
  BY Zenon DEF IInv, Waits
<1>3. IsNode(startElection(member[p].n, bid))
  BY <1>2, EnterRoundNode, Zenon DEF startElection
<1>4. IsNode(n)
  BY <1>3, BiddingNode, Zenon
<1>5. ~Held(member[p].n)
  BY <1>1, Zenon DEF Held
<1> HIDE DEF n
<1>6. Keeps(member[p].n, n)
  BY <1>4, <1>5, Zenon DEF Keeps
<1> QED BY <1>1, <1>6, TickWaits, Zenon

LEMMA JoinWaits ==
  ASSUME IInv, NEW p \in Members, NEW q \in Members, NEW bid, Join(p, q, bid) PROVE IInv'
<1>1. PICK r \in rounds :
        LET m == [type |-> "bid", epoch |-> r.epoch, bid |-> r.bid, pos |-> r.pos]
            n == bidding(handleBid(member[p].n, q, m, bid))
        IN  step(p, maybeCatchUp(refreshCommitted([member[p] EXCEPT !.n = n])),
                 engine[p].waiters, net)
  BY Zenon DEF Join
<1>2. PICK m : m = [type |-> "bid", epoch |-> r.epoch, bid |-> r.bid, pos |-> r.pos]
  BY Zenon
<1> DEFINE b == handleBid(member[p].n, q, m, bid)
           n == bidding(b)
           c == [member[p] EXCEPT !.n = n]
           d == maybeCatchUp(refreshCommitted(c))
<1>3. step(p, d, engine[p].waiters, net)
  BY <1>1, <1>2, Zenon
<1>4. IsNode(member[p].n) /\ Waits(member[p])
  BY Zenon DEF IInv, Waits
<1>5. Keeps(member[p].n, b)
  BY <1>4, HandleBidKeeps, Zenon
<1> HIDE DEF b
<1>6. Keeps(member[p].n, n)
  BY <1>5, BiddingNode, Zenon DEF Keeps, Held
<1> HIDE DEF n
<1>7. Waits(c)
  BY <1>4, <1>6, WaitsNode, Zenon
<1> HIDE DEF c
<1>8. Waits(d)
  BY <1>7, RefreshCommittedWaits, MaybeCatchUpWaits, Zenon
<1> HIDE DEF d
<1> QED BY <1>3, <1>8, StepWaits, Zenon

LEMMA DecideWaits ==
  ASSUME IInv, NEW p \in Members, Decide(p) PROVE IInv'
<1>1. PICK heard :
        tick(p, decideElection([member[p].n EXCEPT !.bids = collected(@, heard)]))
  BY Zenon DEF Decide
<1>2. member[p].n.role = "candidate"
  BY Zenon DEF Decide
<1>3. PICK bids : bids = collected(member[p].n.bids, heard)
  BY Zenon
<1> DEFINE n == [member[p].n EXCEPT !.bids = bids]
<1>4. tick(p, decideElection(n))
  BY <1>1, <1>3, Zenon
<1>5. IsNode(member[p].n)
  BY Zenon DEF IInv, Waits
<1>6. IsNode(n)
  BY <1>5, ZenonT(60) DEF IsNode, NodeFields
<1> HIDE DEF n
<1>7. Keeps(member[p].n, decideElection(n))
  BY <1>2, <1>6, DecideElectionNode, Zenon DEF Keeps, Held
<1> QED BY <1>4, <1>7, TickWaits, Zenon

LEMMA ExpireWaits ==
  ASSUME IInv, NEW p \in Members, NEW q, Expire(p, q) PROVE IInv'
<1>1. PICK live : live = member[p].n.live \ {q}
  BY Zenon
<1> DEFINE n == [member[p].n EXCEPT !.live = live]
           c == [member[p] EXCEPT !.n = n]
<1>2. member' = [member EXCEPT ![p] = c]
  BY <1>1, Zenon DEF Expire
<1>3. IsNode(member[p].n) /\ Waits(member[p])
  BY Zenon DEF IInv, Waits
<1>4. IsNode(n)
  BY <1>3, ZenonT(60) DEF IsNode, NodeFields
<1>5. n.role = member[p].n.role /\ n.hold = member[p].n.hold
  BY <1>3, Zenon DEF IsNode, NodeFields
<1> HIDE DEF n
<1>6. Keeps(member[p].n, n)
  BY <1>4, <1>5, Zenon DEF Keeps, Held
<1>7. Waits(c)
  BY <1>3, <1>6, WaitsNode, Zenon
<1> HIDE DEF c
<1> QED BY <1>2, <1>7, MemberStep, Zenon

LEMMA ProposeWaits ==
  ASSUME IInv, NEW p \in Members, Propose(p) PROVE IInv'
<1>1. member[p].n.role = "leader"
  BY Zenon DEF Propose
<1>2. PICK ws : step(p, capture(member[p], writes + 1), ws, net)
  BY Zenon DEF Propose
<1>3. member[p].n.role # "joining"
  BY <1>1, Zenon
<1>4. Waits(capture(member[p], writes + 1))
  BY <1>3, Placed, CaptureWaits, Zenon DEF IInv
<1> QED BY <1>2, <1>4, StepWaits, Zenon

LEMMA ReceiveWaits ==
  ASSUME IInv, NEW p \in Members, NEW q \in Members, Receive(p, q) PROVE IInv'
<1>1. PICK f, ws, queues : step(q, recvFrame(member[q], p, f), ws, queues)
  BY Zenon DEF Receive
<1>2. Waits(recvFrame(member[q], p, f))
  BY RecvFrameWaits, Zenon DEF IInv
<1> QED BY <1>1, <1>2, StepWaits, Zenon

LEMMA RestartWaits ==
  ASSUME IInv, NEW p \in Members, Restart(p) PROVE IInv'
<1> DEFINE c == member[p]
           d == NewReplicator(p, c.data, c.log, c.needSnapshot, AckCount)
<1>1. member' = [member EXCEPT ![p] = d]
  BY Zenon DEF Restart
<1>2. c.needSnapshot \in BOOLEAN /\ (c.needSnapshot => c.data = <<>>)
  BY Zenon DEF IInv, Waits
<1>3. Waits(d)
  BY <1>2, NewReplicatorWaits, Zenon
<1> HIDE DEF d
<1> QED BY <1>1, <1>3, MemberStep, Zenon

LEMMA InitWaits == Init => IInv
<1> SUFFICES ASSUME Init PROVE IInv
  BY Zenon
<1>1. PICK old \in SUBSET Legacy :
        member = [p \in Members |-> NewReplicator(p, <<>>, EmptyLog, p \in old, AckCount)]
  BY Zenon DEF Init
<1>2. ASSUME NEW p \in Members PROVE Waits(member[p])
  <2>1. PICK legacy : legacy = (p \in old)
    BY Zenon
  <2>2. legacy \in BOOLEAN
    BY <2>1, SMT
  <2>3. member[p] = NewReplicator(p, <<>>, EmptyLog, legacy, AckCount)
    BY <1>1, <2>1, Zenon
  <2> QED BY <2>2, <2>3, NewReplicatorWaits, Zenon
<1>3. member = [p \in Members |-> member[p]]
  BY <1>1, Zenon
<1> QED BY <1>2, <1>3, Zenon DEF IInv

LEMMA NextWaits == IInv /\ [Next]_vars => IInv'
<1> SUFFICES ASSUME IInv, [Next]_vars PROVE IInv'
  BY Zenon
<1>1. ASSUME UNCHANGED member PROVE IInv'
  BY <1>1, Zenon DEF IInv
<1>2. CASE UNCHANGED vars
  BY <1>1, <1>2, Zenon DEF vars
<1>3. CASE \E p \in Members : GraceOver(p) \/ CommitTimeout(p) \/ \E q \in Members : Lose(p, q)
  BY <1>1, <1>3, Zenon DEF GraceOver, CommitTimeout, Lose
<1>4. CASE \E p \in Members : \E bid \in Draws[p] :
             Stand(p, bid) \/ \E q \in Members : Join(p, q, bid)
  BY <1>4, StandWaits, JoinWaits, Zenon
<1>5. CASE \E p \in Members : TickLeader(p) \/ Decide(p) \/ Propose(p) \/ Restart(p)
  BY <1>5, TickLeaderWaits, DecideWaits, ProposeWaits, RestartWaits, Zenon
<1>6. CASE \E p, q \in Members : Expire(p, q) \/ Receive(p, q)
  BY <1>6, ExpireWaits, ReceiveWaits, Zenon
<1> QED BY <1>2, <1>3, <1>4, <1>5, <1>6, Zenon DEF Next

\* A member whose data has no known position takes nothing of the leader's stream and
\* no part in elections before a snapshot replaced that data (New, applyIncoming,
\* HoldJoining), whatever it receives and however often it restarts.
THEOREM UnknownDataAlwaysWaits == Spec => []UnknownDataWaits
<1>1. IInv => UnknownDataWaits
  BY Zenon DEF IInv, Waits, Held, UnknownDataWaits
<1> QED BY <1>1, InitWaits, NextWaits, PTL DEF Spec
=============================================================================
