----------------------------- MODULE Replicator -----------------------------
(***************************************************************************)
(* The replication of one member (clustering/replicator.go), as operators  *)
(* on a member record:                                                     *)
(*   n            its election node (module Node)                          *)
(*   data         the history in its database: entries [tag, w], w the     *)
(*                identity of the write; the last tag is the stored one    *)
(*   log          the index of its replication log (module ReplLog)        *)
(*   committed, wasLeader, needSnapshot   fields of the Replicator         *)
(*   out          frames handed to the transport, by destination           *)
(* The log holds the batches of data from its first LSN on, which module   *)
(* Recovery shows.  The limit on how often a snapshot is asked for or sent *)
(* is left out: a frame it withholds is one the network loses.             *)
(***************************************************************************)
EXTENDS Node, ReplLog

emit(c, to, frame) == [c EXCEPT !.out[to] = Append(@, frame)]

\* The election messages the node has queued are sent.
drainNode(c) ==
  LET msgs == c.n.outbox
  IN  [c EXCEPT !.out = [q \in Members |-> @[q] \o [i \in 1 .. Len(msgs[q]) |->
                                              [kind |-> "msg", msg |-> msgs[q][i]]]],
                !.n.outbox = EmptyOutbox]

replLSN(c) == Len(c.data)

batchFrame(lsn, tag, w) == [kind |-> "batch", lsn |-> lsn, tag |-> tag, w |-> w]

\* The position the database stores.
storedPosition(data) ==
  [lastEpoch |-> IF data = <<>> THEN 0 ELSE data[Len(data)].tag, lsn |-> Len(data)]

appendLog(log, lsn, tag) == [appendEpoch(log, lsn, tag) EXCEPT !.last = lsn]

\* A batch is stored, logged, and is the node's new position.
store(c, tag, w) ==
  LET lsn == replLSN(c) + 1
  IN  [c EXCEPT !.data = Append(@, [tag |-> tag, w |-> w]),
                !.log = appendLog(@, lsn, tag),
                !.n = SetPosition(@, [lastEpoch |-> tag, lsn |-> lsn])]

\* emit for every member of a set.
emitAll(c, to, frame) ==
  [c EXCEPT !.out = [q \in Members |-> IF q \in to THEN Append(@[q], frame) ELSE @[q]]]

\* A write of a leader: writeCapturing and onCaptured.
capture(c, w) ==
  LET tag == HistoryTag(c.n.epoch, c.n.id)
      s == store(c, tag, w)
  IN  emitAll(s, LiveFollowers(s.n), batchFrame(replLSN(s), tag, w))

refreshCommitted(c) ==
  LET base == IF c.wasLeader THEN c.committed ELSE replLSN(c)
  IN  IF c.n.role # "leader" THEN [c EXCEPT !.wasLeader = FALSE]
      ELSE [c EXCEPT !.wasLeader = TRUE,
                     !.committed = Max({base, DurableLSN(c.n, c.ackCount)})]

-----------------------------------------------------------------------------
(* The leader's side. *)

serveSnapshot(c, to) ==
  IF c.n.role # "leader" THEN c
  ELSE emit(c, to, [kind |-> "snapshot", data |-> c.data])

known_AnyHistory(c, pos) == epochAt(c.log, pos.lsn) # Unknown

\* The leader's log has the follower's position.
known(c, pos) == epochAt(c.log, pos.lsn) = pos.lastEpoch

admitted(c, pos) == ~Less(Position(c.n), pos) /\ known(c, pos)

refuse_KeepsLeading(c, from, pos) == serveSnapshot(c, from)

\* A follower that is ahead makes the leader step down; one with another history,
\* or one whose position the log does not know, gets a snapshot.
refuse(c, from, pos) ==
  IF Less(Position(c.n), pos) THEN drainNode([c EXCEPT !.n = StepDown(@)])
  ELSE serveSnapshot(c, from)

\* The batches after an LSN, with the epochs the index has for them.
resend(c, to, after) ==
  [c EXCEPT !.out[to] = @ \o [i \in 1 .. replLSN(c) - after |->
      batchFrame(after + i, indexedEpoch(c.log.epochs, after + i), c.data[after + i].w)]]

serveCatchup(c, from, pos) ==
  CASE c.n.role # "leader" -> c
    [] c.n.role = "leader" /\ ~admitted(c, pos) -> refuse(c, from, pos)
    [] c.n.role = "leader" /\ admitted(c, pos) ->
         IF pos.lsn >= replLSN(c) THEN c
         ELSE IF pos.lsn + 1 < firstLSN(c.log) THEN serveSnapshot(c, from)
         ELSE resend(c, from, pos.lsn)

-----------------------------------------------------------------------------
(* The follower's side. *)

following(c) == c.n.leaderID \notin {NoLeader, c.n.id}

ackLeader(c) ==
  IF following(c) THEN emit(c, c.n.leaderID, [kind |-> "msg", msg |-> ackMessage(c.n)])
  ELSE c

catchupRequest(c) == [kind |-> "catchup", pos |-> Position(c.n)]

requestSnapshot(c) ==
  IF following(c) THEN emit(c, c.n.leaderID, [kind |-> "snapshotReq"]) ELSE c

applyIncoming_UnknownData(c, from, f) ==
  CASE c.n.leaderID # from -> c
    [] OTHER ->
         CASE f.lsn <= replLSN(c) -> c
           [] f.lsn = replLSN(c) + 1 -> ackLeader(store(c, f.tag, f.w))
           [] OTHER -> emit(c, from, catchupRequest(c))

applyIncoming(c, from, f) ==
  CASE c.n.leaderID # from -> c
    [] c.n.leaderID = from /\ c.needSnapshot -> requestSnapshot(c)
    [] OTHER ->
         CASE f.lsn <= replLSN(c) -> c
           [] f.lsn = replLSN(c) + 1 -> ackLeader(store(c, f.tag, f.w))
           [] OTHER -> emit(c, from, catchupRequest(c))

\* A heartbeat or bid shows that the leader is ahead.
maybeCatchUp(c) ==
  CASE c.n.role = "leader" \/ ~following(c) -> c
    [] c.n.role # "leader" /\ following(c) /\ c.needSnapshot -> requestSnapshot(c)
    [] OTHER ->
         IF c.n.head > replLSN(c) THEN emit(c, c.n.leaderID, catchupRequest(c)) ELSE c

\* restore: the snapshot of the current leader replaces the data and the log.
restore(c, from, snap) ==
  LET pos == storedPosition(snap)
      n == MarkCaughtUp(SetPosition(c.n, pos))
  IN  IF c.n.leaderID # from THEN c
      ELSE ackLeader([c EXCEPT !.data = snap, !.n = n, !.needSnapshot = FALSE,
                               !.log = resetLog(pos.lsn + 1, pos.lastEpoch)])

-----------------------------------------------------------------------------
\* An election message: acknowledgements count only from a follower whose
\* history matches.
recvMsg(c, from, m) ==
  IF /\ m.type = "ack" /\ c.n.role = "leader" /\ m.epoch = c.n.epoch
     /\ ~admitted(c, m.pos)
    THEN refuse(c, from, m.pos)
  ELSE maybeCatchUp(refreshCommitted(drainNode([c EXCEPT !.n = Recv(@, from, m, 1)])))

recvFrame(c, from, f) ==
  CASE f.kind = "msg" -> recvMsg(c, from, f.msg)
    [] f.kind = "batch" -> applyIncoming(c, from, f)
    [] f.kind = "catchup" -> serveCatchup(c, from, f.pos)
    [] f.kind = "snapshotReq" -> serveSnapshot(c, from)
    [] f.kind = "snapshot" -> restore(c, from, f.data)
    [] OTHER -> c

\* New: the position is the stored one; a log that does not end there is reset.
NewReplicator(p, data, log, legacy, ackCount) ==
  LET pos == storedPosition(data)
      n == SetPosition(MarkCaughtUp(NewNode(p)), pos)
      ends == LastEpoch(log) = pos.lastEpoch /\ log.last = pos.lsn
  IN  [n |-> IF legacy THEN HoldJoining(n) ELSE n, data |-> data,
       log |-> IF ends THEN log ELSE resetLog(pos.lsn + 1, pos.lastEpoch),
       committed |-> 0, wasLeader |-> FALSE, needSnapshot |-> legacy,
       ackCount |-> ackCount, out |-> EmptyOutbox]

\* CanCommit
canCommit(c) == c.ackCount <= 0 \/ Cardinality(LiveFollowers(c.n)) >= c.ackCount
=============================================================================
