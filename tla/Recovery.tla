------------------------------ MODULE Recovery ------------------------------
(***************************************************************************)
(* The durable state of one cluster member: its database, with the         *)
(* replication position stored in it and perhaps tasks of an earlier       *)
(* release (Migration), and the files of its replication log               *)
(* (filestore/repllog.go, the write path of boltstore.go, New and restore  *)
(* of clustering/replicator.go).  A process may be killed between any two  *)
(* writes to disk and starts again from what they left.                    *)
(*                                                                         *)
(* A batch is known by its history tag: data[i] is the tag of the batch at *)
(* LSN i, so data is the whole history the database reflects.              *)
(***************************************************************************)
EXTENDS ReplLog, Migration

CONSTANTS
  Tags,        \* history tags, numbers above 0
  MaxLSN,      \* bound on LSNs
  SegLen,      \* frames after which a segment is full (chunkBytes)
  MaxCrashes   \* bound on the crashes

ASSUME RecoveryAssumption ==
  /\ Tags \subseteq Nat \ {0}
  /\ MaxLSN \in Nat
  /\ SegLen \in Nat \ {0}
  /\ MaxCrashes \in Nat

VARIABLES
  data,     \* the history in the database
  legacy,   \* the part of the database that an earlier release wrote
  segs,     \* the segment files: first LSN -> frames
  index,    \* the file "epochs": a base position and lines
  log,      \* the log in memory
  pos,      \* the node's replication position in memory
  pc,       \* what the process is doing
  crashes

vars == <<data, legacy, segs, index, log, pos, pc, crashes>>

-----------------------------------------------------------------------------
NoPos == [lastEpoch |-> 0, lsn |-> 0]

\* The position that putReplPosition stored in the transaction of the last
\* batch, or that a snapshot carried.
stored(d) ==
  IF d = <<>> THEN NoPos ELSE [lastEpoch |-> d[Len(d)], lsn |-> Len(d)]

older(a, b) ==
  a.lastEpoch < b.lastEpoch \/ (a.lastEpoch = b.lastEpoch /\ a.lsn < b.lsn)

Idle == [op |-> "idle"]
Down == [op |-> "down"]
Held == [op |-> "held"]
Writing(op, b) == [op |-> op, batch |-> b]
Resetting(op, p) == [op |-> op, pos |-> p]

Frame(b) == [lsn |-> b.lsn, tag |-> b.tag, torn |-> FALSE]

Init ==
  /\ data = <<>>
  /\ \E tasks \in SUBSET OldTasks : legacy = OldFile(tasks)
  /\ segs = [x \in {} |-> <<>>]
  /\ index = [base |-> NoPos, lines |-> <<>>]
  /\ log = EmptyLog
  /\ pos = NoPos
  /\ pc = Down
  /\ crashes = 0

-----------------------------------------------------------------------------
(* A write: the transaction, then Append. *)

\* writeCapturing on a leader, ApplyReplicated on a follower: the batch and its
\* position are one transaction.  Tags never decrease along a history.
Commit(tag) ==
  /\ pc = Idle
  /\ Len(data) < MaxLSN
  /\ tag >= pos.lastEpoch
  /\ data' = Append(data, tag)
  /\ pc' = Writing("roll", [lsn |-> pos.lsn + 1, tag |-> tag])
  /\ UNCHANGED <<legacy, segs, index, log, pos, crashes>>

\* Append, first write: a full segment is followed by a new one.
AppendRoll ==
  LET active == Max(DOMAIN segs)
      full == Len(segs[active]) >= SegLen
  IN  /\ pc.op = "roll"
      /\ segs' = [s \in DOMAIN segs \cup (IF full THEN {pc.batch.lsn} ELSE {}) |->
                    IF s \in DOMAIN segs THEN segs[s] ELSE <<>>]
      /\ pc' = [pc EXCEPT !.op = "index"]
      /\ UNCHANGED <<data, legacy, index, log, pos, crashes>>

\* Append, second write: a line of the epoch index when the epoch changes.
AppendIndex ==
  LET new == appendEpoch(log, pc.batch.lsn, pc.batch.tag)
  IN  /\ pc.op = "index"
      /\ log' = new
      /\ index' = [index EXCEPT !.lines =
                     IF new = log THEN @
                     ELSE Append(@, [first |-> pc.batch.lsn, ep |-> pc.batch.tag])]
      /\ pc' = [pc EXCEPT !.op = "frame"]
      /\ UNCHANGED <<data, legacy, segs, pos, crashes>>

\* Append, last write: the frame.  The node then moves to the new position.
AppendFrame ==
  LET active == Max(DOMAIN segs)
  IN  /\ pc.op = "frame"
      /\ segs' = [segs EXCEPT ![active] = Append(@, Frame(pc.batch))]
      /\ log' = [log EXCEPT !.last = pc.batch.lsn]
      /\ pos' = stored(data)
      /\ pc' = Idle
      /\ UNCHANGED <<data, legacy, index, crashes>>

AppendFails_Ignored ==
  /\ pc.op \in {"roll", "index", "frame"}
  /\ pos' = stored(data)
  /\ pc' = Idle
  /\ UNCHANGED <<data, legacy, segs, index, log, crashes>>

\* appendLog: when Append fails, the log restarts after the batch.
AppendFails ==
  /\ pc.op \in {"roll", "index", "frame"}
  /\ pc' = Resetting("remove", stored(data))
  /\ UNCHANGED <<data, legacy, segs, index, log, pos, crashes>>

-----------------------------------------------------------------------------
(* Reset. *)

\* Two histories with the same tag at an LSN are the same up to it: a tag has one
\* leader, and it writes one batch for each LSN.
sameOrigin(d, e) ==
  \A i \in 1 .. Min({Len(d), Len(e)}) :
    d[i] = e[i] => SubSeq(d, 1, i) = SubSeq(e, 1, i)

\* restore: RestoreSnapshot replaces the database in one rename, and the
\* snapshot carries its position; then the log is reset.  admitFollower sends a
\* snapshot only to a follower that is not ahead of it.
Restore(snap) ==
  /\ pc \in {Idle, Held}
  /\ ~older(stored(snap), pos)
  /\ sameOrigin(snap, data)
  /\ data' = snap
  /\ legacy' = NewFile
  /\ pc' = Resetting("remove", stored(snap))
  /\ UNCHANGED <<segs, index, log, pos, crashes>>

\* Reset removes the segments one by one, oldest first.
ResetRemove ==
  /\ pc.op = "remove"
  /\ IF DOMAIN segs = {}
       THEN /\ pc' = [pc EXCEPT !.op = "rename"]
            /\ UNCHANGED segs
       ELSE /\ segs' = [s \in DOMAIN segs \ {Min(DOMAIN segs)} |-> segs[s]]
            /\ UNCHANGED pc
  /\ UNCHANGED <<data, legacy, index, log, pos, crashes>>

ResetIndex_KeepsLines ==
  /\ pc.op = "rename"
  /\ index' = [base |-> pc.pos, lines |-> index.lines]
  /\ pc' = [pc EXCEPT !.op = "open"]
  /\ UNCHANGED <<data, legacy, segs, log, pos, crashes>>

\* Then it renames a new index over the old one,
ResetIndex ==
  /\ pc.op = "rename"
  /\ index' = [base |-> pc.pos, lines |-> <<>>]
  /\ pc' = [pc EXCEPT !.op = "open"]
  /\ UNCHANGED <<data, legacy, segs, log, pos, crashes>>

\* and opens the first segment.
ResetOpen ==
  /\ pc.op = "open"
  /\ segs' = [s \in {pc.pos.lsn + 1} |-> <<>>]
  /\ log' = resetLog(pc.pos.lsn + 1, pc.pos.lastEpoch)
  /\ pos' = pc.pos
  /\ pc' = Idle
  /\ UNCHANGED <<data, legacy, index, crashes>>

\* Truncate: whole segments below the floor are deleted, never the active one.
Truncate(floor) ==
  LET active == Max(DOMAIN segs)
      next(s) == Min({x \in DOMAIN segs : x > s})
      kept == {s \in DOMAIN segs : s = active \/ next(s) > floor}
  IN  /\ pc = Idle
      /\ kept # DOMAIN segs
      /\ segs' = [s \in kept |-> segs[s]]
      /\ log' = [log EXCEPT !.firstSeg = Min(kept)]
      /\ UNCHANGED <<data, legacy, index, pos, pc, crashes>>

-----------------------------------------------------------------------------
(* Crash and start. *)

\* The process is killed.  A frame that was being written may be torn, and so may
\* a line of the index: a part of its last number reads as another epoch.
Crash ==
  /\ pc # Down
  /\ crashes < MaxCrashes
  /\ crashes' = crashes + 1
  /\ \/ UNCHANGED <<segs, index>>
     \/ /\ pc.op = "frame"
        /\ segs' = [segs EXCEPT ![Max(DOMAIN segs)] =
                      Append(@, [Frame(pc.batch) EXCEPT !.torn = TRUE])]
        /\ UNCHANGED index
     \/ /\ pc.op = "index"
        /\ \E ep \in Tags :
             index' = [index EXCEPT !.lines =
                         Append(@, [first |-> pc.batch.lsn, ep |-> ep])]
        /\ UNCHANGED segs
  /\ log' = EmptyLog
  /\ pos' = NoPos
  /\ pc' = Down
  /\ UNCHANGED <<data, legacy>>

\* Initialize, before the log is opened: one transaction of the migration, until
\* it is done,
Migrate ==
  /\ pc = Down
  /\ ~legacy.current
  /\ legacy' = migrateTaskStorage(legacy)
  /\ UNCHANGED <<data, segs, index, log, pos, pc, crashes>>

\* then ensureCounts.
EnsureCounts ==
  /\ pc = Down
  /\ legacy.current
  /\ ~legacy.ready
  /\ legacy' = rebuildCounts(legacy)
  /\ UNCHANGED <<data, segs, index, log, pos, pc, crashes>>

\* recoverSegmentTail: the complete frames before the first torn one.
recoverSegmentTail(frames) ==
  LET torn == {i \in 1 .. Len(frames) : frames[i].torn}
  IN  IF torn = {} THEN frames ELSE SubSeq(frames, 1, Min(torn) - 1)

\* The log OpenReplLog finds in the files ss.
openedLog(ss) ==
  LET base == index.base
      lastSeg == Max(DOMAIN ss)
      frames == ss[lastSeg]
  IN  [last |-> IF frames = <<>> THEN lastSeg - 1 ELSE frames[Len(frames)].lsn,
       firstSeg |-> Min(DOMAIN ss), epochs |-> index.lines,
       baseLSN |-> base.lsn, baseEp |-> base.lastEpoch]

recoverPosition_LogOnly(l) == [lastEpoch |-> LastEpoch(l), lsn |-> l.last]

\* recoverPosition: the newer of the log's position and the stored one.
recoverPosition(l) ==
  LET logPos == [lastEpoch |-> LastEpoch(l), lsn |-> l.last]
  IN  IF older(logPos, stored(data)) THEN stored(data) ELSE logPos

\* OpenReplLog and New: the log is reset when it does not end at the recovered
\* position; data without a position waits for a snapshot.
Open ==
  LET cut == IF DOMAIN segs = {} THEN [s \in {index.base.lsn + 1} |-> <<>>]
             ELSE [segs EXCEPT ![Max(DOMAIN segs)] = recoverSegmentTail(@)]
      l == openedLog(cut)
      p == recoverPosition(l)
  IN  /\ pc = Down
      /\ legacy.current
      /\ legacy.ready
      /\ segs' = cut
      /\ log' = l
      /\ pos' = p
      /\ pc' = IF p.lsn = 0 /\ legacy.tasks # {} THEN Held
               ELSE IF p # [lastEpoch |-> LastEpoch(l), lsn |-> l.last]
                 THEN Resetting("remove", p)
               ELSE Idle
      /\ UNCHANGED <<data, legacy, index, crashes>>

\* The histories a leader may send: tags never decrease along them.
Snapshots ==
  {s \in UNION {[1 .. n -> Tags] : n \in 0 .. MaxLSN} :
     \A i, j \in 1 .. Len(s) : i < j => s[i] <= s[j]}

Next ==
  \/ \E tag \in Tags : Commit(tag)
  \/ AppendRoll
  \/ AppendIndex
  \/ AppendFrame
  \/ AppendFails
  \/ \E snap \in Snapshots : Restore(snap)
  \/ ResetRemove
  \/ ResetIndex
  \/ ResetOpen
  \/ \E floor \in 1 .. MaxLSN + 1 : Truncate(floor)
  \/ Crash
  \/ Migrate
  \/ EnsureCounts
  \/ Open

Spec == Init /\ [][Next]_vars

-----------------------------------------------------------------------------
(* Properties.  They are about a process that is between two operations, the *)
(* only time its log and its position are used.                              *)

\* The batches ReadFrom(0) returns: all frames of all segments, in LSN order up
\* to a torn one.
Readable ==
  UNION {LET f == recoverSegmentTail(segs[s]) IN {f[i] : i \in 1 .. Len(f)} :
           s \in DOMAIN segs}

\* After any crash, a node that runs knows the position of its data: New never
\* takes a log for newer than the data, and never data for older than it is.
PositionIsData == pc = Idle => pos = stored(data)

\* The log holds a gap-free run of batches that ends at the node's position, and
\* each is the batch the database has at that LSN: a follower that catches up
\* from it gets the leader's history.
LogIsData ==
  pc = Idle =>
    /\ log.last = pos.lsn
    /\ {f.lsn : f \in Readable} = firstLSN(log) .. log.last
    /\ \A f \in Readable : f.tag = data[f.lsn]

\* The epoch index never names another history: for an LSN the log knows, it
\* gives the tag of the batch, or 0 when it has lost it.
EpochNeverForeign ==
  pc = Idle =>
    \A lsn \in 1 .. Len(data) : epochAt(log, lsn) \in {Unknown, 0, data[lsn]}

\* However often the upgrade was cut short, a store that serves has all of the
\* earlier release's tasks in the new layout: no payload is left in a record or
\* lost, every task with a timeout will be found by the timeout loop, and the count
\* is theirs (migrateTaskStorage, ensureCounts).
UpgradeIsComplete ==
  pc # Down =>
    /\ legacy.inline = {}
    /\ legacy.payloads = [t \in legacy.tasks |-> payloadOf(t)]
    /\ legacy.deadlines = legacy.tasks \cap TimedTasks
    /\ legacy.counted = Cardinality(legacy.tasks)

\* repllog.go: EpochAt returns the epoch of the batch at lsn.
EpochAtIsTheEpoch ==
  pc = Idle => \A lsn \in 1 .. Len(data) : epochAt(log, lsn) \in {Unknown, data[lsn]}
=============================================================================
