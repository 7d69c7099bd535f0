-------------------------- MODULE TaskStoreProofs --------------------------
(***************************************************************************)
(* Theorems about TaskStore: type correctness, agreement of the indexes    *)
(* and counters with the tasks, what a step does to a task, the once-only  *)
(* guarantees of submission keys, operation ids and revisions, and that    *)
(* the store implements TaskLifecycle.                                     *)
(***************************************************************************)
EXTENDS TaskStoreLemmas

-----------------------------------------------------------------------------
(* Type correctness and the agreement of the buckets. *)

\* The invariant: TypeOK, and the buckets agree.  CountAt needs the live tasks
\* to be a finite set, which TypeOK does not say.
IInv == TypeOK /\ StoreInv(db)

\* The steps of each action, in terms of the lemmas above.
LEMMA SubmitTaskStep ==
  ASSUME IInv, NEW u \in UUIDs, NEW s \in Submits, SubmitTask(u, s)
  PROVE  /\ IInv'
         /\ Advances(db, db')
         /\ SameReceipts(db, db')
         /\ db.live \subseteq db'.live
<1> DEFINE t == NewTask(u, s, now)
<1>1. t \in Task /\ t.uuid = u
  BY NewTaskType, Zenon DEF IInv, TypeOK
<1>2. \A x \in db.live \cup db.archived : x.uuid # t.uuid
  BY <1>1, Zenon DEF SubmitTask, Unused
<1>3. db' = putTask(putPayload(db, t.uuid), t)
  BY <1>1, Zenon DEF SubmitTask
<1> HIDE DEF t
<1>4. StoreInv(db') /\ Advances(db, db') /\ SameReceipts(db, db')
        /\ db'.live = db.live \cup {t}
  BY <1>1, <1>2, <1>3, AddedStep, Zenon DEF IInv
<1>5. TypeOK'
  BY <1>4, Zenon DEF IInv, TypeOK, StoreInv, SubmitTask
<1> QED BY <1>4, <1>5, Zenon DEF IInv

\* SubmitKeyedTask keeps the invariant, adds its task and records the submission.
LEMMA SubmitKeyedTaskStep ==
  ASSUME IInv, NEW u \in UUIDs, NEW s \in Submits, NEW k \in SubmissionKeys,
         SubmitKeyedTask(u, s, k)
  PROVE  LET rec == [queue |-> s.queue, key |-> k, uuid |-> u,
                     expiresAt |-> now + Retention]
         IN  /\ IInv'
             /\ Advances(db, db')
             /\ db.live \subseteq db'.live
             /\ rec \in Submission
             /\ db'.operations = db.operations
             /\ db'.submissions =
                  {x \in db.submissions : <<x.queue, x.key>> # <<s.queue, k>>} \cup {rec}
             /\ db'.expiry = db.expiry
                  \cup {ExpiryEntry("submission", <<s.queue, k>>, now + Retention)}
<1> DEFINE t == NewTask(u, s, now)
           rec == [queue |-> s.queue, key |-> k, uuid |-> u,
                   expiresAt |-> now + Retention]
           e == putTask(putPayload(db, u), t)
<1>1. t \in Task /\ t.uuid = u
  BY NewTaskType, Zenon DEF IInv, TypeOK
<1>2. \A x \in db.live \cup db.archived : x.uuid # t.uuid
  BY <1>1, Zenon DEF SubmitKeyedTask, Unused
<1>3. db' = putSubmission(e, rec)
  BY Zenon DEF SubmitKeyedTask
<1>4. StoreInv(e) /\ Advances(db, e) /\ SameReceipts(db, e)
        /\ e.live = db.live \cup {t}
  <2> HIDE DEF t
  <2> QED BY <1>1, <1>2, AddedStep, Zenon DEF IInv
<1>5. rec \in Submission /\ s \in SubmitType
  BY RequestAssumption, BoundAssumption DEF Submission, SubmitType, IInv, TypeOK, Times
<1>6. e \in Db
  BY <1>4, Zenon DEF StoreInv
<1> HIDE DEF e, rec
<1>7. StoreInv(db') /\ SameTasks(e, db')
  BY <1>3, <1>4, <1>5, ReceiptStep, Zenon
<1>8. /\ db'.operations = e.operations
      /\ db'.submissions =
           {x \in e.submissions : <<x.queue, x.key>> # <<rec.queue, rec.key>>} \cup {rec}
      /\ db'.expiry = e.expiry
           \cup {ExpiryEntry("submission", <<rec.queue, rec.key>>, rec.expiresAt)}
  BY <1>3, <1>5, <1>6, PutSubmission, Zenon
<1>9. rec.queue = s.queue /\ rec.key = k /\ rec.expiresAt = now + Retention
  BY Zenon DEF rec
<1>10. TypeOK'
  <2>1. [queue |-> s.queue, key |-> k, uuid |-> u, at |-> now] \in
          [queue : Queues, key : SubmissionKeys, uuid : UUIDs, at : Times]
    BY <1>5, Zenon DEF SubmitType, IInv, TypeOK
  <2> QED BY <2>1, <1>7, Zenon DEF IInv, TypeOK, StoreInv, SubmitKeyedTask
<1>11. Advances(db, db') /\ db.live \subseteq db'.live
  BY <1>4, <1>7, Zenon DEF Advances, SameTasks
<1> QED BY <1>4, <1>5, <1>7, <1>8, <1>9, <1>10, <1>11, Zenon DEF IInv, SameReceipts, rec

\* GetNextTask keeps the invariant and changes only a legacy task.
LEMMA GetNextTaskStep ==
  ASSUME IInv, NEW c \in Claims, GetNextTask(c)
  PROVE  /\ IInv'
         /\ Advances(db, db')
         /\ SameReceipts(db, db')
         /\ \A t \in db.live \ db'.live : ~t.guarded
<1> PICK t \in bestHead(db, c, {FALSE}) :
           /\ t.revision < MaxRevision
           /\ db' = putTask(deleteTask(db, t), applyGetNext(t, c, now))
  BY Zenon DEF GetNextTask
<1>1. t \in db.live /\ ~t.guarded /\ t \in Task /\ now \in Times
  BY ZenonT(60) DEF bestHead, IInv, TypeOK, Db
<1> DEFINE n == applyGetNext(t, c, now)
<1>2. n \in Task /\ n.uuid = t.uuid /\ n.revision = t.revision + 1
  BY <1>1, ClaimedTask, Zenon
<1> HIDE DEF n
<1>3. StoreInv(db') /\ Advances(db, db') /\ SameReceipts(db, db')
        /\ db'.live = (db.live \ {t}) \cup {n}
  BY <1>1, <1>2, MovedStep DEF IInv, n
<1>4. TypeOK'
  BY <1>3, Zenon DEF IInv, TypeOK, StoreInv, GetNextTask
<1> QED BY <1>1, <1>3, <1>4, Zenon DEF IInv

\* UpdateTask keeps the invariant and changes only a legacy task.
LEMMA UpdateTaskStep ==
  ASSUME IInv, NEW u \in UUIDs, NEW upd \in Updates, UpdateTask(u, upd)
  PROVE  /\ IInv'
         /\ Advances(db, db')
         /\ SameReceipts(db, db')
         /\ \A t \in db.live \ db'.live : ~t.guarded
<1> PICK t \in loadByUUID(db, u) :
           /\ ~t.guarded
           /\ t.revision < MaxRevision
           /\ db' = putTask(deleteTask(db, t), Updated(t, upd, now))
  BY Zenon DEF UpdateTask
<1>1. t \in db.live /\ t \in Task /\ now \in Times
  BY LoadedTask, ZenonT(60) DEF IInv, TypeOK, Db
<1> DEFINE n == Updated(t, upd, now)
<1>2. n \in Task /\ n.uuid = t.uuid /\ n.revision = t.revision + 1
  BY <1>1, UpdatedTask, Zenon
<1> HIDE DEF n
<1>3. StoreInv(db') /\ Advances(db, db') /\ SameReceipts(db, db')
        /\ db'.live = (db.live \ {t}) \cup {n}
  BY <1>1, <1>2, MovedStep DEF IInv, n
<1>4. TypeOK'
  BY <1>3, Zenon DEF IInv, TypeOK, StoreInv, UpdateTask
<1> QED BY <1>3, <1>4, Zenon DEF IInv

\* CompleteTask and CancelTask keep the invariant and archive only a legacy task.
LEMMA ArchiveAndDeleteStep ==
  ASSUME IInv, NEW u \in UUIDs, NEW op \in {"complete", "cancel"},
         archiveAndDelete(u, op)
  PROVE  /\ IInv'
         /\ Advances(db, db')
         /\ SameReceipts(db, db')
         /\ \A t \in db.live \ db'.live : ~t.guarded
<1> PICK t \in loadByUUID(db, u) :
           /\ ~t.guarded
           /\ t.revision < MaxRevision
           /\ db' = archiveTask(db, t, terminalState(op), now)
  BY Zenon DEF archiveAndDelete
<1>1. t \in db.live /\ now \in Times /\ terminalState(op) \in TerminalStates
  BY LoadedTask, Zenon DEF IInv, TypeOK, terminalState, TerminalStates
<1>2. StoreInv(db') /\ Advances(db, db') /\ SameReceipts(db, db')
        /\ db'.live = db.live \ {t}
  BY <1>1, ArchivedStep DEF IInv
<1>3. TypeOK'
  BY <1>2, Zenon DEF IInv, TypeOK, StoreInv, archiveAndDelete
<1> QED BY <1>2, <1>3, Zenon DEF IInv

\* CleanUpTimedOut keeps the invariant, and every task it changes had a timeout and
\* is live again, released.
LEMMA CleanUpTimedOutStep ==
  ASSUME IInv, NEW q, NEW at \in Cutoffs, CleanUpTimedOut(q, at)
  PROVE  /\ IInv'
         /\ Advances(db, db')
         /\ SameReceipts(db, db')
         /\ \A t \in db.live \ db'.live : t.timeout > 0 /\ Released(t, now) \in db'.live
<1> DEFINE ts == Expired(db, q, at)
<1>1. ts \in SUBSET db.live /\ \A t \in ts : t.timeout > 0
  BY Zenon DEF Expired, liveTaskValue, timedOut
<1>2. now \in Times /\ (\A t \in ts : t.revision < MaxRevision)
        /\ db' = releaseAll(db, ts, now)
  BY Zenon DEF CleanUpTimedOut, IInv, TypeOK
<1> HIDE DEF ts
<1>3. StoreInv(db') /\ Advances(db, db') /\ SameReceipts(db, db')
        /\ \A t \in db.live \ db'.live : t \in ts /\ Released(t, now) \in db'.live
  BY <1>1, <1>2, ReleasedStep, Zenon DEF IInv
<1>4. TypeOK'
  BY <1>3, Zenon DEF IInv, TypeOK, StoreInv, CleanUpTimedOut
<1> QED BY <1>1, <1>3, <1>4, Zenon DEF IInv

\* What the three guarded operations have in common: the live task t moves to its
\* next revision, live or archived, and the receipt r says so.
GuardedStep(t, r) ==
  /\ t \in db.live
  /\ r \in Operation
  /\ r.uuid = t.uuid
  /\ r.revision = t.revision + 1
  /\ r.expiresAt = now + Retention
  /\ loadOperation(db, r.id, now) = {}
  /\ \A x \in db.live \ db'.live : x = t
  /\ \E x \in db'.live \cup db'.archived : x.uuid = r.uuid /\ x.revision = r.revision
  /\ db'.operations = {x \in db.operations : x.id # r.id} \cup {r}
  /\ db'.submissions = db.submissions
  /\ db'.expiry = db.expiry \cup {ExpiryEntry("operation", r.id, r.expiresAt)}
  /\ Applied(r, now)
  /\ UNCHANGED <<now, accepted>>

\* What the three guarded operations share: a change of one live task that is stored
\* with its operation record keeps the invariant.
LEMMA GuardedEffect ==
  ASSUME IInv, NEW t \in db.live, NEW r \in Operation, NEW e,
         r.uuid = t.uuid, r.revision = t.revision + 1,
         r.expiresAt = now + Retention,
         loadOperation(db, r.id, now) = {},
         StoreInv(e), Advances(db, e), SameReceipts(db, e),
         \A x \in db.live \ e.live : x = t,
         \E x \in e.live \cup e.archived : x.uuid = r.uuid /\ x.revision = r.revision,
         db' = putOperation(e, r), Applied(r, now), UNCHANGED <<now, accepted>>
  PROVE  IInv' /\ Advances(db, db') /\ GuardedStep(t, r)
<1>1. e \in Db
  BY Zenon DEF StoreInv
<1>2. StoreInv(db') /\ SameTasks(e, db')
  BY ReceiptStep, Zenon
<1>3. /\ db'.operations = {x \in e.operations : x.id # r.id} \cup {r}
      /\ db'.submissions = e.submissions
      /\ db'.expiry = e.expiry \cup {ExpiryEntry("operation", r.id, r.expiresAt)}
  BY <1>1, PutOperation, SMTT(60)
<1>4. TypeOK'
  <2>1. [id |-> r.id, op |-> r.op, uuid |-> r.uuid, revision |-> r.revision,
         at |-> now] \in [id : OperationIds, op : Ops, uuid : UUIDs,
                          revision : 2 .. MaxRevision, at : Times]
    BY Zenon DEF Operation, IInv, TypeOK
  <2> QED BY <1>2, <2>1, Zenon DEF IInv, TypeOK, StoreInv, Applied
<1>5. Advances(db, db')
  BY <1>2, Zenon DEF Advances, SameTasks
<1>6. GuardedStep(t, r)
  BY <1>2, <1>3, Zenon DEF GuardedStep, SameTasks, SameReceipts
<1> QED BY <1>2, <1>4, <1>5, <1>6, Zenon DEF IInv

\* The form claims and updates have: the task is moved, then the receipt stored.
LEMMA GuardedMove ==
  ASSUME IInv, NEW t \in db.live, NEW n \in Task, NEW id \in OperationIds,
         NEW op \in Ops, NEW r, n.uuid = t.uuid, n.revision = t.revision + 1,
         r = OperationRecord(id, op, n, now), loadOperation(db, id, now) = {},
         db' = putOperation(putTask(deleteTask(db, t), n), r),
         Applied(r, now), UNCHANGED <<now, accepted>>
  PROVE  IInv' /\ Advances(db, db') /\ GuardedStep(t, r)
<1>1. n.uuid \in UUIDs /\ n.revision \in 2 .. MaxRevision /\ now \in Times
  BY BoundAssumption DEF Task, IInv, TypeOK, Db
<1>2. /\ r \in Operation
      /\ r.id = id
      /\ r.uuid = t.uuid
      /\ r.revision = t.revision + 1
      /\ r.expiresAt = now + Retention
  BY <1>1, OperationType
<1>3. PICK e : e = putTask(deleteTask(db, t), n)
  BY Zenon
<1>4. StoreInv(e) /\ Advances(db, e) /\ SameReceipts(db, e)
        /\ e.live = (db.live \ {t}) \cup {n}
  BY <1>3, MovedStep DEF IInv
<1>5. (\A x \in db.live \ e.live : x = t)
        /\ \E x \in e.live \cup e.archived : x.uuid = r.uuid /\ x.revision = r.revision
  BY <1>2, <1>4, Zenon
<1>6. loadOperation(db, r.id, now) = {} /\ db' = putOperation(e, r)
  BY <1>2, <1>3, Zenon
<1> QED BY <1>2, <1>4, <1>5, <1>6, GuardedEffect, Zenon

\* ClaimGuardedTask keeps the invariant and changes one task together with its record.
LEMMA ClaimGuardedTaskStep ==
  ASSUME IInv, NEW id \in OperationIds, NEW c \in Claims, ClaimGuardedTask(id, c)
  PROVE  IInv' /\ Advances(db, db') /\ \E t, r : GuardedStep(t, r)
<1>1. PICK t, n, r :
             /\ t \in bestHead(db, c, BOOLEAN)
             /\ n = applyGetNext(t, c, now)
             /\ r = OperationRecord(id, "claim", n, now)
             /\ loadOperation(db, id, now) = {}
             /\ t.revision < MaxRevision
             /\ db' = putOperation(putTask(deleteTask(db, t), n), r)
             /\ Applied(r, now)
             /\ UNCHANGED <<now, accepted>>
  BY Zenon DEF ClaimGuardedTask
<1>2. t \in db.live /\ t \in Task /\ now \in Times
  BY <1>1, Zenon DEF bestHead, IInv, TypeOK, Db
<1>3. n \in Task /\ n.uuid = t.uuid /\ n.revision = t.revision + 1
  BY <1>1, <1>2, ClaimedTask, ZenonT(60)
<1> QED BY <1>1, <1>2, <1>3, GuardedMove, Zenon DEF Ops

\* UpdateGuardedTask keeps the invariant and changes one task together with its record.
LEMMA UpdateGuardedTaskStep ==
  ASSUME IInv, NEW id \in OperationIds, NEW u, NEW q, NEW rev, NEW expected,
         NEW upd \in Updates, UpdateGuardedTask(id, u, q, rev, expected, upd)
  PROVE  IInv' /\ Advances(db, db') /\ \E t, r : GuardedStep(t, r)
<1>1. PICK t, n, r :
             /\ t \in checkGuard(db, u, q, rev, expected)
             /\ n = Updated(t, upd, now)
             /\ r = OperationRecord(id, "update", n, now)
             /\ loadOperation(db, id, now) = {}
             /\ t.revision < MaxRevision
             /\ db' = putOperation(putTask(deleteTask(db, t), n), r)
             /\ Applied(r, now)
             /\ UNCHANGED <<now, accepted>>
  BY Zenon DEF UpdateGuardedTask
<1>2. t \in db.live /\ t \in Task /\ now \in Times
  BY <1>1, GuardedTask, ZenonT(60) DEF IInv, TypeOK, Db
<1>3. n \in Task /\ n.uuid = t.uuid /\ n.revision = t.revision + 1
  BY <1>1, <1>2, UpdatedTask, Zenon
<1> QED BY <1>1, <1>2, <1>3, GuardedMove, Zenon DEF Ops

\* FinishGuardedTask keeps the invariant and archives one task together with its record.
LEMMA FinishGuardedTaskStep ==
  ASSUME IInv, NEW id \in OperationIds, NEW op \in {"complete", "cancel"},
         NEW u, NEW q, NEW rev, NEW expected,
         FinishGuardedTask(id, op, u, q, rev, expected)
  PROVE  IInv' /\ Advances(db, db') /\ \E t, r : GuardedStep(t, r)
<1>1. PICK t :
        /\ t \in checkGuard(db, u, q, rev, expected)
        /\ loadOperation(db, id, now) = {}
        /\ t.revision < MaxRevision
        /\ db' = putOperation(archiveTask(db, t, terminalState(op), now),
                    OperationRecord(id, op, toArchived(t, terminalState(op), now), now))
        /\ Applied(OperationRecord(id, op, toArchived(t, terminalState(op), now), now), now)
        /\ UNCHANGED <<now, accepted>>
  BY Zenon DEF FinishGuardedTask
<1> DEFINE a == toArchived(t, terminalState(op), now)
           e == archiveTask(db, t, terminalState(op), now)
           r == OperationRecord(id, op, a, now)
<1>2. terminalState(op) \in TerminalStates /\ op \in Ops
  BY Zenon DEF terminalState, TerminalStates, Ops
<1>3. StoreInv(db) /\ db \in Db /\ now \in Times
  BY Zenon DEF IInv, TypeOK, StoreInv
<1>4. t \in db.live /\ t.revision < MaxRevision
  BY <1>1, <1>3, GuardedTask, ZenonT(60)
<1>5. /\ StoreInv(e)
      /\ Advances(db, e)
      /\ SameReceipts(db, e)
      /\ e.live = db.live \ {t}
      /\ e.archived = db.archived \cup {a}
      /\ a \in Archived
      /\ a.uuid = t.uuid
      /\ a.revision = t.revision + 1
  BY <1>2, <1>3, <1>4, ArchivedStep
<1>6. db' = putOperation(e, r) /\ Applied(r, now) /\ UNCHANGED <<now, accepted>>
  BY <1>1, ZenonT(60)
<1> HIDE DEF a, e
<1>7. a.uuid \in UUIDs /\ a.revision \in 2 .. MaxRevision
  BY <1>5, Zenon DEF Archived
<1>8. /\ r \in Operation
      /\ r.id = id
      /\ r.uuid = a.uuid
      /\ r.revision = a.revision
      /\ r.expiresAt = now + Retention
  BY <1>2, <1>3, <1>7, OperationType
<1> HIDE DEF r
<1>9. r.uuid = t.uuid /\ r.revision = t.revision + 1
  BY <1>5, <1>8, ZenonT(60)
<1>10. (\A x \in db.live \ e.live : x = t)
        /\ \E x \in e.live \cup e.archived : x.uuid = r.uuid /\ x.revision = r.revision
  BY <1>4, <1>5, <1>8, Zenon
<1>11. loadOperation(db, r.id, now) = {}
  BY <1>1, <1>8, ZenonT(60)
<1> QED BY <1>4, <1>5, <1>6, <1>8, <1>9, <1>10, <1>11, GuardedEffect, ZenonT(60)

\* PurgeExpiredReceipts keeps the invariant, touches no task, and deletes only
\* records that were due.
LEMMA PurgeStep ==
  ASSUME IInv, NEW at, PurgeExpiredReceipts(at)
  PROVE  /\ IInv'
         /\ SameTasks(db, db')
         /\ UNCHANGED <<now, accepted, applied>>
         /\ at \in PurgeTimes
         /\ \E es \in SUBSET db.expiry :
              (\A e \in es : e.at <= at) /\ db' = purge(db, es)
<1> PICK es \in SUBSET {e \in db.expiry : e.at <= at} :
           /\ at \in PurgeTimes
           /\ db' = purge(db, es)
           /\ UNCHANGED <<now, accepted, applied>>
  BY Zenon DEF PurgeExpiredReceipts
<1>1. StoreInv(db') /\ SameTasks(db, db')
  BY ReceiptStep, Zenon DEF IInv
<1>2. TypeOK'
  BY <1>1, Zenon DEF IInv, TypeOK, StoreInv
<1> QED BY <1>1, <1>2, Zenon DEF IInv

\* The clock leaves the store alone.
LEMMA ClockStep ==
  ASSUME IInv, Clock
  PROVE  /\ IInv'
         /\ UNCHANGED <<db, accepted, applied>>
         /\ MonotoneClock => now' = now + 1
  BY Zenon DEF Clock, IInv, TypeOK

-----------------------------------------------------------------------------
(* The invariant is inductive. *)

\* The empty store satisfies the invariant.
LEMMA InitInv == Init => IInv
<1> SUFFICES ASSUME Init PROVE IInv
  BY Zenon
<1>1. 0 \in Times
  BY BoundAssumption DEF Times
<1>2. db \in Db
  BY Zenon DEF Init, Db
<1>3. TypeOK
  BY <1>1, <1>2, Zenon DEF Init, TypeOK
<1>4. Indexed(db, {})
  <2>1. \A k : CountAt({}, k) = 0
    <3>1. \A k : {t \in {} : <<t.queue, t.state>> = k} = {}
      BY Zenon
    <3> QED BY <3>1, FS_EmptySet, Zenon DEF CountAt
  <2> QED BY <2>1, FS_EmptySet, Zenon DEF Init, Indexed
<1>5. StoreInv(db)
  BY <1>2, <1>4, Zenon DEF Init, StoreInv
<1> QED BY <1>3, <1>5, Zenon DEF IInv

\* Every step preserves the invariant and moves tasks forward only.
LEMMA NextInv == IInv /\ [Next]_vars => IInv' /\ Advances(db, db')
<1> SUFFICES ASSUME IInv, [Next]_vars PROVE IInv' /\ Advances(db, db')
  BY Zenon
<1>1. ASSUME NEW u \in UUIDs, NEW s \in Submits, SubmitTask(u, s)
      PROVE  IInv' /\ Advances(db, db')
  BY <1>1, SubmitTaskStep, Zenon
<1>2. ASSUME NEW u \in UUIDs, NEW s \in Submits, NEW k \in SubmissionKeys,
             SubmitKeyedTask(u, s, k)
      PROVE  IInv' /\ Advances(db, db')
  BY <1>2, SubmitKeyedTaskStep, ZenonT(60)
<1>3. ASSUME NEW c \in Claims, GetNextTask(c)
      PROVE  IInv' /\ Advances(db, db')
  BY <1>3, GetNextTaskStep, Zenon
<1>4. ASSUME NEW id \in OperationIds, NEW c \in Claims, ClaimGuardedTask(id, c)
      PROVE  IInv' /\ Advances(db, db')
  BY <1>4, ClaimGuardedTaskStep, Zenon
<1>5. ASSUME NEW u \in UUIDs, NEW upd \in Updates, UpdateTask(u, upd)
      PROVE  IInv' /\ Advances(db, db')
  BY <1>5, UpdateTaskStep, Zenon
<1>6. ASSUME NEW id \in OperationIds, NEW u \in UUIDs, NEW q \in Queues,
             NEW rev \in 1 .. MaxRevision, NEW expected \in States \cup {Unset},
             NEW upd \in Updates, UpdateGuardedTask(id, u, q, rev, expected, upd)
      PROVE  IInv' /\ Advances(db, db')
  BY <1>6, UpdateGuardedTaskStep, Zenon
<1>7. ASSUME NEW u \in UUIDs, NEW op \in {"complete", "cancel"}, archiveAndDelete(u, op)
      PROVE  IInv' /\ Advances(db, db')
  BY <1>7, ArchiveAndDeleteStep, Zenon
<1>8. ASSUME NEW id \in OperationIds, NEW op \in {"complete", "cancel"},
             NEW u \in UUIDs, NEW q \in Queues, NEW rev \in 1 .. MaxRevision,
             NEW expected \in States \cup {Unset},
             FinishGuardedTask(id, op, u, q, rev, expected)
      PROVE  IInv' /\ Advances(db, db')
  BY <1>8, FinishGuardedTaskStep, Zenon
<1>9. ASSUME NEW q \in Queues \cup {Unset}, NEW at \in Cutoffs, CleanUpTimedOut(q, at)
      PROVE  IInv' /\ Advances(db, db')
  BY <1>9, CleanUpTimedOutStep, Zenon
<1>10. ASSUME NEW at \in Times, PurgeExpiredReceipts(at)
       PROVE  IInv' /\ Advances(db, db')
  BY <1>10, PurgeStep, Zenon DEF SameTasks, Advances
<1>11. CASE Clock
  BY <1>11, ClockStep, Zenon DEF Advances
<1>12. CASE UNCHANGED vars
  BY <1>12, Zenon DEF vars, IInv, TypeOK, Advances
<1> QED BY <1>1, <1>2, <1>3, <1>4, <1>5, <1>6, <1>7, <1>8, <1>9, <1>10, <1>11, <1>12, ZenonT(60)
        DEF Next

\* The buckets agree in every reachable state.
THEOREM Invariance == Spec => []IInv
  BY InitInv, NextInv, PTL DEF Spec

\* Type correctness of every reachable state, for every set of requests and
\* every bound.
THEOREM TypeCorrect == Spec => []TypeOK
<1>1. IInv => TypeOK
  BY Zenon DEF IInv
<1> QED BY <1>1, Invariance, PTL

\* deleteTask and putTask keep the uuid index, the deadline index and the
\* payloads equal to what the live tasks call for.
THEOREM IndexesCorrect == Spec => []IndexesMatchTasks
<1>1. IInv => IndexesMatchTasks
  BY Zenon DEF IInv, StoreInv, Indexed, IndexesMatchTasks
<1> QED BY <1>1, Invariance, PTL

\* A uuid never names two tasks.
THEOREM TasksUnique == Spec => []OneTaskPerUUID
<1>1. IInv => OneTaskPerUUID
  BY Zenon DEF IInv, StoreInv, Indexed, OneTaskPerUUID
<1> QED BY <1>1, Invariance, PTL

\* The counters kept by adjustCount equal a scan of the live tasks.
THEOREM CountsCorrect == Spec => []CountsMatchTasks
<1>1. IInv => CountsMatchTasks
  BY Zenon DEF IInv, StoreInv, Indexed, CountsMatchTasks
<1> QED BY <1>1, Invariance, PTL

\* No step loses a task, skips a revision or rewrites the archive.
THEOREM TasksOnlyAdvance == Spec => TasksAdvance
<1>1. IInv /\ [Next]_vars =>
        [/\ db.archived \subseteq db'.archived
         /\ \A t \in db.live \ db'.live :
              \E x \in db'.live \cup db'.archived :
                x.uuid = t.uuid /\ x.revision = t.revision + 1]_vars
  BY NextInv, Zenon DEF Advances
<1> QED BY <1>1, Invariance, PTL DEF Spec, TasksAdvance

\* A guarded task changes only by an operation that leaves its receipt or by the
\* release of a timed-out claim.
THEOREM GuardedChangesRecorded == Spec => GuardedChangesHaveReceipts
<1> DEFINE OK == \A t \in db.live \ db'.live : t.guarded =>
                   \/ \E r \in db'.operations \ db.operations :
                        r.uuid = t.uuid /\ r.revision = t.revision + 1
                   \/ t.timeout > 0 /\ Released(t, now) \in db'.live
<1>1. ASSUME IInv, NEW t, NEW r, GuardedStep(t, r)
      PROVE  OK
  <2>1. r.expiresAt = now + Retention /\ loadOperation(db, r.id, now) = {}
    BY <1>1, Zenon DEF GuardedStep
  <2>2. now + Retention > now
    BY <1>1, BoundAssumption DEF IInv, TypeOK, Times
  <2>3. r \notin db.operations
    BY <2>1, <2>2, ZenonT(60) DEF loadOperation
  <2> QED BY <1>1, <2>3, Zenon DEF GuardedStep
<1>2. ASSUME IInv, Next PROVE OK
  <2>1. ASSUME NEW u \in UUIDs, NEW s \in Submits, SubmitTask(u, s) PROVE OK
    BY <1>2, <2>1, SubmitTaskStep, ZenonT(60)
  <2>2. ASSUME NEW u \in UUIDs, NEW s \in Submits, NEW k \in SubmissionKeys,
               SubmitKeyedTask(u, s, k) PROVE OK
    BY <1>2, <2>2, SubmitKeyedTaskStep, ZenonT(60)
  <2>3. ASSUME NEW c \in Claims, GetNextTask(c) PROVE OK
    BY <1>2, <2>3, GetNextTaskStep, Zenon
  <2>4. ASSUME NEW id \in OperationIds, NEW c \in Claims, ClaimGuardedTask(id, c)
        PROVE OK
    BY <1>1, <1>2, <2>4, ClaimGuardedTaskStep, Zenon
  <2>5. ASSUME NEW u \in UUIDs, NEW upd \in Updates, UpdateTask(u, upd) PROVE OK
    BY <1>2, <2>5, UpdateTaskStep, Zenon
  <2>6. ASSUME NEW id \in OperationIds, NEW u \in UUIDs, NEW q \in Queues,
               NEW rev \in 1 .. MaxRevision, NEW expected \in States \cup {Unset},
               NEW upd \in Updates, UpdateGuardedTask(id, u, q, rev, expected, upd)
        PROVE OK
    BY <1>1, <1>2, <2>6, UpdateGuardedTaskStep, Zenon
  <2>7. ASSUME NEW u \in UUIDs, NEW op \in {"complete", "cancel"},
               archiveAndDelete(u, op) PROVE OK
    BY <1>2, <2>7, ArchiveAndDeleteStep, Zenon
  <2>8. ASSUME NEW id \in OperationIds, NEW op \in {"complete", "cancel"},
               NEW u \in UUIDs, NEW q \in Queues, NEW rev \in 1 .. MaxRevision,
               NEW expected \in States \cup {Unset},
               FinishGuardedTask(id, op, u, q, rev, expected) PROVE OK
    BY <1>1, <1>2, <2>8, FinishGuardedTaskStep, Zenon
  <2>9. ASSUME NEW q \in Queues \cup {Unset}, NEW at \in Cutoffs, CleanUpTimedOut(q, at)
        PROVE OK
    BY <1>2, <2>9, CleanUpTimedOutStep, Zenon
  <2>10. ASSUME NEW at \in Times, PurgeExpiredReceipts(at) PROVE OK
    BY <1>2, <2>10, PurgeStep, Zenon DEF SameTasks
  <2>11. CASE Clock
    BY <1>2, <2>11, ClockStep, Zenon
  <2> HIDE DEF OK
  <2> QED BY <1>2, <2>1, <2>2, <2>3, <2>4, <2>5, <2>6, <2>7, <2>8, <2>9, <2>10, <2>11, SMTT(60)
          DEF Next
<1>3. IInv /\ [Next]_vars => [OK]_vars
  BY <1>2, Zenon
<1> QED BY <1>3, Invariance, PTL DEF Spec, GuardedChangesHaveReceipts

-----------------------------------------------------------------------------
(* The receipts. *)

\* The step of SubmitKeyedTask, seen from the receipts.
KeyedStep(s, k, u) ==
  LET rec == [queue |-> s.queue, key |-> k, uuid |-> u, expiresAt |-> now + Retention]
  IN  /\ loadSubmission(db, s.queue, k, now) = {}
      /\ rec \in Submission
      /\ db'.operations = db.operations
      /\ db'.submissions =
           {x \in db.submissions : <<x.queue, x.key>> # <<s.queue, k>>} \cup {rec}
      /\ db'.expiry = db.expiry
           \cup {ExpiryEntry("submission", <<s.queue, k>>, now + Retention)}
      /\ accepted' = accepted \cup
           {[queue |-> s.queue, key |-> k, uuid |-> u, at |-> now]}
      /\ UNCHANGED <<now, applied>>

\* Every step is one of five kinds, as far as the receipts go.
LEMMA StepKinds ==
  ASSUME IInv, [Next]_vars
  PROVE  \/ SameReceipts(db, db') /\ UNCHANGED <<now, accepted, applied>>
         \/ \E s, k, u : KeyedStep(s, k, u)
         \/ \E t, r : GuardedStep(t, r)
         \/ /\ UNCHANGED <<now, accepted, applied>>
            /\ \E at \in PurgeTimes, es \in SUBSET db.expiry :
                 (\A e \in es : e.at <= at) /\ db' = purge(db, es)
         \/ UNCHANGED <<db, accepted, applied>> /\ (MonotoneClock => now' = now + 1)
<1> DEFINE Same == SameReceipts(db, db') /\ UNCHANGED <<now, accepted, applied>>
           Keyed == \E s, k, u : KeyedStep(s, k, u)
           Guarded == \E t, r : GuardedStep(t, r)
           Purged == /\ UNCHANGED <<now, accepted, applied>>
                     /\ \E at \in PurgeTimes, es \in SUBSET db.expiry :
                          (\A e \in es : e.at <= at) /\ db' = purge(db, es)
           Ticked == UNCHANGED <<db, accepted, applied>>
                       /\ (MonotoneClock => now' = now + 1)
<1>1. ASSUME NEW u \in UUIDs, NEW s \in Submits, SubmitTask(u, s) PROVE Same
  BY <1>1, SubmitTaskStep, Zenon DEF SubmitTask
<1>2. ASSUME NEW u \in UUIDs, NEW s \in Submits, NEW k \in SubmissionKeys,
             SubmitKeyedTask(u, s, k)
      PROVE  Keyed
  <2>1. KeyedStep(s, k, u)
    BY <1>2, SubmitKeyedTaskStep, Zenon DEF SubmitKeyedTask, KeyedStep
  <2> QED BY <2>1, Zenon
<1>3. ASSUME NEW c \in Claims, GetNextTask(c) PROVE Same
  BY <1>3, GetNextTaskStep, Zenon DEF GetNextTask
<1>4. ASSUME NEW id \in OperationIds, NEW c \in Claims, ClaimGuardedTask(id, c)
      PROVE  Guarded
  BY <1>4, ClaimGuardedTaskStep, Zenon
<1>5. ASSUME NEW u \in UUIDs, NEW upd \in Updates, UpdateTask(u, upd) PROVE Same
  BY <1>5, UpdateTaskStep, Zenon DEF UpdateTask
<1>6. ASSUME NEW id \in OperationIds, NEW u \in UUIDs, NEW q \in Queues,
             NEW rev \in 1 .. MaxRevision, NEW expected \in States \cup {Unset},
             NEW upd \in Updates, UpdateGuardedTask(id, u, q, rev, expected, upd)
      PROVE  Guarded
  BY <1>6, UpdateGuardedTaskStep, Zenon
<1>7. ASSUME NEW u \in UUIDs, NEW op \in {"complete", "cancel"}, archiveAndDelete(u, op)
      PROVE  Same
  BY <1>7, ArchiveAndDeleteStep, Zenon DEF archiveAndDelete
<1>8. ASSUME NEW id \in OperationIds, NEW op \in {"complete", "cancel"},
             NEW u \in UUIDs, NEW q \in Queues, NEW rev \in 1 .. MaxRevision,
             NEW expected \in States \cup {Unset},
             FinishGuardedTask(id, op, u, q, rev, expected)
      PROVE  Guarded
  BY <1>8, FinishGuardedTaskStep, Zenon
<1>9. ASSUME NEW q \in Queues \cup {Unset}, NEW at \in Cutoffs, CleanUpTimedOut(q, at)
      PROVE  Same
  BY <1>9, CleanUpTimedOutStep, Zenon DEF CleanUpTimedOut
<1>10. ASSUME NEW at \in Times, PurgeExpiredReceipts(at) PROVE Purged
  BY <1>10, PurgeStep, Zenon
<1>11. ASSUME Clock PROVE Ticked
  BY <1>11, ClockStep, Zenon
<1>12. ASSUME UNCHANGED vars PROVE Same
  BY <1>12, Zenon DEF vars, SameReceipts
<1> HIDE DEF Same, Keyed, Guarded, Purged, Ticked
<1>13. Same \/ Keyed \/ Guarded \/ Purged \/ Ticked
  BY <1>1, <1>2, <1>3, <1>4, <1>5, <1>6, <1>7, <1>8, <1>9, <1>10, <1>11, <1>12, ZenonT(60)
     DEF Next
<1> QED BY <1>13, Zenon DEF Same, Keyed, Guarded, Purged, Ticked

\* Every receipt is in the expiry index: purge removes a receipt together with
\* its own index entry only.
LEMMA NextIndexed ==
  IInv /\ ReceiptsIndexed /\ [Next]_vars => ReceiptsIndexed'
<1> SUFFICES ASSUME IInv, ReceiptsIndexed, [Next]_vars PROVE ReceiptsIndexed'
  BY Zenon
<1>1. ASSUME SameReceipts(db, db') PROVE ReceiptsIndexed'
  BY <1>1, Zenon DEF ReceiptsIndexed, SameReceipts
<1>2. ASSUME NEW s, NEW k, NEW u, KeyedStep(s, k, u) PROVE ReceiptsIndexed'
  BY <1>2 DEF ReceiptsIndexed, KeyedStep
<1>3. ASSUME NEW t, NEW r, GuardedStep(t, r) PROVE ReceiptsIndexed'
  BY <1>3, Zenon DEF ReceiptsIndexed, GuardedStep
<1>4. ASSUME NEW es \in SUBSET db.expiry, db' = purge(db, es) PROVE ReceiptsIndexed'
  <2>1. /\ db'.submissions = {r \in db.submissions : \A x \in es :
             ~SameReceipt(x, r, "submission", <<r.queue, r.key>>)}
        /\ db'.operations = {r \in db.operations : \A x \in es :
             ~SameReceipt(x, r, "operation", r.id)}
        /\ db'.expiry = db.expiry \ es
    BY <1>4, Purge, Zenon DEF IInv, TypeOK
  <2> QED BY <2>1, Zenon DEF ReceiptsIndexed, SameReceipt
<1>5. ASSUME UNCHANGED db PROVE ReceiptsIndexed'
  BY <1>5, Zenon DEF ReceiptsIndexed
<1> QED BY <1>1, <1>2, <1>3, <1>4, <1>5, StepKinds, Zenon

\* Purging reaches every receipt.
THEOREM ReceiptsAlwaysIndexed == Spec => []ReceiptsIndexed
<1>1. Init => ReceiptsIndexed
  BY DEF Init, ReceiptsIndexed
<1> QED BY <1>1, NextIndexed, Invariance, PTL DEF Spec

-----------------------------------------------------------------------------
(* Revisions and holders. *)

\* Every applied operation is about a task that is still there, at its revision or
\* a later one, and every receipt is that of an applied operation.
Recorded ==
  /\ \A a \in applied : \E x \in db.live \cup db.archived :
       x.uuid = a.uuid /\ a.revision <= x.revision
  /\ \A r \in db.operations : \E a \in applied :
       a.id = r.id /\ a.uuid = r.uuid /\ a.revision = r.revision
  /\ OneOperationPerRevision

\* Every step keeps Recorded: a revision is written once, by one operation.
LEMMA NextRecorded == IInv /\ Recorded /\ [Next]_vars => Recorded'
<1> SUFFICES ASSUME IInv, Recorded, [Next]_vars PROVE Recorded'
  BY Zenon
<1>1. IInv' /\ Advances(db, db')
  BY NextInv, Zenon
<1>2. \A x \in db.live \cup db.archived : x.revision \in Nat
  BY DEF IInv, TypeOK, Db, Task, Archived
<1>3. \A a \in applied : a.revision \in Nat
  BY DEF IInv, TypeOK
<1>4. \A a \in applied : \E x \in db'.live \cup db'.archived :
        x.uuid = a.uuid /\ a.revision <= x.revision
  <2> SUFFICES ASSUME NEW a \in applied
               PROVE  \E x \in db'.live \cup db'.archived :
                        x.uuid = a.uuid /\ a.revision <= x.revision
    BY Zenon
  <2>1. PICK x \in db.live \cup db.archived : x.uuid = a.uuid /\ a.revision <= x.revision
    BY Zenon DEF Recorded
  <2>2. CASE x \in db'.live \cup db'.archived
    BY <2>1, <2>2, Zenon
  <2>3. CASE x \in db.live \ db'.live
    <3>1. PICK y \in db'.live \cup db'.archived :
                 y.uuid = x.uuid /\ y.revision = x.revision + 1
      BY <1>1, <2>3, Zenon DEF Advances
    <3>2. a.revision <= y.revision
      BY <1>2, <1>3, <2>1, <3>1
    <3> QED BY <2>1, <3>1, <3>2, Zenon
  <2> QED BY <1>1, <2>2, <2>3, Zenon DEF Advances
<1>5. ASSUME UNCHANGED applied, db'.operations \subseteq db.operations
      PROVE  Recorded'
  BY <1>4, <1>5, Zenon DEF Recorded, OneOperationPerRevision
<1>6. ASSUME NEW t, NEW r, GuardedStep(t, r)
      PROVE  Recorded'
  <2> DEFINE new == [id |-> r.id, op |-> r.op, uuid |-> r.uuid,
                     revision |-> r.revision, at |-> now]
  <2>1. applied' = applied \cup {new}
    BY <1>6, Zenon DEF GuardedStep, Applied
  <2>2. \E x \in db'.live \cup db'.archived : x.uuid = new.uuid /\ new.revision = x.revision
    BY <1>6, Zenon DEF GuardedStep
  <2>3. new.revision \in Nat
    BY <1>6 DEF GuardedStep, Operation
  <2>4. \A a \in applied' : \E x \in db'.live \cup db'.archived :
          x.uuid = a.uuid /\ a.revision <= x.revision
    <3> HIDE DEF new
    <3> QED BY <1>4, <2>1, <2>2, <2>3
  <2>5. \A x \in db'.operations : \E a \in applied' :
          a.id = x.id /\ a.uuid = x.uuid /\ a.revision = x.revision
    <3>1. \A x \in db'.operations : x \in db.operations \/ x = r
      BY <1>6, Zenon DEF GuardedStep
    <3>2. new \in applied' /\ applied \subseteq applied'
      BY <2>1, Zenon
    <3>3. new.id = r.id /\ new.uuid = r.uuid /\ new.revision = r.revision
      BY Zenon
    <3> HIDE DEF new
    <3> QED BY <3>1, <3>2, <3>3, Zenon DEF Recorded
  <2>6. \A a \in applied : a.uuid = new.uuid => a.revision < new.revision
    <3> SUFFICES ASSUME NEW a \in applied, a.uuid = t.uuid
                 PROVE  a.revision < t.revision + 1
      BY <1>6, Zenon DEF GuardedStep
    <3>1. PICK x \in db.live \cup db.archived : x.uuid = a.uuid /\ a.revision <= x.revision
      BY Zenon DEF Recorded
    <3>2. t \in db.live /\ x.uuid = t.uuid
      BY <1>6, <3>1, Zenon DEF GuardedStep
    <3>3. x = t
      BY <3>1, <3>2, Zenon DEF IInv, StoreInv, Indexed
    <3> QED BY <1>2, <1>3, <3>1, <3>2, <3>3, SMTT(60)
  <2>7. OneOperationPerRevision'
    <3>1. \A a \in applied : ~(a.uuid = new.uuid /\ a.revision = new.revision)
      BY <1>3, <2>3, <2>6
    <3> HIDE DEF new
    <3> QED BY <2>1, <3>1, Zenon DEF Recorded, OneOperationPerRevision
  <2> QED BY <2>4, <2>5, <2>7, Zenon DEF Recorded
<1>7. ASSUME NEW es, db' = purge(db, es)
      PROVE  db'.operations \subseteq db.operations
  BY <1>7, Purge DEF IInv, TypeOK
<1> QED BY <1>5, <1>6, <1>7, StepKinds, ZenonT(60) DEF SameReceipts, KeyedStep

\* Recorded is an invariant: what was applied to a task is bounded by the revision
\* the store holds for it.
THEOREM AlwaysRecorded == Spec => []Recorded
<1>1. Init => Recorded
  BY DEF Init, Recorded, OneOperationPerRevision
<1> QED BY <1>1, NextRecorded, Invariance, PTL DEF Spec

\* Two operations never produce the same revision of a task: of two workers that
\* saw the same revision, one is refused.
THEOREM RevisionsUnique == Spec => []OneOperationPerRevision
<1>1. Recorded => OneOperationPerRevision
  BY Zenon DEF Recorded
<1> QED BY <1>1, AlwaysRecorded, PTL

\* Two operation ids never hold the same task at the same time.
THEOREM HoldersUnique == Spec => []SingleHolder
<1>1. IInv /\ Recorded => SingleHolder
  <2> SUFFICES ASSUME IInv, Recorded, NEW i \in OperationIds, NEW j \in OperationIds,
                      NEW t \in replayedClaim(db, i, now) \cap replayedClaim(db, j, now)
               PROVE  i = j
    BY Zenon DEF SingleHolder
  <2>1. PICK r \in db.operations : r.id = i /\ t \in loadByUUID(db, r.uuid)
                                     /\ t.revision = r.revision
    BY Zenon DEF replayedClaim, loadOperation
  <2>2. PICK x \in db.operations : x.id = j /\ t \in loadByUUID(db, x.uuid)
                                     /\ t.revision = x.revision
    BY Zenon DEF replayedClaim, loadOperation
  <2>3. r.uuid = t.uuid /\ x.uuid = t.uuid
    BY <2>1, <2>2, LoadedTask, Zenon DEF IInv, TypeOK
  <2>4. PICK a \in applied : a.id = i /\ a.uuid = t.uuid /\ a.revision = t.revision
    BY <2>1, <2>3 DEF Recorded
  <2>5. PICK b \in applied : b.id = j /\ b.uuid = t.uuid /\ b.revision = t.revision
    BY <2>2, <2>3 DEF Recorded
  <2> QED BY <2>4, <2>5 DEF Recorded, OneOperationPerRevision
<1> QED BY <1>1, Invariance, AlwaysRecorded, PTL

-----------------------------------------------------------------------------
(* Once-only, when the clock is not set back. *)

\* What was done less than Retention ago still has its receipt.
Remembered ==
  /\ \A a \in accepted : /\ a.at <= now
                         /\ a.at + Retention > now =>
                              \E r \in db.submissions :
                                /\ r.queue = a.queue
                                /\ r.key = a.key
                                /\ r.expiresAt = a.at + Retention
  /\ \A a \in applied : /\ a.at <= now
                        /\ a.at + Retention > now =>
                             \E r \in db.operations :
                               r.id = a.id /\ r.expiresAt = a.at + Retention
  /\ KeyAcceptedOnce
  /\ OperationAppliedOnce

\* With a clock that is not set back, every step keeps Remembered.
LEMMA NextRemembered ==
  ASSUME MonotoneClock
  PROVE  IInv /\ Remembered /\ [Next]_vars => Remembered'
<1> SUFFICES ASSUME IInv, Remembered, [Next]_vars PROVE Remembered'
  BY Zenon
<1>0. /\ now \in Nat
      /\ Retention \in Nat
      /\ Retention > 0
      /\ \A a \in accepted : a.at \in Nat
      /\ \A a \in applied : a.at \in Nat
  BY BoundAssumption DEF IInv, TypeOK, Times
<1>1. ASSUME SameReceipts(db, db'), UNCHANGED <<now, accepted, applied>>
      PROVE  Remembered'
  BY <1>1, Zenon DEF Remembered, SameReceipts, KeyAcceptedOnce, OperationAppliedOnce
<1>2. ASSUME NEW s, NEW k, NEW u, KeyedStep(s, k, u)
      PROVE  Remembered'
  <2> DEFINE new == [queue |-> s.queue, key |-> k, uuid |-> u, at |-> now]
             rec == [queue |-> s.queue, key |-> k, uuid |-> u,
                     expiresAt |-> now + Retention]
  <2>1. /\ accepted' = accepted \cup {new}
        /\ db'.submissions =
             {x \in db.submissions : <<x.queue, x.key>> # <<s.queue, k>>} \cup {rec}
        /\ db'.operations = db.operations
        /\ now' = now
        /\ applied' = applied
    BY <1>2, Zenon DEF KeyedStep
  <2>2. \A r \in db.submissions : r.queue = s.queue /\ r.key = k => ~(r.expiresAt > now)
    BY <1>2, Zenon DEF KeyedStep, loadSubmission
  <2>3. \A a \in accepted : a.queue = s.queue /\ a.key = k => a.at + Retention <= now
    <3> SUFFICES ASSUME NEW a \in accepted, a.queue = s.queue, a.key = k,
                        a.at + Retention > now
                 PROVE  FALSE
      BY <1>0
    <3>1. \E r \in db.submissions : /\ r.queue = a.queue
                                    /\ r.key = a.key
                                    /\ r.expiresAt = a.at + Retention
      BY Zenon DEF Remembered
    <3> QED BY <2>2, <3>1, Zenon
  <2>4. /\ new.queue = s.queue /\ new.key = k /\ new.at = now
        /\ rec.queue = s.queue /\ rec.key = k /\ rec.expiresAt = now + Retention
    BY Zenon
  <2> HIDE DEF new, rec
  <2>5. KeyAcceptedOnce'
    BY <1>0, <2>1, <2>3, <2>4 DEF Remembered, KeyAcceptedOnce
  <2>6. OperationAppliedOnce'
    BY <2>1, Zenon DEF Remembered, OperationAppliedOnce
  <2>7. ASSUME NEW a \in accepted', a.at + Retention > now
        PROVE  \E r \in db'.submissions : /\ r.queue = a.queue
                                          /\ r.key = a.key
                                          /\ r.expiresAt = a.at + Retention
    <3>1. CASE a = new
      BY <2>1, <2>4, <3>1, Zenon
    <3>2. CASE a # new
      <4>1. a \in accepted /\ ~(a.queue = s.queue /\ a.key = k)
        BY <1>0, <2>1, <2>3, <2>7, <3>2
      <4>2. PICK r \in db.submissions : /\ r.queue = a.queue
                                        /\ r.key = a.key
                                        /\ r.expiresAt = a.at + Retention
        BY <2>7, <4>1, Zenon DEF Remembered
      <4>3. r \in db'.submissions
        BY <2>1, <4>1, <4>2, Zenon
      <4> QED BY <4>2, <4>3, Zenon
    <3> QED BY <3>1, <3>2, Zenon
  <2>8. \A a \in accepted' : a.at <= now
    BY <1>0, <2>1, <2>4 DEF Remembered
  <2> QED BY <2>1, <2>5, <2>6, <2>7, <2>8, SMTT(60) DEF Remembered
<1>3. ASSUME NEW t, NEW r, GuardedStep(t, r)
      PROVE  Remembered'
  <2> DEFINE new == [id |-> r.id, op |-> r.op, uuid |-> r.uuid,
                     revision |-> r.revision, at |-> now]
  <2>1. /\ applied' = applied \cup {new}
        /\ db'.operations = {x \in db.operations : x.id # r.id} \cup {r}
        /\ db'.submissions = db.submissions
        /\ now' = now
        /\ accepted' = accepted
        /\ r.expiresAt = now + Retention
    BY <1>3, Zenon DEF GuardedStep, Applied
  <2>2. \A x \in db.operations : x.id = r.id => ~(x.expiresAt > now)
    BY <1>3, Zenon DEF GuardedStep, loadOperation
  <2>3. \A a \in applied : a.id = r.id => a.at + Retention <= now
    <3> SUFFICES ASSUME NEW a \in applied, a.id = r.id, a.at + Retention > now
                 PROVE  FALSE
      BY <1>0
    <3>1. \E x \in db.operations : x.id = a.id /\ x.expiresAt = a.at + Retention
      BY Zenon DEF Remembered
    <3> QED BY <2>2, <3>1, Zenon
  <2>4. new.id = r.id /\ new.at = now
    BY Zenon
  <2> HIDE DEF new
  <2>5. OperationAppliedOnce'
    BY <1>0, <2>1, <2>3, <2>4 DEF Remembered, OperationAppliedOnce
  <2>6. KeyAcceptedOnce'
    BY <2>1, Zenon DEF Remembered, KeyAcceptedOnce
  <2>7. ASSUME NEW a \in applied', a.at + Retention > now
        PROVE  \E x \in db'.operations : x.id = a.id /\ x.expiresAt = a.at + Retention
    <3>1. CASE a = new
      BY <2>1, <2>4, <3>1, Zenon
    <3>2. CASE a # new
      <4>1. a \in applied /\ a.id # r.id
        BY <1>0, <2>1, <2>3, <2>7, <3>2
      <4>2. PICK x \in db.operations : x.id = a.id /\ x.expiresAt = a.at + Retention
        BY <2>7, <4>1, Zenon DEF Remembered
      <4>3. x \in db'.operations
        BY <2>1, <4>1, <4>2, Zenon
      <4> QED BY <4>2, <4>3, Zenon
    <3> QED BY <3>1, <3>2, Zenon
  <2>8. \A a \in applied' : a.at <= now
    BY <1>0, <2>1, <2>4 DEF Remembered
  <2> QED BY <2>1, <2>5, <2>6, <2>7, <2>8, SMTT(60) DEF Remembered
<1>4. ASSUME NEW at \in PurgeTimes, NEW es \in SUBSET db.expiry,
             \A e \in es : e.at <= at, db' = purge(db, es),
             UNCHANGED <<now, accepted, applied>>
      PROVE  Remembered'
  <2>1. /\ db'.submissions = {r \in db.submissions : \A x \in es :
             ~SameReceipt(x, r, "submission", <<r.queue, r.key>>)}
        /\ db'.operations = {r \in db.operations : \A x \in es :
             ~SameReceipt(x, r, "operation", r.id)}
    BY <1>4, Purge, Zenon DEF IInv, TypeOK
  <2>2. at \in Nat /\ at <= now
    BY <1>0, <1>4 DEF PurgeTimes
  <2>3. /\ \A r \in db.submissions : r.expiresAt \in Int
        /\ \A r \in db.operations : r.expiresAt \in Int
        /\ \A e \in es : e.at \in Int
    BY <1>4, Zenon DEF IInv, TypeOK, Db, Submission, Operation, Expiry
  <2>4. ASSUME NEW x \in es, NEW r, r.expiresAt \in Int, r.expiresAt > now,
               NEW kind, NEW id
        PROVE  ~SameReceipt(x, r, kind, id)
    <3>1. SameReceipt(x, r, kind, id) => x.at = r.expiresAt
      BY DEF SameReceipt, ExpiryEntry
    <3>2. x.at <= at /\ x.at \in Int
      BY <1>4, <2>3, Zenon
    <3> QED BY <1>0, <2>2, <2>4, <3>1, <3>2
  <2>5. /\ \A r \in db.submissions : r.expiresAt > now => r \in db'.submissions
        /\ \A r \in db.operations : r.expiresAt > now => r \in db'.operations
    BY <2>1, <2>3, <2>4, ZenonT(60)
  <2>6. \A a \in accepted : a.at + Retention > now =>
          \E r \in db'.submissions : /\ r.queue = a.queue
                                     /\ r.key = a.key
                                     /\ r.expiresAt = a.at + Retention
    BY <2>5, Zenon DEF Remembered
  <2>7. \A a \in applied : a.at + Retention > now =>
          \E r \in db'.operations : r.id = a.id /\ r.expiresAt = a.at + Retention
    BY <2>5, Zenon DEF Remembered
  <2> QED BY <1>4, <2>6, <2>7, ZenonT(60) DEF Remembered, KeyAcceptedOnce, OperationAppliedOnce
<1>5. ASSUME UNCHANGED <<db, accepted, applied>>, now' = now + 1
      PROVE  Remembered'
  <2>1. \A a \in accepted : a.at <= now' /\ (a.at + Retention > now' => a.at + Retention > now)
    BY <1>0, <1>5 DEF Remembered
  <2>2. \A a \in applied : a.at <= now' /\ (a.at + Retention > now' => a.at + Retention > now)
    BY <1>0, <1>5 DEF Remembered
  <2> QED BY <1>5, <2>1, <2>2, Zenon DEF Remembered, KeyAcceptedOnce, OperationAppliedOnce
<1> QED BY <1>1, <1>2, <1>3, <1>4, <1>5, StepKinds, Zenon

\* With a clock that is not set back, Remembered is an invariant: a key or an
\* operation within its retention still has its receipt.
THEOREM AlwaysRemembered == MonotoneClock => (Spec => []Remembered)
<1> SUFFICES ASSUME MonotoneClock PROVE Spec => []Remembered
  BY Zenon
<1>1. Init => Remembered
  BY Zenon DEF Init, Remembered, KeyAcceptedOnce, OperationAppliedOnce
<1>2. IInv /\ Remembered /\ [Next]_vars => Remembered'
  BY NextRemembered, Zenon
<1> QED BY <1>1, <1>2, Invariance, PTL DEF Spec

\* Within the retention of its receipt a submission key creates one task.
THEOREM KeysOnce == MonotoneClock => (Spec => []KeyAcceptedOnce)
<1>1. Remembered => KeyAcceptedOnce
  BY Zenon DEF Remembered
<1> QED BY <1>1, AlwaysRemembered, PTL

\* Within the retention of its receipt a guarded operation takes effect once.
THEOREM OperationsOnce == MonotoneClock => (Spec => []OperationAppliedOnce)
<1>1. Remembered => OperationAppliedOnce
  BY Zenon DEF Remembered
<1> QED BY <1>1, AlwaysRemembered, PTL

Live(d) == {lifeOf(t) : t \in d.live}
Finished(d) == {lifeOfArchived(a) : a \in d.archived}

-----------------------------------------------------------------------------
(* The mapping of tasks. *)

\* The life of a task shows its uuid, queue, guard, lease and revision.
LEMMA LifeFields ==
  /\ \A t : /\ lifeOf(t).uuid = t.uuid
            /\ lifeOf(t).queue = t.queue
            /\ lifeOf(t).guarded = t.guarded
            /\ lifeOf(t).leased = (t.timeout > 0)
            /\ lifeOf(t).revision = t.revision
  /\ \A a : /\ lifeOfArchived(a).uuid = a.uuid
            /\ lifeOfArchived(a).queue = a.queue
            /\ lifeOfArchived(a).guarded = a.guarded
            /\ lifeOfArchived(a).revision = a.revision
  BY Zenon DEF lifeOf, lifeOfArchived

\* Taking one task out of the store takes one life out: uuids tell tasks apart.
LEMMA LiveWithout ==
  ASSUME NEW S, \A s, x \in S : s.uuid = x.uuid => s = x, NEW t \in S
  PROVE  {lifeOf(x) : x \in S \ {t}} = {lifeOf(x) : x \in S} \ {lifeOf(t)}
  BY LifeFields

\* What changes one live task (claims, updates) replaces its life by the next one.
LEMMA MoveReplaces ==
  ASSUME IInv, NEW t \in db.live, NEW n, n.uuid = t.uuid, n.queue = t.queue,
         n.guarded = t.guarded, n.revision = t.revision + 1,
         db'.live = (db.live \ {t}) \cup {n}, db'.archived = db.archived
  PROVE  /\ lifeOf(t) \in Live(db)
         /\ lifeOf(n) \in Live(db')
         /\ Lifecycle!Replaced(lifeOf(t), lifeOf(n))
<1>1. \A s, x \in db.live : s.uuid = x.uuid => s = x
  BY Zenon DEF IInv, StoreInv, Indexed
<1>2. Live(db') = (Live(db) \ {lifeOf(t)}) \cup {lifeOf(n)}
  <2>1. {lifeOf(x) : x \in (db.live \ {t}) \cup {n}}
          = {lifeOf(x) : x \in db.live \ {t}} \cup {lifeOf(n)}
    BY Zenon
  <2> QED BY <1>1, <2>1, LiveWithout, Zenon DEF Live
<1>3. Finished(db') = Finished(db)
  BY Zenon DEF Finished
<1>4. Lifecycle!Follows(lifeOf(n), lifeOf(t))
  BY LifeFields, Zenon DEF Lifecycle!Follows
<1>5. lifeOf(t) \in Live(db) /\ lifeOf(n) \in Live(db')
  BY <1>2, Zenon DEF Live
<1> QED BY <1>2, <1>3, <1>4, <1>5, Zenon DEF Lifecycle!Replaced, Live, Finished

\* Archiving a task replaces its life by one that is finished.
LEMMA ArchiveReplaces ==
  ASSUME IInv, NEW t \in db.live, NEW a, a.uuid = t.uuid, a.queue = t.queue,
         a.guarded = t.guarded, a.revision = t.revision + 1,
         db'.live = db.live \ {t}, db'.archived = db.archived \cup {a}
  PROVE  /\ lifeOf(t) \in Live(db)
         /\ lifeOfArchived(a) \in Finished(db')
         /\ Lifecycle!Replaced(lifeOf(t), lifeOfArchived(a))
<1>1. \A s, x \in db.live : s.uuid = x.uuid => s = x
  BY Zenon DEF IInv, StoreInv, Indexed
<1>2. Live(db') = Live(db) \ {lifeOf(t)}
  BY <1>1, LiveWithout, Zenon DEF Live
<1>3. Finished(db') = Finished(db) \cup {lifeOfArchived(a)}
  BY Zenon DEF Finished
<1>4. Lifecycle!Follows(lifeOfArchived(a), lifeOf(t))
  BY LifeFields, Zenon DEF Lifecycle!Follows
<1>5. lifeOfArchived(a) \notin Live(db')
  <2>1. \A x \in db'.live : x.uuid # a.uuid
    BY <1>1, Zenon
  <2> QED BY <2>1, LifeFields DEF Live
<1>6. lifeOf(t) \in Live(db) /\ lifeOfArchived(a) \in Finished(db')
  BY <1>3, Zenon DEF Live
<1> QED BY <1>2, <1>3, <1>4, <1>5, <1>6, Zenon DEF Lifecycle!Replaced, Live, Finished

-----------------------------------------------------------------------------
(* Kinds of steps. *)

\* A submission adds a life at revision 1, of a uuid never seen before.
LEMMA AddIsNew ==
  ASSUME NEW t, t.revision = 1,
         \A x \in db.live \cup db.archived : x.uuid # t.uuid,
         db'.live = db.live \cup {t}, db'.archived = db.archived
  PROVE  lifeOf(t) \in Live(db') /\ Lifecycle!New(lifeOf(t))
<1>1. Live(db') = Live(db) \cup {lifeOf(t)} /\ Finished(db') = Finished(db)
  BY Zenon DEF Live, Finished
<1>2. \A x \in Live(db) \cup Finished(db) : x.uuid # lifeOf(t).uuid
  BY LifeFields DEF Live, Finished
<1>3. lifeOf(t).revision = 1
  BY LifeFields, Zenon
<1> QED BY <1>1, <1>2, <1>3, Zenon DEF Lifecycle!New, Live, Finished

\* A legacy change of an unguarded task.
LEMMA IsLegacy ==
  ASSUME NEW t, NEW n \in Live(db') \cup Finished(db'), lifeOf(t) \in Live(db),
         Lifecycle!Replaced(lifeOf(t), n), ~t.guarded,
         UNCHANGED <<now, accepted, applied>>
  PROVE  Lifecycle!Legacy
<1>1. ~lifeOf(t).guarded
  BY LifeFields, Zenon
<1> QED BY <1>1, Zenon DEF Lifecycle!Legacy, Live, Finished

\* A guarded operation whose id has no receipt: with Remembered, its id was last
\* used at least a retention ago.
LEMMA IsGuarded ==
  ASSUME IInv, Remembered, NEW t, NEW n \in Live(db') \cup Finished(db'), NEW r,
         lifeOf(t) \in Live(db), Lifecycle!Replaced(lifeOf(t), n),
         r.uuid = t.uuid, r.revision = t.revision + 1,
         loadOperation(db, r.id, now) = {}, Applied(r, now),
         UNCHANGED <<now, accepted>>
  PROVE  Lifecycle!Guarded
<1> DEFINE o == [id |-> r.id, op |-> r.op, uuid |-> r.uuid,
                 revision |-> r.revision, at |-> now]
<1>1. applied' = applied \cup {o}
  BY Zenon DEF Applied
<1>2. o.id = r.id /\ o.at = now /\ <<o.uuid, o.revision>> = <<t.uuid, t.revision + 1>>
  BY Zenon
<1> HIDE DEF o
<1>3. now \in Nat /\ Retention \in Nat /\ \A p \in applied : p.at \in Nat
  BY BoundAssumption DEF IInv, TypeOK, Times
<1>4. \A p \in applied : p.id = o.id => p.at + Retention <= now
  <2> SUFFICES ASSUME NEW p \in applied, p.id = o.id, p.at + Retention > now
               PROVE  FALSE
    BY <1>3
  <2>1. PICK x \in db.operations : x.id = p.id /\ x.expiresAt = p.at + Retention
    BY Zenon DEF Remembered
  <2> QED BY <1>2, <2>1, Zenon DEF loadOperation
<1>5. <<o.uuid, o.revision>> = <<lifeOf(t).uuid, lifeOf(t).revision + 1>>
  BY <1>2, LifeFields, Zenon
<1>6. o.at <= now /\ o \in applied'
  BY <1>1, <1>2, <1>3
<1>7. \E x \in Live(db') \cup Finished(db') : Lifecycle!Replaced(lifeOf(t), x)
  BY Zenon
<1> QED BY <1>1, <1>4, <1>5, <1>6, <1>7, Zenon DEF Lifecycle!Guarded, Live, Finished

-----------------------------------------------------------------------------
(* The actions. *)

\* deleteTask and putTask of the new version change the live tasks, not the archive.
LEMMA Moved ==
  ASSUME IInv, NEW t \in db.live, NEW n \in Task, n.uuid = t.uuid
  PROVE  LET e == putTask(deleteTask(db, t), n)
         IN  /\ e \in Db
             /\ e.live = (db.live \ {t}) \cup {n}
             /\ e.archived = db.archived
<1> DEFINE e == putTask(deleteTask(db, t), n)
<1>1. db \in Db /\ Indexed(db, db.live)
  BY Zenon DEF IInv, StoreInv
<1>2. e \in Db /\ SameRest(db, e) /\ Indexed(e, (db.live \ {t}) \cup {n})
  BY <1>1, MoveTask, Zenon
<1> HIDE DEF e
<1>3. e.live = (db.live \ {t}) \cup {n} /\ e.archived = db.archived
  BY <1>2, Zenon DEF SameRest, Indexed
<1> QED BY <1>2, <1>3, Zenon DEF e

\* putTask of a new task adds it to the live tasks.
LEMMA Added ==
  ASSUME IInv, NEW t \in Task, \A x \in db.live \cup db.archived : x.uuid # t.uuid
  PROVE  LET e == putTask(putPayload(db, t.uuid), t)
         IN  /\ e \in Db
             /\ e.live = db.live \cup {t}
             /\ e.archived = db.archived
<1> DEFINE e == putTask(putPayload(db, t.uuid), t)
<1>1. db \in Db /\ Indexed(db, db.live)
  BY Zenon DEF IInv, StoreInv
<1>2. e \in Db /\ Indexed(e, db.live \cup {t}) /\ e.archived = db.archived
  BY <1>1, AddTask, ZenonT(60)
<1> HIDE DEF e
<1>3. e.live = db.live \cup {t}
  BY <1>2, Zenon DEF Indexed
<1> QED BY <1>2, <1>3, Zenon DEF e

\* SubmitTask adds an unguarded task.
LEMMA SubmitTaskLives ==
  ASSUME IInv, NEW u \in UUIDs, NEW s \in Submits, SubmitTask(u, s)
  PROVE  Lifecycle!Submit
<1> DEFINE t == NewTask(u, s, now)
<1>1. t \in Task /\ t.uuid = u /\ t.revision = 1 /\ t.guarded = s.guarded
  BY NewTaskType, Zenon DEF IInv, TypeOK, NewTask
<1>2. \A x \in db.live \cup db.archived : x.uuid # t.uuid
  BY <1>1, Zenon DEF SubmitTask, Unused
<1>3. db' = putTask(putPayload(db, t.uuid), t) /\ ~s.guarded
        /\ UNCHANGED <<now, accepted, applied>>
  BY <1>1, Zenon DEF SubmitTask
<1> HIDE DEF t
<1>4. db'.live = db.live \cup {t} /\ db'.archived = db.archived
  BY <1>1, <1>2, <1>3, Added, Zenon
<1>5. lifeOf(t) \in Live(db') /\ Lifecycle!New(lifeOf(t))
  BY <1>1, <1>2, <1>4, AddIsNew, Zenon
<1>6. ~lifeOf(t).guarded
  BY <1>1, <1>3, LifeFields, Zenon
<1> QED BY <1>3, <1>5, <1>6, Zenon DEF Lifecycle!Submit, Live

\* SubmitKeyedTask adds a task under a key that was last used a retention ago.
LEMMA SubmitKeyedTaskLives ==
  ASSUME IInv, Remembered, NEW u \in UUIDs, NEW s \in Submits,
         NEW k \in SubmissionKeys, SubmitKeyedTask(u, s, k)
  PROVE  Lifecycle!SubmitKeyed
<1> DEFINE t == NewTask(u, s, now)
           rec == [queue |-> s.queue, key |-> k, uuid |-> u,
                   expiresAt |-> now + Retention]
           e == putTask(putPayload(db, u), t)
           a == [queue |-> s.queue, key |-> k, uuid |-> u, at |-> now]
<1>1. t \in Task /\ t.uuid = u /\ t.revision = 1 /\ t.queue = s.queue
  BY NewTaskType, Zenon DEF IInv, TypeOK, NewTask
<1>2. \A x \in db.live \cup db.archived : x.uuid # t.uuid
  BY <1>1, Zenon DEF SubmitKeyedTask, Unused
<1>3. /\ db' = putSubmission(e, rec)
      /\ accepted' = accepted \cup {a}
      /\ loadSubmission(db, s.queue, k, now) = {}
      /\ UNCHANGED <<now, applied>>
  BY Zenon DEF SubmitKeyedTask
<1>4. e \in Db /\ e.live = db.live \cup {t} /\ e.archived = db.archived
  <2> HIDE DEF t
  <2> QED BY <1>1, <1>2, Added, Zenon
<1>5. rec \in Submission
  BY RequestAssumption, BoundAssumption DEF Submission, SubmitType, IInv, TypeOK, Times
<1>6. a.queue = s.queue /\ a.key = k /\ a.uuid = u /\ a.at = now
  BY Zenon
<1> HIDE DEF t, rec, e, a
<1>7. db'.live = db.live \cup {t} /\ db'.archived = db.archived
  BY <1>3, <1>4, <1>5, PutSubmission, Zenon
<1>8. lifeOf(t) \in Live(db') /\ Lifecycle!New(lifeOf(t))
  BY <1>1, <1>2, <1>7, AddIsNew, Zenon
<1>9. now \in Nat /\ Retention \in Nat /\ \A b \in accepted : b.at \in Nat
  BY BoundAssumption DEF IInv, TypeOK, Times
<1>10. \A b \in accepted : b.queue = a.queue /\ b.key = a.key => b.at + Retention <= now
  <2> SUFFICES ASSUME NEW b \in accepted, b.queue = s.queue, b.key = k,
                      b.at + Retention > now
               PROVE  FALSE
    BY <1>6, <1>9
  <2>1. PICK r \in db.submissions : /\ r.queue = b.queue /\ r.key = b.key
                                    /\ r.expiresAt = b.at + Retention
    BY Zenon DEF Remembered
  <2> QED BY <1>3, <2>1, Zenon DEF loadSubmission
<1>11. <<a.uuid, a.queue>> = <<lifeOf(t).uuid, lifeOf(t).queue>> /\ a.at <= now
         /\ a \in accepted'
  BY <1>1, <1>3, <1>6, <1>9, LifeFields
<1> QED BY <1>3, <1>8, <1>10, <1>11, Zenon DEF Lifecycle!SubmitKeyed, Live

\* A legacy claim (GetNextTask, GetNextTaskGroup) changes one unguarded task.
LEMMA GetNextTaskLives ==
  ASSUME IInv, NEW c \in Claims, GetNextTask(c)
  PROVE  Lifecycle!Legacy
<1> PICK t \in bestHead(db, c, {FALSE}) :
           /\ t.revision < MaxRevision
           /\ db' = putTask(deleteTask(db, t), applyGetNext(t, c, now))
           /\ UNCHANGED <<now, accepted, applied>>
  BY Zenon DEF GetNextTask
<1>1. t \in db.live /\ ~t.guarded /\ t \in Task /\ now \in Times
  BY ZenonT(60) DEF bestHead, IInv, TypeOK, Db
<1> DEFINE n == applyGetNext(t, c, now)
<1>2. n \in Task /\ n.uuid = t.uuid /\ n.revision = t.revision + 1
  BY <1>1, ClaimedTask, Zenon
<1>3. n.queue = t.queue /\ n.guarded = t.guarded
  BY Zenon DEF applyGetNext
<1> HIDE DEF n
<1>4. db'.live = (db.live \ {t}) \cup {n} /\ db'.archived = db.archived
  BY <1>1, <1>2, Moved, Zenon DEF n
<1> QED BY <1>1, <1>2, <1>3, <1>4, MoveReplaces, IsLegacy, Zenon

\* UpdateTask changes one unguarded task.
LEMMA UpdateTaskLives ==
  ASSUME IInv, NEW u \in UUIDs, NEW upd \in Updates, UpdateTask(u, upd)
  PROVE  Lifecycle!Legacy
<1> PICK t \in loadByUUID(db, u) :
           /\ ~t.guarded
           /\ t.revision < MaxRevision
           /\ db' = putTask(deleteTask(db, t), Updated(t, upd, now))
           /\ UNCHANGED <<now, accepted, applied>>
  BY Zenon DEF UpdateTask
<1>1. t \in db.live /\ t \in Task /\ now \in Times
  BY LoadedTask, ZenonT(60) DEF IInv, TypeOK, Db
<1> DEFINE n == Updated(t, upd, now)
<1>2. n \in Task /\ n.uuid = t.uuid /\ n.revision = t.revision + 1
  BY <1>1, UpdatedTask, Zenon
<1>3. n.queue = t.queue /\ n.guarded = t.guarded
  BY Zenon DEF Updated
<1> HIDE DEF n
<1>4. db'.live = (db.live \ {t}) \cup {n} /\ db'.archived = db.archived
  BY <1>1, <1>2, Moved, Zenon DEF n
<1> QED BY <1>1, <1>2, <1>3, <1>4, MoveReplaces, IsLegacy, Zenon

\* CompleteTask and CancelTask finish one unguarded task.
LEMMA ArchiveAndDeleteLives ==
  ASSUME IInv, NEW u \in UUIDs, NEW op \in {"complete", "cancel"},
         archiveAndDelete(u, op)
  PROVE  Lifecycle!Legacy
<1> PICK t \in loadByUUID(db, u) :
           /\ ~t.guarded
           /\ t.revision < MaxRevision
           /\ db' = archiveTask(db, t, terminalState(op), now)
           /\ UNCHANGED <<now, accepted, applied>>
  BY Zenon DEF archiveAndDelete
<1>1. t \in db.live /\ now \in Times /\ terminalState(op) \in TerminalStates
  BY LoadedTask, Zenon DEF IInv, TypeOK, terminalState, TerminalStates
<1> DEFINE a == toArchived(t, terminalState(op), now)
<1>2. a.queue = t.queue /\ a.guarded = t.guarded
  BY Zenon DEF toArchived
<1> HIDE DEF a
<1>3. /\ db'.live = db.live \ {t}
      /\ db'.archived = db.archived \cup {a}
      /\ a.uuid = t.uuid /\ a.revision = t.revision + 1
  BY <1>1, ArchivedStep DEF IInv, a
<1> QED BY <1>1, <1>2, <1>3, ArchiveReplaces, IsLegacy, Zenon

\* The form guarded claims and updates have: the task is moved, the receipt stored.
LEMMA GuardedMoveLives ==
  ASSUME IInv, Remembered, NEW t \in db.live, NEW n \in Task, NEW id \in OperationIds,
         NEW op \in Ops, NEW r, n.uuid = t.uuid, n.revision = t.revision + 1,
         n.queue = t.queue, n.guarded = t.guarded,
         r = OperationRecord(id, op, n, now), loadOperation(db, id, now) = {},
         db' = putOperation(putTask(deleteTask(db, t), n), r),
         Applied(r, now), UNCHANGED <<now, accepted>>
  PROVE  Lifecycle!Guarded
<1>1. n.uuid \in UUIDs /\ n.revision \in 2 .. MaxRevision /\ now \in Times
  BY BoundAssumption DEF Task, IInv, TypeOK, Db
<1>2. r \in Operation /\ r.id = id /\ r.uuid = t.uuid /\ r.revision = t.revision + 1
  BY <1>1, OperationType
<1>3. PICK e : e = putTask(deleteTask(db, t), n)
  BY Zenon
<1>4. e \in Db /\ e.live = (db.live \ {t}) \cup {n} /\ e.archived = db.archived
  BY <1>3, Moved, Zenon
<1>5. db'.live = (db.live \ {t}) \cup {n} /\ db'.archived = db.archived
  BY <1>2, <1>3, <1>4, PutOperation, Zenon
<1>6. /\ lifeOf(t) \in Live(db)
      /\ lifeOf(n) \in Live(db')
      /\ Lifecycle!Replaced(lifeOf(t), lifeOf(n))
  BY <1>5, MoveReplaces, Zenon
<1> QED BY <1>2, <1>6, IsGuarded, Zenon

\* ClaimGuardedTask is one guarded operation.
LEMMA ClaimGuardedTaskLives ==
  ASSUME IInv, Remembered, NEW id \in OperationIds, NEW c \in Claims,
         ClaimGuardedTask(id, c)
  PROVE  Lifecycle!Guarded
<1>1. PICK t, n, r :
             /\ t \in bestHead(db, c, BOOLEAN)
             /\ n = applyGetNext(t, c, now)
             /\ r = OperationRecord(id, "claim", n, now)
             /\ loadOperation(db, id, now) = {}
             /\ t.revision < MaxRevision
             /\ db' = putOperation(putTask(deleteTask(db, t), n), r)
             /\ Applied(r, now)
             /\ UNCHANGED <<now, accepted>>
  BY Zenon DEF ClaimGuardedTask
<1>2. t \in db.live /\ t \in Task /\ now \in Times
  BY <1>1, Zenon DEF bestHead, IInv, TypeOK, Db
<1>3. n \in Task /\ n.uuid = t.uuid /\ n.revision = t.revision + 1
  BY <1>1, <1>2, ClaimedTask, ZenonT(60)
<1>4. n.queue = t.queue /\ n.guarded = t.guarded
  BY <1>1, Zenon DEF applyGetNext
<1> QED BY <1>1, <1>2, <1>3, <1>4, GuardedMoveLives, Zenon DEF Ops

\* UpdateGuardedTask is one guarded operation.
LEMMA UpdateGuardedTaskLives ==
  ASSUME IInv, Remembered, NEW id \in OperationIds, NEW u, NEW q, NEW rev, NEW expected,
         NEW upd \in Updates, UpdateGuardedTask(id, u, q, rev, expected, upd)
  PROVE  Lifecycle!Guarded
<1>1. PICK t, n, r :
             /\ t \in checkGuard(db, u, q, rev, expected)
             /\ n = Updated(t, upd, now)
             /\ r = OperationRecord(id, "update", n, now)
             /\ loadOperation(db, id, now) = {}
             /\ t.revision < MaxRevision
             /\ db' = putOperation(putTask(deleteTask(db, t), n), r)
             /\ Applied(r, now)
             /\ UNCHANGED <<now, accepted>>
  BY Zenon DEF UpdateGuardedTask
<1>2. t \in db.live /\ t \in Task /\ now \in Times
  BY <1>1, GuardedTask, ZenonT(60) DEF IInv, TypeOK, Db
<1>3. n \in Task /\ n.uuid = t.uuid /\ n.revision = t.revision + 1
  BY <1>1, <1>2, UpdatedTask, Zenon
<1>4. n.queue = t.queue /\ n.guarded = t.guarded
  BY <1>1, Zenon DEF Updated
<1> QED BY <1>1, <1>2, <1>3, <1>4, GuardedMoveLives, Zenon DEF Ops

\* FinishGuardedTask is one guarded operation, which finishes the task.
LEMMA FinishGuardedTaskLives ==
  ASSUME IInv, Remembered, NEW id \in OperationIds, NEW op \in {"complete", "cancel"},
         NEW u, NEW q, NEW rev, NEW expected,
         FinishGuardedTask(id, op, u, q, rev, expected)
  PROVE  Lifecycle!Guarded
<1>1. PICK t :
        /\ t \in checkGuard(db, u, q, rev, expected)
        /\ loadOperation(db, id, now) = {}
        /\ t.revision < MaxRevision
        /\ db' = putOperation(archiveTask(db, t, terminalState(op), now),
                    OperationRecord(id, op, toArchived(t, terminalState(op), now), now))
        /\ Applied(OperationRecord(id, op, toArchived(t, terminalState(op), now), now), now)
        /\ UNCHANGED <<now, accepted>>
  BY Zenon DEF FinishGuardedTask
<1> DEFINE a == toArchived(t, terminalState(op), now)
           e == archiveTask(db, t, terminalState(op), now)
           r == OperationRecord(id, op, a, now)
<1>2. terminalState(op) \in TerminalStates /\ op \in Ops
  BY Zenon DEF terminalState, TerminalStates, Ops
<1>3. StoreInv(db) /\ db \in Db /\ now \in Times
  BY Zenon DEF IInv, TypeOK, StoreInv
<1>4. t \in db.live /\ t.revision < MaxRevision
  BY <1>1, <1>3, GuardedTask, ZenonT(60)
<1>5. /\ StoreInv(e)
      /\ e.live = db.live \ {t}
      /\ e.archived = db.archived \cup {a}
      /\ a \in Archived
      /\ a.uuid = t.uuid
      /\ a.revision = t.revision + 1
  BY <1>2, <1>3, <1>4, ArchivedStep
<1>6. a.queue = t.queue /\ a.guarded = t.guarded
  BY Zenon DEF toArchived
<1>7. db' = putOperation(e, r) /\ Applied(r, now) /\ UNCHANGED <<now, accepted>>
  BY <1>1, ZenonT(60)
<1> HIDE DEF a, e
<1>8. a.uuid \in UUIDs /\ a.revision \in 2 .. MaxRevision
  BY <1>5, Zenon DEF Archived
<1>9. /\ r \in Operation
      /\ r.id = id
      /\ r.uuid = a.uuid
      /\ r.revision = a.revision
  BY <1>2, <1>3, <1>8, OperationType
<1> HIDE DEF r
<1>10. r.uuid = t.uuid /\ r.revision = t.revision + 1
  BY <1>5, <1>9, ZenonT(60)
<1>11. e \in Db
  BY <1>5, Zenon DEF StoreInv
<1>12. db'.live = db.live \ {t} /\ db'.archived = db.archived \cup {a}
  BY <1>5, <1>7, <1>9, <1>11, PutOperation, Zenon
<1>13. /\ lifeOf(t) \in Live(db)
       /\ lifeOfArchived(a) \in Finished(db')
       /\ Lifecycle!Replaced(lifeOf(t), lifeOfArchived(a))
  BY <1>4, <1>5, <1>6, <1>12, ArchiveReplaces, Zenon
<1> QED BY <1>1, <1>7, <1>9, <1>10, <1>13, IsGuarded, Zenon

\* CleanUpTimedOut takes leased tasks back, each at its next revision.
LEMMA CleanUpTimedOutLives ==
  ASSUME IInv, NEW q, NEW at \in Cutoffs, CleanUpTimedOut(q, at)
  PROVE  Lifecycle!TimeOut
<1> DEFINE ts == Expired(db, q, at)
           new == {Released(t, now) : t \in ts}
<1>1. ts \in SUBSET db.live /\ \A t \in ts : t.timeout > 0
  BY Zenon DEF Expired, liveTaskValue, timedOut
<1>2. /\ now \in Times
      /\ \A t \in ts : t.revision < MaxRevision
      /\ db' = releaseAll(db, ts, now)
      /\ UNCHANGED <<now, accepted, applied>>
  BY Zenon DEF CleanUpTimedOut, IInv, TypeOK
<1> HIDE DEF ts
<1>3. db \in Db /\ Indexed(db, db.live)
  BY Zenon DEF IInv, StoreInv
<1>4. SameRest(db, db') /\ Indexed(db', (db.live \ ts) \cup new)
  BY <1>1, <1>2, <1>3, ReleaseAll, Zenon
<1>5. /\ db'.live = (db.live \ ts) \cup new
      /\ db'.archived = db.archived
      /\ \A x, y \in db'.live : x.uuid = y.uuid => x = y
  BY <1>4, Zenon DEF SameRest, Indexed
<1>6. \A t \in ts : t.revision \in Nat
  BY <1>1, <1>3 DEF Db, Task
<1>7. ASSUME NEW t \in ts
      PROVE  /\ lifeOf(t) \in Live(db) \ Live(db')
             /\ lifeOf(t).leased
             /\ lifeOf(Released(t, now)) \in Live(db')
             /\ Lifecycle!Follows(lifeOf(Released(t, now)), lifeOf(t))
             /\ ~lifeOf(Released(t, now)).leased
  <2> DEFINE n == Released(t, now)
  <2>1. n.uuid = t.uuid /\ n.queue = t.queue /\ n.guarded = t.guarded
          /\ n.revision = t.revision + 1 /\ n.timeout = 0
    BY Zenon DEF Released
  <2>2. n \in db'.live /\ t \in db.live
    BY <1>1, <1>5, Zenon
  <2> HIDE DEF n
  <2>3. \A x \in db'.live : x.uuid = t.uuid => x.revision # t.revision
    BY <1>5, <1>6, <2>1, <2>2
  <2>4. lifeOf(t) \in Live(db) /\ lifeOf(t) \notin Live(db') /\ lifeOf(n) \in Live(db')
    BY <2>2, <2>3, LifeFields DEF Live
  <2>5. Lifecycle!Follows(lifeOf(n), lifeOf(t))
    BY <2>1, LifeFields, Zenon DEF Lifecycle!Follows
  <2>6. lifeOf(t).leased /\ ~lifeOf(n).leased
    <3>1. t.timeout > 0 /\ ~(n.timeout > 0)
      BY <1>1, <2>1
    <3>2. lifeOf(t).leased = (t.timeout > 0) /\ lifeOf(n).leased = (n.timeout > 0)
      BY LifeFields, Zenon
    <3> QED BY <3>1, <3>2, Zenon
  <2> QED BY <2>4, <2>5, <2>6, Zenon DEF n
<1>8. \A x \in Live(db) \ Live(db') : \E t \in ts : x = lifeOf(t)
  BY <1>5, Zenon DEF Live
<1>9. \A x \in Live(db') \ Live(db) : \E t \in ts : x = lifeOf(Released(t, now))
  BY <1>5, Zenon DEF Live
<1>10. \A x \in Live(db) \ Live(db') :
         x.leased /\ \E n \in Live(db') : Lifecycle!Follows(n, x) /\ ~n.leased
  BY <1>7, <1>8, Zenon
<1>11. \A n \in Live(db') \ Live(db) : \E x \in Live(db) \ Live(db') :
         Lifecycle!Follows(n, x)
  BY <1>7, <1>9, Zenon
<1>12. Finished(db') = Finished(db)
  BY <1>5, Zenon DEF Finished
<1> QED BY <1>2, <1>10, <1>11, <1>12, Zenon DEF Lifecycle!TimeOut, Live, Finished

-----------------------------------------------------------------------------
(* The refinement. *)

\* The empty store is the empty lifecycle.
LEMMA InitLives == Init => Lifecycle!Init
<1> SUFFICES ASSUME Init PROVE Lifecycle!Init
  BY Zenon
<1>1. db.live = {} /\ db.archived = {} /\ now = 0 /\ accepted = {} /\ applied = {}
  BY Zenon DEF Init
<1> QED BY <1>1, Zenon DEF Lifecycle!Init

\* Every step of the store is a step of the lifecycle or a stutter.
LEMMA NextLives ==
  IInv /\ Remembered /\ [Next]_vars => [Lifecycle!Next]_(Lifecycle!lifecycle)
<1> SUFFICES ASSUME IInv, Remembered, [Next]_vars
             PROVE  Lifecycle!Next \/ UNCHANGED (Lifecycle!lifecycle)
  BY Zenon
<1> DEFINE Goal == Lifecycle!Next \/ UNCHANGED (Lifecycle!lifecycle)
<1>1. ASSUME NEW u \in UUIDs, NEW s \in Submits, SubmitTask(u, s) PROVE Goal
  BY <1>1, SubmitTaskLives, Zenon DEF Lifecycle!Next
<1>2. ASSUME NEW u \in UUIDs, NEW s \in Submits, NEW k \in SubmissionKeys,
             SubmitKeyedTask(u, s, k)
      PROVE  Goal
  BY <1>2, SubmitKeyedTaskLives, Zenon DEF Lifecycle!Next
<1>3. ASSUME NEW c \in Claims, GetNextTask(c) PROVE Goal
  BY <1>3, GetNextTaskLives, Zenon DEF Lifecycle!Next
<1>4. ASSUME NEW id \in OperationIds, NEW c \in Claims, ClaimGuardedTask(id, c)
      PROVE  Goal
  BY <1>4, ClaimGuardedTaskLives, Zenon DEF Lifecycle!Next
<1>5. ASSUME NEW u \in UUIDs, NEW upd \in Updates, UpdateTask(u, upd) PROVE Goal
  BY <1>5, UpdateTaskLives, Zenon DEF Lifecycle!Next
<1>6. ASSUME NEW id \in OperationIds, NEW u \in UUIDs, NEW q \in Queues,
             NEW rev \in 1 .. MaxRevision, NEW expected \in States \cup {Unset},
             NEW upd \in Updates, UpdateGuardedTask(id, u, q, rev, expected, upd)
      PROVE  Goal
  BY <1>6, UpdateGuardedTaskLives, Zenon DEF Lifecycle!Next
<1>7. ASSUME NEW u \in UUIDs, NEW op \in {"complete", "cancel"}, archiveAndDelete(u, op)
      PROVE  Goal
  BY <1>7, ArchiveAndDeleteLives, Zenon DEF Lifecycle!Next
<1>8. ASSUME NEW id \in OperationIds, NEW op \in {"complete", "cancel"},
             NEW u \in UUIDs, NEW q \in Queues, NEW rev \in 1 .. MaxRevision,
             NEW expected \in States \cup {Unset},
             FinishGuardedTask(id, op, u, q, rev, expected)
      PROVE  Goal
  BY <1>8, FinishGuardedTaskLives, Zenon DEF Lifecycle!Next
<1>9. ASSUME NEW q \in Queues \cup {Unset}, NEW at \in Cutoffs, CleanUpTimedOut(q, at)
      PROVE  Goal
  BY <1>9, CleanUpTimedOutLives, Zenon DEF Lifecycle!Next
<1>10. ASSUME NEW at \in Times, PurgeExpiredReceipts(at) PROVE Goal
  BY <1>10, PurgeStep, Zenon DEF SameTasks, Lifecycle!lifecycle
<1>11. ASSUME Clock PROVE Goal
  BY <1>11, ClockStep, Zenon DEF Lifecycle!Next, Lifecycle!Clock, Lifecycle!lifecycle
<1>12. ASSUME UNCHANGED vars PROVE Goal
  BY <1>12, Zenon DEF vars, Lifecycle!lifecycle
<1> HIDE DEF Goal
<1>13. Goal
  BY <1>1, <1>2, <1>3, <1>4, <1>5, <1>6, <1>7, <1>8, <1>9, <1>10, <1>11, <1>12, ZenonT(60)
     DEF Next
<1> QED BY <1>13, Zenon DEF Goal

\* With a clock that is not set back, the file store keeps the promises of the
\* lifecycle: every transaction is one step of a task's life.
THEOREM StoreImplementsLifecycle == MonotoneClock => (Spec => ImplementsLifecycle)
<1> SUFFICES ASSUME MonotoneClock PROVE Spec => ImplementsLifecycle
  BY Zenon
<1>1. Spec => []Remembered
  BY AlwaysRemembered, Zenon
<1> QED BY <1>1, InitLives, NextLives, Invariance, PTL
        DEF Spec, ImplementsLifecycle, Lifecycle!Spec
=============================================================================
