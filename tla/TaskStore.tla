------------------------------ MODULE TaskStore ------------------------------
(***************************************************************************)
(* The file-backed task store (store/filestore): live tasks and their      *)
(* three indexes, the archive, the counters, and the receipts of the       *)
(* resilience operations.                                                  *)
(*                                                                         *)
(* The whole database is one record, db.  A bucket is a set of records     *)
(* with a key; putting a record replaces the one with the same key.  Every *)
(* store operation is one bbolt transaction, so it is one action, written  *)
(* as a composition of the helpers the code calls (DeleteTask, PutTask,    *)
(* ArchiveTask, PutOperation ...).                                         *)
(*                                                                         *)
(* accepted and applied are history variables: what the callers of         *)
(* SubmitKeyedTask and of the guarded operations were told had happened.   *)
(***************************************************************************)
EXTENDS Integers, FiniteSets

CONSTANTS
  UUIDs,           \* task ids; uuid.NewRandom picks an unused one
  Queues, States,  \* names of queues and of task states
  SubmissionKeys, OperationIds,   \* ids the clients choose
  Submits,         \* contents of submit requests
  Claims,          \* contents of claim requests
  Updates,         \* contents of update requests
  Unset,           \* an absent optional field of a request
  DefaultTimeout,  \* config.DefaultTimeout, in units of the clock
  Retention,       \* config.ReceiptRetention, in units of the clock
  PurgeLimit,      \* receiptPurgeBatch
  MonotoneClock,   \* FALSE: the wall clock may also be set back
  IntRange,        \* int64 is -IntRange .. IntRange - 1 (2^63 units of the clock)
  MaxTime,         \* bound on the clock
  MaxRevision      \* bound on the revisions a task goes through

VARIABLES db, now, accepted, applied

vars == <<db, now, accepted, applied>>

Times == 0 .. MaxTime

\* The at_time of a CleanUpTimedOut request, which its caller chooses.
Cutoffs == 0 .. MaxTime + 1

SubmitType == [queue : Queues, state : States, auto : States, timeout : Int,
               priority : Int, guarded : BOOLEAN]
ClaimType == [queues : SUBSET Queues, state : States, timeout : Int,
              toState : States \cup {Unset}, toAuto : States \cup {Unset}]
UpdateType == [state : States, auto : States, timeout : Int,
               priority : Int \cup {Unset}]

TerminalStates == {"completed", "canceled"}

ASSUME RequestAssumption ==
  /\ Submits \subseteq SubmitType
  /\ Claims \subseteq ClaimType
  /\ Updates \subseteq UpdateType
  /\ Unset \notin States \cup Queues \cup Int

ASSUME BoundAssumption ==
  /\ DefaultTimeout \in Nat
  /\ Retention \in Nat \ {0}
  /\ PurgeLimit \in Nat \ {0}
  /\ MonotoneClock \in BOOLEAN
  /\ IntRange \in Nat \ {0}
  /\ MaxTime \in Nat
  /\ MaxRevision \in Nat \ {0}

-----------------------------------------------------------------------------
(* Tasks, their keys and the buckets (task.go, order.go, counts.go). *)

Task == [uuid : UUIDs, queue : Queues, state : States, auto : States,
         updateTime : Times, timeout : Int, priority : Int,
         revision : 1 .. MaxRevision, guarded : BOOLEAN]

\* encodeTaskKey: the ordered primary key, which also names the task's queue,
\* state and position in the queue.
TaskKey(t) ==
  [queue |-> t.queue, state |-> t.state, priority |-> t.priority,
   time |-> t.updateTime, uuid |-> t.uuid]

Keys == [queue : Queues, state : States, priority : Int, time : Times,
         uuid : UUIDs]

\* taskBucket: guarded tasks have a bucket of their own.
Slot(t) == <<t.guarded, TaskKey(t)>>

\* The sum of a large timeout wraps around.
taskDeadline(t) == ((t.updateTime + t.timeout + IntRange) % (2 * IntRange)) - IntRange

timedOut(t, at) == t.timeout > 0 /\ taskDeadline(t) < at

DeadlineEntry(t) == [at |-> taskDeadline(t), key |-> TaskKey(t)]

\* What a scan of the tasks S counts for a (queue, state) pair (rebuildCounts).
CountAt(S, k) == Cardinality({t \in S : <<t.queue, t.state>> = k})

\* adjustCount: the counter of (queue, state); it is deleted (0) rather than
\* made negative.
adjustCount(c, t, delta) ==
  [c EXCEPT ![<<t.queue, t.state>>] = IF @ + delta <= 0 THEN 0 ELSE @ + delta]

putTask(d, t) ==
  [d EXCEPT
    !.live = {x \in @ : Slot(x) # Slot(t)} \cup {t},
    !.counts = IF \E x \in d.live : Slot(x) = Slot(t)
                 THEN @ ELSE adjustCount(@, t, 1),
    !.byUUID = {k \in @ : k.uuid # t.uuid} \cup {TaskKey(t)},
    !.deadlines = IF t.timeout > 0
                    THEN {e \in @ : <<e.at, e.key.uuid>> # <<taskDeadline(t), t.uuid>>}
                           \cup {DeadlineEntry(t)}
                    ELSE @]

\* Mutants of deleteTask: the deadline entry stays; the counter stays.
deleteTask_KeepsDeadline(d, t) ==
  [d EXCEPT
    !.live = {x \in @ : Slot(x) # Slot(t)},
    !.counts = adjustCount(@, t, -1),
    !.byUUID = {k \in @ : k.uuid # t.uuid}]

deleteTask_KeepsCount(d, t) ==
  [d EXCEPT
    !.live = {x \in @ : Slot(x) # Slot(t)},
    !.byUUID = {k \in @ : k.uuid # t.uuid},
    !.deadlines = {e \in @ : <<e.at, e.key.uuid>> # <<taskDeadline(t), t.uuid>>}]

deleteTask(d, t) ==
  [d EXCEPT
    !.live = {x \in @ : Slot(x) # Slot(t)},
    !.counts = IF \E x \in d.live : Slot(x) = Slot(t)
                 THEN adjustCount(@, t, -1) ELSE @,
    !.byUUID = {k \in @ : k.uuid # t.uuid},
    !.deadlines = IF t.timeout > 0
                    THEN {e \in @ : <<e.at, e.key.uuid>> # <<taskDeadline(t), t.uuid>>}
                    ELSE @]

putPayload(d, u) == [d EXCEPT !.payloads = @ \cup {u}]

\* liveTaskValue: the tasks bucket first, then the guarded one.  At most one
\* task; the empty set when there is none.
liveTaskValue(d, key) ==
  LET at == {x \in d.live : TaskKey(x) = key}
  IN  IF \E x \in at : ~x.guarded THEN {x \in at : ~x.guarded} ELSE at

loadByUUID(d, u) ==
  UNION {liveTaskValue(d, k) : k \in {k \in d.byUUID : k.uuid = u}}

\* Archiving is a mutation: the record has the next revision.
toArchived(t, terminal, time) ==
  [uuid |-> t.uuid, queue |-> t.queue, state |-> terminal, updateTime |-> time,
   revision |-> t.revision + 1, guarded |-> t.guarded]

putArchived(d, a) ==
  [d EXCEPT !.archived = {x \in @ : x.uuid # a.uuid} \cup {a}]

deletePayload(d, u) == [d EXCEPT !.payloads = @ \ {u}]

\* archiveTask: the archive record, then the task, then its payload.
archiveTask(d, t, terminal, time) ==
  deletePayload(deleteTask(putArchived(d, toArchived(t, terminal, time)), t), t.uuid)

-----------------------------------------------------------------------------
(* Receipts (guards.go). *)

Kinds == {"submission", "operation"}
Ops == {"claim", "update", "complete", "cancel"}

terminalState(op) == IF op = "cancel" THEN "canceled" ELSE "completed"

\* The expiry index: one entry per receipt that was ever stored and not purged.
ExpiryEntry(kind, id, at) == [at |-> at, kind |-> kind, id |-> id]

loadSubmission(d, q, k, time) ==
  {r \in d.submissions : r.queue = q /\ r.key = k /\ r.expiresAt > time}

loadOperation(d, id, time) ==
  {r \in d.operations : r.id = id /\ r.expiresAt > time}

putSubmission(d, r) ==
  [d EXCEPT
    !.submissions = {x \in @ : <<x.queue, x.key>> # <<r.queue, r.key>>} \cup {r},
    !.expiry = @ \cup {ExpiryEntry("submission", <<r.queue, r.key>>, r.expiresAt)}]

\* Mutant of putOperation: the receipt is not entered in the expiry index.
putOperation_NotIndexed(d, r) ==
  [d EXCEPT !.operations = {x \in @ : x.id # r.id} \cup {r}]

putOperation(d, r) ==
  [d EXCEPT
    !.operations = {x \in @ : x.id # r.id} \cup {r},
    !.expiry = @ \cup {ExpiryEntry("operation", r.id, r.expiresAt)}]

\* The receipt of a guarded operation that left task t (live or archived).  Its
\* digest is left out: it decides which answer a repeated request gets, and none
\* of these answers changes the store.
OperationRecord(id, op, t, time) ==
  [id |-> id, op |-> op, uuid |-> t.uuid, revision |-> t.revision,
   expiresAt |-> time + Retention]

Applied(r, time) == applied' = applied \cup
  {[id |-> r.id, op |-> r.op, uuid |-> r.uuid, revision |-> r.revision,
    at |-> time]}

-----------------------------------------------------------------------------
(* Submissions. *)

\* applySubmitDefaults: 0 asks for the default timeout, a negative one for none.
submitTimeout(x) == IF x = 0 THEN DefaultTimeout ELSE IF x < 0 THEN 0 ELSE x

NewTask(u, s, time) ==
  [uuid |-> u, queue |-> s.queue, state |-> s.state, auto |-> s.auto,
   updateTime |-> time, timeout |-> submitTimeout(s.timeout),
   priority |-> s.priority, revision |-> 1, guarded |-> s.guarded]

\* uuid.NewRandom never returns an id that is in use.
Unused(u) == u \notin {x.uuid : x \in db.live \cup db.archived}

SubmitTask(u, s) ==
  /\ Unused(u)
  /\ ~s.guarded
  /\ db' = putTask(putPayload(db, u), NewTask(u, s, now))
  /\ UNCHANGED <<now, accepted, applied>>

\* A key with an unexpired receipt is answered from the receipt (same digest)
\* or refused (another digest), and neither changes the store.
SubmitKeyedTask(u, s, k) ==
  LET t == NewTask(u, s, now)
      rec == [queue |-> s.queue, key |-> k, uuid |-> u,
              expiresAt |-> now + Retention]
  IN  /\ Unused(u)
      /\ loadSubmission(db, s.queue, k, now) = {}
      /\ db' = putSubmission(putTask(putPayload(db, u), t), rec)
      /\ accepted' = accepted \cup
           {[queue |-> s.queue, key |-> k, uuid |-> u, at |-> now]}
      /\ UNCHANGED <<now, applied>>

-----------------------------------------------------------------------------
(* Claims. *)

\* betterCandidate, without the last tie-break on the (random) uuid.
betterCandidate(a, b) ==
  \/ a.priority > b.priority
  \/ a.priority = b.priority /\ a.updateTime < b.updateTime

\* bestHead: the first task of the claimed queues in the dequeue order.
bestHead(d, c, buckets) ==
  LET cand == {t \in d.live : /\ t.queue \in c.queues
                              /\ t.state = c.state
                              /\ t.guarded \in buckets}
  IN  {t \in cand : \A x \in cand : ~betterCandidate(x, t)}

\* Mutant of applyGetNext: an absent override is applied as if it were set.
applyGetNext_BlankOverride(t, c, time) ==
  [t EXCEPT !.state = c.toState, !.auto = t.state, !.updateTime = time,
            !.revision = @ + 1]

\* applyGetNext, and the new revision.
applyGetNext(t, c, time) ==
  [uuid |-> t.uuid, queue |-> t.queue,
   state |-> IF c.toState # Unset THEN c.toState ELSE t.auto,
   auto |-> IF c.toAuto # Unset THEN c.toAuto ELSE t.state,
   updateTime |-> time,
   timeout |-> IF c.timeout < 0 THEN 0
               ELSE IF c.timeout # 0 THEN c.timeout ELSE t.timeout,
   priority |-> t.priority, revision |-> t.revision + 1, guarded |-> t.guarded]

\* A legacy claim, of one queue or of a group; it never sees guarded tasks.
GetNextTask(c) ==
  \E t \in bestHead(db, c, {FALSE}) :
    /\ t.uuid \in db.payloads
    /\ t.revision < MaxRevision
    /\ db' = putTask(deleteTask(db, t), applyGetNext(t, c, now))
    /\ UNCHANGED <<now, accepted, applied>>

\* Mutant of replayedClaim: the revision is not compared.
replayedClaim_AnyRevision(d, id, time) ==
  {t \in d.live : \E r \in loadOperation(d, id, time) :
     r.op = "claim" /\ t \in loadByUUID(d, r.uuid)}

\* The delivery a claim returns again when it is repeated: the task, while no
\* later mutation has changed its revision.
replayedClaim(d, id, time) ==
  {t \in d.live : \E r \in loadOperation(d, id, time) :
     r.op = "claim" /\ t \in loadByUUID(d, r.uuid) /\ t.revision = r.revision}

\* An operation id with an unexpired receipt claims nothing: the caller gets the
\* same delivery again, a "claim superseded" or a conflict.  An empty claim
\* leaves no receipt.
ClaimGuardedTask(id, c) ==
  \E t \in bestHead(db, c, BOOLEAN) :
    LET claimed == applyGetNext(t, c, now)
        rec == OperationRecord(id, "claim", claimed, now)
    IN  /\ loadOperation(db, id, now) = {}
        /\ t.uuid \in db.payloads
        /\ t.revision < MaxRevision
        /\ db' = putOperation(putTask(deleteTask(db, t), claimed), rec)
        /\ Applied(rec, now)
        /\ UNCHANGED <<now, accepted>>

-----------------------------------------------------------------------------
(* Updates, completion and cancellation. *)

\* Mutant of Updated: the revision is not incremented.
Updated_SameRevision(t, u, time) ==
  [t EXCEPT !.state = u.state, !.auto = u.auto, !.timeout = u.timeout,
            !.updateTime = time]

Updated(t, u, time) ==
  [uuid |-> t.uuid, queue |-> t.queue, state |-> u.state, auto |-> u.auto,
   updateTime |-> time, timeout |-> u.timeout,
   priority |-> IF u.priority # Unset THEN u.priority ELSE t.priority,
   revision |-> t.revision + 1, guarded |-> t.guarded]

\* checkGuard: the live task, if queue, revision and expected state match.
checkGuard(d, u, q, rev, expected) ==
  {t \in loadByUUID(d, u) : /\ t.queue = q
                            /\ t.revision = rev
                            /\ expected \in {Unset, t.state}}

\* Mutants of UpdateTask: the old key is computed after the fields have changed;
\* a guarded task is not refused.
UpdateTask_LateKey(u, upd) ==
  \E t \in loadByUUID(db, u) :
    LET new == Updated(t, upd, now)
    IN  /\ ~t.guarded
        /\ t.revision < MaxRevision
        /\ db' = putTask(deleteTask(db, new), new)
        /\ UNCHANGED <<now, accepted, applied>>

UpdateTask_AlsoGuarded(u, upd) ==
  \E t \in loadByUUID(db, u) :
    /\ t.revision < MaxRevision
    /\ db' = putTask(deleteTask(db, t), Updated(t, upd, now))
    /\ UNCHANGED <<now, accepted, applied>>

UpdateTask(u, upd) ==
  \E t \in loadByUUID(db, u) :
    /\ ~t.guarded
    /\ t.revision < MaxRevision
    /\ db' = putTask(deleteTask(db, t), Updated(t, upd, now))
    /\ UNCHANGED <<now, accepted, applied>>

UpdateGuardedTask(id, u, q, rev, expected, upd) ==
  \E t \in checkGuard(db, u, q, rev, expected) :
    LET new == Updated(t, upd, now)
        rec == OperationRecord(id, "update", new, now)
    IN  /\ loadOperation(db, id, now) = {}
        /\ t.revision < MaxRevision
        /\ db' = putOperation(putTask(deleteTask(db, t), new), rec)
        /\ Applied(rec, now)
        /\ UNCHANGED <<now, accepted>>

\* CompleteTask and CancelTask.
archiveAndDelete(u, op) ==
  \E t \in loadByUUID(db, u) :
    /\ ~t.guarded
    /\ t.revision < MaxRevision
    /\ db' = archiveTask(db, t, terminalState(op), now)
    /\ UNCHANGED <<now, accepted, applied>>

\* CompleteGuardedTask and CancelGuardedTask.
FinishGuardedTask(id, op, u, q, rev, expected) ==
  \E t \in checkGuard(db, u, q, rev, expected) :
    LET done == toArchived(t, terminalState(op), now)
        rec == OperationRecord(id, op, done, now)
    IN  /\ loadOperation(db, id, now) = {}
        /\ t.revision < MaxRevision
        /\ db' = putOperation(archiveTask(db, t, terminalState(op), now), rec)
        /\ Applied(rec, now)
        /\ UNCHANGED <<now, accepted>>

-----------------------------------------------------------------------------
(* Timeouts, purging and the clock. *)

\* The tasks CleanUpTimedOut collects: the deadline index up to at, without
\* entries that no longer describe their task, in one queue or (Unset) in all.
Expired(d, q, at) ==
  {t \in UNION {liveTaskValue(d, e.key) : e \in {e \in d.deadlines : e.at < at}} :
     /\ \E e \in d.deadlines : e.at < at /\ e = DeadlineEntry(t)
     /\ timedOut(t, at)
     /\ q \in {Unset, t.queue}}

\* Mutant of Released: the released claim keeps its revision.
Released_SameRevision(t, time) ==
  [t EXCEPT !.state = t.auto, !.auto = t.state, !.timeout = 0,
            !.updateTime = time]

Released(t, time) ==
  [uuid |-> t.uuid, queue |-> t.queue, state |-> t.auto, auto |-> t.state,
   updateTime |-> time, timeout |-> 0, priority |-> t.priority,
   revision |-> t.revision + 1, guarded |-> t.guarded]

\* Mutant of releaseAll: the counter of the old state is not taken down.
releaseAll_CountsUp(d, ts, time) ==
  LET new == {Released(t, time) : t \in ts}
  IN  [d EXCEPT
        !.live = (@ \ ts) \cup new,
        !.counts = [k \in DOMAIN @ |-> @[k] + CountAt(new, k)],
        !.byUUID = {k \in @ : k.uuid \notin {t.uuid : t \in ts}}
                     \cup {TaskKey(t) : t \in new},
        !.deadlines = {e \in @ : e.key.uuid \notin {t.uuid : t \in ts}}]

\* The loop over the collected tasks: each is deleted under its old key and put
\* under its new one.  No two of them share a key, so the loop is written as one
\* change of each bucket.
releaseAll(d, ts, time) ==
  LET new == {Released(t, time) : t \in ts}
  IN  [d EXCEPT
        !.live = {x \in @ : Slot(x) \notin {Slot(t) : t \in ts \cup new}} \cup new,
        !.counts = [k \in DOMAIN @ |-> @[k] - CountAt(ts, k) + CountAt(new, k)],
        !.byUUID = {k \in @ : k.uuid \notin {t.uuid : t \in ts}}
                     \cup {TaskKey(t) : t \in new},
        !.deadlines = {e \in @ : \A t \in ts :
                         <<e.at, e.key.uuid>> # <<taskDeadline(t), t.uuid>>}]

CleanUpTimedOut(q, at) ==
  LET ts == Expired(db, q, at)
  IN  /\ ts # {}
      /\ \A t \in ts : t.revision < MaxRevision
      /\ db' = releaseAll(db, ts, now)
      /\ UNCHANGED <<now, accepted, applied>>

\* The receipt an index entry names, if it still has the entry's expiry.
SameReceipt(e, r, kind, id) == e = ExpiryEntry(kind, id, r.expiresAt)

\* Mutants of purge: the record is deleted whatever its expiry; the record is
\* kept when it expires exactly at the entry's time.
purge_AnyExpiry(d, es) ==
  [d EXCEPT
    !.submissions = {r \in @ : \A e \in es : e.id # <<r.queue, r.key>>},
    !.operations = {r \in @ : \A e \in es : e.id # r.id},
    !.expiry = @ \ es]

purge_StrictExpiry(d, es) ==
  [d EXCEPT
    !.submissions = {r \in @ : \A e \in es :
                       ~(e.id = <<r.queue, r.key>> /\ r.expiresAt < e.at)},
    !.operations = {r \in @ : \A e \in es :
                      ~(e.id = r.id /\ r.expiresAt < e.at)},
    !.expiry = @ \ es]

purge(d, es) ==
  [d EXCEPT
    !.submissions = {r \in @ : \A e \in es :
                       ~SameReceipt(e, r, "submission", <<r.queue, r.key>>)},
    !.operations = {r \in @ : \A e \in es :
                      ~SameReceipt(e, r, "operation", r.id)},
    !.expiry = @ \ es]

\* purgeExpiredReceipts reads the clock before it calls the store.
PurgeTimes == IF MonotoneClock THEN 0 .. now ELSE Times

\* The first PurgeLimit entries of the index that expired by at.  The order of
\* entries with one expiry time is left open.
PurgeExpiredReceipts(at) ==
  LET due == {e \in db.expiry : e.at <= at}
  IN  \E es \in SUBSET due :
        /\ at \in PurgeTimes
        /\ es # {}
        /\ Cardinality(es) =
             IF Cardinality(due) < PurgeLimit THEN Cardinality(due) ELSE PurgeLimit
        /\ \A e \in es, f \in due \ es : e.at <= f.at
        /\ db' = purge(db, es)
        /\ UNCHANGED <<now, accepted, applied>>

Clock ==
  /\ now' \in IF MonotoneClock THEN Times \cap {now + 1} ELSE Times \ {now}
  /\ UNCHANGED <<db, accepted, applied>>

-----------------------------------------------------------------------------
Init ==
  /\ db = [live |-> {}, byUUID |-> {}, deadlines |-> {}, payloads |-> {},
           archived |-> {}, counts |-> [k \in Queues \X States |-> 0],
           submissions |-> {}, operations |-> {}, expiry |-> {}]
  /\ now = 0
  /\ accepted = {}
  /\ applied = {}

Next ==
  \/ \E u \in UUIDs, s \in Submits : SubmitTask(u, s)
  \/ \E u \in UUIDs, s \in Submits, k \in SubmissionKeys : SubmitKeyedTask(u, s, k)
  \/ \E c \in Claims : GetNextTask(c)
  \/ \E id \in OperationIds, c \in Claims : ClaimGuardedTask(id, c)
  \/ \E u \in UUIDs, upd \in Updates : UpdateTask(u, upd)
  \/ \E id \in OperationIds, u \in UUIDs, q \in Queues, rev \in 1 .. MaxRevision,
        expected \in States \cup {Unset}, upd \in Updates :
       UpdateGuardedTask(id, u, q, rev, expected, upd)
  \/ \E u \in UUIDs, op \in {"complete", "cancel"} : archiveAndDelete(u, op)
  \/ \E id \in OperationIds, op \in {"complete", "cancel"}, u \in UUIDs,
        q \in Queues, rev \in 1 .. MaxRevision, expected \in States \cup {Unset} :
       FinishGuardedTask(id, op, u, q, rev, expected)
  \/ \E q \in Queues \cup {Unset}, at \in Cutoffs : CleanUpTimedOut(q, at)
  \/ \E at \in Times : PurgeExpiredReceipts(at)
  \/ Clock

Spec == Init /\ [][Next]_vars

\* The purge ticker of receipts.go runs for ever.
FairSpec == Spec /\ WF_vars(PurgeExpiredReceipts(now))

-----------------------------------------------------------------------------
(* Types. *)

Archived == [uuid : UUIDs, queue : Queues, state : TerminalStates,
             updateTime : Times, revision : 2 .. MaxRevision, guarded : BOOLEAN]
Submission == [queue : Queues, key : SubmissionKeys, uuid : UUIDs, expiresAt : Int]
Operation == [id : OperationIds, op : Ops, uuid : UUIDs,
              revision : 2 .. MaxRevision, expiresAt : Int]
Expiry == [at : Int, kind : Kinds,
           id : (Queues \X SubmissionKeys) \cup OperationIds]
Db == [live : SUBSET Task, byUUID : SUBSET Keys,
       deadlines : SUBSET [at : Int, key : Keys], payloads : SUBSET UUIDs,
       archived : SUBSET Archived, counts : [Queues \X States -> Nat],
       submissions : SUBSET Submission, operations : SUBSET Operation,
       expiry : SUBSET Expiry]

\* The buckets hold records of their types (no operation writes an unset state,
\* a negative count or a revision it skipped), and so do the histories.
TypeOK ==
  /\ db \in Db
  /\ now \in Times
  /\ accepted \subseteq [queue : Queues, key : SubmissionKeys, uuid : UUIDs,
                         at : Times]
  /\ applied \subseteq [id : OperationIds, op : Ops, uuid : UUIDs,
                        revision : 2 .. MaxRevision, at : Times]

-----------------------------------------------------------------------------
(* Safety. *)

\* Every operation moves a task from its old key to its new one (deleteTask
\* before the fields change, putTask after): the uuid index, the deadline index
\* and the payload bucket describe exactly the live tasks, so no live task
\* escapes loadByUUID, CleanUpTimedOut or loadPayload.
IndexesMatchTasks ==
  /\ db.byUUID = {TaskKey(t) : t \in db.live}
  /\ db.deadlines = {DeadlineEntry(t) : t \in {x \in db.live : x.timeout > 0}}
  /\ db.payloads = {t.uuid : t \in db.live}

\* A uuid names one task: never two live records (in either live bucket), and
\* never a live and an archived one, whatever claims, timeouts and completions
\* happened to it.
OneTaskPerUUID ==
  /\ \A s, t \in db.live : s.uuid = t.uuid => s = t
  /\ \A a, b \in db.archived : a.uuid = b.uuid => a = b
  /\ \A t \in db.live, a \in db.archived : t.uuid # a.uuid

\* The counters that the metric operations read (adjustCount) agree with a scan
\* of the live tasks, as rebuildCounts would compute it.
CountsMatchTasks ==
  \A k \in Queues \X States : db.counts[k] = CountAt(db.live, k)

\* Every stored receipt has its entry in the expiry index, so purging reaches
\* it, also after a later request replaced an expired receipt of the same id.
ReceiptsIndexed ==
  /\ \A r \in db.submissions :
       ExpiryEntry("submission", <<r.queue, r.key>>, r.expiresAt) \in db.expiry
  /\ \A r \in db.operations :
       ExpiryEntry("operation", r.id, r.expiresAt) \in db.expiry

\* A submission key creates one task within the retention of its receipt, in
\* spite of repeated requests, expiry and purging (SubmitKeyedTask,
\* PurgeExpiredReceipts).
KeyAcceptedOnce ==
  \A a, b \in accepted :
    a.queue = b.queue /\ a.key = b.key /\ a.uuid # b.uuid
      => a.at + Retention <= b.at \/ b.at + Retention <= a.at

\* A guarded operation takes effect once within the retention of its receipt,
\* whatever its kind and however often it is repeated (replayOperation).
OperationAppliedOnce ==
  \A a, b \in applied :
    a.id = b.id /\ a # b => a.at + Retention <= b.at \/ b.at + Retention <= a.at

\* A revision of a task is the work of one operation: two workers that saw the
\* same revision cannot both change the task (checkGuard, Revision++).
OneOperationPerRevision ==
  \A a, b \in applied : a.uuid = b.uuid /\ a.revision = b.revision => a = b

\* Two operation ids never hold a claim on the same task: repeating an earlier
\* claim never hands out a task that was timed out and claimed again.
SingleHolder ==
  \A i, j \in OperationIds :
    replayedClaim(db, i, now) \cap replayedClaim(db, j, now) # {} => i = j

-----------------------------------------------------------------------------
(* Steps. *)

\* No task is lost and no change goes unnumbered: a live task that changes is
\* live or archived at the next revision, and the archive is never rewritten.
TasksAdvance ==
  [][/\ db.archived \subseteq db'.archived
     /\ \A t \in db.live \ db'.live :
          \E x \in db'.live \cup db'.archived :
            x.uuid = t.uuid /\ x.revision = t.revision + 1]_vars

\* A guarded task changes only by an operation that leaves its receipt, or by
\* the release of a claim whose timeout was set: a legacy client never changes it.
GuardedChangesHaveReceipts ==
  [][\A t \in db.live \ db'.live : t.guarded =>
       \/ \E r \in db'.operations \ db.operations :
            r.uuid = t.uuid /\ r.revision = t.revision + 1
       \/ t.timeout > 0 /\ Released(t, now) \in db'.live]_vars

-----------------------------------------------------------------------------
(* Refinement. *)

\* A task as the callers of a store know it (module TaskLifecycle).
lifeOf(t) ==
  [uuid |-> t.uuid, queue |-> t.queue, guarded |-> t.guarded,
   leased |-> t.timeout > 0, revision |-> t.revision]
lifeOfArchived(a) ==
  [uuid |-> a.uuid, queue |-> a.queue, guarded |-> a.guarded, leased |-> FALSE,
   revision |-> a.revision]

Lifecycle == INSTANCE TaskLifecycle WITH
  live <- {lifeOf(t) : t \in db.live},
  finished <- {lifeOfArchived(a) : a \in db.archived}

\* The file store implements the lifecycle every store promises: each of its
\* transactions is one step of a task's life, or changes nothing of it.
ImplementsLifecycle == Lifecycle!Spec

-----------------------------------------------------------------------------
(* Liveness. *)

\* An expired receipt does not stay: the purge ticker removes it, or a new
\* request with the same id replaces it, even when each purge is cut off at its
\* limit and old index entries are in the way.
ExpiredReceiptsLeave ==
  /\ \A q \in Queues, k \in SubmissionKeys :
       LET stale == \E r \in db.submissions :
                      r.queue = q /\ r.key = k /\ r.expiresAt <= now
       IN  stale ~> ~stale
  /\ \A id \in OperationIds :
       LET stale == \E r \in db.operations : r.id = id /\ r.expiresAt <= now
       IN  stale ~> ~stale
=============================================================================
