--------------------------- MODULE PostgresStore ---------------------------
(***************************************************************************)
(* The PostgreSQL task store (store/postgresstore): every operation is a   *)
(* transaction of several SQL statements, and the transactions of many     *)
(* sessions interleave.                                                    *)
(*                                                                         *)
(* tasks, archived, submissions and operations are the committed rows.     *)
(* The isolation level is READ COMMITTED: a statement sees what was        *)
(* committed when it ran.  A statement that needs the lock of a row waits  *)
(* (is not enabled) while another transaction holds it, and then sees the  *)
(* newest version of the row.  Locks are held until the transaction ends;  *)
(* what it wrote is published by Commit, or dropped by Abort.              *)
(*                                                                         *)
(* A request stands for its digest: two requests are the same when they    *)
(* are equal.                                                              *)
(***************************************************************************)
EXTENDS Integers, FiniteSets

CONSTANTS
  Sessions,        \* connections, each with one transaction at a time
  UUIDs,           \* task ids; uuid.NewRandom picks an unused one
  Submits,         \* contents of SubmitTask requests
  Requests,        \* the other requests, as records with an op
  Unset,           \* an absent optional field of a request
  Retention,       \* config.ReceiptRetention, in units of the clock
  PurgeLimit,      \* receiptPurgeBatch
  MaxRaces,        \* maxReceiptRaceRetries
  IntRange,        \* bigint is -IntRange .. IntRange - 1
  MaxTime,         \* bound on the clock
  MaxRevision      \* bound on the revisions a task goes through

ASSUME PostgresAssumption ==
  /\ Retention \in Nat \ {0}
  /\ {PurgeLimit, MaxRaces, IntRange} \subseteq Nat \ {0}
  /\ {MaxTime, MaxRevision} \subseteq Nat

\* The pool has finitely many connections, and a request about one task names it.
ASSUME RequestAssumption ==
  /\ IsFiniteSet(Sessions)
  /\ \A r \in Requests :
       r.op \in {"get", "guardedUpdate", "guardedComplete", "guardedCancel"} =>
         "uuid" \in DOMAIN r

VARIABLES
  tasks, archived, submissions, operations,   \* committed rows
  tx,          \* what each session is doing
  now,
  accepted, applied,   \* keyed submissions and guarded operations that committed
  missed       \* tasks that existed when a lookup began, which found nothing

tables == <<tasks, archived, submissions, operations>>
history == <<accepted, applied, missed>>
vars == <<tasks, archived, submissions, operations, tx, now, accepted, applied, missed>>

-----------------------------------------------------------------------------
(* Rows (models/task.go) and requests. *)

NewTask(u, s, guarded, time) ==
  [uuid |-> u, queue |-> s.queue, state |-> s.state, auto |-> s.auto,
   updateTime |-> time, timeout |-> s.timeout, priority |-> s.priority,
   revision |-> 1, guarded |-> guarded]

\* The columns of a claim, with its overrides.
Claimed(t, c, time) ==
  [t EXCEPT !.state = IF c.toState # Unset THEN c.toState ELSE t.auto,
            !.auto = IF c.toAuto # Unset THEN c.toAuto ELSE c.from,
            !.timeout = IF c.timeout < 0 THEN 0
                        ELSE IF c.timeout # 0 THEN c.timeout ELSE @,
            !.updateTime = time, !.revision = @ + 1]

Updated(t, r, time) ==
  [t EXCEPT !.state = r.state, !.auto = r.auto, !.timeout = r.timeout,
            !.priority = IF r.priority # Unset THEN r.priority ELSE @,
            !.updateTime = time, !.revision = @ + 1]

\* The UPDATE of CleanUpTimedOut; gorm sets update_time.
Released(t, time) ==
  [t EXCEPT !.state = t.auto, !.auto = t.state, !.timeout = 0,
            !.updateTime = time, !.revision = @ + 1]

ConvertTaskForArchive(t, terminal) ==
  [uuid |-> t.uuid, queue |-> t.queue, state |-> terminal,
   revision |-> t.revision + 1, guarded |-> t.guarded]

\* Guarded requests name an operation id; the others of these change a task too.
GuardedOps == {"claim", "guardedUpdate", "guardedComplete", "guardedCancel"}
FinishingOps == {"complete", "cancel", "guardedComplete", "guardedCancel"}
terminalState(op) == IF op \in {"cancel", "guardedCancel"} THEN "canceled" ELSE "completed"

rowOf(u) == {t \in tasks : t.uuid = u}

\* Random ids are never used twice, by committed or by running transactions.
Unused(u) ==
  /\ u \notin {t.uuid : t \in tasks \cup archived}
  /\ \A s \in Sessions : u \notin {t.uuid : t \in tx[s].rows}

-----------------------------------------------------------------------------
(* Sessions and locks. *)

\* rows and archive: the versions the transaction writes; receipt: the receipt it
\* stores; todo: what its current statement or lookup still has to visit.
Idle ==
  [pc |-> "idle", req |-> Unset, at |-> 0, tries |-> 0, locks |-> {}, rows |-> {},
   archive |-> {}, receipt |-> {}, todo |-> {}]

TaskLock(u) == <<"task", u>>
KeyLock(r) == <<"key", r.queue, r.key>>
OperationLock(id) == <<"operation", id>>

Locked(l, s) == \E r \in Sessions \ {s} : l \in tx[r].locks

at(s, pc) == tx[s].pc = pc

\* A request names only tasks that its client was told of.
known(r) == "uuid" \in DOMAIN r => r.uuid \in {t.uuid : t \in tasks \cup archived}

\* The transaction of s goes on as x, or ends without having changed anything.
continue(s, x) == tx' = [tx EXCEPT ![s] = x] /\ UNCHANGED <<tables, now, history>>
end(s) == continue(s, Idle)

\* The first statement of a request that notes the time before it.
firstStatement(op) ==
  CASE op = "keyed" -> "insertKey"
    [] op = "claim" -> "loadOperation"
    [] op \in GuardedOps \ {"claim"} -> "lockTaskRow"

begin(r, tries) ==
  [Idle EXCEPT !.pc = firstStatement(r.op), !.req = r, !.at = now, !.tries = tries]

\* A transaction of the receipt retry loop (guards.go) notes its time and starts.
Begin(s, r) ==
  /\ at(s, "idle")
  /\ r.op \in GuardedOps \cup {"keyed"}
  /\ known(r)
  /\ continue(s, begin(r, 1))

\* The first statement of any other request, whose wait shows nowhere else.
First(s, r, op) ==
  /\ at(s, "idle")
  /\ r.op = op
  /\ known(r)

\* withReceiptRetry after errReceiptRace: the transaction rolls back and runs again.
race(s) ==
  IF tx[s].tries < MaxRaces THEN continue(s, begin(tx[s].req, tx[s].tries + 1)) ELSE end(s)

\* The transaction has locked the row t and changes it as its request says.
hold(x, t, time, pc) ==
  LET r == x.req
      finishes == r.op \in FinishingOps
  IN  [x EXCEPT
        !.pc = pc,
        !.locks = @ \cup {TaskLock(t.uuid)},
        !.rows = IF finishes THEN {}
                 ELSE {IF r.op \in {"next", "claim"} THEN Claimed(t, r, time)
                       ELSE Updated(t, r, time)},
        !.archive = IF finishes THEN {ConvertTaskForArchive(t, terminalState(r.op))}
                    ELSE {}]

\* The commit publishes everything at once and releases the locks.
Commit(s) ==
  LET x == tx[s]
      r == x.req
  IN  /\ at(s, "commit")
      /\ tasks' = {t \in tasks : TaskLock(t.uuid) \notin x.locks} \cup x.rows
      /\ archived' = archived \cup x.archive
      /\ IF r.op = "keyed"
           THEN /\ submissions' = {y \in submissions : KeyLock(y) # KeyLock(r)} \cup x.receipt
                /\ accepted' = accepted \cup
                     {[queue |-> r.queue, key |-> r.key, uuid |-> y.uuid, at |-> x.at]
                        : y \in x.receipt}
           ELSE UNCHANGED <<submissions, accepted>>
      /\ IF r.op \in GuardedOps
           THEN /\ operations' = {y \in operations : y.id # r.id} \cup x.receipt
                /\ applied' = applied \cup
                     {[id |-> r.id, uuid |-> y.uuid, revision |-> y.revision, at |-> x.at]
                        : y \in x.receipt}
           ELSE UNCHANGED <<operations, applied>>
      /\ tx' = [tx EXCEPT ![s] = Idle]
      /\ UNCHANGED <<now, missed>>

\* A connection breaks, a context is cancelled, PostgreSQL picks the transaction to
\* resolve a deadlock: it is rolled back at any point.
Abort(s) ==
  /\ ~at(s, "idle")
  /\ end(s)

-----------------------------------------------------------------------------
(* Legacy operations (postgresstore.go). *)

SubmitTask(u, m) ==
  /\ Unused(u)
  /\ tasks' = tasks \cup {NewTask(u, m, FALSE, now)}
  /\ UNCHANGED <<archived, submissions, operations, tx, now, history>>

\* Mutant of candidates: rows that others have locked are not skipped.
candidates_AlsoLocked(s, r) ==
  {t \in tasks : /\ t.queue \in r.queues /\ t.state = r.from
                 /\ r.op = "next" => ~t.guarded}

\* The rows of a claim that nobody has locked.
candidates(s, r) ==
  {t \in tasks : /\ t.queue \in r.queues /\ t.state = r.from
                 /\ r.op = "next" => ~t.guarded
                 /\ ~Locked(TaskLock(t.uuid), s)}

\* ORDER BY priority DESC, update_time ASC LIMIT 1
best(ts) ==
  {t \in ts : \A x \in ts : \/ t.priority > x.priority
                            \/ t.priority = x.priority /\ t.updateTime <= x.updateTime}

\* SELECT ... FOR UPDATE SKIP LOCKED, in the transaction x.
selectNext(s, x, time, pc) ==
  \/ candidates(s, x.req) = {} /\ end(s)
  \/ \E t \in best(candidates(s, x.req)) :
       /\ t.revision < MaxRevision
       /\ continue(s, hold(x, t, time, pc))

\* GetNextTask and GetNextTaskGroup
GetNextTask(s, r) ==
  /\ First(s, r, "next")
  /\ selectNext(s, [Idle EXCEPT !.req = r], now, "commit")

\* UpdateTask, CompleteTask, CancelTask: SELECT ... FOR UPDATE of one row.
LockRow(s, r) ==
  LET free == {t \in rowOf(r.uuid) : ~t.guarded}
  IN  /\ \E op \in {"update", "complete", "cancel"} : First(s, r, op)
      /\ ~Locked(TaskLock(r.uuid), s)
      /\ \/ free = {} /\ end(s)
         \/ \E t \in free :
              /\ t.revision < MaxRevision
              /\ continue(s, hold([Idle EXCEPT !.req = r], t, now, "commit"))

\* A sum that is no bigint fails the statement.
overflows(t) == t.timeout > 0 /\ t.updateTime + t.timeout >= IntRange

due(t, r) ==
  /\ t.timeout > 0
  /\ t.updateTime + t.timeout < r.before
  /\ r.queue \in {Unset, t.queue}

\* CleanUpTimedOut is one UPDATE.  It finds its rows ...
CleanUpTimedOut(s, r) ==
  /\ First(s, r, "cleanup")
  /\ IF \E t \in tasks : overflows(t) THEN end(s)
     ELSE continue(s, [Idle EXCEPT
            !.pc = "sweep", !.req = r, !.at = now,
            !.todo = {t.uuid : t \in {t \in tasks : due(t, r)}}])

\* ... and then waits for the lock of each, and changes it if it still matches.  A
\* row that no longer does stays as it is, and stays locked.
Sweep(s) ==
  LET x == tx[s]
      rest(u) == [x EXCEPT !.todo = @ \ {u}, !.pc = IF x.todo = {u} THEN "commit" ELSE @]
  IN  /\ at(s, "sweep")
      /\ \/ x.todo = {} /\ end(s)
         \/ \E u \in x.todo :
              /\ ~Locked(TaskLock(u), s)
              /\ \A t \in rowOf(u) : t.revision < MaxRevision
              /\ IF \E t \in rowOf(u) : overflows(t) THEN end(s)
                 ELSE continue(s, [rest(u) EXCEPT
                        !.rows = @ \cup {IF due(t, x.req) THEN Released(t, x.at) ELSE t
                                           : t \in rowOf(u)},
                        !.locks = @ \cup {TaskLock(t.uuid) : t \in rowOf(u)}])

-----------------------------------------------------------------------------
(* Keyed submissions and guarded operations (guards.go). *)

liveKey(r, time) == {y \in submissions : KeyLock(y) = KeyLock(r) /\ y.expiresAt > time}
liveOperation(id, time) == {y \in operations : y.id = id /\ y.expiresAt > time}

\* SubmitKeyedTask, INSERT ... ON CONFLICT DO UPDATE WHERE expires_at <= now: it
\* waits for the key, and locks the receipt it does not replace.
InsertKey(s) ==
  LET x == tx[s]
      r == x.req
  IN  /\ at(s, "insertKey")
      /\ ~Locked(KeyLock(r), s)
      /\ IF liveKey(r, x.at) # {}
           THEN continue(s, [x EXCEPT !.pc = "readKey", !.locks = @ \cup {KeyLock(r)}])
           ELSE \E u \in UUIDs :
                  /\ Unused(u)
                  /\ continue(s, [x EXCEPT
                       !.pc = "commit",
                       !.locks = @ \cup {KeyLock(r)},
                       !.rows = {NewTask(u, r, r.guarded, x.at)},
                       !.receipt = {[queue |-> r.queue, key |-> r.key, digest |-> r,
                                     uuid |-> u, expiresAt |-> x.at + Retention]}])

\* The receipt in the way: gone, of another request, or the one to answer with.
ReadKey(s) ==
  LET x == tx[s]
      found == {y \in submissions : KeyLock(y) = KeyLock(x.req)}
  IN  /\ at(s, "readKey")
      /\ IF found = {} THEN race(s)
         ELSE \E y \in found :
                IF y.digest # x.req THEN end(s)
                ELSE continue(s, [x EXCEPT !.pc = "view", !.todo = {y.uuid}])

\* Mutants of lockTaskRow: it locks nothing; it locks the operation id instead.
lockTaskRow_NoLock(s) ==
  /\ at(s, "lockTaskRow")
  /\ continue(s, [tx[s] EXCEPT !.pc = "loadOperation"])
lockTaskRow_LocksId(s) ==
  /\ at(s, "lockTaskRow")
  /\ ~Locked(OperationLock(tx[s].req.id), s)
  /\ continue(s, [tx[s] EXCEPT !.pc = "loadOperation",
                               !.locks = {OperationLock(tx[s].req.id)}])

\* lockTaskRow: FOR UPDATE of the task of a guarded update or finish, if it is live.
lockTaskRow(s) ==
  LET x == tx[s]
      u == x.req.uuid
  IN  /\ at(s, "lockTaskRow")
      /\ ~Locked(TaskLock(u), s)
      /\ continue(s, [x EXCEPT !.pc = "loadOperation",
                               !.locks = {TaskLock(t.uuid) : t \in rowOf(u)}])

\* loadOperation, replayLocked: a live receipt answers the request (the same one
\* again, or another one, refused), and changes nothing.
LoadOperation(s) ==
  LET x == tx[s]
      claim == x.req.op = "claim"
  IN  /\ at(s, "loadOperation")
      /\ IF liveOperation(x.req.id, x.at) # {} THEN end(s)
         ELSE continue(s, [x EXCEPT !.pc = IF claim THEN "select" ELSE "lockGuarded"])

ClaimGuardedTask(s) ==
  /\ at(s, "select")
  /\ selectNext(s, tx[s], tx[s].at, "storeOperation")

\* lockGuarded: the row again, which must match queue, revision and state.
LockGuarded(s) ==
  LET x == tx[s]
      r == x.req
      ts == {t \in rowOf(r.uuid) : /\ t.queue = r.queue /\ t.revision = r.revision
                                   /\ r.expected \in {Unset, t.state}}
  IN  /\ at(s, "lockGuarded")
      /\ ~Locked(TaskLock(r.uuid), s)
      /\ \/ ts = {} /\ end(s)
         \/ \E t \in ts : /\ t.revision < MaxRevision
                          /\ continue(s, hold(x, t, x.at, "storeOperation"))

\* storeOperation: waits for the id; a live receipt is a race that was lost.
StoreOperation(s) ==
  LET x == tx[s]
      id == x.req.id
  IN  /\ at(s, "storeOperation")
      /\ ~Locked(OperationLock(id), s)
      /\ \/ liveOperation(id, x.at) # {} /\ race(s)
         \/ /\ liveOperation(id, x.at) = {}
            /\ \E t \in x.rows \cup x.archive :
                 continue(s, [x EXCEPT
                   !.pc = "commit",
                   !.locks = @ \cup {OperationLock(id)},
                   !.receipt = {[id |-> id, digest |-> x.req, uuid |-> t.uuid,
                                 revision |-> t.revision, expiresAt |-> x.at + Retention]}])

-----------------------------------------------------------------------------
(* Lookups and the purge. *)

LookupSubmission(s, r) ==
  /\ First(s, r, "lookup")
  /\ IF liveKey(r, now) = {} THEN end(s)
     ELSE \E y \in liveKey(r, now) :
            continue(s, [Idle EXCEPT !.pc = "view", !.req = r, !.todo = {y.uuid}])

\* Mutant of viewTable: the archive is read first.
viewTable_ArchivedFirst(n) == IF n = 1 THEN archived ELSE tasks

\* currentView, MustGetTaskStateByID: the live rows are read first.
viewTable(n) == IF n = 1 THEN tasks ELSE archived

seen(x, n) == x.todo \cap {t.uuid : t \in viewTable(n)} # {}

viewFirst(s, x) == IF seen(x, 1) THEN end(s) ELSE continue(s, [x EXCEPT !.pc = "viewSecond"])

ViewFirst(s) ==
  /\ at(s, "view")
  /\ viewFirst(s, tx[s])

ViewSecond(s) ==
  LET x == tx[s]
  IN  /\ at(s, "viewSecond")
      /\ missed' = IF seen(x, 2) THEN missed ELSE missed \cup x.todo
      /\ tx' = [tx EXCEPT ![s] = Idle]
      /\ UNCHANGED <<tables, now, accepted, applied>>

\* MustGetTaskStateByID and GetGuardedTask
GetTask(s, r) ==
  /\ First(s, r, "get")
  /\ viewFirst(s, [Idle EXCEPT !.req = r, !.todo = {r.uuid}])

\* Some rows that have expired, at most PurgeLimit of them.
batches(rows, time) ==
  LET old == {y \in rows : y.expiresAt <= time}
  IN  {b \in SUBSET old : IF Cardinality(old) <= PurgeLimit THEN b = old
                          ELSE Cardinality(b) = PurgeLimit}

\* PurgeExpiredReceipts: two DELETE statements, each its own transaction.  One finds
\* its rows, waits for their locks, and deletes those that are still the same.
PurgeExpiredReceipts(s, r) ==
  /\ First(s, r, "purge")
  /\ \E b \in batches(submissions, now) :
       continue(s, [Idle EXCEPT !.pc = "deleteKeys", !.req = r, !.at = now, !.todo = b])

FindOperations(s) ==
  /\ at(s, "findOperations")
  /\ \E b \in batches(operations, tx[s].at) :
       continue(s, [tx[s] EXCEPT !.pc = "deleteOperations", !.todo = b])

DeleteKeys(s) ==
  LET x == tx[s]
  IN  /\ at(s, "deleteKeys")
      /\ \A y \in x.todo : ~Locked(KeyLock(y), s)
      /\ submissions' = submissions \ x.todo
      /\ tx' = [tx EXCEPT ![s].pc = "findOperations", ![s].todo = {}]
      /\ UNCHANGED <<tasks, archived, operations, now, history>>

DeleteOperations(s) ==
  LET x == tx[s]
  IN  /\ at(s, "deleteOperations")
      /\ \A y \in x.todo : ~Locked(OperationLock(y.id), s)
      /\ operations' = operations \ x.todo
      /\ tx' = [tx EXCEPT ![s] = Idle]
      /\ UNCHANGED <<tasks, archived, submissions, now, history>>

Clock ==
  /\ now < MaxTime
  /\ now' = now + 1
  /\ UNCHANGED <<tables, tx, history>>

-----------------------------------------------------------------------------
Init ==
  /\ tasks = {} /\ archived = {} /\ submissions = {} /\ operations = {}
  /\ tx = [s \in Sessions |-> Idle]
  /\ now = 0
  /\ accepted = {} /\ applied = {} /\ missed = {}

Request(s, r) ==
  \/ Begin(s, r) \/ GetNextTask(s, r) \/ LockRow(s, r) \/ CleanUpTimedOut(s, r)
  \/ LookupSubmission(s, r) \/ GetTask(s, r) \/ PurgeExpiredReceipts(s, r)

Statement(s) ==
  \/ Sweep(s) \/ InsertKey(s) \/ ReadKey(s) \/ lockTaskRow(s) \/ LoadOperation(s)
  \/ ClaimGuardedTask(s) \/ LockGuarded(s) \/ StoreOperation(s) \/ ViewFirst(s)
  \/ ViewSecond(s) \/ DeleteKeys(s) \/ FindOperations(s) \/ DeleteOperations(s)

Next ==
  \/ \E u \in UUIDs, m \in Submits : SubmitTask(u, m)
  \/ \E s \in Sessions, r \in Requests : Request(s, r)
  \/ \E s \in Sessions : Statement(s)
  \/ \E s \in Sessions : Commit(s)
  \/ \E s \in Sessions : Abort(s)
  \/ Clock

Spec == Init /\ [][Next]_vars

-----------------------------------------------------------------------------
(* Waiting. *)

\* The locks the next statement of s waits for.
wanted(s) ==
  LET x == tx[s]
  IN  CASE x.pc \in {"lockTaskRow", "lockGuarded"} -> {TaskLock(x.req.uuid)}
        [] x.pc = "sweep" -> {TaskLock(u) : u \in x.todo}
        [] x.pc = "insertKey" -> {KeyLock(x.req)}
        [] x.pc = "storeOperation" -> {OperationLock(x.req.id)}
        [] x.pc = "deleteKeys" -> {KeyLock(y) : y \in x.todo}
        [] x.pc = "deleteOperations" -> {OperationLock(y.id) : y \in x.todo}
        [] OTHER -> {}

\* The sessions in S wait for each other.
Deadlock(S) ==
  /\ S # {}
  /\ \A s \in S : \E r \in S \ {s} : wanted(s) \cap tx[r].locks # {}

-----------------------------------------------------------------------------
(* Properties. *)

lifeOf(t) ==
  [uuid |-> t.uuid, queue |-> t.queue, guarded |-> t.guarded,
   leased |-> t.timeout > 0, revision |-> t.revision]
lifeOfArchived(a) ==
  [uuid |-> a.uuid, queue |-> a.queue, guarded |-> a.guarded, leased |-> FALSE,
   revision |-> a.revision]

Lifecycle == INSTANCE TaskLifecycle WITH
  live <- {lifeOf(t) : t \in tasks},
  finished <- {lifeOfArchived(a) : a \in archived}

\* Whatever the interleaving of its statements, a transaction takes effect as one
\* step of the lifecycle that the file store implements too: no claim is handed to
\* two workers, no change is lost, no id or key takes effect twice in a retention.
ImplementsLifecycle == Lifecycle!Spec

\* guards.go (replayLocked): a request that reaches its guards, which may refuse it,
\* is not one that was already applied; a concurrent identical request that
\* committed first is seen, and answered again.
IdenticalIsReplayed ==
  \A s \in Sessions, y \in operations :
    at(s, "lockGuarded") /\ y.digest = tx[s].req => y.expiresAt <= tx[s].at

\* A lookup always finds a task that existed when it began, in spite of its two
\* reads and of a completion between them (currentView, MustGetTaskStateByID).
LookupFinds == missed = {}

\* Transactions take the lock of a task before that of a receipt, so none wait for
\* each other; only two timeout sweeps, which lock many tasks, can.
OnlySweepsDeadlock ==
  \A S \in SUBSET Sessions :
    Deadlock(S) => Cardinality({s \in S : tx[s].req.op = "cleanup"}) > 1
=============================================================================
