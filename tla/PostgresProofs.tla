--------------------------- MODULE PostgresProofs ---------------------------
(***************************************************************************)
(* Proofs about the PostgreSQL store, for any number of sessions, tasks,   *)
(* requests and retries and any clock: lookups find, identical requests    *)
(* are replayed, only sweeps can wait for each other, and the store        *)
(* implements TaskLifecycle.                                               *)
(*                                                                         *)
(* They rest on one invariant, TxInv: what a transaction holds and has     *)
(* written at each of its statements, and that the committed rows it is    *)
(* based on are still there.                                               *)
(***************************************************************************)
EXTENDS PostgresStore, TLAPS

Ids == {t.uuid : t \in tasks \cup archived}
ArchivedIds == {a.uuid : a \in archived}

\* Records with the columns of a task, and with the fields of a session.
Columns ==
  {"uuid", "queue", "state", "auto", "updateTime", "timeout", "priority", "revision",
   "guarded"}
Fields ==
  {"pc", "req", "at", "tries", "locks", "rows", "archive", "receipt", "todo"}
IsTask(t) == t = [c \in Columns |-> t[c]]
IsTx(x) == x = [f \in Fields |-> x[f]]

\* The row or archived task n is t after one mutation.
Moves(n, t) ==
  n.uuid = t.uuid /\ n.queue = t.queue /\ n.guarded = t.guarded /\ n.revision = t.revision + 1

TaskOps == GuardedOps \ {"claim"}
LegacyOps == {"next", "update", "complete", "cancel"}
Held(x) == {t \in tasks : TaskLock(t.uuid) \in x.locks}
Unwritten(x) == x.rows = {} /\ x.archive = {} /\ x.receipt = {}

-----------------------------------------------------------------------------
(* The phases of a transaction. *)

\* It holds nothing.
Waiting(x) ==
  /\ x.pc \in {"idle", "insertKey", "lockTaskRow", "loadOperation", "select",
               "deleteKeys", "findOperations", "deleteOperations"}
  /\ x.locks = {}
  /\ Unwritten(x)
  /\ x.pc = "insertKey" => x.req.op = "keyed"
  /\ x.pc = "lockTaskRow" => x.req.op \in TaskOps /\ x.req.uuid \in Ids
  /\ x.pc \in {"loadOperation", "select"} => x.req.op = "claim"
  /\ x.pc \in {"deleteKeys", "deleteOperations"} => \A y \in x.todo : y.expiresAt <= x.at

\* It holds the row of its task, or the task is not live and never will be again; it
\* has not missed a receipt of its own request.
Guarding(x) ==
  /\ x.pc \in {"loadOperation", "lockGuarded"}
  /\ x.req.op \in TaskOps
  /\ x.req.uuid \in Ids
  /\ x.locks = {TaskLock(t.uuid) : t \in rowOf(x.req.uuid)}
  /\ Unwritten(x)
  /\ x.pc = "lockGuarded" => \A y \in operations : y.digest = x.req => y.expiresAt <= x.at

\* It looks for a task that exists, which is in the archive when it is not live.
Looking(x) ==
  /\ x.pc \in {"readKey", "view", "viewSecond"}
  /\ \A l \in x.locks : l = KeyLock(x.req)
  /\ Unwritten(x)
  /\ x.pc = "readKey" => x.req.op = "keyed"
  /\ x.pc # "readKey" => x.todo # {} /\ x.todo \subseteq Ids
  /\ x.pc = "viewSecond" => x.todo \subseteq ArchivedIds

\* A sweep has written the rows it holds.
Swept(t, x) == IF due(t, x.req) THEN Released(t, x.at) ELSE t
Sweeping(x) ==
  /\ x.pc \in {"sweep", "commit"}
  /\ x.req.op = "cleanup"
  /\ x.locks = {TaskLock(t.uuid) : t \in Held(x)}
  /\ x.rows = {Swept(t, x) : t \in Held(x)}
  /\ x.archive = {}
  /\ x.receipt = {}

\* One row t is held and changed.
Changed(x, t) ==
  \/ x.archive = {} /\ \E n \in x.rows : x.rows = {n} /\ IsTask(n) /\ Moves(n, t)
  \/ x.rows = {} /\ \E a \in x.archive : x.archive = {a} /\ Moves(a, t)

LegacyChange(x, t) ==
  /\ x.pc = "commit"
  /\ x.req.op \in LegacyOps
  /\ ~t.guarded
  /\ x.locks = {TaskLock(t.uuid)}

GuardedChange(x, t) ==
  /\ x.pc = "storeOperation"
  /\ x.locks = {TaskLock(t.uuid)}

OperationReceipt(x, t) ==
  [id |-> x.req.id, digest |-> x.req, uuid |-> t.uuid, revision |-> t.revision + 1,
   expiresAt |-> x.at + Retention]

\* With the receipt, while its id is held and no live receipt has it.
StoredChange(x, t) ==
  /\ x.pc = "commit"
  /\ x.locks = {TaskLock(t.uuid), OperationLock(x.req.id)}
  /\ x.receipt = {OperationReceipt(x, t)}
  /\ liveOperation(x.req.id, x.at) = {}

OfTask(r, t) == r.op \in GuardedOps /\ (r.op \in TaskOps => t.uuid = r.uuid)

Changing(x) ==
  \E t \in tasks :
    /\ Changed(x, t)
    /\ \/ LegacyChange(x, t)
       \/ OfTask(x.req, t) /\ (GuardedChange(x, t) \/ StoredChange(x, t))

SubmissionReceipt(x, n) ==
  [queue |-> x.req.queue, key |-> x.req.key, digest |-> x.req, uuid |-> n.uuid,
   expiresAt |-> x.at + Retention]

\* A new task, while its key is held and no live receipt has it.
Submitting(x) ==
  /\ x.pc = "commit"
  /\ x.req.op = "keyed"
  /\ x.archive = {}
  /\ x.locks = {KeyLock(x.req)}
  /\ liveKey(x.req, x.at) = {}
  /\ \E n \in x.rows :
       /\ x.rows = {n}
       /\ IsTask(n)
       /\ n.revision = 1 /\ n.queue = x.req.queue
       /\ n.uuid \notin Ids
       /\ x.receipt = {SubmissionReceipt(x, n)}

TxInv(x) ==
  /\ IsTx(x)
  /\ x.at \in Nat /\ x.at <= now
  /\ Waiting(x) \/ Guarding(x) \/ Looking(x) \/ Sweeping(x) \/ Changing(x) \/ Submitting(x)

-----------------------------------------------------------------------------
(* The committed rows. *)

\* A task is live once or archived; receipts are of tasks that exist.
RowInv ==
  /\ \A t \in tasks : IsTask(t)
  /\ \A t, v \in tasks : t.uuid = v.uuid => t = v
  /\ \A t \in tasks : t.uuid \notin ArchivedIds
  /\ \A y \in submissions : y.uuid \in Ids /\ y.expiresAt \in Nat
  /\ \A y \in operations : y.id = y.digest.id /\ y.expiresAt \in Nat

\* A key or id that took effect has a receipt until its retention has passed.
ReceiptInv ==
  /\ \A a \in accepted :
       /\ a.at \in Nat
       /\ \/ a.at + Retention <= now
          \/ \E y \in submissions : KeyLock(y) = KeyLock(a) /\ y.expiresAt >= a.at + Retention
  /\ \A o \in applied :
       /\ o.at \in Nat
       /\ \/ o.at + Retention <= now
          \/ \E y \in operations : y.id = o.id /\ y.expiresAt >= o.at + Retention

\* Transactions hold different locks and write different tasks.
Apart(x, z) ==
  /\ x.locks \cap z.locks = {}
  /\ \A n \in x.rows, m \in z.rows : n.uuid # m.uuid

IInv ==
  /\ now \in Nat
  /\ RowInv
  /\ ReceiptInv
  /\ tx = [s \in Sessions |-> tx[s]]
  /\ \A s \in Sessions : TxInv(tx[s])
  /\ \A s, r \in Sessions : s # r => Apart(tx[s], tx[r])
  /\ LookupFinds

-----------------------------------------------------------------------------
(* Locks and rows. *)

\* Locks of different kinds differ, and a task's lock tells its uuid.
LEMMA LockKinds ==
  /\ \A u, v : TaskLock(u) = TaskLock(v) => u = v
  /\ \A u, r : TaskLock(u) # KeyLock(r)
  /\ \A u, id : TaskLock(u) # OperationLock(id)
  /\ \A r, id : KeyLock(r) # OperationLock(id)
  /\ \A i, j : OperationLock(i) = OperationLock(j) => i = j
  BY Zenon DEF TaskLock, KeyLock, OperationLock

\* The lock of a key tells its queue and key.
LEMMA KeyLockFields ==
  \A r, y : KeyLock(r) = KeyLock(y) <=> r.queue = y.queue /\ r.key = y.key
  BY Zenon DEF KeyLock

\* A claim, an update and a timeout keep the task and add a revision.
LEMMA Mutations ==
  ASSUME NEW t, IsTask(t), NEW r, NEW time
  PROVE  /\ IsTask(Claimed(t, r, time)) /\ Moves(Claimed(t, r, time), t)
         /\ IsTask(Updated(t, r, time)) /\ Moves(Updated(t, r, time), t)
         /\ IsTask(Released(t, time)) /\ Moves(Released(t, time), t)
         /\ Released(t, time).timeout = 0
<1>0. IsTask(Claimed(t, r, time))
  BY ZenonT(60) DEF IsTask, Columns, Claimed
<1>1. IsTask(Updated(t, r, time)) /\ IsTask(Released(t, time))
  BY ZenonT(60) DEF IsTask, Columns, Updated, Released
<1>2. Moves(Claimed(t, r, time), t)
  BY Zenon DEF IsTask, Columns, Moves, Claimed
<1>3. Moves(Updated(t, r, time), t)
  BY Zenon DEF IsTask, Columns, Moves, Updated
<1>4. Moves(Released(t, time), t) /\ Released(t, time).timeout = 0
  BY Zenon DEF IsTask, Columns, Moves, Released
<1> QED BY <1>0, <1>1, <1>2, <1>3, <1>4, Zenon

\* So do the archive and a sweep.
LEMMA ArchiveMoves ==
  \A t, terminal : Moves(ConvertTaskForArchive(t, terminal), t)
  BY Zenon DEF Moves, ConvertTaskForArchive

\* A sweep writes a row back as it is, or releases its lease.
LEMMA SweptRow ==
  ASSUME NEW t, IsTask(t), NEW x
  PROVE  /\ IsTask(Swept(t, x)) /\ Swept(t, x).uuid = t.uuid
         /\ Swept(t, x) # t => Moves(Swept(t, x), t) /\ t.timeout > 0 /\ Swept(t, x).timeout = 0
<1>1. CASE due(t, x.req)
  BY <1>1, Mutations, Zenon DEF Swept, Moves, due
<1>2. CASE ~due(t, x.req)
  BY <1>2, Zenon DEF Swept
<1> QED BY <1>1, <1>2, Zenon

\* The fields of a session after an assignment to one or several of them.
LEMMA IdleTx == IsTx(Idle) /\ Waiting(Idle)
  BY Zenon DEF IsTx, Fields, Idle, Waiting, Unwritten

-----------------------------------------------------------------------------
(* What a transaction holds and writes. *)

\* The statement a transaction is at tells its phase.
LEMMA Phase ==
  ASSUME NEW x, TxInv(x)
  PROVE  /\ x.pc \in {"idle", "insertKey", "lockTaskRow", "select", "deleteKeys",
                      "findOperations", "deleteOperations"} => Waiting(x)
         /\ x.pc = "loadOperation" => Waiting(x) \/ Guarding(x)
         /\ x.pc = "lockGuarded" => Guarding(x)
         /\ x.pc \in {"readKey", "view", "viewSecond"} => Looking(x)
         /\ x.pc = "sweep" => Sweeping(x)
         /\ x.pc = "storeOperation" => Changing(x)
         /\ x.pc = "commit" => Sweeping(x) \/ Changing(x) \/ Submitting(x)
<1>1. /\ Waiting(x) => x.pc \in {"idle", "insertKey", "lockTaskRow", "loadOperation",
                    "select", "deleteKeys", "findOperations", "deleteOperations"}
      /\ Guarding(x) => x.pc \in {"loadOperation", "lockGuarded"}
      /\ Looking(x) => x.pc \in {"readKey", "view", "viewSecond"}
      /\ Sweeping(x) => x.pc \in {"sweep", "commit"}
      /\ Submitting(x) => x.pc = "commit"
  BY Zenon DEF Waiting, Guarding, Looking, Sweeping, Submitting
<1>2. Changing(x) => x.pc \in {"storeOperation", "commit"}
  BY Zenon DEF Changing, LegacyChange, GuardedChange, StoredChange
<1>3. Waiting(x) \/ Guarding(x) \/ Looking(x) \/ Sweeping(x) \/ Changing(x) \/ Submitting(x)
  BY Zenon DEF TxInv
<1> QED BY <1>1, <1>2, <1>3, Zenon

\* A locked row is there.
LEMMA HeldIsThere ==
  ASSUME NEW x, TxInv(x), NEW u, TaskLock(u) \in x.locks
  PROVE  \E t \in tasks : t.uuid = u
<1>1. CASE Waiting(x)
  BY <1>1, Zenon DEF Waiting
<1>2. CASE Guarding(x)
  BY <1>2, LockKinds, Zenon DEF Guarding, rowOf
<1>3. CASE Looking(x)
  BY <1>3, LockKinds, Zenon DEF Looking
<1>4. CASE Sweeping(x)
  BY <1>4, LockKinds, Zenon DEF Sweeping, Held
<1>5. CASE Changing(x)
  BY <1>5, LockKinds DEF Changing, LegacyChange, GuardedChange, StoredChange
<1>6. CASE Submitting(x)
  BY <1>6, LockKinds, Zenon DEF Submitting
<1> QED BY <1>1, <1>2, <1>3, <1>4, <1>5, <1>6, Zenon DEF TxInv

\* A written row is a task, of a locked row or of a new id, and there is one for an id.
LEMMA Written ==
  ASSUME RowInv, NEW x, TxInv(x)
  PROVE  /\ \A n \in x.rows : IsTask(n) /\ (TaskLock(n.uuid) \in x.locks \/ n.uuid \notin Ids)
         /\ \A n, m \in x.rows : n.uuid = m.uuid => n = m
         /\ \A a \in x.archive : TaskLock(a.uuid) \in x.locks /\ x.rows = {}
<1>1. CASE Waiting(x)
  BY <1>1, Zenon DEF Waiting, Unwritten
<1>2. CASE Guarding(x)
  BY <1>2, Zenon DEF Guarding, Unwritten
<1>3. CASE Looking(x)
  BY <1>3, Zenon DEF Looking, Unwritten
<1>4. CASE Sweeping(x)
  <2>1. \A n \in x.rows : \E t \in tasks : n = Swept(t, x) /\ TaskLock(t.uuid) \in x.locks
    BY <1>4, Zenon DEF Sweeping, Held
  <2>2. \A t \in tasks : IsTask(Swept(t, x)) /\ Swept(t, x).uuid = t.uuid
    BY SweptRow, Zenon DEF RowInv
  <2>3. \A t, v \in tasks : t.uuid = v.uuid => t = v
    BY Zenon DEF RowInv
  <2>4. x.archive = {}
    BY <1>4, Zenon DEF Sweeping
  <2> QED BY <2>1, <2>2, <2>3, <2>4
<1>5. CASE Changing(x)
  <2>1. PICK t \in tasks : Changed(x, t) /\ TaskLock(t.uuid) \in x.locks
    BY <1>5, Zenon DEF Changing, LegacyChange, GuardedChange, StoredChange
  <2> QED BY <2>1, Zenon DEF Changed, Moves
<1>6. CASE Submitting(x)
  BY <1>6, Zenon DEF Submitting
<1> QED BY <1>1, <1>2, <1>3, <1>4, <1>5, <1>6, Zenon DEF TxInv

\* Before it commits, a transaction has a new version of every row it locked.
LEMMA WroteAll ==
  ASSUME RowInv, NEW x, TxInv(x), x.pc = "commit", NEW u, TaskLock(u) \in x.locks
  PROVE  \E n \in x.rows \cup x.archive : n.uuid = u
<1>1. CASE Sweeping(x)
  <2>1. PICK t \in Held(x) : u = t.uuid
    BY <1>1, LockKinds, Zenon DEF Sweeping
  <2>2. Swept(t, x) \in x.rows /\ Swept(t, x).uuid = u
    BY <1>1, <2>1, SweptRow, Zenon DEF Sweeping, Held, RowInv
  <2> QED BY <2>2, Zenon
<1>2. CASE Changing(x)
  <2>1. PICK t \in tasks : Changed(x, t) /\ u = t.uuid
    BY <1>2, LockKinds DEF Changing, LegacyChange, GuardedChange, StoredChange
  <2> QED BY <2>1, Zenon DEF Changed, Moves
<1>3. CASE Submitting(x)
  BY <1>3, LockKinds, Zenon DEF Submitting
<1> QED BY <1>1, <1>2, <1>3, Phase, Zenon

-----------------------------------------------------------------------------
(* What others may do meanwhile. *)

\* A step of others, as the transaction x sees it: rows that it has locked, and those
\* that are gone, stay as they are; ids are not taken and not forgotten; no receipt
\* appears under a key or id that it has locked.
Environment(x) ==
  /\ now' \in Nat /\ now' >= now
  /\ Ids \subseteq Ids' /\ ArchivedIds \subseteq ArchivedIds'
  /\ \A u \in Ids : TaskLock(u) \in x.locks \/ rowOf(u) = {} => rowOf(u)' = rowOf(u)
  /\ \A n \in x.rows : n.uuid \notin Ids => n.uuid \notin Ids'
  /\ \A y \in submissions' : y \in submissions \/ KeyLock(y) \notin x.locks
  /\ \A y \in operations' :
       \/ y \in operations
       \/ OperationLock(y.id) \notin x.locks /\ (x.pc = "lockGuarded" => y.digest # x.req)

\* The live rows have ids.
LEMMA LiveIds == \A t \in tasks : t.uuid \in Ids
  BY Zenon DEF Ids

\* A transaction that holds nothing keeps its phase, whatever others do.
LEMMA WaitingKept ==
  ASSUME NEW x, Waiting(x), Environment(x) PROVE Waiting(x)'
  BY Zenon DEF Waiting, Environment, Unwritten

\* So does a lookup: a task that exists goes on existing, and an archived one stays.
LEMMA LookingKept ==
  ASSUME NEW x, Looking(x), Environment(x) PROVE Looking(x)'
<1>1. Ids \subseteq Ids' /\ ArchivedIds \subseteq ArchivedIds'
  BY Zenon DEF Environment
<1> QED BY <1>1, Zenon DEF Looking, Unwritten

\* So does one that holds the row of its task, which nobody else can change.
LEMMA GuardingKept ==
  ASSUME NEW x, Guarding(x), Environment(x) PROVE Guarding(x)'
<1> DEFINE u == x.req.uuid
<1>1. u \in Ids /\ u \in Ids'
  BY Zenon DEF Guarding, Environment
<1>2. rowOf(u)' = rowOf(u)
  <2>1. CASE rowOf(u) = {}
    BY <1>1, <2>1, Zenon DEF Environment
  <2>2. CASE rowOf(u) # {}
    <3>1. PICK t : t \in rowOf(u)
      BY <2>2, Zenon
    <3>2. TaskLock(u) \in x.locks
      BY <3>1 DEF Guarding, rowOf
    <3> QED BY <1>1, <3>2, Zenon DEF Environment
  <2> QED BY <2>1, <2>2, Zenon
<1>3. x.pc = "lockGuarded" => \A y \in operations' : y.digest = x.req => y.expiresAt <= x.at
  BY Zenon DEF Guarding, Environment
<1> QED BY <1>1, <1>2, <1>3, Zenon DEF Guarding, Unwritten

\* A row that x has locked is the same afterwards.
LEMMA LockedKept ==
  ASSUME NEW x, Environment(x), NEW u \in Ids, TaskLock(u) \in x.locks
  PROVE  \A t : (t \in tasks /\ t.uuid = u) <=> (t \in tasks' /\ t.uuid = u)
<1>1. rowOf(u)' = rowOf(u)
  BY Zenon DEF Environment
<1> QED BY <1>1, Zenon DEF rowOf

\* So does a sweep, which holds the rows it has written.
LEMMA SweepingKept ==
  ASSUME NEW x, Sweeping(x), Environment(x) PROVE Sweeping(x)'
<1>1. Held(x)' = Held(x)
  <2>1. \A u : TaskLock(u) \in x.locks => u \in Ids
    BY LockKinds, LiveIds DEF Sweeping, Held
  <2> QED BY <2>1, LockedKept, Zenon DEF Held
<1> QED BY <1>1, Zenon DEF Sweeping, Swept

\* So does one that has changed a row, and the receipt id it may hold stays free.
LEMMA ChangingKept ==
  ASSUME NEW x, Changing(x), Environment(x) PROVE Changing(x)'
<1>1. PICK t \in tasks :
        /\ Changed(x, t)
        /\ \/ LegacyChange(x, t)
           \/ OfTask(x.req, t) /\ (GuardedChange(x, t) \/ StoredChange(x, t))
  BY Zenon DEF Changing
<1>2. TaskLock(t.uuid) \in x.locks
  BY <1>1, Zenon DEF LegacyChange, GuardedChange, StoredChange
<1>3. t \in tasks'
  BY <1>2, LiveIds, LockedKept, Zenon
<1>4. StoredChange(x, t) => StoredChange(x, t)'
  <2> SUFFICES ASSUME StoredChange(x, t) PROVE liveOperation(x.req.id, x.at)' = {}
    BY Zenon DEF StoredChange
  <2>1. OperationLock(x.req.id) \in x.locks /\ liveOperation(x.req.id, x.at) = {}
    BY Zenon DEF StoredChange
  <2> QED BY <2>1, Zenon DEF Environment, liveOperation
<1> QED BY <1>1, <1>3, <1>4, Zenon DEF Changing, LegacyChange, GuardedChange

\* So does a keyed submission: its key and its new id stay free.
LEMMA SubmittingKept ==
  ASSUME NEW x, Submitting(x), Environment(x) PROVE Submitting(x)'
<1>1. liveKey(x.req, x.at)' = {}
  <2>1. KeyLock(x.req) \in x.locks /\ liveKey(x.req, x.at) = {}
    BY Zenon DEF Submitting
  <2> QED BY <2>1, Zenon DEF Environment, liveKey
<1>2. \A n \in x.rows : n.uuid \notin Ids => n.uuid \notin Ids'
  BY Zenon DEF Environment
<1> QED BY <1>1, <1>2, Zenon DEF Submitting

\* Whatever the phase, what others do leaves it as it is.
LEMMA EnvironmentKeeps ==
  ASSUME NEW x, TxInv(x), Environment(x), now \in Nat PROVE TxInv(x)'
<1>1. x.at \in Nat /\ x.at <= now' /\ IsTx(x)
  BY DEF TxInv, Environment
<1>2. Waiting(x)' \/ Guarding(x)' \/ Looking(x)' \/ Sweeping(x)' \/ Changing(x)'
        \/ Submitting(x)'
  BY WaitingKept, GuardingKept, LookingKept, SweepingKept, ChangingKept, SubmittingKept
    , Zenon DEF TxInv
<1> QED BY <1>1, <1>2, Zenon DEF TxInv

-----------------------------------------------------------------------------
(* Steps of one transaction. *)

\* While the tables stay the same, all phases do.
LEMMA SameTables ==
  ASSUME NEW x, TxInv(x), now \in Nat, UNCHANGED <<tables, now>>
  PROVE  TxInv(x)'
<1>1. UNCHANGED <<tasks, archived, submissions, operations, now>>
  BY Zenon DEF tables
<1>2. Environment(x)
  BY <1>1 DEF Environment, Ids, ArchivedIds, rowOf
<1> QED BY <1>2, EnvironmentKeeps, Zenon

\* A transaction that goes on as x, apart from the others, keeps the invariant.
LEMMA ContinueInv ==
  ASSUME IInv, NEW s \in Sessions, NEW x, continue(s, x), TxInv(x),
         \A r \in Sessions \ {s} : Apart(x, tx[r])
  PROVE  IInv'
<1>1. UNCHANGED <<tasks, archived, submissions, operations, now, accepted, applied, missed>>
        /\ tx' = [tx EXCEPT ![s] = x]
  BY Zenon DEF continue, tables, history
<1>2. RowInv' /\ ReceiptInv' /\ LookupFinds' /\ (now \in Nat)'
  BY <1>1, Zenon DEF IInv, RowInv, ReceiptInv, LookupFinds, IsTask, Ids, ArchivedIds
<1>3. tx = [r \in Sessions |-> tx[r]] /\ \A r \in Sessions : TxInv(tx[r])
  BY Zenon DEF IInv
<1>4. tx' = [r \in Sessions |-> tx'[r]] /\ tx'[s] = x
        /\ \A r \in Sessions \ {s} : tx'[r] = tx[r]
  BY <1>1, <1>3, Zenon
<1>5. \A y : TxInv(y) => TxInv(y)'
  BY <1>1, SameTables, Zenon DEF tables, IInv
<1>6. \A r \in Sessions : TxInv(tx[r])'
  <2> TAKE r \in Sessions
  <2>1. PICK y : y = tx'[r] /\ TxInv(y)
    BY <1>3, <1>4, Zenon
  <2>2. TxInv(y)'
    BY <1>5, <2>1, Zenon
  <2> QED BY <2>1, <2>2, Zenon
<1>7. \A q, r \in Sessions : q # r => Apart(tx'[q], tx'[r])
  <2>1. \A q, r \in Sessions : q # r => Apart(tx[q], tx[r])
    BY Zenon DEF IInv
  <2>2. \A y, z : Apart(y, z) => Apart(z, y)
    BY Zenon DEF Apart
  <2> QED BY <1>4, <2>1, <2>2, Zenon
<1>8. \A q, r \in Sessions : q # r => Apart(tx[q], tx[r])'
  BY <1>7, Zenon DEF Apart
<1> QED BY <1>2, <1>4, <1>6, <1>8, Zenon DEF IInv

\* Apart are transactions that wait for locks and write only what they hold.
LEMMA StepInv ==
  ASSUME IInv, NEW s \in Sessions, NEW x, continue(s, x), TxInv(x),
         \A l \in x.locks : l \in tx[s].locks \/ ~Locked(l, s),
         \A n \in x.rows : TaskLock(n.uuid) \in x.locks
  PROVE  IInv'
<1> SUFFICES ASSUME NEW r \in Sessions \ {s} PROVE Apart(x, tx[r])
  BY ContinueInv, Zenon
<1>1. x.locks \cap tx[r].locks = {}
  BY Zenon DEF IInv, Apart, Locked
<1>2. ASSUME NEW n \in x.rows, NEW m \in tx[r].rows, n.uuid = m.uuid PROVE FALSE
  <2>1. TaskLock(m.uuid) \notin tx[r].locks
    BY <1>1, <1>2, Zenon
  <2>2. m.uuid \notin Ids
    BY <2>1, Written, Zenon DEF IInv
  <2>3. n.uuid \in Ids
    BY HeldIsThere, LiveIds, Zenon
  <2> QED BY <1>2, <2>2, <2>3, Zenon
<1> QED BY <1>1, <1>2, Zenon DEF Apart

\* A transaction that ends holds nothing.
LEMMA IdleInv == now \in Nat => TxInv(Idle)
<1>1. Idle.at = 0
  BY Zenon DEF Idle
<1> QED BY <1>1, IdleTx DEF TxInv

\* A transaction that ends without a commit keeps the invariant.
LEMMA EndInv ==
  ASSUME IInv, NEW s \in Sessions, end(s) PROVE IInv'
<1>1. Idle.locks = {} /\ Idle.rows = {}
  BY Zenon DEF Idle
<1>2. TxInv(Idle)
  BY IdleInv, Zenon DEF IInv
<1>3. continue(s, Idle)
  BY Zenon DEF end
<1> QED BY <1>1, <1>2, <1>3, StepInv, Zenon

\* A transaction of the retry loop begins with nothing.
LEMMA BeginTx ==
  ASSUME now \in Nat, NEW r, r.op \in GuardedOps \cup {"keyed"},
         r.op \in TaskOps => r.uuid \in Ids, NEW k
  PROVE  TxInv(begin(r, k)) /\ begin(r, k).locks = {} /\ begin(r, k).rows = {}
<1> DEFINE x == begin(r, k)
<1>0. IsTx(x)
  BY IdleTx, ZenonT(60) DEF begin, IsTx, Fields
<1>1. x.pc = firstStatement(r.op) /\ x.req = r /\ x.at = now /\ x.locks = {}
        /\ Unwritten(x) /\ x.todo = {}
  BY Zenon DEF begin, Idle, Unwritten
<1> HIDE DEF x
<1>2. \/ r.op = "keyed" /\ x.pc = "insertKey"
      \/ r.op = "claim" /\ x.pc = "loadOperation"
      \/ r.op \in TaskOps /\ x.pc = "lockTaskRow"
  BY <1>1, Zenon DEF firstStatement, TaskOps, GuardedOps
<1>3. Waiting(x)
  BY <1>1, <1>2, Zenon DEF Waiting, TaskOps
<1>4. TxInv(x) /\ x.locks = {} /\ x.rows = {}
  BY <1>0, <1>1, <1>3 DEF TxInv, Unwritten
<1> QED BY <1>4, Zenon DEF x

\* Begin keeps the invariant.
LEMMA BeginStep ==
  ASSUME IInv, NEW s \in Sessions, NEW r \in Requests, Begin(s, r) PROVE IInv'
<1>1. r.op \in TaskOps => r.uuid \in Ids
  BY RequestAssumption, Zenon DEF Begin, known, TaskOps, GuardedOps, Ids
<1>2. TxInv(begin(r, 1)) /\ begin(r, 1).locks = {} /\ begin(r, 1).rows = {}
  BY <1>1, BeginTx, Zenon DEF Begin, IInv
<1>3. continue(s, begin(r, 1))
  BY Zenon DEF Begin
<1> QED BY <1>2, <1>3, StepInv, Zenon

\* So does one that runs again after a race.
LEMMA RaceInv ==
  ASSUME IInv, NEW s \in Sessions, race(s), tx[s].req.op \in GuardedOps \cup {"keyed"},
         tx[s].req.op \in TaskOps => tx[s].req.uuid \in Ids
  PROVE  IInv'
<1> DEFINE x == begin(tx[s].req, tx[s].tries + 1)
<1>1. TxInv(x) /\ x.locks = {} /\ x.rows = {}
  BY BeginTx, Zenon DEF IInv
<1>2. continue(s, x) \/ end(s)
  BY Zenon DEF race
<1> HIDE DEF x
<1> QED BY <1>1, <1>2, EndInv, StepInv, Zenon

\* The row t is locked and changed as the request says.
LEMMA HoldTx ==
  ASSUME RowInv, NEW t \in tasks, NEW x, IsTx(x), x.locks \subseteq {TaskLock(t.uuid)},
         Unwritten(x), NEW time, NEW pc, NEW y, y = hold(x, t, time, pc)
  PROVE  /\ IsTx(y) /\ y.pc = pc /\ y.req = x.req /\ y.at = x.at
         /\ y.locks = {TaskLock(t.uuid)} /\ y.receipt = {} /\ Changed(y, t)
         /\ \A n \in y.rows : TaskLock(n.uuid) \in y.locks
<1> DEFINE finishes == x.req.op \in FinishingOps
           n == IF x.req.op \in {"next", "claim"} THEN Claimed(t, x.req, time)
                ELSE Updated(t, x.req, time)
           a == ConvertTaskForArchive(t, terminalState(x.req.op))
           ls == x.locks \cup {TaskLock(t.uuid)}
           rs == IF finishes THEN {} ELSE {n}
           as == IF finishes THEN {a} ELSE {}
<1>1. IsTask(n) /\ Moves(n, t) /\ Moves(a, t)
  BY Mutations, ArchiveMoves, Zenon DEF RowInv
<1>2. y = [x EXCEPT !.pc = pc, !.locks = ls, !.rows = rs, !.archive = as]
  BY Zenon DEF hold
<1>3. ls = {TaskLock(t.uuid)}
  BY Zenon
<1> HIDE DEF n, a, finishes, ls
<1>4. \/ rs = {} /\ as = {a}
      \/ rs = {n} /\ as = {}
  BY Zenon
<1> HIDE DEF rs, as
<1>5. IsTx(y)
  BY <1>2, ZenonT(60) DEF IsTx, Fields
<1>6. y.pc = pc /\ y.req = x.req /\ y.at = x.at /\ y.locks = ls /\ y.receipt = x.receipt
        /\ y.rows = rs /\ y.archive = as
  BY <1>2, Zenon DEF IsTx, Fields
<1>7. y.locks = {TaskLock(t.uuid)} /\ y.receipt = {}
  BY <1>3, <1>6, Zenon DEF Unwritten
<1>8. Changed(y, t) /\ \A m \in y.rows : m.uuid = t.uuid
  BY <1>1, <1>4, <1>6, Zenon DEF Changed, Moves
<1> QED BY <1>5, <1>6, <1>7, <1>8, Zenon

\* SELECT ... FOR UPDATE SKIP LOCKED finds a row that nobody holds.
LEMMA SelectInv ==
  ASSUME IInv, NEW s \in Sessions, NEW x, IsTx(x), x.locks = {}, Unwritten(x),
         x.at \in Nat, x.at <= now, NEW time, NEW pc, selectNext(s, x, time, pc),
         \/ x.req.op = "next" /\ pc = "commit"
         \/ x.req.op = "claim" /\ pc = "storeOperation"
  PROVE  IInv'
<1>1. CASE end(s)
  BY <1>1, EndInv, Zenon
<1>2. ASSUME NEW t \in best(candidates(s, x.req)), continue(s, hold(x, t, time, pc))
      PROVE  IInv'
  <2>1. t \in tasks /\ ~Locked(TaskLock(t.uuid), s) /\ (x.req.op = "next" => ~t.guarded)
    BY Zenon DEF best, candidates
  <2>2. PICK y : y = hold(x, t, time, pc)
    BY Zenon
  <2>3. /\ IsTx(y) /\ y.pc = pc /\ y.req = x.req /\ y.at = x.at
        /\ y.locks = {TaskLock(t.uuid)} /\ y.receipt = {} /\ Changed(y, t)
        /\ \A n \in y.rows : TaskLock(n.uuid) \in y.locks
    BY <2>1, <2>2, HoldTx DEF IInv
  <2>4. Changing(y)
    BY <2>1, <2>3, Zenon DEF Changing, LegacyChange, GuardedChange, OfTask, LegacyOps, TaskOps,
                      GuardedOps
  <2>5. TxInv(y)
    BY <2>3, <2>4, Zenon DEF TxInv
  <2> QED BY <1>2, <2>1, <2>2, <2>3, <2>5, StepInv, Zenon
<1> QED BY <1>1, <1>2, Zenon DEF selectNext

\* The transaction of a request, before its first statement has done anything.
LEMMA FirstTx ==
  ASSUME NEW r, NEW x, x = [Idle EXCEPT !.req = r]
  PROVE  IsTx(x) /\ x.pc = "idle" /\ x.req = r /\ x.at = 0 /\ x.locks = {} /\ Unwritten(x)
<1>1. IsTx(x)
  BY IdleTx, ZenonT(60) DEF IsTx, Fields
<1> QED BY <1>1, Zenon DEF Idle, Unwritten

\* GetNextTask keeps the invariant: SKIP LOCKED picks a row nobody holds.
LEMMA GetNextTaskStep ==
  ASSUME IInv, NEW s \in Sessions, NEW r \in Requests, GetNextTask(s, r) PROVE IInv'
<1>1. PICK x : x = [Idle EXCEPT !.req = r]
  BY Zenon
<1>2. IsTx(x) /\ x.req = r /\ x.at = 0 /\ x.locks = {} /\ Unwritten(x)
  BY <1>1, FirstTx, Zenon
<1>3. selectNext(s, x, now, "commit") /\ r.op = "next" /\ now \in Nat
  BY <1>1, Zenon DEF GetNextTask, First, IInv
<1> QED BY <1>2, <1>3, SelectInv

\* ClaimGuardedTask keeps the invariant.
LEMMA ClaimGuardedTaskStep ==
  ASSUME IInv, NEW s \in Sessions, ClaimGuardedTask(s) PROVE IInv'
<1>1. TxInv(tx[s]) /\ tx[s].pc = "select"
  BY Zenon DEF IInv, ClaimGuardedTask, at
<1>2. Waiting(tx[s])
  BY <1>1, Phase, Zenon
<1>3. IsTx(tx[s]) /\ tx[s].locks = {} /\ Unwritten(tx[s]) /\ tx[s].req.op = "claim"
        /\ tx[s].at \in Nat /\ tx[s].at <= now
  BY <1>1, <1>2, Zenon DEF TxInv, Waiting
<1>4. selectNext(s, tx[s], tx[s].at, "storeOperation")
  BY Zenon DEF ClaimGuardedTask
<1> QED BY <1>3, <1>4, SelectInv, Zenon

\* UpdateTask, CompleteTask and CancelTask keep the invariant.
LEMMA LockRowStep ==
  ASSUME IInv, NEW s \in Sessions, NEW r \in Requests, LockRow(s, r) PROVE IInv'
<1>1. CASE end(s)
  BY <1>1, EndInv, Zenon
<1>2. ASSUME NEW t \in rowOf(r.uuid), ~t.guarded,
             continue(s, hold([Idle EXCEPT !.req = r], t, now, "commit"))
      PROVE  IInv'
  <2>1. t \in tasks /\ t.uuid = r.uuid /\ ~Locked(TaskLock(r.uuid), s)
          /\ r.op \in {"update", "complete", "cancel"} /\ now \in Nat
    BY <1>2, Zenon DEF rowOf, LockRow, First, IInv
  <2>2. PICK x : x = [Idle EXCEPT !.req = r]
    BY Zenon
  <2>3. IsTx(x) /\ x.req = r /\ x.at = 0 /\ x.locks = {} /\ Unwritten(x)
    BY <2>2, FirstTx, Zenon
  <2>4. PICK y : y = hold(x, t, now, "commit")
    BY Zenon
  <2>5. /\ IsTx(y) /\ y.pc = "commit" /\ y.req = r /\ y.at = 0
        /\ y.locks = {TaskLock(t.uuid)} /\ y.receipt = {} /\ Changed(y, t)
        /\ \A n \in y.rows : TaskLock(n.uuid) \in y.locks
    BY <2>1, <2>3, <2>4, HoldTx DEF IInv
  <2>6. Changing(y)
    BY <1>2, <2>1, <2>5, Zenon DEF Changing, LegacyChange, LegacyOps
  <2>7. TxInv(y)
    BY <2>1, <2>5, <2>6 DEF TxInv
  <2> QED BY <1>2, <2>1, <2>2, <2>4, <2>5, <2>7, StepInv, Zenon
<1> QED BY <1>1, <1>2, Zenon DEF LockRow

\* lockGuarded keeps the invariant: it changes the row it already holds.
LEMMA LockGuardedStep ==
  ASSUME IInv, NEW s \in Sessions, LockGuarded(s) PROVE IInv'
<1> DEFINE x == tx[s]
           u == tx[s].req.uuid
<1>1. TxInv(x) /\ x.pc = "lockGuarded"
  BY Zenon DEF IInv, LockGuarded, at
<1>2. Guarding(x)
  BY <1>1, Phase, Zenon
<1>3. CASE end(s)
  BY <1>3, EndInv, Zenon
<1>4. ASSUME NEW t \in rowOf(u), continue(s, hold(x, t, x.at, "storeOperation"))
      PROVE  IInv'
  <2>1. t \in tasks /\ t.uuid = u /\ ~Locked(TaskLock(u), s)
    BY Zenon DEF rowOf, LockGuarded
  <2>2. IsTx(x) /\ Unwritten(x) /\ x.at \in Nat /\ x.at <= now /\ x.req.op \in TaskOps
    BY <1>1, <1>2, Zenon DEF TxInv, Guarding
  <2>3. x.locks \subseteq {TaskLock(t.uuid)}
    BY <1>2, <2>1, Zenon DEF Guarding, rowOf
  <2>4. PICK y : y = hold(x, t, x.at, "storeOperation")
    BY Zenon
  <2> HIDE DEF x
  <2>5. /\ IsTx(y) /\ y.pc = "storeOperation" /\ y.req = x.req /\ y.at = x.at
        /\ y.locks = {TaskLock(t.uuid)} /\ y.receipt = {} /\ Changed(y, t)
        /\ \A n \in y.rows : TaskLock(n.uuid) \in y.locks
    BY <2>1, <2>2, <2>3, <2>4, HoldTx DEF IInv
  <2>6. OfTask(y.req, t)
    BY <2>1, <2>2, <2>5, Zenon DEF OfTask, TaskOps, x
  <2>7. Changing(y)
    BY <2>1, <2>5, <2>6, Zenon DEF Changing, GuardedChange
  <2>8. TxInv(y)
    BY <2>2, <2>5, <2>7, Zenon DEF TxInv
  <2> QED BY <1>4, <2>1, <2>4, <2>5, <2>8, StepInv, Zenon
<1> QED BY <1>3, <1>4, Zenon DEF LockGuarded

\* CleanUpTimedOut has found its rows and holds none of them.
LEMMA CleanUpTimedOutStep ==
  ASSUME IInv, NEW s \in Sessions, NEW r \in Requests, CleanUpTimedOut(s, r) PROVE IInv'
<1>1. CASE end(s)
  BY <1>1, EndInv, Zenon
<1>2. ASSUME NEW us, NEW x, continue(s, x),
             x = [Idle EXCEPT !.pc = "sweep", !.req = r, !.at = now, !.todo = us]
      PROVE  IInv'
  <2>1. IsTx(x)
    BY <1>2, IdleTx, ZenonT(60) DEF IsTx, Fields
  <2>2. x.pc = "sweep" /\ x.req = r /\ x.at = now /\ x.locks = {} /\ x.rows = {}
          /\ x.archive = {} /\ x.receipt = {}
    BY <1>2, Zenon DEF Idle
  <2>3. r.op = "cleanup" /\ now \in Nat
    BY Zenon DEF CleanUpTimedOut, First, IInv
  <2>4. Held(x) = {}
    BY <2>2, Zenon DEF Held
  <2>5. Sweeping(x)
    BY <2>2, <2>3, <2>4, Zenon DEF Sweeping
  <2>6. TxInv(x)
    BY <2>1, <2>2, <2>3, <2>5 DEF TxInv
  <2>7. continue(s, x)
    BY <1>2, Zenon
  <2> QED BY <2>2, <2>6, <2>7, StepInv, Zenon
<1>3. CASE \E t \in tasks : overflows(t)
  BY <1>1, <1>3, Zenon DEF CleanUpTimedOut
<1>4. CASE ~\E t \in tasks : overflows(t)
  BY <1>2, <1>4, ZenonT(60) DEF CleanUpTimedOut
<1> QED BY <1>3, <1>4, Zenon

\* A sweep takes the lock of one row, and writes it, or finds it gone.
LEMMA SweepLocks ==
  ASSUME IInv, NEW s \in Sessions, NEW x, x = tx[s], IsTx(x), Sweeping(x),
         x.at \in Nat, x.at <= now, NEW u, ~Locked(TaskLock(u), s),
         NEW pc \in {"sweep", "commit"}, NEW y, continue(s, y), IsTx(y),
         y.pc = pc, y.req = x.req, y.at = x.at, y.archive = x.archive,
         y.receipt = x.receipt, y.rows = x.rows \cup {Swept(t, x) : t \in rowOf(u)},
         y.locks = x.locks \cup {TaskLock(t.uuid) : t \in rowOf(u)}
  PROVE  IInv'
<1>1. x.locks = {TaskLock(t.uuid) : t \in Held(x)} /\ x.req.op = "cleanup"
        /\ x.rows = {Swept(t, x) : t \in Held(x)} /\ x.archive = {} /\ x.receipt = {}
  BY Zenon DEF Sweeping
<1>2. Held(y) = Held(x) \cup rowOf(u)
  BY LockKinds DEF Held, rowOf
<1>3. \A t : Swept(t, y) = Swept(t, x)
  BY Zenon DEF Swept
<1>4. y.locks = {TaskLock(t.uuid) : t \in Held(y)}
  BY <1>1, <1>2
<1>5. y.rows = {Swept(t, y) : t \in Held(y)}
  BY <1>1, <1>2, <1>3
<1>6. Sweeping(y)
  BY <1>1, <1>4, <1>5, Zenon DEF Sweeping
<1>7. TxInv(y)
  BY <1>6, Zenon DEF TxInv
<1>8. \A l \in y.locks : l \in x.locks \/ ~Locked(l, s)
  BY Zenon DEF rowOf
<1>9. \A n \in y.rows : TaskLock(n.uuid) \in y.locks
  <2>1. \A t \in tasks : Swept(t, y).uuid = t.uuid
    BY SweptRow, Zenon DEF IInv, RowInv
  <2> QED BY <1>5, <2>1, Zenon DEF Held
<1> QED BY <1>7, <1>8, <1>9, StepInv, Zenon

\* One row of a sweep keeps the invariant, whether or not the row is still due.
LEMMA SweepStep ==
  ASSUME IInv, NEW s \in Sessions, Sweep(s) PROVE IInv'
<1>1. CASE end(s)
  BY <1>1, EndInv, Zenon
<1> DEFINE x == tx[s]
<1>2. TxInv(x)
  BY Zenon DEF IInv
<1>3. x.pc = "sweep"
  BY Zenon DEF Sweep, at
<1>4. IsTx(x) /\ Sweeping(x) /\ x.at \in Nat /\ x.at <= now
  BY <1>2, <1>3, Phase, Zenon DEF TxInv
<1>5. ASSUME ~end(s) PROVE IInv'
  <2>1. PICK u \in x.todo :
          /\ ~Locked(TaskLock(u), s)
          /\ continue(s, [[x EXCEPT !.todo = @ \ {u},
                                    !.pc = IF x.todo = {u} THEN "commit" ELSE @] EXCEPT
               !.rows = @ \cup {IF due(t, x.req) THEN Released(t, x.at) ELSE t : t \in rowOf(u)},
               !.locks = @ \cup {TaskLock(t.uuid) : t \in rowOf(u)}])
    BY <1>5, ZenonT(60) DEF Sweep
  <2> DEFINE pc == IF x.todo = {u} THEN "commit" ELSE x.pc
             todo == x.todo \ {u}
             ss == {Swept(t, x) : t \in rowOf(u)}
             ls == {TaskLock(t.uuid) : t \in rowOf(u)}
             y == [[x EXCEPT !.todo = todo, !.pc = pc] EXCEPT !.rows = @ \cup ss,
                                                              !.locks = @ \cup ls]
  <2>2. continue(s, y)
    BY <2>1, Zenon DEF Swept
  <2>3. pc \in {"sweep", "commit"}
    BY <1>3, Zenon
  <2> HIDE DEF pc, todo, ss, ls, x
  <2>4. IsTx(y)
    BY <1>4, ZenonT(60) DEF IsTx, Fields
  <2>5. y.pc = pc /\ y.req = x.req /\ y.at = x.at /\ y.archive = x.archive
          /\ y.receipt = x.receipt /\ y.rows = x.rows \cup ss /\ y.locks = x.locks \cup ls
    BY <1>4, Zenon DEF IsTx, Fields
  <2>6. x = tx[s] /\ ~Locked(TaskLock(u), s)
    BY <2>1, Zenon DEF x
  <2> HIDE DEF y
  <2> QED BY <1>4, <2>2, <2>3, <2>4, <2>5, <2>6, SweepLocks DEF ss, ls
<1> QED BY <1>1, <1>5, Zenon

\* INSERT of a key: it meets a live receipt, or makes a task of a new id.
LEMMA InsertKeyStep ==
  ASSUME IInv, NEW s \in Sessions, InsertKey(s) PROVE IInv'
<1> DEFINE x == tx[s]
           r == tx[s].req
<1>1. TxInv(x)
  BY Zenon DEF IInv
<1>2. x.pc = "insertKey" /\ ~Locked(KeyLock(r), s)
  BY Zenon DEF InsertKey, at
<1>3. IsTx(x) /\ x.at \in Nat /\ x.at <= now /\ x.locks = {} /\ Unwritten(x) /\ r.op = "keyed"
  BY <1>1, <1>2, Phase, Zenon DEF TxInv, Waiting
<1>4. CASE liveKey(r, x.at) # {}
  <2> DEFINE ls == x.locks \cup {KeyLock(r)}
             y == [x EXCEPT !.pc = "readKey", !.locks = ls]
  <2>1. continue(s, y)
    BY <1>4, Zenon DEF InsertKey
  <2>2. ls = {KeyLock(r)}
    BY <1>3, Zenon
  <2> HIDE DEF ls, x
  <2>3. IsTx(y)
    BY <1>3, ZenonT(60) DEF IsTx, Fields
  <2>4. y.pc = "readKey" /\ y.req = x.req /\ y.at = x.at /\ y.locks = ls
          /\ y.rows = x.rows /\ y.archive = x.archive /\ y.receipt = x.receipt
    BY <1>3, Zenon DEF IsTx, Fields
  <2>5. x.req = r
    BY Zenon DEF x
  <2> HIDE DEF y, r
  <2>6. Looking(y)
    BY <1>3, <2>2, <2>4, <2>5, Zenon DEF Looking, Unwritten
  <2>7. TxInv(y) /\ y.rows = {}
    BY <1>3, <2>3, <2>4, <2>6, Zenon DEF TxInv, Unwritten
  <2> QED BY <1>2, <2>1, <2>2, <2>4, <2>7, StepInv, Zenon
<1>5. CASE liveKey(r, x.at) = {}
  <2>1. PICK u \in UUIDs :
          /\ Unused(u)
          /\ continue(s, [x EXCEPT
               !.pc = "commit",
               !.locks = @ \cup {KeyLock(r)},
               !.rows = {NewTask(u, r, r.guarded, x.at)},
               !.receipt = {[queue |-> r.queue, key |-> r.key, digest |-> r,
                             uuid |-> u, expiresAt |-> x.at + Retention]}])
    BY <1>5, ZenonT(60) DEF InsertKey
  <2> DEFINE ls == x.locks \cup {KeyLock(r)}
             n == NewTask(u, r, r.guarded, x.at)
             e == [queue |-> r.queue, key |-> r.key, digest |-> r,
                   uuid |-> u, expiresAt |-> x.at + Retention]
             y == [x EXCEPT !.pc = "commit", !.locks = ls, !.rows = {n}, !.receipt = {e}]
  <2>2. continue(s, y)
    BY <2>1, Zenon
  <2>3. ls = {KeyLock(r)}
    BY <1>3, Zenon
  <2>4. n.uuid = u /\ n.revision = 1 /\ n.queue = r.queue
    BY Zenon DEF NewTask
  <2>5. IsTask(n)
    BY Zenon DEF NewTask, IsTask, Columns
  <2> HIDE DEF n
  <2>6. e = SubmissionReceipt(x, n)
    BY <2>4, Zenon DEF SubmissionReceipt
  <2>7. u \notin Ids /\ \A q \in Sessions : \A m \in tx[q].rows : m.uuid # u
    BY <2>1, Zenon DEF Unused, Ids
  <2>8. x.req = r
    BY Zenon
  <2> HIDE DEF ls, e, x
  <2>9. IsTx(y)
    BY <1>3, ZenonT(60) DEF IsTx, Fields
  <2>10. y.pc = "commit" /\ y.req = x.req /\ y.at = x.at /\ y.locks = ls
          /\ y.rows = {n} /\ y.archive = x.archive /\ y.receipt = {e}
    BY <1>3, Zenon DEF IsTx, Fields
  <2> HIDE DEF y, r
  <2>11. Submitting(y)
    <3>1. y.pc = "commit" /\ y.req.op = "keyed" /\ y.archive = {} /\ y.locks = {KeyLock(y.req)}
      BY <1>3, <2>3, <2>8, <2>10, Zenon DEF Unwritten
    <3>2. liveKey(y.req, y.at) = {}
      BY <1>5, <2>8, <2>10, Zenon
    <3>3. n.queue = y.req.queue /\ n.uuid \notin Ids
      BY <2>4, <2>7, <2>8, <2>10, Zenon
    <3>4. y.receipt = {SubmissionReceipt(y, n)}
      BY <2>6, <2>10, Zenon DEF SubmissionReceipt
    <3> QED BY <2>4, <2>5, <2>10, <3>1, <3>2, <3>3, <3>4, Zenon DEF Submitting
  <2>12. TxInv(y)
    BY <1>3, <2>9, <2>10, <2>11, Zenon DEF TxInv
  <2>13. \A q \in Sessions \ {s} : Apart(y, tx[q])
    BY <1>2, <2>3, <2>4, <2>7, <2>10, Zenon DEF Apart, Locked
  <2> QED BY <2>2, <2>12, <2>13, ContinueInv, Zenon
<1> QED BY <1>4, <1>5, Zenon

\* The receipt in the way leads to the task that it made.
LEMMA ReadKeyStep ==
  ASSUME IInv, NEW s \in Sessions, ReadKey(s) PROVE IInv'
<1> DEFINE x == tx[s]
<1>1. TxInv(x)
  BY Zenon DEF IInv
<1>2. x.pc = "readKey"
  BY Zenon DEF ReadKey, at
<1>3. Looking(x) /\ IsTx(x) /\ x.at \in Nat /\ x.at <= now
  BY <1>1, <1>2, Phase, Zenon DEF TxInv
<1>4. x.req.op = "keyed"
  BY <1>2, <1>3, Zenon DEF Looking
<1>5. CASE race(s)
  BY <1>4, <1>5, RaceInv, Zenon DEF TaskOps, GuardedOps
<1>6. CASE end(s)
  BY <1>6, EndInv, Zenon
<1>7. ASSUME NEW e \in submissions, continue(s, [x EXCEPT !.pc = "view", !.todo = {e.uuid}])
      PROVE  IInv'
  <2> DEFINE y == [x EXCEPT !.pc = "view", !.todo = {e.uuid}]
  <2>1. continue(s, y)
    BY <1>7, Zenon
  <2> HIDE DEF x
  <2>2. IsTx(y)
    BY <1>3, ZenonT(60) DEF IsTx, Fields
  <2>3. y.pc = "view" /\ y.req = x.req /\ y.at = x.at /\ y.locks = x.locks /\ y.todo = {e.uuid}
          /\ y.rows = x.rows /\ y.archive = x.archive /\ y.receipt = x.receipt
    BY <1>3, Zenon DEF IsTx, Fields
  <2> HIDE DEF y
  <2>4. e.uuid \in Ids
    BY Zenon DEF IInv, RowInv
  <2>5. Looking(y)
    BY <1>3, <2>3, <2>4, Zenon DEF Looking, Unwritten
  <2>6. TxInv(y) /\ y.rows = {} /\ y.locks = tx[s].locks
    BY <1>3, <2>2, <2>3, <2>5, Zenon DEF TxInv, Looking, Unwritten, x
  <2> QED BY <2>1, <2>6, StepInv, Zenon
<1> QED BY <1>5, <1>6, <1>7, ZenonT(60) DEF ReadKey

\* The row of a guarded request is locked, if the task is live.
LEMMA LockTaskRowStep ==
  ASSUME IInv, NEW s \in Sessions, lockTaskRow(s) PROVE IInv'
<1> DEFINE x == tx[s]
           u == tx[s].req.uuid
           ls == {TaskLock(t.uuid) : t \in rowOf(u)}
           y == [x EXCEPT !.pc = "loadOperation", !.locks = ls]
<1>1. TxInv(x)
  BY Zenon DEF IInv
<1>2. x.pc = "lockTaskRow" /\ ~Locked(TaskLock(u), s) /\ continue(s, y)
  BY Zenon DEF lockTaskRow, at
<1>3. IsTx(x) /\ x.at \in Nat /\ x.at <= now /\ Unwritten(x) /\ x.req.op \in TaskOps
        /\ x.req.uuid \in Ids
  BY <1>1, <1>2, Phase, Zenon DEF TxInv, Waiting
<1>4. x.req.uuid = u /\ \A l \in ls : ~Locked(l, s)
  BY <1>2, Zenon DEF rowOf
<1> HIDE DEF x, ls
<1>5. IsTx(y)
  BY <1>3, ZenonT(60) DEF IsTx, Fields
<1>6. y.pc = "loadOperation" /\ y.req = x.req /\ y.at = x.at /\ y.locks = ls
        /\ y.rows = x.rows /\ y.archive = x.archive /\ y.receipt = x.receipt
  BY <1>3, Zenon DEF IsTx, Fields
<1> HIDE DEF y, u
<1>7. y.locks = {TaskLock(t.uuid) : t \in rowOf(y.req.uuid)}
  BY <1>4, <1>6, Zenon DEF ls
<1>8. Guarding(y)
  BY <1>3, <1>6, <1>7, Zenon DEF Guarding, Unwritten
<1>9. TxInv(y) /\ y.rows = {}
  BY <1>3, <1>5, <1>6, <1>8, Zenon DEF TxInv, Unwritten
<1> QED BY <1>2, <1>4, <1>6, <1>9, StepInv, Zenon

\* A guarded request goes on when no live receipt has its id.
LEMMA LoadOperationStep ==
  ASSUME IInv, NEW s \in Sessions, LoadOperation(s) PROVE IInv'
<1> DEFINE x == tx[s]
           pc == IF tx[s].req.op = "claim" THEN "select" ELSE "lockGuarded"
           y == [x EXCEPT !.pc = pc]
<1>1. TxInv(x)
  BY Zenon DEF IInv
<1>2. x.pc = "loadOperation"
  BY Zenon DEF LoadOperation, at
<1>3. IsTx(x) /\ x.at \in Nat /\ x.at <= now /\ (Waiting(x) \/ Guarding(x))
  BY <1>1, <1>2, Phase, Zenon DEF TxInv
<1>4. CASE end(s)
  BY <1>4, EndInv, Zenon
<1>5. CASE continue(s, y) /\ liveOperation(x.req.id, x.at) = {}
  <2>1. pc = IF x.req.op = "claim" THEN "select" ELSE "lockGuarded"
    BY Zenon
  <2> HIDE DEF x, pc
  <2>2. IsTx(y)
    BY <1>3, ZenonT(60) DEF IsTx, Fields
  <2>3. y.pc = pc /\ y.req = x.req /\ y.at = x.at /\ y.locks = x.locks
          /\ y.rows = x.rows /\ y.archive = x.archive /\ y.receipt = x.receipt
    BY <1>3, Zenon DEF IsTx, Fields
  <2> HIDE DEF y
  <2>4. Unwritten(y)
    BY <1>3, <2>3, Zenon DEF Waiting, Guarding, Unwritten
  <2>5. ASSUME Waiting(x) PROVE Waiting(y)
    BY <1>2, <2>1, <2>3, <2>4, <2>5, Zenon DEF Waiting
  <2>6. ASSUME Guarding(x) PROVE Guarding(y)
    <3>1. \A e \in operations : e.digest = y.req => e.expiresAt <= y.at
      BY <1>3, <1>5, <2>3 DEF liveOperation, IInv, RowInv
    <3>2. y.pc = "lockGuarded" /\ x.req.op \in TaskOps /\ x.req.uuid \in Ids
            /\ x.locks = {TaskLock(t.uuid) : t \in rowOf(x.req.uuid)}
      BY <2>1, <2>3, <2>6, Zenon DEF Guarding, TaskOps
    <3> QED BY <2>3, <2>4, <3>1, <3>2, Zenon DEF Guarding
  <2>7. TxInv(y) /\ y.rows = {} /\ y.locks = tx[s].locks
    BY <1>3, <2>2, <2>3, <2>4, <2>5, <2>6, Zenon DEF TxInv, Unwritten, x
  <2> QED BY <1>5, <2>7, StepInv, Zenon
<1> QED BY <1>4, <1>5, Zenon DEF LoadOperation

\* The id is locked with no live receipt, or the race is lost.
LEMMA StoreOperationStep ==
  ASSUME IInv, NEW s \in Sessions, StoreOperation(s) PROVE IInv'
<1> DEFINE x == tx[s]
           id == tx[s].req.id
<1>1. TxInv(x)
  BY Zenon DEF IInv
<1>2. x.pc = "storeOperation" /\ ~Locked(OperationLock(id), s)
  BY Zenon DEF StoreOperation, at
<1>3. IsTx(x) /\ x.at \in Nat /\ x.at <= now /\ Changing(x)
  BY <1>1, <1>2, Phase, Zenon DEF TxInv
<1>4. PICK t \in tasks : Changed(x, t) /\ OfTask(x.req, t) /\ x.locks = {TaskLock(t.uuid)}
  BY <1>2, <1>3, Zenon DEF Changing, LegacyChange, GuardedChange, StoredChange
<1>5. CASE race(s)
  <2>1. x.req.op \in TaskOps => x.req.uuid \in Ids
    BY <1>4, LiveIds, Zenon DEF OfTask
  <2>2. x.req.op \in GuardedOps
    BY <1>4, Zenon DEF OfTask
  <2> QED BY <1>5, <2>1, <2>2, RaceInv, Zenon
<1>6. ASSUME liveOperation(id, x.at) = {}, NEW n \in x.rows \cup x.archive,
             continue(s, [x EXCEPT
               !.pc = "commit",
               !.locks = @ \cup {OperationLock(id)},
               !.receipt = {[id |-> id, digest |-> x.req, uuid |-> n.uuid,
                             revision |-> n.revision, expiresAt |-> x.at + Retention]}])
      PROVE  IInv'
  <2> DEFINE ls == x.locks \cup {OperationLock(id)}
             e == [id |-> id, digest |-> x.req, uuid |-> n.uuid,
                   revision |-> n.revision, expiresAt |-> x.at + Retention]
             y == [x EXCEPT !.pc = "commit", !.locks = ls, !.receipt = {e}]
  <2>1. continue(s, y)
    BY <1>6, Zenon
  <2>2. ls = {TaskLock(t.uuid), OperationLock(x.req.id)}
    BY <1>4, Zenon
  <2>3. Moves(n, t)
    BY <1>4, <1>6, Zenon DEF Changed
  <2>4. e = OperationReceipt(x, t)
    BY <2>3, Zenon DEF Moves, OperationReceipt
  <2>5. liveOperation(x.req.id, x.at) = {} /\ x.locks = tx[s].locks
          /\ \A l \in ls : l \in tx[s].locks \/ ~Locked(l, s)
    BY <1>2, <1>6, Zenon
  <2> HIDE DEF x, ls, e
  <2>6. IsTx(y)
    BY <1>3, ZenonT(60) DEF IsTx, Fields
  <2>7. y.pc = "commit" /\ y.req = x.req /\ y.at = x.at /\ y.locks = ls
          /\ y.rows = x.rows /\ y.archive = x.archive /\ y.receipt = {e}
    BY <1>3, Zenon DEF IsTx, Fields
  <2> HIDE DEF y, id
  <2>8. StoredChange(y, t)
    BY <2>2, <2>4, <2>5, <2>7, Zenon DEF StoredChange, OperationReceipt
  <2>9. Changed(y, t) /\ OfTask(y.req, t)
    BY <1>4, <2>7, Zenon DEF Changed
  <2>10. TxInv(y)
    BY <1>3, <2>6, <2>7, <2>8, <2>9, Zenon DEF TxInv, Changing
  <2>11. \A m \in y.rows : TaskLock(m.uuid) \in y.locks
    BY <1>4, <2>2, <2>7, Zenon DEF Changed, Moves
  <2> QED BY <2>1, <2>5, <2>7, <2>10, <2>11, StepInv, Zenon
<1> QED BY <1>5, <1>6, ZenonT(60) DEF StoreOperation

-----------------------------------------------------------------------------
(* Lookups and the purge. *)

\* A lookup of ids that exist.
LEMMA ViewTx ==
  ASSUME NEW x, IsTx(x), x.at \in Nat, x.at <= now, x.pc \in {"view", "viewSecond"},
         \A l \in x.locks : l = KeyLock(x.req), Unwritten(x), x.todo # {}, x.todo \subseteq Ids,
         x.pc = "viewSecond" => x.todo \subseteq ArchivedIds
  PROVE  TxInv(x) /\ x.rows = {}
<1>1. Looking(x)
  BY Zenon DEF Looking
<1> QED BY <1>1, Zenon DEF TxInv, Unwritten

\* The first read of currentView: an id that exists and is not live is archived.
LEMMA ViewFirstInv ==
  ASSUME IInv, NEW s \in Sessions, NEW x, IsTx(x), x.at \in Nat, x.at <= now,
         \A l \in x.locks : l = KeyLock(x.req), x.locks \subseteq tx[s].locks, Unwritten(x),
         x.todo # {}, x.todo \subseteq Ids, viewFirst(s, x)
  PROVE  IInv'
<1>1. CASE end(s)
  BY <1>1, EndInv, Zenon
<1>2. CASE ~seen(x, 1) /\ continue(s, [x EXCEPT !.pc = "viewSecond"])
  <2> DEFINE y == [x EXCEPT !.pc = "viewSecond"]
  <2>1. continue(s, y)
    BY <1>2, Zenon
  <2>2. IsTx(y)
    BY ZenonT(60) DEF IsTx, Fields
  <2>3. y.pc = "viewSecond" /\ y.req = x.req /\ y.at = x.at /\ y.locks = x.locks
          /\ y.todo = x.todo /\ y.rows = x.rows /\ y.archive = x.archive
          /\ y.receipt = x.receipt
    BY Zenon DEF IsTx, Fields
  <2> HIDE DEF y
  <2>4. x.todo \subseteq ArchivedIds
    BY <1>2, Zenon DEF seen, viewTable, Ids, ArchivedIds
  <2>5. TxInv(y) /\ y.rows = {}
    BY <2>2, <2>3, <2>4, ViewTx, Zenon DEF Unwritten
  <2> QED BY <2>1, <2>3, <2>5, StepInv, Zenon
<1> QED BY <1>1, <1>2, Zenon DEF viewFirst

\* The first read of a lookup keeps the invariant.
LEMMA ViewFirstStep ==
  ASSUME IInv, NEW s \in Sessions, ViewFirst(s) PROVE IInv'
<1>1. TxInv(tx[s])
  BY Zenon DEF IInv
<1>2. tx[s].pc = "view" /\ viewFirst(s, tx[s])
  BY Zenon DEF ViewFirst, at
<1>3. Looking(tx[s])
  BY <1>1, <1>2, Phase, Zenon
<1>4. PICK x : x = tx[s]
  BY Zenon
<1>5. IsTx(x) /\ x.at \in Nat /\ x.at <= now /\ Unwritten(x)
        /\ (\A l \in x.locks : l = KeyLock(x.req)) /\ x.todo # {} /\ x.todo \subseteq Ids
  BY <1>1, <1>2, <1>3, <1>4, Zenon DEF TxInv, Looking
<1>6. viewFirst(s, x) /\ x.locks \subseteq tx[s].locks
  BY <1>2, <1>4, Zenon
<1> QED BY <1>5, <1>6, ViewFirstInv, Zenon

\* GetTask keeps the invariant: it looks for a task that exists.
LEMMA GetTaskStep ==
  ASSUME IInv, NEW s \in Sessions, NEW r \in Requests, GetTask(s, r) PROVE IInv'
<1> DEFINE x == [Idle EXCEPT !.req = r, !.todo = {r.uuid}]
<1>1. IsTx(x)
  BY IdleTx, ZenonT(60) DEF IsTx, Fields
<1>2. x.at = 0 /\ x.req = r /\ x.locks = {} /\ Unwritten(x) /\ x.todo = {r.uuid}
  BY Zenon DEF Idle, Unwritten
<1>3. viewFirst(s, x) /\ now \in Nat
  BY Zenon DEF GetTask, IInv
<1>4. r.uuid \in Ids
  BY RequestAssumption, Zenon DEF GetTask, First, known, Ids
<1> HIDE DEF x
<1> QED BY <1>1, <1>2, <1>3, <1>4, ViewFirstInv

\* LookupSubmission keeps the invariant: receipts are of tasks that exist.
LEMMA LookupSubmissionStep ==
  ASSUME IInv, NEW s \in Sessions, NEW r \in Requests, LookupSubmission(s, r) PROVE IInv'
<1>1. CASE end(s)
  BY <1>1, EndInv, Zenon
<1>2. ASSUME NEW e \in submissions,
             continue(s, [Idle EXCEPT !.pc = "view", !.req = r, !.todo = {e.uuid}])
      PROVE  IInv'
  <2> DEFINE x == [Idle EXCEPT !.pc = "view", !.req = r, !.todo = {e.uuid}]
  <2>1. IsTx(x)
    BY IdleTx, ZenonT(60) DEF IsTx, Fields
  <2>2. x.pc = "view" /\ x.at = 0 /\ x.req = r /\ x.locks = {} /\ Unwritten(x)
          /\ x.todo = {e.uuid}
    BY Zenon DEF Idle, Unwritten
  <2>3. e.uuid \in Ids /\ now \in Nat
    BY Zenon DEF IInv, RowInv
  <2>4. continue(s, x)
    BY <1>2, Zenon
  <2> HIDE DEF x
  <2>5. TxInv(x) /\ x.rows = {}
    BY <2>1, <2>2, <2>3, ViewTx
  <2> QED BY <2>2, <2>4, <2>5, StepInv, Zenon
<1> QED BY <1>1, <1>2, ZenonT(60) DEF LookupSubmission, liveKey

\* The second read finds what the first one missed.
LEMMA ViewSecondStep ==
  ASSUME IInv, NEW s \in Sessions, ViewSecond(s) PROVE IInv'
<1>1. TxInv(tx[s])
  BY Zenon DEF IInv
<1>2. tx[s].pc = "viewSecond" /\ tx' = [tx EXCEPT ![s] = Idle]
        /\ (seen(tx[s], 2) => UNCHANGED missed)
        /\ UNCHANGED <<tasks, archived, submissions, operations, now, accepted, applied>>
  BY Zenon DEF ViewSecond, at, tables
<1>3. Looking(tx[s])
  BY <1>1, <1>2, Phase, Zenon
<1>4. seen(tx[s], 2)
  BY <1>2, <1>3 DEF Looking, seen, viewTable, ArchivedIds
<1>5. end(s)
  BY <1>2, <1>4, Zenon DEF end, continue, tables, history
<1> QED BY <1>5, EndInv, Zenon

\* The purge has found rows that have expired.
LEMMA PurgeTx ==
  ASSUME IInv, NEW s \in Sessions, NEW x, continue(s, x), IsTx(x), x.at \in Nat, x.at <= now,
         x.pc \in {"deleteKeys", "deleteOperations"}, x.locks = {}, Unwritten(x),
         \A y \in x.todo : y.expiresAt <= x.at
  PROVE  IInv'
<1>1. Waiting(x)
  BY Zenon DEF Waiting
<1>2. TxInv(x) /\ x.rows = {}
  BY <1>1, Zenon DEF TxInv, Unwritten
<1> QED BY <1>2, StepInv, Zenon

\* A batch holds only rows that have expired.
LEMMA BatchExpired ==
  \A rows, time : \A b \in batches(rows, time) : \A y \in b : y.expiresAt <= time
  BY Zenon DEF batches

\* The search of the purge for expired keys keeps the invariant.
LEMMA PurgeExpiredReceiptsStep ==
  ASSUME IInv, NEW s \in Sessions, NEW r \in Requests, PurgeExpiredReceipts(s, r) PROVE IInv'
<1>1. PICK b \in batches(submissions, now) :
        continue(s, [Idle EXCEPT !.pc = "deleteKeys", !.req = r, !.at = now, !.todo = b])
  BY Zenon DEF PurgeExpiredReceipts
<1> DEFINE x == [Idle EXCEPT !.pc = "deleteKeys", !.req = r, !.at = now, !.todo = b]
<1>2. IsTx(x)
  BY IdleTx, ZenonT(60) DEF IsTx, Fields
<1>3. x.pc = "deleteKeys" /\ x.at = now /\ x.locks = {} /\ Unwritten(x) /\ x.todo = b
  BY Zenon DEF Idle, Unwritten
<1>4. continue(s, x) /\ now \in Nat
  BY <1>1, Zenon DEF IInv
<1>5. \A y \in b : y.expiresAt <= now
  BY BatchExpired, Zenon
<1> HIDE DEF x
<1> QED BY <1>2, <1>3, <1>4, <1>5, PurgeTx

\* The search of the purge for expired operations keeps the invariant.
LEMMA FindOperationsStep ==
  ASSUME IInv, NEW s \in Sessions, FindOperations(s) PROVE IInv'
<1> DEFINE x == tx[s]
<1>1. PICK b \in batches(operations, x.at) :
        continue(s, [x EXCEPT !.pc = "deleteOperations", !.todo = b])
  BY Zenon DEF FindOperations
<1> DEFINE y == [x EXCEPT !.pc = "deleteOperations", !.todo = b]
<1>2. TxInv(x) /\ x.pc = "findOperations"
  BY Zenon DEF FindOperations, at, IInv
<1>3. IsTx(x) /\ x.at \in Nat /\ x.at <= now /\ x.locks = {} /\ Unwritten(x)
  BY <1>2, Phase, Zenon DEF TxInv, Waiting
<1>4. continue(s, y) /\ \A e \in b : e.expiresAt <= x.at
  BY <1>1, BatchExpired, Zenon
<1> HIDE DEF x
<1>5. IsTx(y)
  BY <1>3, ZenonT(60) DEF IsTx, Fields
<1>6. y.pc = "deleteOperations" /\ y.at = x.at /\ y.locks = x.locks /\ y.todo = b
        /\ y.rows = x.rows /\ y.archive = x.archive /\ y.receipt = x.receipt
  BY <1>3, Zenon DEF IsTx, Fields
<1> HIDE DEF y
<1>7. Unwritten(y) /\ y.locks = {}
  BY <1>3, <1>6, Zenon DEF Unwritten
<1> QED BY <1>3, <1>4, <1>5, <1>6, <1>7, PurgeTx, Zenon

-----------------------------------------------------------------------------
(* Steps that change the tables. *)

\* Other transactions are as they were when the step is one of their environment.
LEMMA OthersKept ==
  ASSUME IInv, NEW x, TxInv(x), Environment(x)
  PROVE  TxInv(x)'
  BY EnvironmentKeeps, Zenon DEF IInv

\* A step that ends a transaction, or the statement y holds nothing after.
LEMMA TablesInv ==
  ASSUME IInv, now' \in Nat, RowInv', ReceiptInv', LookupFinds',
         NEW s \in Sessions, NEW y, tx' = [tx EXCEPT ![s] = y], TxInv(y), Environment(y),
         y.locks = {}, y.rows = {}, \A r \in Sessions \ {s} : Environment(tx[r])
  PROVE  IInv'
<1>1. tx = [r \in Sessions |-> tx[r]] /\ \A r \in Sessions : TxInv(tx[r])
  BY Zenon DEF IInv
<1>2. tx' = [r \in Sessions |-> tx'[r]] /\ tx'[s] = y
        /\ \A r \in Sessions \ {s} : tx'[r] = tx[r]
  BY <1>1, Zenon
<1>3. \A r \in Sessions : TxInv(tx[r])'
  <2> TAKE r \in Sessions
  <2>1. PICK x : x = tx'[r] /\ TxInv(x) /\ Environment(x)
    BY <1>1, <1>2, Zenon
  <2>2. TxInv(x)'
    BY <2>1, OthersKept, Zenon
  <2> QED BY <2>1, <2>2, Zenon
<1>4. \A q, r \in Sessions : q # r => Apart(tx'[q], tx'[r])
  <2>1. \A q, r \in Sessions : q # r => Apart(tx[q], tx[r])
    BY Zenon DEF IInv
  <2>2. \A z : Apart(y, z) /\ Apart(z, y)
    BY Zenon DEF Apart
  <2> QED BY <1>2, <2>1, <2>2, Zenon
<1>5. \A q, r \in Sessions : q # r => Apart(tx[q], tx[r])'
  BY <1>4, Zenon DEF Apart
<1> QED BY <1>2, <1>3, <1>5, Zenon DEF IInv

\* A step of no transaction.
LEMMA SameTxInv ==
  ASSUME IInv, now' \in Nat, RowInv', ReceiptInv', LookupFinds', UNCHANGED tx,
         \A r \in Sessions : Environment(tx[r])
  PROVE  IInv'
<1>1. \A r \in Sessions : TxInv(tx[r])'
  <2> TAKE r \in Sessions
  <2>1. PICK x : x = tx'[r] /\ TxInv(x) /\ Environment(x)
    BY Zenon DEF IInv
  <2>2. TxInv(x)'
    BY <2>1, OthersKept, Zenon
  <2> QED BY <2>1, <2>2, Zenon
<1>2. \A q, r \in Sessions : q # r => Apart(tx[q], tx[r])'
  BY DEF IInv, Apart
<1>3. tx' = [r \in Sessions |-> tx'[r]]
  BY Zenon DEF IInv
<1> QED BY <1>1, <1>2, <1>3, Zenon DEF IInv

\* The clock keeps the invariant: receipts only get older.
LEMMA ClockStep ==
  ASSUME IInv, Clock PROVE IInv'
<1>1. now \in Nat /\ now' \in Nat /\ now' = now + 1
        /\ UNCHANGED <<tasks, archived, submissions, operations, tx, accepted, applied, missed>>
  BY DEF IInv, Clock, tables, history
<1>2. RowInv' /\ LookupFinds'
  BY <1>1, Zenon DEF IInv, RowInv, LookupFinds, IsTask, Ids, ArchivedIds
<1>3. ReceiptInv'
  BY <1>1, PostgresAssumption DEF IInv, ReceiptInv
<1>4. \A x : Environment(x)
  BY <1>1 DEF Environment, Ids, ArchivedIds, rowOf
<1> QED BY <1>1, <1>2, <1>3, <1>4, SameTxInv, Zenon

\* SubmitTask adds a row of an id that nobody has.
LEMMA SubmitTaskStep ==
  ASSUME IInv, NEW u \in UUIDs, NEW m \in Submits, SubmitTask(u, m) PROVE IInv'
<1> DEFINE n == NewTask(u, m, FALSE, now)
<1>1. n.uuid = u
  BY Zenon DEF NewTask
<1>2. IsTask(n)
  BY Zenon DEF NewTask, IsTask, Columns
<1>3. tasks' = tasks \cup {n}
        /\ UNCHANGED <<archived, submissions, operations, tx, now, accepted, applied, missed>>
  BY Zenon DEF SubmitTask, history
<1> HIDE DEF n
<1>4. u \notin Ids /\ \A s \in Sessions : \A k \in tx[s].rows : k.uuid # u
  BY Zenon DEF SubmitTask, Unused, Ids
<1>5. Ids' = Ids \cup {u} /\ ArchivedIds' = ArchivedIds /\ ArchivedIds \subseteq Ids
  BY <1>1, <1>3, Zenon DEF Ids, ArchivedIds
<1>6. \A t \in tasks : t.uuid # u
  BY <1>4, LiveIds, Zenon
<1>7. RowInv'
  <2>1. RowInv
    BY Zenon DEF IInv
  <2>2. \A t \in tasks' : IsTask(t)
    BY <1>2, <1>3, <2>1, Zenon DEF RowInv
  <2>3. \A t, v \in tasks' : t.uuid = v.uuid => t = v
    BY <1>1, <1>3, <1>6, <2>1, Zenon DEF RowInv
  <2>4. \A t \in tasks' : t.uuid \notin ArchivedIds'
    BY <1>1, <1>3, <1>4, <1>5, <2>1, Zenon DEF RowInv
  <2>5. \A y \in submissions' : y.uuid \in Ids' /\ y.expiresAt \in Nat
    BY <1>3, <1>5, <2>1, Zenon DEF RowInv
  <2>6. \A y \in operations' : y.id = y.digest.id /\ y.expiresAt \in Nat
    BY <1>3, <2>1, Zenon DEF RowInv
  <2> QED BY <2>2, <2>3, <2>4, <2>5, <2>6, Zenon DEF RowInv, IsTask
<1>8. ReceiptInv' /\ LookupFinds' /\ now \in Nat
  BY <1>3, Zenon DEF IInv, ReceiptInv, LookupFinds
<1>9. ASSUME NEW s \in Sessions PROVE Environment(tx[s])
  <2>1. \A v \in Ids : rowOf(v)' = rowOf(v)
    BY <1>1, <1>3, <1>4, Zenon DEF rowOf
  <2>2. \A k \in tx[s].rows : k.uuid \notin Ids => k.uuid \notin Ids'
    BY <1>4, <1>5, Zenon
  <2> QED BY <1>3, <1>5, <1>8, <2>1, <2>2 DEF Environment
<1> QED BY <1>3, <1>7, <1>8, <1>9, SameTxInv, Zenon

\* The purge drops receipts that have expired by now.
LEMMA PurgeEnvironment ==
  ASSUME IInv, submissions' \subseteq submissions, operations' \subseteq operations,
         UNCHANGED <<tasks, archived, now>>, NEW x
  PROVE  Environment(x)
  BY DEF IInv, Environment, Ids, ArchivedIds, rowOf

\* Deleting receipts leaves the rows as they are.
LEMMA PurgeRows ==
  ASSUME IInv, submissions' \subseteq submissions, operations' \subseteq operations,
         UNCHANGED <<tasks, archived, now, accepted, applied, missed>>,
         \A y \in submissions \ submissions' : y.expiresAt <= now,
         \A y \in operations \ operations' : y.expiresAt <= now
  PROVE  RowInv' /\ ReceiptInv' /\ LookupFinds' /\ now' \in Nat
<1>1. now' \in Nat /\ LookupFinds' /\ RowInv'
  BY Zenon DEF IInv, RowInv, LookupFinds, IsTask, Ids, ArchivedIds
<1>2. Retention \in Nat /\ now \in Nat /\ ReceiptInv
        /\ (\A y \in submissions : y.expiresAt \in Nat)
        /\ (\A y \in operations : y.expiresAt \in Nat)
  BY PostgresAssumption, Zenon DEF IInv, RowInv
<1>3. ASSUME NEW a \in accepted
      PROVE  /\ a.at \in Nat
             /\ \/ a.at + Retention <= now
                \/ \E y \in submissions' :
                     KeyLock(y) = KeyLock(a) /\ y.expiresAt >= a.at + Retention
  BY <1>2 DEF ReceiptInv
<1>4. ASSUME NEW o \in applied
      PROVE  /\ o.at \in Nat
             /\ \/ o.at + Retention <= now
                \/ \E y \in operations' : y.id = o.id /\ y.expiresAt >= o.at + Retention
  BY <1>2 DEF ReceiptInv
<1>5. ReceiptInv'
  BY <1>3, <1>4, Zenon DEF ReceiptInv, KeyLock
<1> QED BY <1>1, <1>5, Zenon

\* The DELETE of expired keys keeps the invariant: live receipts stay.
LEMMA DeleteKeysStep ==
  ASSUME IInv, NEW s \in Sessions, DeleteKeys(s) PROVE IInv'
<1> DEFINE x == tx[s]
           y == [x EXCEPT !.pc = "findOperations", !.todo = {}]
<1>1. TxInv(x) /\ x.pc = "deleteKeys" /\ tx = [r \in Sessions |-> tx[r]]
  BY Zenon DEF DeleteKeys, at, IInv
<1>2. tx' = [tx EXCEPT ![s] = y]
  BY <1>1, Zenon DEF DeleteKeys
<1>3. submissions' = submissions \ x.todo
        /\ UNCHANGED <<tasks, archived, operations, now, accepted, applied, missed>>
  BY Zenon DEF DeleteKeys, history
<1>4. Waiting(x) /\ IsTx(x) /\ x.at \in Nat /\ x.at <= now
  BY <1>1, Phase, Zenon DEF TxInv
<1>5. x.locks = {} /\ Unwritten(x) /\ \A e \in x.todo : e.expiresAt <= x.at
  BY <1>1, <1>4, Zenon DEF Waiting
<1> HIDE DEF x
<1>6. IsTx(y)
  BY <1>4, ZenonT(60) DEF IsTx, Fields
<1>7. y.pc = "findOperations" /\ y.at = x.at /\ y.locks = x.locks
        /\ y.rows = x.rows /\ y.archive = x.archive /\ y.receipt = x.receipt
  BY <1>4, Zenon DEF IsTx, Fields
<1> HIDE DEF y
<1>8. Waiting(y) /\ y.locks = {} /\ y.rows = {}
  BY <1>5, <1>7, Zenon DEF Waiting, Unwritten
<1>9. TxInv(y)
  BY <1>4, <1>6, <1>7, <1>8, Zenon DEF TxInv
<1>10. \A e \in submissions \ submissions' : e.expiresAt <= now
  BY <1>3, <1>4, <1>5 DEF IInv, RowInv
<1>11. RowInv' /\ ReceiptInv' /\ LookupFinds' /\ now' \in Nat
  BY <1>3, <1>10, PurgeRows, Zenon
<1>12. \A z : Environment(z)
  BY <1>3, PurgeEnvironment, Zenon
<1> QED BY <1>2, <1>8, <1>9, <1>11, <1>12, TablesInv, Zenon

\* The DELETE of expired operations keeps the invariant.
LEMMA DeleteOperationsStep ==
  ASSUME IInv, NEW s \in Sessions, DeleteOperations(s) PROVE IInv'
<1> DEFINE x == tx[s]
<1>1. TxInv(x) /\ x.pc = "deleteOperations" /\ tx' = [tx EXCEPT ![s] = Idle]
  BY Zenon DEF DeleteOperations, at, IInv
<1>2. operations' = operations \ x.todo
        /\ UNCHANGED <<tasks, archived, submissions, now, accepted, applied, missed>>
  BY Zenon DEF DeleteOperations, history
<1>3. Waiting(x) /\ x.at \in Nat /\ x.at <= now
  BY <1>1, Phase, Zenon DEF TxInv
<1>4. \A e \in x.todo : e.expiresAt <= x.at
  BY <1>1, <1>3, Zenon DEF Waiting
<1>5. \A e \in operations \ operations' : e.expiresAt <= now
  BY <1>2, <1>3, <1>4 DEF IInv, RowInv
<1>6. RowInv' /\ ReceiptInv' /\ LookupFinds' /\ now' \in Nat
  BY <1>2, <1>5, PurgeRows, Zenon
<1>7. \A z : Environment(z)
  BY <1>2, PurgeEnvironment, Zenon
<1>8. TxInv(Idle) /\ Idle.locks = {} /\ Idle.rows = {}
  BY IdleInv, Zenon DEF IInv, Idle
<1> QED BY <1>1, <1>6, <1>7, <1>8, TablesInv, Zenon

-----------------------------------------------------------------------------
(* The commit. *)

\* What Commit does with receipts, by the kind of its transaction.
PlainCommit(x) ==
  /\ Sweeping(x) \/ \E t \in tasks : Changed(x, t) /\ LegacyChange(x, t)
  /\ UNCHANGED <<submissions, accepted, operations, applied>>

GuardedCommit(x, t) ==
  /\ Changed(x, t) /\ OfTask(x.req, t) /\ StoredChange(x, t)
  /\ operations' = {y \in operations : y.id # x.req.id} \cup {OperationReceipt(x, t)}
  /\ applied' = applied \cup {[id |-> x.req.id, uuid |-> t.uuid,
                               revision |-> t.revision + 1, at |-> x.at]}
  /\ UNCHANGED <<submissions, accepted>>

KeyedCommit(x, n) ==
  /\ Submitting(x) /\ x.rows = {n} /\ IsTask(n) /\ n.revision = 1
  /\ n.queue = x.req.queue /\ n.uuid \notin Ids
  /\ submissions' = {y \in submissions : KeyLock(y) # KeyLock(x.req)}
                      \cup {SubmissionReceipt(x, n)}
  /\ accepted' = accepted \cup {[queue |-> x.req.queue, key |-> x.req.key, uuid |-> n.uuid,
                                 at |-> x.at]}
  /\ UNCHANGED <<operations, applied>>

\* A commit is of a sweep or legacy change, of a guarded operation or of a submission.
LEMMA CommitKind ==
  ASSUME IInv, NEW s \in Sessions, Commit(s)
  PROVE  \/ PlainCommit(tx[s])
         \/ \E t \in tasks : GuardedCommit(tx[s], t)
         \/ \E n \in tx[s].rows : KeyedCommit(tx[s], n)
<1> DEFINE x == tx[s]
           a(y) == [queue |-> x.req.queue, key |-> x.req.key, uuid |-> y.uuid, at |-> x.at]
           o(y) == [id |-> x.req.id, uuid |-> y.uuid, revision |-> y.revision, at |-> x.at]
<1>1. TxInv(x)
  BY Zenon DEF IInv
<1>2. x.pc = "commit"
  BY Zenon DEF Commit, at
<1>3. x.req.op = "keyed" =>
        /\ submissions' = {y \in submissions : KeyLock(y) # KeyLock(x.req)} \cup x.receipt
        /\ accepted' = accepted \cup {a(y) : y \in x.receipt}
  BY Zenon DEF Commit
<1>4. x.req.op # "keyed" => UNCHANGED <<submissions, accepted>>
  BY Zenon DEF Commit
<1>5. x.req.op \in GuardedOps =>
        /\ operations' = {y \in operations : y.id # x.req.id} \cup x.receipt
        /\ applied' = applied \cup {o(y) : y \in x.receipt}
  BY Zenon DEF Commit
<1>6. x.req.op \notin GuardedOps => UNCHANGED <<operations, applied>>
  BY Zenon DEF Commit
<1> HIDE DEF x
<1>7. CASE Sweeping(x)
  <2>1. x.req.op = "cleanup"
    BY <1>7, Zenon DEF Sweeping
  <2>2. PlainCommit(x)
    BY <1>4, <1>6, <1>7, <2>1, Zenon DEF PlainCommit, GuardedOps
  <2> QED BY <2>2, Zenon DEF x
<1>8. CASE Changing(x)
  <2>1. PICK t \in tasks :
          /\ Changed(x, t)
          /\ \/ LegacyChange(x, t)
             \/ OfTask(x.req, t) /\ (GuardedChange(x, t) \/ StoredChange(x, t))
    BY <1>8, Zenon DEF Changing
  <2>2. CASE LegacyChange(x, t)
    <3>1. x.req.op \in LegacyOps
      BY <2>2, Zenon DEF LegacyChange
    <3>2. PlainCommit(x)
      BY <1>4, <1>6, <2>1, <2>2, <3>1, Zenon DEF PlainCommit, GuardedOps, LegacyOps
    <3> QED BY <3>2, Zenon DEF x
  <2>3. CASE OfTask(x.req, t) /\ StoredChange(x, t)
    <3>1. x.req.op \in GuardedOps /\ x.receipt = {OperationReceipt(x, t)}
      BY <2>3, Zenon DEF OfTask, StoredChange
    <3>2. o(OperationReceipt(x, t)) = [id |-> x.req.id, uuid |-> t.uuid,
                                       revision |-> t.revision + 1, at |-> x.at]
      BY Zenon DEF OperationReceipt
    <3> HIDE DEF o
    <3>3. GuardedCommit(x, t)
      BY <1>4, <1>5, <2>1, <2>3, <3>1, <3>2, Zenon DEF GuardedCommit, GuardedOps
    <3> QED BY <3>3, Zenon DEF x
  <2>4. ~GuardedChange(x, t)
    BY <1>2, Zenon DEF GuardedChange
  <2> QED BY <2>1, <2>2, <2>3, <2>4, Zenon
<1>9. CASE Submitting(x)
  <2>1. PICK n \in x.rows : x.rows = {n} /\ IsTask(n) /\ n.revision = 1
          /\ n.queue = x.req.queue /\ n.uuid \notin Ids /\ x.receipt = {SubmissionReceipt(x, n)}
    BY <1>9, Zenon DEF Submitting
  <2>2. x.req.op = "keyed"
    BY <1>9, Zenon DEF Submitting
  <2>3. a(SubmissionReceipt(x, n)) = [queue |-> x.req.queue, key |-> x.req.key,
                                      uuid |-> n.uuid, at |-> x.at]
    BY Zenon DEF SubmissionReceipt
  <2> HIDE DEF a
  <2>4. KeyedCommit(x, n)
    BY <1>3, <1>6, <1>9, <2>1, <2>2, <2>3 DEF KeyedCommit, GuardedOps
  <2> QED BY <2>4, Zenon DEF x
<1> QED BY <1>1, <1>2, <1>7, <1>8, <1>9, Phase, Zenon

\* The rows after a commit: those it did not hold, and those it wrote.
LEMMA CommitTables ==
  ASSUME IInv, NEW s \in Sessions, Commit(s), NEW x, x = tx[s]
  PROVE  /\ tasks' = {t \in tasks : TaskLock(t.uuid) \notin x.locks} \cup x.rows
         /\ archived' = archived \cup x.archive
         /\ UNCHANGED <<now, missed>> /\ tx' = [tx EXCEPT ![s] = Idle]
         /\ Ids' = Ids \cup {n.uuid : n \in x.rows}
         /\ ArchivedIds' = ArchivedIds \cup {a.uuid : a \in x.archive}
         /\ \A u : TaskLock(u) \notin x.locks /\ (\A n \in x.rows : n.uuid # u)
              => rowOf(u)' = rowOf(u)
<1>1. /\ tasks' = {t \in tasks : TaskLock(t.uuid) \notin x.locks} \cup x.rows
      /\ archived' = archived \cup x.archive
      /\ UNCHANGED <<now, missed>> /\ tx' = [tx EXCEPT ![s] = Idle]
  BY Zenon DEF Commit
<1>2. TxInv(x) /\ RowInv
  BY Zenon DEF IInv
<1>3. x.pc = "commit"
  BY Zenon DEF Commit, at
<1>4. \A u : TaskLock(u) \in x.locks => \E n \in x.rows \cup x.archive : n.uuid = u
  BY <1>2, <1>3, WroteAll, Zenon
<1>5. \A a \in x.archive : TaskLock(a.uuid) \in x.locks
  BY <1>2, Written, Zenon
<1>6. \A a \in x.archive : a.uuid \in Ids
  BY <1>2, <1>5, HeldIsThere, LiveIds, Zenon
<1>7. Ids' = Ids \cup {n.uuid : n \in x.rows}
  <2>1. Ids' \subseteq Ids \cup {n.uuid : n \in x.rows}
    BY <1>1, <1>6 DEF Ids
  <2>2. {n.uuid : n \in x.rows} \subseteq Ids'
    BY <1>1, Zenon DEF Ids
  <2>3. Ids \subseteq Ids'
    BY <1>1, <1>4, Zenon DEF Ids
  <2> QED BY <2>1, <2>2, <2>3, Zenon
<1>8. ArchivedIds' = ArchivedIds \cup {a.uuid : a \in x.archive}
  BY <1>1, Zenon DEF ArchivedIds
<1>9. \A u : TaskLock(u) \notin x.locks /\ (\A n \in x.rows : n.uuid # u)
        => rowOf(u)' = rowOf(u)
  BY <1>1, Zenon DEF rowOf
<1> QED BY <1>1, <1>7, <1>8, <1>9, Zenon

\* A committed task is live once or archived.
LEMMA CommitRows ==
  ASSUME IInv, NEW s \in Sessions, Commit(s) PROVE RowInv'
<1>1. PICK x : x = tx[s]
  BY Zenon
<1>2. TxInv(x) /\ RowInv /\ x.at \in Nat
  BY <1>1, Zenon DEF IInv, TxInv
<1>3. /\ \A n \in x.rows : IsTask(n) /\ (TaskLock(n.uuid) \in x.locks \/ n.uuid \notin Ids)
      /\ \A n, m \in x.rows : n.uuid = m.uuid => n = m
      /\ \A a \in x.archive : TaskLock(a.uuid) \in x.locks /\ x.rows = {}
  BY <1>2, Written, Zenon
<1>4. /\ tasks' = {t \in tasks : TaskLock(t.uuid) \notin x.locks} \cup x.rows
      /\ Ids' = Ids \cup {n.uuid : n \in x.rows}
      /\ ArchivedIds' = ArchivedIds \cup {a.uuid : a \in x.archive}
  BY <1>1, CommitTables, Zenon
<1>5. /\ \A t \in tasks : IsTask(t) /\ t.uuid \notin ArchivedIds
      /\ \A t, v \in tasks : t.uuid = v.uuid => t = v
  BY <1>2, Zenon DEF RowInv
<1>6. \A t \in tasks' : IsTask(t)
  BY <1>3, <1>4, <1>5, Zenon
<1>7. \A t, v \in tasks' : t.uuid = v.uuid => t = v
  <2>1. \A n \in x.rows, t \in tasks : TaskLock(t.uuid) \notin x.locks => n.uuid # t.uuid
    BY <1>3, LiveIds, Zenon
  <2> QED BY <1>3, <1>4, <1>5, <2>1, Zenon
<1>8. \A t \in tasks' : t.uuid \notin ArchivedIds'
  <2>1. ASSUME NEW t \in tasks, TaskLock(t.uuid) \notin x.locks
        PROVE  t.uuid \notin ArchivedIds'
    BY <1>3, <1>4, <1>5, <2>1, Zenon
  <2>2. ASSUME NEW n \in x.rows PROVE n.uuid \notin ArchivedIds'
    <3>1. x.archive = {}
      BY <1>3, Zenon
    <3>2. n.uuid \notin Ids => n.uuid \notin ArchivedIds
      BY Zenon DEF Ids, ArchivedIds
    <3>3. TaskLock(n.uuid) \in x.locks => n.uuid \notin ArchivedIds
      BY <1>2, <1>5, HeldIsThere, Zenon
    <3> QED BY <1>3, <1>4, <3>1, <3>2, <3>3, Zenon
  <2> QED BY <1>4, <2>1, <2>2, Zenon
<1>9. Retention \in Nat
  BY PostgresAssumption, Zenon
<1>10. \A y \in submissions' : y.uuid \in Ids' /\ y.expiresAt \in Nat
  <2>1. ASSUME NEW y \in submissions PROVE y.uuid \in Ids' /\ y.expiresAt \in Nat
    BY <1>2, <1>4, Zenon DEF RowInv
  <2>2. ASSUME NEW n \in x.rows
        PROVE  SubmissionReceipt(x, n).uuid \in Ids' /\ SubmissionReceipt(x, n).expiresAt \in Nat
    BY <1>2, <1>4, <1>9 DEF SubmissionReceipt
  <2>3. \A y \in submissions' : y \in submissions \/ \E n \in x.rows : y = SubmissionReceipt(x, n)
    BY <1>1, CommitKind DEF PlainCommit, GuardedCommit, KeyedCommit
  <2> QED BY <2>1, <2>2, <2>3, Zenon
<1>11. \A y \in operations' : y.id = y.digest.id /\ y.expiresAt \in Nat
  <2>1. ASSUME NEW y \in operations PROVE y.id = y.digest.id /\ y.expiresAt \in Nat
    BY <1>2, Zenon DEF RowInv
  <2>2. ASSUME NEW t PROVE OperationReceipt(x, t).id = OperationReceipt(x, t).digest.id
                              /\ OperationReceipt(x, t).expiresAt \in Nat
    BY <1>2, <1>9 DEF OperationReceipt
  <2>3. \A y \in operations' : y \in operations \/ \E t \in tasks : y = OperationReceipt(x, t)
    BY <1>1, CommitKind DEF PlainCommit, GuardedCommit, KeyedCommit
  <2> QED BY <2>1, <2>2, <2>3, Zenon
<1> QED BY <1>6, <1>7, <1>8, <1>10, <1>11, Zenon DEF RowInv, IsTask

\* A receipt is replaced only when it has expired.
LEMMA CommitReceipts ==
  ASSUME IInv, NEW s \in Sessions, Commit(s) PROVE ReceiptInv'
<1>1. PICK x : x = tx[s]
  BY Zenon
<1>2. x.at \in Nat /\ x.at <= now /\ now \in Nat /\ now' = now /\ Retention \in Nat
  BY <1>1, CommitTables, PostgresAssumption, Zenon DEF IInv, TxInv
<1>3. ReceiptInv /\ RowInv
  BY Zenon DEF IInv
<1>4. CASE PlainCommit(x)
  BY <1>2, <1>3, <1>4, Zenon DEF PlainCommit, ReceiptInv, KeyLock
<1>5. ASSUME NEW t \in tasks, GuardedCommit(x, t) PROVE ReceiptInv'
  <2> DEFINE e == OperationReceipt(x, t)
             b == [id |-> x.req.id, uuid |-> t.uuid, revision |-> t.revision + 1, at |-> x.at]
  <2>1. e.id = x.req.id /\ e.expiresAt = x.at + Retention /\ b.id = x.req.id /\ b.at = x.at
    BY Zenon DEF OperationReceipt
  <2> HIDE DEF e, b
  <2>2. /\ operations' = {y \in operations : y.id # x.req.id} \cup {e}
        /\ applied' = applied \cup {b}
        /\ UNCHANGED <<submissions, accepted>>
    BY <1>5, Zenon DEF GuardedCommit, e, b
  <2>3. \A y \in operations : y.id = x.req.id => y.expiresAt <= x.at
    BY <1>2, <1>3, <1>5 DEF GuardedCommit, StoredChange, liveOperation, RowInv
  <2>4. ASSUME NEW o \in applied'
        PROVE  /\ o.at \in Nat
               /\ \/ o.at + Retention <= now
                  \/ \E y \in operations' : y.id = o.id /\ y.expiresAt >= o.at + Retention
    <3>1. CASE o = b
      BY <1>2, <2>1, <2>2, <3>1
    <3>2. CASE o \in applied
      <4>1. o.at \in Nat
        BY <1>3, <3>2, Zenon DEF ReceiptInv
      <4>2. CASE o.at + Retention <= now
        BY <4>1, <4>2, Zenon
      <4>3. CASE \E y \in operations : y.id = o.id /\ y.expiresAt >= o.at + Retention
        <5>1. PICK y \in operations : y.id = o.id /\ y.expiresAt >= o.at + Retention
          BY <4>3, Zenon
        <5>2. y.expiresAt \in Nat
          BY <1>3, Zenon DEF RowInv
        <5>3. y \in operations' \/ y.expiresAt <= x.at
          BY <2>2, <2>3, Zenon
        <5> QED BY <1>2, <4>1, <5>1, <5>2, <5>3
      <4> QED BY <1>3, <3>2, <4>2, <4>3, Zenon DEF ReceiptInv
    <3> QED BY <2>2, <3>1, <3>2, Zenon
  <2> QED BY <1>2, <1>3, <2>2, <2>4, Zenon DEF ReceiptInv, KeyLock
<1>6. ASSUME NEW n \in x.rows, KeyedCommit(x, n) PROVE ReceiptInv'
  <2> DEFINE e == SubmissionReceipt(x, n)
             b == [queue |-> x.req.queue, key |-> x.req.key, uuid |-> n.uuid, at |-> x.at]
  <2>1. e.expiresAt = x.at + Retention /\ b.at = x.at
    BY Zenon DEF SubmissionReceipt
  <2>2. KeyLock(e) = KeyLock(x.req) /\ KeyLock(b) = KeyLock(x.req)
    BY KeyLockFields, Zenon DEF SubmissionReceipt
  <2> HIDE DEF e, b
  <2>3. /\ submissions' = {y \in submissions : KeyLock(y) # KeyLock(x.req)} \cup {e}
        /\ accepted' = accepted \cup {b}
        /\ UNCHANGED <<operations, applied>>
    BY <1>6, Zenon DEF KeyedCommit, e, b
  <2>4. \A y \in submissions : KeyLock(y) = KeyLock(x.req) => y.expiresAt <= x.at
    BY <1>2, <1>3, <1>6 DEF KeyedCommit, Submitting, liveKey, RowInv
  <2>5. ASSUME NEW a \in accepted'
        PROVE  /\ a.at \in Nat
               /\ \/ a.at + Retention <= now
                  \/ \E y \in submissions' :
                       KeyLock(y) = KeyLock(a) /\ y.expiresAt >= a.at + Retention
    <3>1. CASE a = b
      BY <1>2, <2>1, <2>2, <2>3, <3>1
    <3>2. CASE a \in accepted
      <4>1. a.at \in Nat
        BY <1>3, <3>2, Zenon DEF ReceiptInv
      <4>2. CASE a.at + Retention <= now
        BY <4>1, <4>2, Zenon
      <4>3. CASE \E y \in submissions : KeyLock(y) = KeyLock(a) /\ y.expiresAt >= a.at + Retention
        <5>1. PICK y \in submissions : KeyLock(y) = KeyLock(a) /\ y.expiresAt >= a.at + Retention
          BY <4>3, Zenon
        <5>2. y.expiresAt \in Nat
          BY <1>3, Zenon DEF RowInv
        <5>3. y \in submissions' \/ y.expiresAt <= x.at
          BY <2>3, <2>4, Zenon
        <5> QED BY <1>2, <4>1, <5>1, <5>2, <5>3
      <4> QED BY <1>3, <3>2, <4>2, <4>3, Zenon DEF ReceiptInv
    <3> QED BY <2>3, <3>1, <3>2, Zenon
  <2> QED BY <1>2, <1>3, <2>3, <2>5, Zenon DEF ReceiptInv, KeyLock
<1> QED BY <1>1, <1>4, <1>5, <1>6, CommitKind, Zenon

\* The others see a commit as a step of their environment.
LEMMA CommitEnvironment ==
  ASSUME IInv, NEW s \in Sessions, Commit(s), NEW z, TxInv(z), Apart(tx[s], z)
  PROVE  Environment(z)
<1>1. PICK x : x = tx[s]
  BY Zenon
<1>2. TxInv(x) /\ RowInv /\ now \in Nat /\ Apart(x, z)
  BY <1>1, Zenon DEF IInv
<1>3. \A n \in x.rows : TaskLock(n.uuid) \in x.locks \/ n.uuid \notin Ids
  BY <1>2, Written, Zenon
<1>4. /\ UNCHANGED now
      /\ Ids' = Ids \cup {n.uuid : n \in x.rows}
      /\ ArchivedIds' = ArchivedIds \cup {a.uuid : a \in x.archive}
      /\ \A u : TaskLock(u) \notin x.locks /\ (\A n \in x.rows : n.uuid # u)
           => rowOf(u)' = rowOf(u)
  BY <1>1, CommitTables, Zenon
<1>5. ASSUME NEW u \in Ids, TaskLock(u) \in z.locks \/ rowOf(u) = {}
      PROVE  rowOf(u)' = rowOf(u)
  <2>1. TaskLock(u) \notin x.locks
    <3>1. CASE TaskLock(u) \in z.locks
      BY <1>2, <3>1, Zenon DEF Apart
    <3>2. CASE rowOf(u) = {}
      BY <1>2, <3>2, HeldIsThere, Zenon DEF rowOf
    <3> QED BY <1>5, <3>1, <3>2, Zenon
  <2> QED BY <1>3, <1>4, <2>1, Zenon
<1>6. ASSUME NEW n \in z.rows, n.uuid \notin Ids PROVE n.uuid \notin Ids'
  BY <1>2, <1>4, <1>6, Zenon DEF Apart
<1>7. ASSUME NEW y \in submissions', y \notin submissions PROVE KeyLock(y) \notin z.locks
  <2>1. PICK n \in x.rows : KeyedCommit(x, n)
    BY <1>1, <1>7, CommitKind, Zenon DEF PlainCommit, GuardedCommit
  <2>2. y = SubmissionReceipt(x, n) /\ KeyLock(x.req) \in x.locks
    BY <1>7, <2>1, Zenon DEF KeyedCommit, Submitting
  <2>3. KeyLock(y) = KeyLock(x.req)
    BY <2>2, KeyLockFields, Zenon DEF SubmissionReceipt
  <2> QED BY <1>2, <2>2, <2>3, Zenon DEF Apart
<1>8. ASSUME NEW y \in operations', y \notin operations
      PROVE  OperationLock(y.id) \notin z.locks /\ (z.pc = "lockGuarded" => y.digest # z.req)
  <2>1. PICK t \in tasks : GuardedCommit(x, t)
    BY <1>1, <1>8, CommitKind, Zenon DEF PlainCommit, KeyedCommit
  <2>2. y = OperationReceipt(x, t) /\ OfTask(x.req, t)
          /\ x.locks = {TaskLock(t.uuid), OperationLock(x.req.id)}
    BY <1>8, <2>1, Zenon DEF GuardedCommit, StoredChange
  <2>3. y.id = x.req.id /\ y.digest = x.req
    BY <2>2, Zenon DEF OperationReceipt
  <2>4. ASSUME z.pc = "lockGuarded", z.req = x.req PROVE FALSE
    <3>1. Guarding(z)
      BY <2>4, Phase, Zenon
    <3>2. t \in rowOf(z.req.uuid)
      BY <2>2, <2>4, <3>1, Zenon DEF Guarding, OfTask, rowOf
    <3>3. TaskLock(t.uuid) \in z.locks
      BY <3>1, <3>2, Zenon DEF Guarding
    <3> QED BY <1>2, <2>2, <3>3, Zenon DEF Apart
  <2> QED BY <1>2, <2>2, <2>3, <2>4, Zenon DEF Apart
<1>9. now' \in Nat /\ now' >= now /\ Ids \subseteq Ids' /\ ArchivedIds \subseteq ArchivedIds'
  BY <1>2, <1>4
<1> QED BY <1>5, <1>6, <1>7, <1>8, <1>9, Zenon DEF Environment

\* Commit keeps the invariant.
LEMMA CommitStep ==
  ASSUME IInv, NEW s \in Sessions, Commit(s) PROVE IInv'
<1>1. TxInv(Idle) /\ Idle.locks = {} /\ Idle.rows = {}
  BY IdleInv, Zenon DEF IInv, Idle
<1>2. \A r \in Sessions \ {s} : TxInv(tx[r]) /\ Apart(tx[s], tx[r])
  BY Zenon DEF IInv
<1>3. Apart(tx[s], Idle)
  BY <1>1, Zenon DEF Apart
<1>4. Environment(Idle) /\ \A r \in Sessions \ {s} : Environment(tx[r])
  BY <1>1, <1>2, <1>3, CommitEnvironment, Zenon
<1>5. tx' = [tx EXCEPT ![s] = Idle] /\ now' \in Nat /\ LookupFinds'
  BY CommitTables, Zenon DEF IInv, LookupFinds
<1>6. RowInv' /\ ReceiptInv'
  BY CommitRows, CommitReceipts, Zenon
<1> QED BY <1>1, <1>4, <1>5, <1>6, TablesInv, Zenon

-----------------------------------------------------------------------------
(* The invariant. *)

\* It holds at the start.
LEMMA InitInv == Init => IInv
<1> SUFFICES ASSUME Init PROVE IInv
  BY Zenon
<1>1. now \in Nat /\ RowInv /\ ReceiptInv /\ LookupFinds
  BY Zenon DEF Init, RowInv, ReceiptInv, LookupFinds
<1>2. tx = [s \in Sessions |-> tx[s]] /\ \A s \in Sessions : tx[s] = Idle
  BY Zenon DEF Init
<1>3. TxInv(Idle)
  BY <1>1, IdleInv, Zenon
<1>4. Apart(Idle, Idle)
  BY Zenon DEF Apart, Idle
<1> QED BY <1>1, <1>2, <1>3, <1>4, Zenon DEF IInv

\* Every statement of every transaction keeps it.
LEMMA NextInv == IInv /\ [Next]_vars => IInv'
<1> SUFFICES ASSUME IInv, [Next]_vars PROVE IInv'
  BY Zenon
<1>1. ASSUME NEW u \in UUIDs, NEW m \in Submits, SubmitTask(u, m) PROVE IInv'
  BY <1>1, SubmitTaskStep, Zenon
<1>2. ASSUME NEW s \in Sessions, NEW r \in Requests, Request(s, r) PROVE IInv'
  BY <1>2, BeginStep, GetNextTaskStep, LockRowStep, CleanUpTimedOutStep,
     LookupSubmissionStep, GetTaskStep, PurgeExpiredReceiptsStep, ZenonT(60) DEF Request
<1>3. ASSUME NEW s \in Sessions, Statement(s) PROVE IInv'
  BY <1>3, SweepStep, InsertKeyStep, ReadKeyStep, LockTaskRowStep, LoadOperationStep,
     ClaimGuardedTaskStep, LockGuardedStep, StoreOperationStep, ViewFirstStep,
     ViewSecondStep, DeleteKeysStep, FindOperationsStep, DeleteOperationsStep, ZenonT(60)
     DEF Statement
<1>4. ASSUME NEW s \in Sessions, Commit(s) PROVE IInv'
  BY <1>4, CommitStep, Zenon
<1>5. ASSUME NEW s \in Sessions, Abort(s) PROVE IInv'
  BY <1>5, EndInv, Zenon DEF Abort
<1>6. CASE Clock
  BY <1>6, ClockStep, Zenon
<1>7. CASE UNCHANGED vars
  <2>1. UNCHANGED <<tasks, archived, submissions, operations, tx, now, accepted, applied, missed>>
    BY <1>7, Zenon DEF vars
  <2>2. RowInv' /\ ReceiptInv' /\ LookupFinds' /\ now' \in Nat
    BY <2>1, Zenon DEF IInv, RowInv, ReceiptInv, LookupFinds, IsTask, Ids, ArchivedIds
  <2>3. \A x : Environment(x)
    BY <2>1, PurgeEnvironment, Zenon
  <2> QED BY <2>1, <2>2, <2>3, SameTxInv, Zenon
<1> QED BY <1>1, <1>2, <1>3, <1>4, <1>5, <1>6, <1>7, ZenonT(60) DEF Next

\* The invariant holds throughout.
LEMMA Invariance == Spec => []IInv
  BY InitInv, NextInv, PTL DEF Spec

-----------------------------------------------------------------------------
(* Theorems. *)

\* A lookup finds every task that existed when it began, whatever commits between its
\* two reads (currentView, MustGetTaskStateByID).
THEOREM LookupsFind == Spec => []LookupFinds
<1>1. IInv => LookupFinds
  BY Zenon DEF IInv
<1> QED BY <1>1, Invariance, PTL

\* A guarded request that reaches its guards was not applied before: the row it locks
\* keeps an identical request out until it has read the receipts (replayLocked).
THEOREM IdenticalReplayed == Spec => []IdenticalIsReplayed
<1>1. ASSUME IInv PROVE IdenticalIsReplayed
  <2> SUFFICES ASSUME NEW s \in Sessions, NEW y \in operations, at(s, "lockGuarded"),
                      y.digest = tx[s].req
               PROVE  y.expiresAt <= tx[s].at
    BY Zenon DEF IdenticalIsReplayed
  <2>1. Guarding(tx[s]) /\ tx[s].pc = "lockGuarded"
    BY <1>1, Phase, Zenon DEF IInv, at
  <2> QED BY <2>1, Zenon DEF Guarding
<1> QED BY <1>1, Invariance, PTL

-----------------------------------------------------------------------------
(* The store implements TaskLifecycle. *)

Live == {lifeOf(t) : t \in tasks}
Finished == {lifeOfArchived(a) : a \in archived}

\* The life of a task shows its uuid, queue, guard, lease and revision.
LEMMA LifeFields ==
  /\ \A t : /\ lifeOf(t).uuid = t.uuid
            /\ lifeOf(t).queue = t.queue
            /\ lifeOf(t).guarded = t.guarded
            /\ lifeOf(t).leased = (t.timeout > 0)
            /\ lifeOf(t).revision = t.revision
  /\ \A a : /\ lifeOfArchived(a).uuid = a.uuid
            /\ lifeOfArchived(a).queue = a.queue
            /\ lifeOfArchived(a).guarded = a.guarded
            /\ lifeOfArchived(a).revision = a.revision
  BY Zenon DEF lifeOf, lifeOfArchived

\* A new row is a life at revision 1, of an id never seen before.
LEMMA RowIsNew ==
  ASSUME NEW n, n.revision = 1, n.uuid \notin Ids,
         tasks' = tasks \cup {n}, archived' = archived
  PROVE  lifeOf(n) \in Live' /\ Lifecycle!New(lifeOf(n))
<1>1. Live' = Live \cup {lifeOf(n)} /\ Finished' = Finished
  BY Zenon DEF Live, Finished
<1>2. \A x \in Live \cup Finished : x.uuid # lifeOf(n).uuid
  BY LifeFields DEF Live, Finished, Ids
<1>3. lifeOf(n).revision = 1
  BY LifeFields, Zenon
<1> QED BY <1>1, <1>2, <1>3, Zenon DEF Lifecycle!New, Live, Finished

\* The commit of one changed row replaces its life by the next one, live or finished.
LEMMA ChangeReplaces ==
  ASSUME RowInv, NEW x, NEW t \in tasks, Changed(x, t),
         \A u : TaskLock(u) \in x.locks <=> u = t.uuid,
         tasks' = {v \in tasks : TaskLock(v.uuid) \notin x.locks} \cup x.rows,
         archived' = archived \cup x.archive
  PROVE  \E n \in Live' \cup Finished' :
           lifeOf(t) \in Live /\ Lifecycle!Replaced(lifeOf(t), n)
<1>1. \A v, w \in tasks : v.uuid = w.uuid => v = w
  BY Zenon DEF RowInv
<1>2. {v \in tasks : TaskLock(v.uuid) \notin x.locks} = tasks \ {t}
  BY <1>1
<1>3. {lifeOf(v) : v \in tasks \ {t}} = Live \ {lifeOf(t)} /\ lifeOf(t) \in Live
  BY <1>1, LifeFields DEF Live
<1>4. CASE x.archive = {} /\ \E n \in x.rows : x.rows = {n} /\ IsTask(n) /\ Moves(n, t)
  <2>1. PICK n \in x.rows : x.rows = {n} /\ Moves(n, t)
    BY <1>4, Zenon
  <2>2. tasks' = (tasks \ {t}) \cup {n} /\ archived' = archived
    BY <1>2, <1>4, <2>1, Zenon
  <2>3. Live' = (Live \ {lifeOf(t)}) \cup {lifeOf(n)} /\ Finished' = Finished
    BY <1>3, <2>2, Zenon DEF Live, Finished
  <2>4. Lifecycle!Follows(lifeOf(n), lifeOf(t))
    BY <2>1, LifeFields, Zenon DEF Lifecycle!Follows, Moves
  <2>5. lifeOf(n) \in Live'
    BY <2>3, Zenon
  <2>6. Lifecycle!Replaced(lifeOf(t), lifeOf(n))
    BY <2>3, <2>4, <2>5, Zenon DEF Lifecycle!Replaced, Live, Finished
  <2> QED BY <1>3, <2>5, <2>6, Zenon
<1>5. CASE x.rows = {} /\ \E a \in x.archive : x.archive = {a} /\ Moves(a, t)
  <2>1. PICK a \in x.archive : x.archive = {a} /\ Moves(a, t)
    BY <1>5, Zenon
  <2>2. tasks' = tasks \ {t} /\ archived' = archived \cup {a}
    BY <1>2, <1>5, <2>1, Zenon
  <2>3. Live' = Live \ {lifeOf(t)} /\ Finished' = Finished \cup {lifeOfArchived(a)}
    BY <1>3, <2>2, Zenon DEF Live, Finished
  <2>4. Lifecycle!Follows(lifeOfArchived(a), lifeOf(t))
    BY <2>1, LifeFields, Zenon DEF Lifecycle!Follows, Moves
  <2>5. lifeOfArchived(a) \notin Live' /\ lifeOfArchived(a) \in Finished'
    <3>1. \A v \in tasks' : v.uuid # a.uuid
      BY <1>1, <2>1, <2>2, Zenon DEF Moves
    <3>2. \A v \in tasks' : lifeOf(v) # lifeOfArchived(a)
      BY <3>1, LifeFields
    <3>3. \A l \in Live' : \E v \in tasks' : l = lifeOf(v)
      BY Zenon DEF Live
    <3> QED BY <2>3, <3>2, <3>3, Zenon
  <2>6. Lifecycle!Replaced(lifeOf(t), lifeOfArchived(a))
    BY <2>3, <2>4, <2>5, Zenon DEF Lifecycle!Replaced, Live, Finished
  <2> QED BY <1>3, <2>5, <2>6, Zenon
<1> QED BY <1>4, <1>5, Zenon DEF Changed

\* SubmitTask adds an unguarded task.
LEMMA SubmitTaskLives ==
  ASSUME NEW u \in UUIDs, NEW m \in Submits, SubmitTask(u, m)
  PROVE  Lifecycle!Submit
<1> DEFINE n == NewTask(u, m, FALSE, now)
<1>1. n.uuid = u /\ n.revision = 1 /\ ~n.guarded
  BY Zenon DEF NewTask
<1>2. u \notin Ids /\ tasks' = tasks \cup {n} /\ archived' = archived
        /\ UNCHANGED <<now, accepted, applied>>
  BY Zenon DEF SubmitTask, Unused, Ids, history
<1> HIDE DEF n
<1>3. lifeOf(n) \in Live' /\ Lifecycle!New(lifeOf(n))
  BY <1>1, <1>2, RowIsNew, Zenon
<1>4. ~lifeOf(n).guarded
  BY <1>1, LifeFields, Zenon
<1> QED BY <1>2, <1>3, <1>4, Zenon DEF Lifecycle!Submit, Live

\* The commit of a keyed submission adds a task under a key that was last used a
\* retention ago: its receipt would be live.
LEMMA KeyedCommitLives ==
  ASSUME IInv, NEW s \in Sessions, Commit(s), NEW n \in tx[s].rows, KeyedCommit(tx[s], n)
  PROVE  Lifecycle!SubmitKeyed
<1>1. PICK x : x = tx[s]
  BY Zenon
<1> DEFINE a == [queue |-> x.req.queue, key |-> x.req.key, uuid |-> n.uuid, at |-> x.at]
<1>2. x.rows = {n} /\ n.revision = 1 /\ n.queue = x.req.queue /\ n.uuid \notin Ids
        /\ accepted' = accepted \cup {a} /\ UNCHANGED applied
  BY <1>1, Zenon DEF KeyedCommit
<1>3. Submitting(x)
  BY <1>1, Zenon DEF KeyedCommit
<1>4. x.locks = {KeyLock(x.req)} /\ x.archive = {} /\ liveKey(x.req, x.at) = {}
  BY <1>3, Zenon DEF Submitting
<1>5. tasks' = tasks \cup {n} /\ archived' = archived /\ UNCHANGED now
  <2>1. {t \in tasks : TaskLock(t.uuid) \notin x.locks} = tasks
    BY <1>4, LockKinds, Zenon
  <2>2. /\ tasks' = {t \in tasks : TaskLock(t.uuid) \notin x.locks} \cup x.rows
        /\ archived' = archived \cup x.archive
        /\ UNCHANGED now
    BY <1>1, CommitTables, Zenon
  <2> HIDE DEF a
  <2>3. x.rows = {n} /\ x.archive = {}
    BY <1>2, <1>4, Zenon
  <2> QED BY <2>1, <2>2, <2>3, Zenon
<1>6. a.queue = x.req.queue /\ a.key = x.req.key /\ a.uuid = n.uuid /\ a.at = x.at
  BY Zenon
<1> HIDE DEF a
<1>7. lifeOf(n) \in Live' /\ Lifecycle!New(lifeOf(n))
  BY <1>2, <1>5, RowIsNew, Zenon
<1>8. x.at \in Nat /\ x.at <= now /\ now \in Nat /\ Retention \in Nat
        /\ \A b \in accepted : b.at \in Nat
  BY <1>1, PostgresAssumption, Zenon DEF IInv, TxInv, ReceiptInv
<1>9. ASSUME NEW b \in accepted, b.queue = a.queue, b.key = a.key
      PROVE  b.at + Retention <= now
  <2> SUFFICES ASSUME ~(b.at + Retention <= now) PROVE FALSE
    BY Zenon
  <2>1. PICK y \in submissions : KeyLock(y) = KeyLock(b) /\ y.expiresAt >= b.at + Retention
    BY Zenon DEF IInv, ReceiptInv
  <2>2. y.expiresAt \in Nat
    BY Zenon DEF IInv, RowInv
  <2>3. y.expiresAt > x.at
    BY <1>8, <2>1, <2>2
  <2>4. KeyLock(y) = KeyLock(x.req)
    BY <1>6, <1>9, <2>1, KeyLockFields
  <2> QED BY <1>4, <2>3, <2>4, Zenon DEF liveKey
<1>10. <<a.uuid, a.queue>> = <<lifeOf(n).uuid, lifeOf(n).queue>> /\ a.at <= now
         /\ a \in accepted'
  BY <1>2, <1>6, <1>8, LifeFields, Zenon
<1>11. \A b \in accepted : <<b.queue, b.key>> = <<a.queue, a.key>> => b.at + Retention <= now
  BY <1>9, Zenon
<1> QED BY <1>2, <1>5, <1>7, <1>10, <1>11, Zenon DEF Lifecycle!SubmitKeyed, Live

\* The commit of a legacy claim, update or finish changes one unguarded task.
LEMMA LegacyCommitLives ==
  ASSUME IInv, NEW s \in Sessions, Commit(s), NEW t \in tasks, Changed(tx[s], t),
         LegacyChange(tx[s], t), UNCHANGED <<accepted, applied>>
  PROVE  Lifecycle!Legacy
<1>1. PICK x : x = tx[s]
  BY Zenon
<1>2. \A u : TaskLock(u) \in x.locks <=> u = t.uuid
  BY <1>1, LockKinds, Zenon DEF LegacyChange
<1>3. ~lifeOf(t).guarded
  BY LifeFields, Zenon DEF LegacyChange
<1>4. \E n \in Live' \cup Finished' : lifeOf(t) \in Live /\ Lifecycle!Replaced(lifeOf(t), n)
  BY <1>1, <1>2, CommitTables, ChangeReplaces DEF IInv
<1>5. UNCHANGED now
  BY CommitTables, Zenon
<1>6. \E l \in Live : ~l.guarded /\ \E n \in Live' \cup Finished' : Lifecycle!Replaced(l, n)
  BY <1>3, <1>4, Zenon
<1> QED BY <1>5, <1>6, Zenon DEF Lifecycle!Legacy, Live, Finished

\* The commit of a guarded operation changes one task under an id that was last used a
\* retention ago.
LEMMA GuardedCommitLives ==
  ASSUME IInv, NEW s \in Sessions, Commit(s), NEW t \in tasks, GuardedCommit(tx[s], t)
  PROVE  Lifecycle!Guarded
<1>1. PICK x : x = tx[s]
  BY Zenon
<1> DEFINE o == [id |-> x.req.id, uuid |-> t.uuid, revision |-> t.revision + 1, at |-> x.at]
<1>2. Changed(x, t) /\ StoredChange(x, t) /\ applied' = applied \cup {o} /\ UNCHANGED accepted
  BY <1>1, Zenon DEF GuardedCommit
<1>3. o.id = x.req.id /\ o.uuid = t.uuid /\ o.revision = t.revision + 1 /\ o.at = x.at
  BY Zenon
<1> HIDE DEF o
<1>4. x.locks = {TaskLock(t.uuid), OperationLock(x.req.id)} /\ liveOperation(x.req.id, x.at) = {}
  BY <1>2, Zenon DEF StoredChange
<1>5. \A u : TaskLock(u) \in x.locks <=> u = t.uuid
  BY <1>4, LockKinds, Zenon
<1>6. \E n \in Live' \cup Finished' : lifeOf(t) \in Live /\ Lifecycle!Replaced(lifeOf(t), n)
  BY <1>1, <1>2, <1>5, CommitTables, ChangeReplaces DEF IInv
<1>7. x.at \in Nat /\ x.at <= now /\ now \in Nat /\ Retention \in Nat
        /\ \A p \in applied : p.at \in Nat
  BY <1>1, PostgresAssumption, Zenon DEF IInv, TxInv, ReceiptInv
<1>8. ASSUME NEW p \in applied, p.id = o.id PROVE p.at + Retention <= now
  <2> SUFFICES ASSUME ~(p.at + Retention <= now) PROVE FALSE
    BY Zenon
  <2>1. PICK y \in operations : y.id = p.id /\ y.expiresAt >= p.at + Retention
    BY Zenon DEF IInv, ReceiptInv
  <2>2. y.expiresAt \in Nat
    BY Zenon DEF IInv, RowInv
  <2>3. y.expiresAt > x.at
    BY <1>7, <2>1, <2>2
  <2> QED BY <1>3, <1>4, <1>8, <2>1, <2>3, Zenon DEF liveOperation
<1>9. <<o.uuid, o.revision>> = <<lifeOf(t).uuid, lifeOf(t).revision + 1>> /\ o.at <= now
        /\ o \in applied'
  BY <1>2, <1>3, <1>7, LifeFields, Zenon
<1>10. UNCHANGED now
  BY CommitTables, Zenon
<1>11. /\ lifeOf(t) \in Live
       /\ \E n \in Live' \cup Finished' : Lifecycle!Replaced(lifeOf(t), n)
  BY <1>6, Zenon
<1>12. \E l \in Live, p \in applied' :
         /\ \E n \in Live' \cup Finished' : Lifecycle!Replaced(l, n)
         /\ <<p.uuid, p.revision>> = <<l.uuid, l.revision + 1>>
         /\ p.at <= now
         /\ applied' = applied \cup {p}
         /\ \A q \in applied : q.id = p.id => q.at + Retention <= now
  BY <1>2, <1>8, <1>9, <1>11, ZenonT(60)
<1> QED BY <1>2, <1>10, <1>12, Zenon DEF Lifecycle!Guarded, Live, Finished

\* The commit of a sweep takes back leased tasks, each at a new revision; what it
\* locked and found no longer due it leaves alone.
LEMMA SweepCommitLives ==
  ASSUME IInv, NEW s \in Sessions, Commit(s), Sweeping(tx[s]), UNCHANGED <<accepted, applied>>
  PROVE  Lifecycle!TimeOut
<1>1. PICK x : x = tx[s]
  BY Zenon
<1>2. tasks' = {t \in tasks : TaskLock(t.uuid) \notin x.locks} \cup x.rows
        /\ archived' = archived \cup x.archive /\ UNCHANGED now
  BY <1>1, CommitTables, Zenon
<1>3. x.archive = {} /\ x.rows = {Swept(t, x) : t \in Held(x)}
  BY <1>1, Zenon DEF Sweeping
<1>4. \A t \in tasks : IsTask(t)
  BY Zenon DEF IInv, RowInv
<1>5. \A t, v \in tasks' : t.uuid = v.uuid => t = v
  BY CommitRows, Zenon DEF RowInv
<1>6. ASSUME NEW t \in tasks, t # Swept(t, x)
      PROVE  /\ lifeOf(t).leased
             /\ ~lifeOf(Swept(t, x)).leased
             /\ Lifecycle!Follows(lifeOf(Swept(t, x)), lifeOf(t))
  <2>1. Moves(Swept(t, x), t) /\ t.timeout > 0 /\ Swept(t, x).timeout = 0
    BY <1>4, <1>6, SweptRow, Zenon
  <2>2. lifeOf(t).leased /\ lifeOf(Swept(t, x)).leased = (0 > 0)
    BY <2>1, LifeFields, Zenon
  <2>3. Lifecycle!Follows(lifeOf(Swept(t, x)), lifeOf(t))
    BY <2>1, LifeFields, Zenon DEF Lifecycle!Follows, Moves
  <2>4. ~(0 > 0)
    OBVIOUS
  <2> QED BY <2>2, <2>3, <2>4, Zenon
<1>7. ASSUME NEW l \in Live, l \notin Live'
      PROVE  l.leased /\ \E n \in Live' : Lifecycle!Follows(n, l) /\ ~n.leased
  <2>1. PICK t \in tasks : l = lifeOf(t)
    BY Zenon DEF Live
  <2>2. t \notin tasks'
    BY <1>7, <2>1, Zenon DEF Live
  <2>3. Swept(t, x) \in tasks'
    BY <1>2, <1>3, <2>2, Zenon DEF Held
  <2>4. lifeOf(Swept(t, x)) \in Live'
    BY <2>3, Zenon DEF Live
  <2>5. t # Swept(t, x)
    BY <2>2, <2>3, Zenon
  <2> QED BY <1>6, <2>1, <2>4, <2>5, Zenon
<1>8. ASSUME NEW n \in Live', n \notin Live
      PROVE  \E l \in Live \ Live' : Lifecycle!Follows(n, l)
  <2>1. PICK m \in tasks' : n = lifeOf(m)
    BY <1>8, Zenon DEF Live
  <2>2. m \notin tasks
    BY <1>8, <2>1, Zenon DEF Live
  <2>3. PICK t \in tasks : m = Swept(t, x)
    BY <1>2, <1>3, <2>2, Zenon DEF Held
  <2>4. lifeOf(t) \in Live /\ t # m
    BY <2>2, Zenon DEF Live
  <2>5. m.uuid = t.uuid
    BY <1>4, <2>3, SweptRow, Zenon
  <2>6. lifeOf(t) \notin Live'
    <3> SUFFICES ASSUME NEW v \in tasks', lifeOf(t) = lifeOf(v) PROVE FALSE
      BY Zenon DEF Live
    <3>1. v.uuid = m.uuid
      BY <2>5, LifeFields, Zenon
    <3>2. v = m
      BY <1>5, <3>1, Zenon
    <3> QED BY <1>6, <2>3, <2>4, <3>2, Zenon
  <2> QED BY <1>6, <2>1, <2>3, <2>4, <2>6, Zenon
<1>9. UNCHANGED <<Finished, accepted, applied, now>>
  BY <1>2, <1>3, Zenon DEF Finished
<1> QED BY <1>7, <1>8, <1>9, Zenon DEF Lifecycle!TimeOut, Live, Finished

\* Every commit is one step of the lifecycle.
LEMMA CommitLives ==
  ASSUME IInv, NEW s \in Sessions, Commit(s) PROVE Lifecycle!Next
<1>1. CASE PlainCommit(tx[s])
  <2>1. UNCHANGED <<accepted, applied>>
    BY <1>1, Zenon DEF PlainCommit
  <2>2. CASE Sweeping(tx[s])
    BY <2>1, <2>2, SweepCommitLives, Zenon DEF Lifecycle!Next
  <2>3. CASE \E t \in tasks : Changed(tx[s], t) /\ LegacyChange(tx[s], t)
    BY <2>1, <2>3, LegacyCommitLives, Zenon DEF Lifecycle!Next
  <2> QED BY <1>1, <2>2, <2>3, Zenon DEF PlainCommit
<1>2. CASE \E t \in tasks : GuardedCommit(tx[s], t)
  BY <1>2, GuardedCommitLives, Zenon DEF Lifecycle!Next
<1>3. CASE \E n \in tx[s].rows : KeyedCommit(tx[s], n)
  BY <1>3, KeyedCommitLives, Zenon DEF Lifecycle!Next
<1> QED BY <1>1, <1>2, <1>3, CommitKind, Zenon

\* A statement before the commit leaves the lifecycle as it is.
LEMMA StatementLives ==
  ASSUME NEW s, Statement(s) \/ Abort(s) \/ \E r \in Requests : Request(s, r)
  PROVE  UNCHANGED <<tasks, archived, accepted, applied, now>>
<1>1. \A x : continue(s, x) => UNCHANGED <<tasks, archived, accepted, applied, now>>
  BY Zenon DEF continue, tables, history
<1>2. end(s) => UNCHANGED <<tasks, archived, accepted, applied, now>>
  BY <1>1, Zenon DEF end
<1>3. race(s) => UNCHANGED <<tasks, archived, accepted, applied, now>>
  BY <1>1, <1>2, Zenon DEF race
<1>4. \A x, time, pc : selectNext(s, x, time, pc) =>
        UNCHANGED <<tasks, archived, accepted, applied, now>>
  BY <1>1, <1>2, ZenonT(60) DEF selectNext
<1>5. \A x : viewFirst(s, x) => UNCHANGED <<tasks, archived, accepted, applied, now>>
  BY <1>1, <1>2, Zenon DEF viewFirst
<1>6. ASSUME NEW r \in Requests, Request(s, r)
      PROVE  UNCHANGED <<tasks, archived, accepted, applied, now>>
  <2>1. CASE Begin(s, r)
    BY <1>1, <2>1, Zenon DEF Begin
  <2>2. CASE GetNextTask(s, r)
    BY <1>4, <2>2, Zenon DEF GetNextTask
  <2>3. CASE LockRow(s, r)
    BY <1>1, <1>2, <2>3, ZenonT(60) DEF LockRow
  <2>4. CASE CleanUpTimedOut(s, r)
    BY <1>1, <1>2, <2>4, ZenonT(60) DEF CleanUpTimedOut
  <2>5. CASE LookupSubmission(s, r)
    BY <1>1, <1>2, <2>5, ZenonT(60) DEF LookupSubmission
  <2>6. CASE GetTask(s, r)
    BY <1>5, <2>6, Zenon DEF GetTask
  <2>7. CASE PurgeExpiredReceipts(s, r)
    BY <1>1, <2>7, Zenon DEF PurgeExpiredReceipts
  <2> QED BY <1>6, <2>1, <2>2, <2>3, <2>4, <2>5, <2>6, <2>7, Zenon DEF Request
<1>7. ASSUME Statement(s) PROVE UNCHANGED <<tasks, archived, accepted, applied, now>>
  <2>1. CASE Sweep(s)
    BY <1>1, <1>2, <2>1, ZenonT(60) DEF Sweep
  <2>2. CASE InsertKey(s)
    BY <1>1, <2>2, ZenonT(60) DEF InsertKey
  <2>3. CASE ReadKey(s)
    BY <1>1, <1>2, <1>3, <2>3, ZenonT(60) DEF ReadKey
  <2>4. CASE lockTaskRow(s)
    BY <1>1, <2>4, Zenon DEF lockTaskRow
  <2>5. CASE LoadOperation(s)
    BY <1>1, <1>2, <2>5, ZenonT(60) DEF LoadOperation
  <2>6. CASE ClaimGuardedTask(s)
    BY <1>4, <2>6, Zenon DEF ClaimGuardedTask
  <2>7. CASE LockGuarded(s)
    BY <1>1, <1>2, <2>7, ZenonT(60) DEF LockGuarded
  <2>8. CASE StoreOperation(s)
    BY <1>1, <1>3, <2>8, ZenonT(60) DEF StoreOperation
  <2>9. CASE ViewFirst(s)
    BY <1>5, <2>9, Zenon DEF ViewFirst
  <2>10. CASE ViewSecond(s)
    BY <2>10, Zenon DEF ViewSecond, tables
  <2>11. CASE DeleteKeys(s)
    BY <2>11, Zenon DEF DeleteKeys, history
  <2>12. CASE FindOperations(s)
    BY <1>1, <2>12, Zenon DEF FindOperations
  <2>13. CASE DeleteOperations(s)
    BY <2>13, Zenon DEF DeleteOperations, history
  <2> QED BY <1>7, <2>1, <2>2, <2>3, <2>4, <2>5, <2>6, <2>7, <2>8, <2>9, <2>10, <2>11,
             <2>12, <2>13, Zenon DEF Statement
<1>8. Abort(s) => UNCHANGED <<tasks, archived, accepted, applied, now>>
  BY <1>2, Zenon DEF Abort
<1> QED BY <1>6, <1>7, <1>8, Zenon

\* Whatever the interleaving of its statements, a transaction of the PostgreSQL store
\* takes effect as one step of the lifecycle, at its commit: no claim is handed to two
\* workers, no change is lost, no key or id takes effect twice in a retention.
THEOREM PostgresImplementsLifecycle == Spec => ImplementsLifecycle
<1>1. Init => Lifecycle!Init
  BY Zenon DEF Init, Lifecycle!Init
<1>2. ASSUME IInv, [Next]_vars PROVE [Lifecycle!Next]_(Lifecycle!lifecycle)
  <2>1. ASSUME UNCHANGED <<tasks, archived, accepted, applied, now>>
        PROVE  UNCHANGED Lifecycle!lifecycle
    BY <2>1, Zenon DEF Lifecycle!lifecycle
  <2>2. CASE UNCHANGED vars
    BY <2>1, <2>2, Zenon DEF vars
  <2>3. CASE Clock
    <3>1. now' = now + 1 /\ now \in Nat /\ UNCHANGED <<tasks, archived, accepted, applied>>
      BY <1>2, <2>3, Zenon DEF Clock, IInv, tables, history
    <3>2. Lifecycle!Clock
      BY <3>1 DEF Lifecycle!Clock
    <3> QED BY <3>2, Zenon DEF Lifecycle!Next
  <2>4. CASE \E u \in UUIDs, m \in Submits : SubmitTask(u, m)
    BY <2>4, SubmitTaskLives, Zenon DEF Lifecycle!Next
  <2>5. CASE \E s \in Sessions : Commit(s)
    BY <1>2, <2>5, CommitLives, Zenon
  <2>6. CASE \E s \in Sessions : Statement(s) \/ Abort(s) \/ \E r \in Requests : Request(s, r)
    BY <2>1, <2>6, StatementLives, Zenon
  <2> QED BY <1>2, <2>2, <2>3, <2>4, <2>5, <2>6, Zenon DEF Next
<1> QED BY <1>1, <1>2, Invariance, PTL DEF Spec, ImplementsLifecycle, Lifecycle!Spec

-----------------------------------------------------------------------------
(* Waiting for each other. *)

\* A transaction that waits holds no lock that anybody waits for, unless it is a sweep.
LEMMA OnlySweepsHold ==
  ASSUME IInv, NEW S \in SUBSET Sessions, Deadlock(S), NEW s \in S, NEW r \in S \ {s},
         wanted(s) \cap tx[r].locks # {}
  PROVE  tx[r].pc = "sweep" /\ tx[r].req.op = "cleanup"
<1> DEFINE x == tx[r]
<1>1. TxInv(x) /\ r \in Sessions
  BY Zenon DEF IInv
<1>2. x.locks # {}
  BY Zenon
<1>3. PICK q \in S \ {r} : wanted(r) \cap tx[q].locks # {}
  BY Zenon DEF Deadlock
<1>4. TxInv(tx[q]) /\ x.locks \cap tx[q].locks = {}
  BY Zenon DEF IInv, Apart
<1>5. wanted(r) # {}
  BY <1>3, Zenon
<1>6. x.pc \notin {"readKey", "view", "viewSecond", "commit", "loadOperation"}
  BY <1>5, Zenon DEF wanted
<1>7. ~Waiting(x)
  BY <1>2, Zenon DEF Waiting
<1>8. x.pc # "lockGuarded"
  <2> SUFFICES ASSUME x.pc = "lockGuarded" PROVE FALSE
    BY Zenon
  <2>1. Guarding(x) /\ wanted(r) = {TaskLock(x.req.uuid)}
    BY <1>1, Phase, Zenon DEF wanted
  <2>2. TaskLock(x.req.uuid) \in x.locks
    BY <1>2, <2>1, Zenon DEF Guarding, rowOf
  <2> QED BY <1>3, <1>4, <2>1, <2>2, Zenon
<1>9. x.pc # "storeOperation"
  <2> SUFFICES ASSUME x.pc = "storeOperation" PROVE FALSE
    BY Zenon
  <2>1. wanted(r) = {OperationLock(x.req.id)}
    BY Zenon DEF wanted
  <2>2. OperationLock(x.req.id) \in tx[q].locks
    BY <1>3, <2>1, Zenon
  <2>3. tx[q].pc = "commit"
    <3>1. ~Waiting(tx[q])
      BY <2>2, Zenon DEF Waiting
    <3>2. ~Guarding(tx[q])
      BY <2>2, LockKinds DEF Guarding
    <3>3. ~Looking(tx[q])
      BY <2>2, LockKinds, Zenon DEF Looking
    <3>4. ~Sweeping(tx[q])
      BY <2>2, LockKinds DEF Sweeping
    <3>5. Changing(tx[q]) => tx[q].pc = "commit"
      BY <2>2, LockKinds DEF Changing, LegacyChange, GuardedChange, StoredChange
    <3>6. Submitting(tx[q]) => tx[q].pc = "commit"
      BY Zenon DEF Submitting
    <3> QED BY <1>4, <3>1, <3>2, <3>3, <3>4, <3>5, <3>6, Zenon DEF TxInv
  <2>4. wanted(q) = {}
    BY <2>3, Zenon DEF wanted
  <2> QED BY <1>3, <2>4, Zenon DEF Deadlock
<1>10. Sweeping(x) \/ Changing(x)
  BY <1>1, <1>6, <1>7, <1>8, Zenon DEF TxInv, Guarding, Looking, Submitting
<1>11. Changing(x) => x.pc \in {"storeOperation", "commit"}
  BY Zenon DEF Changing, LegacyChange, GuardedChange, StoredChange
<1>12. Sweeping(x) /\ x.pc # "commit"
  BY <1>6, <1>9, <1>10, <1>11, Zenon
<1> QED BY <1>12, Zenon DEF Sweeping

INSTANCE FiniteSetTheorems

\* No transactions wait for each other but timeout sweeps, of which it takes two: tasks
\* are locked before receipts, and a receipt's holder only commits (guards.go).
THEOREM SweepsOnly == Spec => []OnlySweepsDeadlock
<1>1. ASSUME IInv PROVE OnlySweepsDeadlock
  <2> SUFFICES ASSUME NEW S \in SUBSET Sessions, Deadlock(S)
               PROVE  Cardinality({s \in S : tx[s].req.op = "cleanup"}) > 1
    BY Zenon DEF OnlySweepsDeadlock
  <2> DEFINE C == {s \in S : tx[s].req.op = "cleanup"}
  <2>1. PICK s \in S : TRUE
    BY Zenon DEF Deadlock
  <2>2. PICK r \in S \ {s} : wanted(s) \cap tx[r].locks # {}
    BY Zenon DEF Deadlock
  <2>3. PICK q \in S \ {r} : wanted(r) \cap tx[q].locks # {}
    BY Zenon DEF Deadlock
  <2>4. r \in C /\ q \in C /\ q # r
    BY <1>1, <2>2, <2>3, OnlySweepsHold
  <2>5. IsFiniteSet(C)
    BY RequestAssumption, FS_Subset, Zenon
  <2> HIDE DEF C
  <2>6. IsFiniteSet(C \ {r}) /\ Cardinality(C \ {r}) = Cardinality(C) - 1
          /\ Cardinality(C) \in Nat
    BY <2>4, <2>5, FS_RemoveElement, FS_CardinalityType, Zenon
  <2>7. Cardinality(C \ {r}) # 0 /\ Cardinality(C \ {r}) \in Nat
    BY <2>4, <2>6, FS_EmptySet, FS_CardinalityType, Zenon
  <2>8. Cardinality(C) > 1
    BY <2>6, <2>7
  <2> QED BY <2>8, Zenon DEF C
<1> QED BY <1>1, Invariance, PTL
=============================================================================
