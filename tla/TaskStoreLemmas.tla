-------------------------- MODULE TaskStoreLemmas --------------------------
(***************************************************************************)
(* What the helpers of TaskStore do to the database: putTask, deleteTask,  *)
(* archiveTask, the timeout loop and the receipts; and what a change of    *)
(* the database does to the agreement of its buckets.                      *)
(***************************************************************************)
EXTENDS TaskStore, FiniteSetTheorems, TLAPS

-----------------------------------------------------------------------------
(* The buckets that hold a task. *)

\* The indexes and counters that putTask and deleteTask write describe the set S
\* of tasks, and S has one task per uuid.
Indexed(d, S) ==
  /\ d.live = S
  /\ d.byUUID = {TaskKey(t) : t \in S}
  /\ d.deadlines = {DeadlineEntry(t) : t \in {x \in S : x.timeout > 0}}
  /\ \A k \in Queues \X States : d.counts[k] = CountAt(S, k)
  /\ \A s, t \in S : s.uuid = t.uuid => s = t
  /\ IsFiniteSet(S)

\* What putTask and deleteTask leave alone.
SameRest(d, e) ==
  /\ e.payloads = d.payloads
  /\ e.archived = d.archived
  /\ e.submissions = d.submissions
  /\ e.operations = d.operations
  /\ e.expiry = d.expiry

\* Equal keys name the same uuid.
LEMMA KeyNamesUUID ==
  ASSUME NEW s \in Task, NEW t \in Task
  PROVE  /\ TaskKey(s) \in Keys
         /\ TaskKey(s).uuid = s.uuid
         /\ Slot(s) = Slot(t) => s.uuid = t.uuid
         /\ DeadlineEntry(s) \in [at : Int, key : Keys]
         /\ DeadlineEntry(s).at = taskDeadline(s)
         /\ DeadlineEntry(s).key.uuid = s.uuid
         /\ taskDeadline(s) \in Int
<1>1. s.updateTime \in Int /\ s.timeout \in Int /\ IntRange \in Nat \ {0}
  BY BoundAssumption DEF Task, Times
<1>2. taskDeadline(s) \in Int
  BY <1>1 DEF taskDeadline
<1>. QED  BY <1>2, Zenon DEF TaskKey, Slot, Task, Keys, Times, DeadlineEntry

\* A counter stays a natural number.
LEMMA AdjustCountType ==
  ASSUME NEW c \in [Queues \X States -> Nat], NEW t \in Task
  PROVE  /\ adjustCount(c, t, 1) \in [Queues \X States -> Nat]
         /\ adjustCount(c, t, -1) \in [Queues \X States -> Nat]
  BY DEF adjustCount, Task

\* One task more or less changes one count by one.
LEMMA CountOneMore ==
  ASSUME NEW S, IsFiniteSet(S), NEW t, t \notin S, NEW k
  PROVE  /\ IsFiniteSet(S \cup {t})
         /\ CountAt(S, k) \in Nat
         /\ CountAt(S \cup {t}, k) =
              IF <<t.queue, t.state>> = k THEN CountAt(S, k) + 1 ELSE CountAt(S, k)
<1> DEFINE A == {x \in S : <<x.queue, x.state>> = k}
           B == {x \in S \cup {t} : <<x.queue, x.state>> = k}
<1>1. IsFiniteSet(A) /\ IsFiniteSet(S \cup {t})
  BY FS_Subset, FS_AddElement, Zenon
<1>2. B = IF <<t.queue, t.state>> = k THEN A \cup {t} ELSE A
  BY Zenon
<1>3. t \notin A
  BY Zenon
<1>4. Cardinality(A) \in Nat
  BY <1>1, FS_CardinalityType, Zenon
<1>5. Cardinality(A \cup {t}) = Cardinality(A) + 1
  <2> HIDE DEF A
  <2> QED BY <1>1, <1>3, FS_AddElement, ZenonT(60)
<1> QED BY <1>1, <1>2, <1>4, <1>5, ZenonT(60) DEF CountAt

\* deleteTask keeps the database well typed.
LEMMA DeleteTaskType ==
  ASSUME NEW d \in Db, NEW t \in Task
  PROVE  deleteTask(d, t) \in Db /\ SameRest(d, deleteTask(d, t))
<1> DEFINE L == {x \in d.live : Slot(x) # Slot(t)}
           C == IF \E x \in d.live : Slot(x) = Slot(t)
                  THEN adjustCount(d.counts, t, -1) ELSE d.counts
           K == {k \in d.byUUID : k.uuid # t.uuid}
           D == IF t.timeout > 0
                  THEN {e \in d.deadlines :
                          <<e.at, e.key.uuid>> # <<taskDeadline(t), t.uuid>>}
                  ELSE d.deadlines
<1>1. /\ L \in SUBSET Task
      /\ K \in SUBSET Keys
      /\ D \in SUBSET [at : Int, key : Keys]
  BY Zenon DEF Db
<1>2. C \in [Queues \X States -> Nat]
  <2>1. d.counts \in [Queues \X States -> Nat]
    BY Zenon DEF Db
  <2>2. adjustCount(d.counts, t, -1) \in [Queues \X States -> Nat]
    BY <2>1, AdjustCountType, ZenonT(60)
  <2> QED BY <2>1, <2>2, Zenon
<1>4. deleteTask(d, t) \in Db
  BY <1>1, <1>2, ZenonT(60) DEF deleteTask, Db
<1>5. SameRest(d, deleteTask(d, t))
  BY Zenon DEF deleteTask, Db, SameRest
<1> QED BY <1>4, <1>5, Zenon

\* putTask keeps the database well typed.
LEMMA PutTaskType ==
  ASSUME NEW d \in Db, NEW t \in Task
  PROVE  putTask(d, t) \in Db /\ SameRest(d, putTask(d, t))
<1> DEFINE L == {x \in d.live : Slot(x) # Slot(t)} \cup {t}
           C == IF \E x \in d.live : Slot(x) = Slot(t)
                  THEN d.counts ELSE adjustCount(d.counts, t, 1)
           K == {k \in d.byUUID : k.uuid # t.uuid} \cup {TaskKey(t)}
           D == IF t.timeout > 0
                  THEN {e \in d.deadlines :
                          <<e.at, e.key.uuid>> # <<taskDeadline(t), t.uuid>>}
                         \cup {DeadlineEntry(t)}
                  ELSE d.deadlines
<1>1. /\ L \in SUBSET Task
      /\ K \in SUBSET Keys
      /\ D \in SUBSET [at : Int, key : Keys]
  BY KeyNamesUUID, Zenon DEF Db
<1>2. C \in [Queues \X States -> Nat]
  <2>1. d.counts \in [Queues \X States -> Nat]
    BY Zenon DEF Db
  <2>2. adjustCount(d.counts, t, 1) \in [Queues \X States -> Nat]
    BY <2>1, AdjustCountType, ZenonT(60)
  <2> QED BY <2>1, <2>2, Zenon
<1>4. putTask(d, t) \in Db
  BY <1>1, <1>2, ZenonT(60) DEF putTask, Db
<1>5. SameRest(d, putTask(d, t))
  BY Zenon DEF putTask, Db, SameRest
<1> QED BY <1>4, <1>5, Zenon

\* deleteTask removes exactly the task and its index entries.
LEMMA DeleteTaskIndexed ==
  ASSUME NEW d \in Db, NEW S \in SUBSET Task, Indexed(d, S), NEW t \in S
  PROVE  Indexed(deleteTask(d, t), S \ {t})
<1> DEFINE e == deleteTask(d, t)
<1>1. \A x \in S : (Slot(x) = Slot(t)) <=> (x = t)
  BY KeyNamesUUID DEF Indexed
<1>2. e.live = S \ {t}
  BY <1>1, Zenon DEF deleteTask, Db, Indexed
<1>3. e.byUUID = {TaskKey(x) : x \in S \ {t}}
  <2>1. e.byUUID = {k \in d.byUUID : k.uuid # t.uuid}
    BY Zenon DEF deleteTask, Db
  <2>2. \A x \in S : TaskKey(x).uuid = x.uuid
    BY KeyNamesUUID, Zenon
  <2> QED BY <2>1, <2>2 DEF Indexed
<1>4. e.deadlines = {DeadlineEntry(x) : x \in {y \in S \ {t} : y.timeout > 0}}
  <2>1. \A x \in S : /\ DeadlineEntry(x).at = taskDeadline(x)
                     /\ DeadlineEntry(x).key.uuid = x.uuid
    BY KeyNamesUUID, Zenon
  <2>2. CASE t.timeout > 0
    <3>1. e.deadlines = {x \in d.deadlines :
                           <<x.at, x.key.uuid>> # <<taskDeadline(t), t.uuid>>}
      BY <2>2, Zenon DEF deleteTask, Db
    <3> QED BY <2>1, <3>1 DEF Indexed
  <2>3. CASE ~(t.timeout > 0)
    <3>1. e.deadlines = d.deadlines
      BY <2>3, Zenon DEF deleteTask, Db
    <3> QED BY <2>3, <3>1, Zenon DEF Indexed
  <2> QED BY <2>2, <2>3, Zenon
<1>5. \A k \in Queues \X States : e.counts[k] = CountAt(S \ {t}, k)
  <2> SUFFICES ASSUME NEW k \in Queues \X States
               PROVE  e.counts[k] = CountAt(S \ {t}, k)
    BY Zenon
  <2>1. e.counts = adjustCount(d.counts, t, -1)
    BY <1>1, Zenon DEF deleteTask, Db, Indexed
  <2>2. d.counts \in [Queues \X States -> Nat] /\ <<t.queue, t.state>> \in Queues \X States
    BY Zenon DEF Db, Task
  <2>3. IsFiniteSet(S \ {t}) /\ (S \ {t}) \cup {t} = S
    BY FS_RemoveElement DEF Indexed
  <2>4. CountAt(S \ {t}, k) \in Nat
    BY <2>3, CountOneMore, Zenon
  <2>5. CountAt(S, k) = IF <<t.queue, t.state>> = k
                          THEN CountAt(S \ {t}, k) + 1 ELSE CountAt(S \ {t}, k)
    BY <2>3, CountOneMore
  <2>6. d.counts[k] = CountAt(S, k)
    BY Zenon DEF Indexed
  <2>7. CASE <<t.queue, t.state>> = k
    <3>1. e.counts[k] = IF d.counts[k] + (-1) <= 0 THEN 0 ELSE d.counts[k] + (-1)
      BY <2>1, <2>2, <2>7, Zenon DEF adjustCount
    <3> QED BY <2>4, <2>5, <2>6, <2>7, <3>1
  <2>8. CASE <<t.queue, t.state>> # k
    <3>1. e.counts[k] = d.counts[k]
      BY <2>1, <2>2, <2>8, Zenon DEF adjustCount
    <3> QED BY <2>5, <2>6, <2>8, <3>1, Zenon
  <2> QED BY <2>7, <2>8, Zenon
<1>6. IsFiniteSet(S \ {t})
  BY FS_RemoveElement, Zenon DEF Indexed
<1> QED BY <1>2, <1>3, <1>4, <1>5, <1>6, ZenonT(60) DEF Indexed

\* putTask adds exactly the task and its index entries.
LEMMA PutTaskIndexed ==
  ASSUME NEW d \in Db, NEW S \in SUBSET Task, Indexed(d, S), NEW t \in Task,
         \A s \in S : s.uuid # t.uuid
  PROVE  Indexed(putTask(d, t), S \cup {t})
<1> DEFINE e == putTask(d, t)
<1>1. \A x \in S : Slot(x) # Slot(t)
  BY KeyNamesUUID, Zenon
<1>2. e.live = S \cup {t}
  BY <1>1, Zenon DEF putTask, Db, Indexed
<1>3. e.byUUID = {TaskKey(x) : x \in S \cup {t}}
  <2>1. e.byUUID = {k \in d.byUUID : k.uuid # t.uuid} \cup {TaskKey(t)}
    BY Zenon DEF putTask, Db
  <2>2. \A x \in S : TaskKey(x).uuid = x.uuid
    BY KeyNamesUUID, Zenon
  <2> QED BY <2>1, <2>2 DEF Indexed
<1>4. e.deadlines = {DeadlineEntry(x) : x \in {y \in S \cup {t} : y.timeout > 0}}
  <2>1. \A x \in S : /\ DeadlineEntry(x).at = taskDeadline(x)
                     /\ DeadlineEntry(x).key.uuid = x.uuid
    BY KeyNamesUUID, Zenon
  <2>2. CASE t.timeout > 0
    <3>1. e.deadlines = {x \in d.deadlines :
                           <<x.at, x.key.uuid>> # <<taskDeadline(t), t.uuid>>}
                          \cup {DeadlineEntry(t)}
      BY <2>2, Zenon DEF putTask, Db
    <3> QED BY <2>1, <2>2, <3>1 DEF Indexed
  <2>3. CASE ~(t.timeout > 0)
    <3>1. e.deadlines = d.deadlines
      BY <2>3, Zenon DEF putTask, Db
    <3> QED BY <2>3, <3>1, Zenon DEF Indexed
  <2> QED BY <2>2, <2>3, Zenon
<1>5. \A k \in Queues \X States : e.counts[k] = CountAt(S \cup {t}, k)
  <2> SUFFICES ASSUME NEW k \in Queues \X States
               PROVE  e.counts[k] = CountAt(S \cup {t}, k)
    BY ZenonT(60)
  <2>1. e.counts = adjustCount(d.counts, t, 1)
    BY <1>1, Zenon DEF putTask, Db, Indexed
  <2>2. d.counts \in [Queues \X States -> Nat] /\ <<t.queue, t.state>> \in Queues \X States
    BY Zenon DEF Db, Task
  <2>3. IsFiniteSet(S) /\ t \notin S
    BY Zenon DEF Indexed
  <2>4. CountAt(S, k) \in Nat
    BY <2>3, CountOneMore, ZenonT(60)
  <2>5. CountAt(S \cup {t}, k) = IF <<t.queue, t.state>> = k
                                   THEN CountAt(S, k) + 1 ELSE CountAt(S, k)
    BY <2>3, CountOneMore, ZenonT(60)
  <2>6. d.counts[k] = CountAt(S, k)
    BY Zenon DEF Indexed
  <2>7. CASE <<t.queue, t.state>> = k
    <3>1. e.counts[k] = IF d.counts[k] + 1 <= 0 THEN 0 ELSE d.counts[k] + 1
      BY <2>1, <2>2, <2>7, Zenon DEF adjustCount
    <3> QED BY <2>4, <2>5, <2>6, <2>7, <3>1
  <2>8. CASE <<t.queue, t.state>> # k
    <3>1. e.counts[k] = d.counts[k]
      BY <2>1, <2>2, <2>8, Zenon DEF adjustCount
    <3> QED BY <2>5, <2>6, <2>8, <3>1, Zenon
  <2> QED BY <2>7, <2>8, Zenon
<1>6. IsFiniteSet(S \cup {t})
  BY FS_AddElement, Zenon DEF Indexed
<1> QED BY <1>2, <1>3, <1>4, <1>5, <1>6, ZenonT(60) DEF Indexed

-----------------------------------------------------------------------------
(* The helpers built on putTask and deleteTask. *)

\* loadByUUID and checkGuard find live tasks only, under their uuid.
LEMMA LoadedTask ==
  ASSUME NEW d \in Db, NEW u
  PROVE  \A t \in loadByUUID(d, u) : t \in d.live /\ t.uuid = u
  BY DEF loadByUUID, liveTaskValue, Db, Task, TaskKey

\* A task that checkGuard returns is a live task with the request's UUID.
LEMMA GuardedTask ==
  ASSUME NEW d \in Db, NEW u, NEW q, NEW rev, NEW expected
  PROVE  \A t \in checkGuard(d, u, q, rev, expected) : t \in d.live /\ t.uuid = u
  BY LoadedTask, Zenon DEF checkGuard

\* A task that is deleted and put again under the same uuid.
LEMMA MoveTask ==
  ASSUME NEW d \in Db, Indexed(d, d.live), NEW t \in d.live, NEW n \in Task,
         n.uuid = t.uuid
  PROVE  LET e == putTask(deleteTask(d, t), n)
         IN  e \in Db /\ SameRest(d, e) /\ Indexed(e, (d.live \ {t}) \cup {n})
<1> DEFINE c == deleteTask(d, t)
           e == putTask(c, n)
           S == d.live \ {t}
<1>1. t \in Task /\ d.live \in SUBSET Task
  BY Zenon DEF Db
<1>2. c \in Db /\ SameRest(d, c)
  BY <1>1, DeleteTaskType, Zenon
<1>3. Indexed(c, S)
  BY <1>1, DeleteTaskIndexed, Zenon
<1>4. S \in SUBSET Task /\ \A s \in S : s.uuid # n.uuid
  BY <1>1, Zenon DEF Indexed
<1>5. e \in Db /\ SameRest(c, e)
  BY <1>2, PutTaskType, Zenon
<1>6. Indexed(e, S \cup {n})
  BY <1>2, <1>3, <1>4, PutTaskIndexed, Zenon
<1>7. SameRest(d, e)
  BY <1>2, <1>5, SMTT(60) DEF SameRest
<1> QED BY <1>5, <1>6, <1>7, Zenon

\* A task that is archived.
LEMMA ArchiveTask ==
  ASSUME NEW d \in Db, Indexed(d, d.live), NEW t \in d.live,
         NEW terminal \in TerminalStates, NEW time \in Times,
         t.revision < MaxRevision, \A x \in d.archived : x.uuid # t.uuid
  PROVE  LET e == archiveTask(d, t, terminal, time)
             a == toArchived(t, terminal, time)
         IN  /\ e \in Db
             /\ a \in Archived
             /\ Indexed(e, d.live \ {t})
             /\ e.payloads = d.payloads \ {t.uuid}
             /\ e.archived = d.archived \cup {a}
             /\ e.submissions = d.submissions
             /\ e.operations = d.operations
             /\ e.expiry = d.expiry
<1> DEFINE a == toArchived(t, terminal, time)
           b == putArchived(d, a)
           c == deleteTask(b, t)
           e == deletePayload(c, t.uuid)
<1>1. t \in Task /\ d.live \in SUBSET Task
  BY Zenon DEF Db
<1>2. a \in Archived /\ a.uuid = t.uuid
  BY <1>1, BoundAssumption DEF toArchived, Archived, Task
<1>3. b \in Db
  <2>1. {x \in d.archived : x.uuid # a.uuid} \cup {a} \in SUBSET Archived
    BY <1>2, Zenon DEF Db
  <2> QED BY <2>1, Zenon DEF putArchived, Db
<1>4. /\ b.live = d.live
      /\ b.byUUID = d.byUUID
      /\ b.deadlines = d.deadlines
      /\ b.counts = d.counts
      /\ b.payloads = d.payloads
      /\ b.archived = d.archived \cup {a}
      /\ b.submissions = d.submissions
      /\ b.operations = d.operations
      /\ b.expiry = d.expiry
  BY <1>2, Zenon DEF putArchived, Db
<1>5. Indexed(b, d.live)
  BY <1>4, Zenon DEF Indexed
<1>6. c \in Db /\ SameRest(b, c)
  BY <1>1, <1>3, DeleteTaskType, Zenon
<1>7. Indexed(c, d.live \ {t})
  BY <1>1, <1>3, <1>5, DeleteTaskIndexed, Zenon
<1>8. /\ e \in Db
      /\ e.live = c.live
      /\ e.byUUID = c.byUUID
      /\ e.deadlines = c.deadlines
      /\ e.counts = c.counts
      /\ e.payloads = c.payloads \ {t.uuid}
      /\ e.archived = c.archived
      /\ e.submissions = c.submissions
      /\ e.operations = c.operations
      /\ e.expiry = c.expiry
  BY <1>6, SMTT(60) DEF deletePayload, Db
<1>9. Indexed(e, d.live \ {t})
  BY <1>7, <1>8, ZenonT(60) DEF Indexed
<1> QED BY <1>2, <1>4, <1>6, <1>8, <1>9, ZenonT(60) DEF archiveTask, SameRest

\* Storing a receipt changes only the receipts and their index.
LEMMA PutOperation ==
  ASSUME NEW d \in Db, NEW r \in Operation
  PROVE  LET e == putOperation(d, r)
         IN  /\ e \in Db
             /\ \A S : Indexed(d, S) => Indexed(e, S)
             /\ e.live = d.live
             /\ e.payloads = d.payloads
             /\ e.archived = d.archived
             /\ e.submissions = d.submissions
             /\ e.operations = {x \in d.operations : x.id # r.id} \cup {r}
             /\ e.expiry = d.expiry \cup {ExpiryEntry("operation", r.id, r.expiresAt)}
<1> DEFINE e == putOperation(d, r)
           O == {x \in d.operations : x.id # r.id} \cup {r}
           X == d.expiry \cup {ExpiryEntry("operation", r.id, r.expiresAt)}
<1>1. O \in SUBSET Operation
  BY Zenon DEF Db
<1>2. X \in SUBSET Expiry
  BY DEF Db, Operation, Expiry, ExpiryEntry, Kinds
<1>3. e \in Db
  BY <1>1, <1>2, ZenonT(60) DEF putOperation, Db
<1>4. /\ e.live = d.live
      /\ e.byUUID = d.byUUID
      /\ e.deadlines = d.deadlines
      /\ e.counts = d.counts
      /\ e.payloads = d.payloads
      /\ e.archived = d.archived
      /\ e.submissions = d.submissions
      /\ e.operations = O
      /\ e.expiry = X
  BY Zenon DEF putOperation, Db
<1>5. \A S : Indexed(d, S) => Indexed(e, S)
  BY <1>4, Zenon DEF Indexed
<1> QED BY <1>3, <1>4, <1>5, Zenon

\* putSubmission replaces the record of its key and leaves the tasks, their indexes
\* and the operations alone.
LEMMA PutSubmission ==
  ASSUME NEW d \in Db, NEW r \in Submission
  PROVE  LET e == putSubmission(d, r)
         IN  /\ e \in Db
             /\ \A S : Indexed(d, S) => Indexed(e, S)
             /\ e.live = d.live
             /\ e.payloads = d.payloads
             /\ e.archived = d.archived
             /\ e.operations = d.operations
             /\ e.submissions =
                  {x \in d.submissions : <<x.queue, x.key>> # <<r.queue, r.key>>} \cup {r}
             /\ e.expiry = d.expiry
                  \cup {ExpiryEntry("submission", <<r.queue, r.key>>, r.expiresAt)}
<1> DEFINE e == putSubmission(d, r)
           U == {x \in d.submissions : <<x.queue, x.key>> # <<r.queue, r.key>>} \cup {r}
           X == d.expiry
                  \cup {ExpiryEntry("submission", <<r.queue, r.key>>, r.expiresAt)}
<1>1. U \in SUBSET Submission
  BY Zenon DEF Db
<1>2. X \in SUBSET Expiry
  BY SMTT(60) DEF Db, Submission, Expiry, ExpiryEntry, Kinds
<1>3. e \in Db
  BY <1>1, <1>2, ZenonT(60) DEF putSubmission, Db
<1>4. /\ e.live = d.live
      /\ e.byUUID = d.byUUID
      /\ e.deadlines = d.deadlines
      /\ e.counts = d.counts
      /\ e.payloads = d.payloads
      /\ e.archived = d.archived
      /\ e.operations = d.operations
      /\ e.submissions = U
      /\ e.expiry = X
  BY Zenon DEF putSubmission, Db
<1>5. \A S : Indexed(d, S) => Indexed(e, S)
  BY <1>4, Zenon DEF Indexed
<1> QED BY <1>3, <1>4, <1>5, Zenon

\* A submission adds one task and its payload.
LEMMA AddTask ==
  ASSUME NEW d \in Db, Indexed(d, d.live), NEW t \in Task,
         \A s \in d.live : s.uuid # t.uuid
  PROVE  LET e == putTask(putPayload(d, t.uuid), t)
         IN  /\ e \in Db
             /\ Indexed(e, d.live \cup {t})
             /\ e.payloads = d.payloads \cup {t.uuid}
             /\ e.archived = d.archived
             /\ e.submissions = d.submissions
             /\ e.operations = d.operations
             /\ e.expiry = d.expiry
<1> DEFINE c == putPayload(d, t.uuid)
           e == putTask(c, t)
<1>1. c \in Db /\ d.live \in SUBSET Task
  BY SMTT(60) DEF putPayload, Db, Task
<1>2. /\ c.live = d.live
      /\ c.byUUID = d.byUUID
      /\ c.deadlines = d.deadlines
      /\ c.counts = d.counts
      /\ c.payloads = d.payloads \cup {t.uuid}
      /\ c.archived = d.archived
      /\ c.submissions = d.submissions
      /\ c.operations = d.operations
      /\ c.expiry = d.expiry
  BY Zenon DEF putPayload, Db
<1>3. Indexed(c, d.live)
  BY <1>2, Zenon DEF Indexed
<1>4. e \in Db /\ SameRest(c, e)
  BY <1>1, PutTaskType, Zenon
<1>5. Indexed(e, d.live \cup {t})
  BY <1>1, <1>3, PutTaskIndexed, Zenon
<1> QED BY <1>2, <1>4, <1>5, Zenon DEF SameRest

\* The counts of a set from which T was taken out and to which N was added.
LEMMA CountReplace ==
  ASSUME NEW S, IsFiniteSet(S), NEW T \in SUBSET S, NEW N, IsFiniteSet(N),
         N \cap (S \ T) = {}, NEW k
  PROVE  /\ CountAt((S \ T) \cup N, k) \in Nat
         /\ CountAt((S \ T) \cup N, k) = CountAt(S, k) - CountAt(T, k) + CountAt(N, k)
<1> DEFINE At(X) == {x \in X : <<x.queue, x.state>> = k}
<1>1. /\ At((S \ T) \cup N) = (At(S) \ At(T)) \cup At(N)
      /\ At(S) \cap At(T) = At(T)
      /\ (At(S) \ At(T)) \cap At(N) = {}
  BY Zenon
<1>2. IsFiniteSet(At(S)) /\ IsFiniteSet(At(T)) /\ IsFiniteSet(At(N))
  <2>1. At(S) \in SUBSET S /\ At(T) \in SUBSET S /\ At(N) \in SUBSET N
    BY Zenon
  <2> QED BY <2>1, FS_Subset, Zenon
<1> HIDE DEF At
<1>3. /\ IsFiniteSet(At(S) \ At(T))
      /\ Cardinality(At(S) \ At(T)) = Cardinality(At(S)) - Cardinality(At(T))
  BY <1>1, <1>2, FS_Difference, ZenonT(60)
<1>4. /\ IsFiniteSet((At(S) \ At(T)) \cup At(N))
      /\ Cardinality((At(S) \ At(T)) \cup At(N)) =
           Cardinality(At(S) \ At(T)) + Cardinality(At(N))
             - Cardinality((At(S) \ At(T)) \cap At(N))
  BY <1>2, <1>3, FS_Union, ZenonT(60)
<1>5. /\ Cardinality((At(S) \ At(T)) \cup At(N)) \in Nat
      /\ Cardinality(At(S) \ At(T)) \in Nat
      /\ Cardinality(At(S)) \in Nat
      /\ Cardinality(At(T)) \in Nat
      /\ Cardinality(At(N)) \in Nat
  BY <1>2, <1>3, <1>4, FS_CardinalityType, Zenon
<1>6. Cardinality((At(S) \ At(T)) \cap At(N)) = 0
  BY <1>1, FS_EmptySet, Zenon
<1>7. /\ CountAt((S \ T) \cup N, k) = Cardinality((At(S) \ At(T)) \cup At(N))
      /\ CountAt(S, k) = Cardinality(At(S))
      /\ CountAt(T, k) = Cardinality(At(T))
      /\ CountAt(N, k) = Cardinality(At(N))
  BY <1>1, Zenon DEF CountAt, At
<1> QED BY <1>3, <1>4, <1>5, <1>6, <1>7

\* A released task is the same task at the next revision, without a timeout.
LEMMA ReleasedTask ==
  ASSUME NEW t \in Task, NEW time \in Times, t.revision < MaxRevision
  PROVE  /\ Released(t, time) \in Task
         /\ Released(t, time).uuid = t.uuid
         /\ Released(t, time).timeout = 0
         /\ Released(t, time).revision = t.revision + 1
<1>1. t.revision + 1 \in 1 .. MaxRevision
  BY BoundAssumption DEF Task
<1> QED BY <1>1 DEF Released, Task

\* The timeout loop replaces the tasks ts by their released forms.
LEMMA ReleaseAll ==
  ASSUME NEW d \in Db, Indexed(d, d.live), NEW ts \in SUBSET d.live,
         NEW time \in Times, \A t \in ts : t.revision < MaxRevision
  PROVE  LET e == releaseAll(d, ts, time)
             new == {Released(t, time) : t \in ts}
         IN  /\ e \in Db
             /\ SameRest(d, e)
             /\ Indexed(e, (d.live \ ts) \cup new)
<1> DEFINE e == releaseAll(d, ts, time)
           new == {Released(t, time) : t \in ts}
           S == (d.live \ ts) \cup new
<1>1. d.live \in SUBSET Task
  BY Zenon DEF Db
<1>2. \A t \in ts : /\ t \in Task
                    /\ Released(t, time) \in Task
                    /\ Released(t, time).uuid = t.uuid
                    /\ Released(t, time).timeout = 0
  BY <1>1, ReleasedTask, Zenon
<1>3. new \in SUBSET Task
  BY <1>2, Zenon
<1>4. \A x \in d.live \ ts, t \in ts \cup new : x.uuid # t.uuid
  BY <1>2 DEF Indexed
<1>5. IsFiniteSet(new)
  <2> DEFINE f == [t \in ts |-> Released(t, time)]
  <2>1. f \in Surjection(ts, new)
    BY Zenon DEF Surjection
  <2>2. IsFiniteSet(ts)
    BY FS_Subset, Zenon DEF Indexed
  <2> HIDE DEF f, new
  <2> QED BY <2>1, <2>2, FS_Surjection, Zenon
<1>6. new \cap (d.live \ ts) = {}
  BY <1>4, Zenon
<1>7. {x \in d.live : Slot(x) \notin {Slot(t) : t \in ts \cup new}} = d.live \ ts
  <2>1. \A x \in d.live \ ts, t \in ts \cup new : Slot(x) # Slot(t)
    BY <1>1, <1>2, <1>3, <1>4, KeyNamesUUID
  <2> QED BY <2>1, Zenon
<1>8. /\ e.live = {x \in d.live : Slot(x) \notin {Slot(t) : t \in ts \cup new}} \cup new
      /\ e.counts = [k \in DOMAIN d.counts |->
                       d.counts[k] - CountAt(ts, k) + CountAt(new, k)]
      /\ e.byUUID = {k \in d.byUUID : k.uuid \notin {t.uuid : t \in ts}}
                      \cup {TaskKey(t) : t \in new}
      /\ e.deadlines = {x \in d.deadlines : \A t \in ts :
                          <<x.at, x.key.uuid>> # <<taskDeadline(t), t.uuid>>}
  BY Zenon DEF releaseAll, Db
<1>9. SameRest(d, e)
  BY Zenon DEF releaseAll, Db, SameRest
<1>10. e.live = S
  BY <1>7, <1>8, Zenon
<1>11. e.byUUID = {TaskKey(t) : t \in S}
  <2>1. \A x \in d.live : TaskKey(x).uuid = x.uuid
    BY <1>1, KeyNamesUUID, Zenon
  <2>2. \A x \in d.live : x.uuid \in {t.uuid : t \in ts} <=> x \in ts
    BY DEF Indexed
  <2>3. {k \in d.byUUID : k.uuid \notin {t.uuid : t \in ts}} =
          {TaskKey(x) : x \in d.live \ ts}
    BY <2>1, <2>2 DEF Indexed
  <2> QED BY <1>8, <2>3
<1>12. e.deadlines = {DeadlineEntry(t) : t \in {x \in S : x.timeout > 0}}
  <2>1. \A x \in d.live : /\ DeadlineEntry(x).at = taskDeadline(x)
                          /\ DeadlineEntry(x).key.uuid = x.uuid
    BY <1>1, KeyNamesUUID, Zenon
  <2>2. {x \in S : x.timeout > 0} = {x \in d.live \ ts : x.timeout > 0}
    BY <1>2
  <2>3. \A x \in d.live : x.timeout > 0 =>
          ((\A t \in ts : <<DeadlineEntry(x).at, DeadlineEntry(x).key.uuid>>
                            # <<taskDeadline(t), t.uuid>>) <=> x \notin ts)
    BY <2>1, Zenon DEF Indexed
  <2> QED BY <1>8, <2>2, <2>3 DEF Indexed
<1>13. \A k \in Queues \X States :
         e.counts[k] = CountAt(S, k) /\ e.counts[k] \in Nat
  <2> SUFFICES ASSUME NEW k \in Queues \X States
               PROVE  e.counts[k] = CountAt(S, k) /\ e.counts[k] \in Nat
    BY Zenon
  <2>1. e.counts[k] = d.counts[k] - CountAt(ts, k) + CountAt(new, k)
    BY <1>8, Zenon DEF Db
  <2>2. d.counts[k] = CountAt(d.live, k) /\ IsFiniteSet(d.live)
    BY Zenon DEF Indexed
  <2> HIDE DEF e, new
  <2> QED BY <2>1, <2>2, <1>5, <1>6, CountReplace
<1>14. IsFiniteSet(S)
  <2>1. IsFiniteSet(d.live \ ts)
    BY FS_Difference, ZenonT(60) DEF Indexed
  <2> HIDE DEF new
  <2> QED BY <1>5, <2>1, FS_Union, ZenonT(60)
<1>15. \A s, t \in S : s.uuid = t.uuid => s = t
  <2>1. \A s, t \in d.live \ ts : s.uuid = t.uuid => s = t
    BY Zenon DEF Indexed
  <2>2. \A s, t \in new : s.uuid = t.uuid => s = t
    BY <1>2, SMTT(60) DEF Indexed
  <2> QED BY <1>4, <2>1, <2>2, Zenon
<1>16. Indexed(e, S)
  BY <1>10, <1>11, <1>12, <1>13, <1>14, <1>15, ZenonT(60) DEF Indexed
<1>17. e \in Db
  <2>1. e.live \in SUBSET Task
    BY <1>1, <1>3, <1>10, SMTT(60)
  <2>2. e.byUUID \in SUBSET Keys
    <3>1. \A x \in S : TaskKey(x) \in Keys
      BY <1>1, <1>3, KeyNamesUUID, Zenon
    <3> QED BY <1>11, <3>1, Zenon
  <2>3. e.deadlines \in SUBSET [at : Int, key : Keys]
    BY <1>8, Zenon DEF Db
  <2>4. e.counts \in [Queues \X States -> Nat]
    BY <1>8, <1>13, ZenonT(60) DEF Db
  <2> QED BY <2>1, <2>2, <2>3, <2>4, <1>8, ZenonT(60) DEF releaseAll, Db
<1> QED BY <1>9, <1>16, <1>17, Zenon

\* Purging changes only the receipts and their index.
LEMMA Purge ==
  ASSUME NEW d \in Db, NEW es
  PROVE  LET e == purge(d, es)
         IN  /\ e \in Db
             /\ \A S : Indexed(d, S) => Indexed(e, S)
             /\ e.live = d.live
             /\ e.payloads = d.payloads
             /\ e.archived = d.archived
             /\ e.submissions = {r \in d.submissions : \A x \in es :
                  ~SameReceipt(x, r, "submission", <<r.queue, r.key>>)}
             /\ e.operations = {r \in d.operations : \A x \in es :
                  ~SameReceipt(x, r, "operation", r.id)}
             /\ e.expiry = d.expiry \ es
<1> DEFINE e == purge(d, es)
           U == {r \in d.submissions : \A x \in es :
                  ~SameReceipt(x, r, "submission", <<r.queue, r.key>>)}
           O == {r \in d.operations : \A x \in es :
                  ~SameReceipt(x, r, "operation", r.id)}
<1>1. /\ U \in SUBSET Submission
      /\ O \in SUBSET Operation
      /\ d.expiry \ es \in SUBSET Expiry
  BY Zenon DEF Db
<1>2. e \in Db
  BY <1>1, ZenonT(60) DEF purge, Db
<1>3. /\ e.live = d.live
      /\ e.byUUID = d.byUUID
      /\ e.deadlines = d.deadlines
      /\ e.counts = d.counts
      /\ e.payloads = d.payloads
      /\ e.archived = d.archived
      /\ e.submissions = U
      /\ e.operations = O
      /\ e.expiry = d.expiry \ es
  BY SMTT(60) DEF purge, Db
<1>4. \A S : Indexed(d, S) => Indexed(e, S)
  BY <1>3, Zenon DEF Indexed
<1> QED BY <1>2, <1>3, <1>4, Zenon

-----------------------------------------------------------------------------
(* What holds of the task buckets in every state, and what every step does. *)

StoreInv(d) ==
  /\ d \in Db
  /\ Indexed(d, d.live)
  /\ d.payloads = {t.uuid : t \in d.live}
  /\ \A a, b \in d.archived : a.uuid = b.uuid => a = b
  /\ \A t \in d.live, a \in d.archived : t.uuid # a.uuid

Advances(d, e) ==
  /\ d.archived \subseteq e.archived
  /\ \A t \in d.live \ e.live :
       \E x \in e.live \cup e.archived :
         x.uuid = t.uuid /\ x.revision = t.revision + 1

SameReceipts(d, e) ==
  /\ e.submissions = d.submissions
  /\ e.operations = d.operations
  /\ e.expiry = d.expiry

SameTasks(d, e) == e.live = d.live /\ e.archived = d.archived

\* A submission keeps the other tasks.
LEMMA AddedStep ==
  ASSUME NEW d, StoreInv(d), NEW t \in Task,
         \A s \in d.live \cup d.archived : s.uuid # t.uuid
  PROVE  LET e == putTask(putPayload(d, t.uuid), t)
         IN  /\ StoreInv(e)
             /\ Advances(d, e)
             /\ SameReceipts(d, e)
             /\ e.live = d.live \cup {t}
<1> DEFINE e == putTask(putPayload(d, t.uuid), t)
<1>1. /\ e \in Db
      /\ Indexed(e, d.live \cup {t})
      /\ e.payloads = d.payloads \cup {t.uuid}
      /\ e.archived = d.archived
      /\ e.submissions = d.submissions
      /\ e.operations = d.operations
      /\ e.expiry = d.expiry
  BY AddTask, ZenonT(60) DEF StoreInv
<1>2. e.live = d.live \cup {t}
  BY <1>1, Zenon DEF Indexed
<1> HIDE DEF e
<1>3. StoreInv(e)
  BY <1>1, <1>2 DEF StoreInv
<1> QED BY <1>1, <1>2, <1>3, Zenon DEF Advances, SameReceipts, e

\* A change of a live task.
LEMMA MovedStep ==
  ASSUME NEW d, StoreInv(d), NEW t \in d.live, NEW n \in Task,
         n.uuid = t.uuid, n.revision = t.revision + 1
  PROVE  LET e == putTask(deleteTask(d, t), n)
         IN  /\ StoreInv(e)
             /\ Advances(d, e)
             /\ SameReceipts(d, e)
             /\ e.live = (d.live \ {t}) \cup {n}
<1> DEFINE e == putTask(deleteTask(d, t), n)
<1>1. e \in Db /\ SameRest(d, e) /\ Indexed(e, (d.live \ {t}) \cup {n})
  BY MoveTask, Zenon DEF StoreInv
<1>2. e.live = (d.live \ {t}) \cup {n}
  BY <1>1, Zenon DEF Indexed
<1> HIDE DEF e
<1>3. e.payloads = {x.uuid : x \in e.live}
  BY <1>1, <1>2 DEF StoreInv, SameRest
<1>4. StoreInv(e)
  BY <1>1, <1>2, <1>3 DEF StoreInv, SameRest
<1> QED BY <1>1, <1>2, <1>4, Zenon DEF Advances, SameReceipts, SameRest, e

\* The end of a live task.
LEMMA ArchivedStep ==
  ASSUME NEW d, StoreInv(d), NEW t \in d.live, NEW terminal \in TerminalStates,
         NEW time \in Times, t.revision < MaxRevision
  PROVE  LET e == archiveTask(d, t, terminal, time)
             a == toArchived(t, terminal, time)
         IN  /\ StoreInv(e)
             /\ Advances(d, e)
             /\ SameReceipts(d, e)
             /\ e.live = d.live \ {t}
             /\ e.archived = d.archived \cup {a}
             /\ a \in Archived
             /\ a.uuid = t.uuid
             /\ a.revision = t.revision + 1
<1> DEFINE e == archiveTask(d, t, terminal, time)
           a == toArchived(t, terminal, time)
<1>1. /\ e \in Db
      /\ a \in Archived
      /\ Indexed(e, d.live \ {t})
      /\ e.payloads = d.payloads \ {t.uuid}
      /\ e.archived = d.archived \cup {a}
      /\ e.submissions = d.submissions
      /\ e.operations = d.operations
      /\ e.expiry = d.expiry
  <2>1. d \in Db /\ Indexed(d, d.live) /\ \A x \in d.archived : x.uuid # t.uuid
    BY Zenon DEF StoreInv
  <2> QED BY <2>1, ArchiveTask, SMTT(60)
<1>2. a.uuid = t.uuid /\ a.revision = t.revision + 1
  BY Zenon DEF toArchived
<1>3. e.live = d.live \ {t}
  BY <1>1, Zenon DEF Indexed
<1> HIDE DEF e, a
<1>5. e.payloads = {x.uuid : x \in e.live}
  BY <1>1, <1>3 DEF StoreInv, Indexed
<1>6. \A x \in e.live : x.uuid # t.uuid
  BY <1>3, Zenon DEF StoreInv, Indexed
<1>7. StoreInv(e)
  BY <1>1, <1>2, <1>3, <1>5, <1>6 DEF StoreInv
<1>8. Advances(d, e)
  BY <1>1, <1>2, <1>3, Zenon DEF Advances
<1> QED BY <1>1, <1>2, <1>3, <1>7, <1>8, Zenon DEF SameReceipts, e, a

\* The release of timed-out tasks.
LEMMA ReleasedStep ==
  ASSUME NEW d, StoreInv(d), NEW ts \in SUBSET d.live, NEW time \in Times,
         \A t \in ts : t.revision < MaxRevision
  PROVE  LET e == releaseAll(d, ts, time)
         IN  /\ StoreInv(e)
             /\ Advances(d, e)
             /\ SameReceipts(d, e)
             /\ \A t \in d.live \ e.live : t \in ts /\ Released(t, time) \in e.live
<1> DEFINE e == releaseAll(d, ts, time)
           new == {Released(t, time) : t \in ts}
<1>1. e \in Db /\ SameRest(d, e) /\ Indexed(e, (d.live \ ts) \cup new)
  BY ReleaseAll, Zenon DEF StoreInv
<1>2. e.live = (d.live \ ts) \cup new
  BY <1>1, Zenon DEF Indexed
<1>3. \A t \in ts : /\ Released(t, time).uuid = t.uuid
                    /\ Released(t, time).revision = t.revision + 1
  BY ReleasedTask, Zenon DEF StoreInv, Db
<1> HIDE DEF e
<1>4. e.payloads = {x.uuid : x \in e.live}
  BY <1>1, <1>2, <1>3 DEF StoreInv, SameRest
<1>5. StoreInv(e)
  BY <1>1, <1>2, <1>3, <1>4 DEF StoreInv, SameRest
<1>6. Advances(d, e)
  BY <1>1, <1>2, <1>3, Zenon DEF Advances, SameRest
<1> QED BY <1>1, <1>2, <1>5, <1>6, Zenon DEF SameReceipts, SameRest, e

\* A change of receipts only.
LEMMA ReceiptStep ==
  ASSUME NEW d, StoreInv(d)
  PROVE  /\ \A r \in Operation :
              StoreInv(putOperation(d, r)) /\ SameTasks(d, putOperation(d, r))
         /\ \A r \in Submission :
              StoreInv(putSubmission(d, r)) /\ SameTasks(d, putSubmission(d, r))
         /\ \A es : StoreInv(purge(d, es)) /\ SameTasks(d, purge(d, es))
<1>1. ASSUME NEW e \in Db, \A S : Indexed(d, S) => Indexed(e, S),
             e.live = d.live, e.payloads = d.payloads, e.archived = d.archived
      PROVE  StoreInv(e) /\ SameTasks(d, e)
  BY <1>1, Zenon DEF StoreInv, SameTasks
<1>2. d \in Db
  BY Zenon DEF StoreInv
<1>3. ASSUME NEW r \in Operation
      PROVE  StoreInv(putOperation(d, r)) /\ SameTasks(d, putOperation(d, r))
  BY <1>1, <1>2, PutOperation, Zenon
<1>4. ASSUME NEW r \in Submission
      PROVE  StoreInv(putSubmission(d, r)) /\ SameTasks(d, putSubmission(d, r))
  BY <1>1, <1>2, PutSubmission, ZenonT(60)
<1>5. ASSUME NEW es
      PROVE  StoreInv(purge(d, es)) /\ SameTasks(d, purge(d, es))
  BY <1>1, <1>2, Purge, Zenon
<1> QED BY <1>3, <1>4, <1>5, Zenon

-----------------------------------------------------------------------------
(* The tasks that the operations write. *)

\* SubmitTask builds a well-formed task.
LEMMA NewTaskType ==
  ASSUME NEW u \in UUIDs, NEW s \in Submits, NEW time \in Times
  PROVE  NewTask(u, s, time) \in Task /\ NewTask(u, s, time).uuid = u
<1>1. s \in SubmitType
  BY RequestAssumption, Zenon
<1>2. submitTimeout(s.timeout) \in Int
  BY <1>1, BoundAssumption DEF submitTimeout, SubmitType
<1>3. 1 \in 1 .. MaxRevision
  BY BoundAssumption
<1> QED BY <1>1, <1>2, <1>3, Zenon DEF NewTask, Task, SubmitType

\* A claim (applyGetNext) keeps the UUID of a task and raises its revision by one.
LEMMA ClaimedTask ==
  ASSUME NEW t \in Task, NEW c \in Claims, NEW time \in Times,
         t.revision < MaxRevision
  PROVE  /\ applyGetNext(t, c, time) \in Task
         /\ applyGetNext(t, c, time).uuid = t.uuid
         /\ applyGetNext(t, c, time).revision = t.revision + 1
<1> DEFINE st == IF c.toState # Unset THEN c.toState ELSE t.auto
           au == IF c.toAuto # Unset THEN c.toAuto ELSE t.state
           ti == IF c.timeout < 0 THEN 0
                 ELSE IF c.timeout # 0 THEN c.timeout ELSE t.timeout
<1>1. c \in ClaimType
  BY RequestAssumption, Zenon
<1>2. st \in States /\ au \in States /\ ti \in Int
  BY <1>1 DEF ClaimType, Task
<1>3. t.revision + 1 \in 1 .. MaxRevision
  BY BoundAssumption DEF Task
<1> HIDE DEF st, au, ti
<1>4. applyGetNext(t, c, time) =
        [uuid |-> t.uuid, queue |-> t.queue, state |-> st, auto |-> au,
         updateTime |-> time, timeout |-> ti, priority |-> t.priority,
         revision |-> t.revision + 1, guarded |-> t.guarded]
  BY Zenon DEF applyGetNext, st, au, ti
<1> QED BY <1>2, <1>3, <1>4 DEF Task

\* An update keeps the UUID of a task and raises its revision by one.
LEMMA UpdatedTask ==
  ASSUME NEW t \in Task, NEW upd \in Updates, NEW time \in Times,
         t.revision < MaxRevision
  PROVE  /\ Updated(t, upd, time) \in Task
         /\ Updated(t, upd, time).uuid = t.uuid
         /\ Updated(t, upd, time).revision = t.revision + 1
<1> DEFINE pr == IF upd.priority # Unset THEN upd.priority ELSE t.priority
<1>1. upd \in UpdateType
  BY RequestAssumption, Zenon
<1>2. pr \in Int
  BY <1>1, Zenon DEF UpdateType, Task
<1>3. t.revision + 1 \in 1 .. MaxRevision
  BY BoundAssumption DEF Task
<1> HIDE DEF pr
<1>4. Updated(t, upd, time) =
        [uuid |-> t.uuid, queue |-> t.queue, state |-> upd.state,
         auto |-> upd.auto, updateTime |-> time, timeout |-> upd.timeout,
         priority |-> pr, revision |-> t.revision + 1, guarded |-> t.guarded]
  BY Zenon DEF Updated, pr
<1> QED BY <1>1, <1>2, <1>3, <1>4 DEF Task, UpdateType

\* The receipt of an operation that left revision rev of t.
LEMMA OperationType ==
  ASSUME NEW id \in OperationIds, NEW op \in Ops, NEW t, NEW time \in Times,
         t.uuid \in UUIDs, t.revision \in 2 .. MaxRevision
  PROVE  LET r == OperationRecord(id, op, t, time)
         IN  /\ r \in Operation
             /\ r.id = id
             /\ r.uuid = t.uuid
             /\ r.revision = t.revision
             /\ r.expiresAt = time + Retention
  BY BoundAssumption DEF OperationRecord, Operation, Times
=============================================================================
