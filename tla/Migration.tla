----------------------------- MODULE Migration -----------------------------
(***************************************************************************)
(* The upgrade of a database that an earlier release wrote                 *)
(* (filestore/migration.go, counts.go), as Initialize of boltstore.go runs *)
(* it.  That release kept the payload in the record of a task and had      *)
(* neither deadlines nor counts.  Each operator is one transaction; a      *)
(* process that is killed between two of them starts again at the cursor.  *)
(*                                                                         *)
(* A task is known by the place of its key in the bucket, a number above 0 *)
(* in key order.                                                           *)
(***************************************************************************)
EXTENDS Integers, FiniteSets

CONSTANTS
  OldTasks,            \* tasks the earlier release may have left
  NullPayload,         \* those whose record has a null payload
  TimedTasks,          \* those with a timeout
  MigrationBatchSize   \* migrationBatchSize (1000 in the code)

ASSUME MigrationAssumption ==
  /\ OldTasks \subseteq Nat \ {0} /\ IsFiniteSet(OldTasks)
  /\ NullPayload \subseteq OldTasks
  /\ TimedTasks \subseteq OldTasks
  /\ MigrationBatchSize \in Nat \ {0}

\* The file as the earlier release left it.  inline are the tasks that have a
\* payload member in their record, payloads the entries of the new bucket, cursor
\* is 0 when none is stored.
OldFile(tasks) ==
  [tasks |-> tasks, inline |-> tasks, payloads |-> [t \in {} |-> ""],
   deadlines |-> {}, counted |-> 0, ready |-> FALSE,
   cursor |-> 0, current |-> FALSE]

\* A database of this release without any of those tasks.
NewFile == [OldFile({}) EXCEPT !.ready = TRUE, !.current = TRUE]

\* The payload of a record: null becomes an empty one.
payloadOf(t) == IF t \in NullPayload THEN "empty" ELSE "bytes"

-----------------------------------------------------------------------------
\* The tasks one transaction looks at: the first of those behind the cursor.
pending(f) == {t \in f.tasks : t > f.cursor}
firstBatch(f) ==
  {t \in pending(f) : Cardinality({u \in pending(f) : u <= t}) <= MigrationBatchSize}

\* What it does to them: payloads move to their bucket, and tasks with a timeout get
\* a deadline.
migrated(f) ==
  LET batch == firstBatch(f)
      moving == batch \cap f.inline
  IN  [f EXCEPT !.payloads = [t \in DOMAIN @ \cup moving |->
                                IF t \in moving THEN payloadOf(t) ELSE @[t]],
                !.inline = @ \ moving,
                !.deadlines = @ \cup (batch \cap TimedTasks)]

migrateTaskStorage_ShortRunIsDone(f) ==
  IF Cardinality(pending(f)) <= MigrationBatchSize + 1
    THEN [migrated(f) EXCEPT !.current = TRUE, !.cursor = 0]
    ELSE [migrated(f) EXCEPT !.cursor = CHOOSE t \in firstBatch(f) :
                                          \A u \in firstBatch(f) : u <= t]

\* One round of migrateTaskStorage: the last one writes the schema version in place
\* of the cursor.
migrateTaskStorage(f) ==
  IF firstBatch(f) = pending(f)
    THEN [migrated(f) EXCEPT !.current = TRUE, !.cursor = 0]
    ELSE [migrated(f) EXCEPT !.cursor = CHOOSE t \in firstBatch(f) :
                                          \A u \in firstBatch(f) : u <= t]

\* rebuildCounts: a full scan and the marker, in one transaction.
rebuildCounts(f) == [f EXCEPT !.counted = Cardinality(f.tasks), !.ready = TRUE]
=============================================================================
