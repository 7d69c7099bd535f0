------------------------------ MODULE Committer ------------------------------
(***************************************************************************)
(* Group commit (filestore/committer.go): concurrent writers hand their    *)
(* writes to one goroutine, which applies all that are in flight in one    *)
(* transaction and then answers each of them.                              *)
(*                                                                         *)
(* The writes are SubmitTask, UpdateTask and archiveAndDelete of           *)
(* boltstore.go, reduced to the two buckets they change in several steps:  *)
(* a task's record (here its state) and its payload.  A state in TooLong   *)
(* makes a key that bbolt refuses, so putTask fails.                       *)
(*                                                                         *)
(* serial is the store as it would be had each write been a transaction of *)
(* its own, rolled back when the write fails.                              *)
(***************************************************************************)
EXTENDS Integers, Sequences, SequencesExt, FiniteSets

CONSTANTS
  Callers,    \* goroutines that write
  UUIDs,
  States,     \* states a request may name
  TooLong,    \* those whose key is longer than bbolt allows
  QueueLen,   \* capacity of the channel ops (1024 in the code)
  MaxBatch,   \* maxBatch
  Linger,     \* whether maxDelay > 0
  DiskFails,  \* whether a commit can fail
  MaxWrites   \* bound on the writes

ASSUME CommitterAssumption ==
  /\ TooLong \subseteq States
  /\ QueueLen \in Nat \ {0}
  /\ MaxBatch \in Nat \ {0}
  /\ Linger \in BOOLEAN
  /\ DiskFails \in BOOLEAN
  /\ MaxWrites \in Nat

VARIABLES
  db,       \* the committed store
  serial,   \* see above
  call,     \* each caller's request and its fate
  ops,      \* the channel
  batch,    \* the writes the goroutine has collected
  writes,   \* number of writes so far
  phase     \* of the goroutine and the store: see Phases

vars == <<db, serial, call, ops, batch, writes, phase>>

\* run is serving; stop is closed; bbolt is closed too; run has returned.
Phases == {"serving", "stopping", "closed", "returned"}

-----------------------------------------------------------------------------
(* The functions passed to write. *)

NoTask == "none"

Request ==
  [op : {"submit", "update"}, uuid : UUIDs, state : States]
    \cup [op : {"archive"}, uuid : UUIDs]

putPayload(d, u) == [d EXCEPT !.payloads = @ \cup {u}]
deleteTask(d, u) == [d EXCEPT !.tasks[u] = NoTask]

\* The store after putTask, and whether it failed.
putTask(d, u, s) ==
  IF s \in TooLong THEN [db |-> d, err |-> TRUE]
  ELSE [db |-> [d EXCEPT !.tasks[u] = s], err |-> FALSE]

\* A write to an unknown task succeeds and changes nothing.
fn(d, r) ==
  CASE r.op = "submit" -> putTask(putPayload(d, r.uuid), r.uuid, r.state)
    [] r.op # "submit" /\ d.tasks[r.uuid] = NoTask -> [db |-> d, err |-> FALSE]
    [] r.op = "update" /\ d.tasks[r.uuid] # NoTask ->
         putTask(deleteTask(d, r.uuid), r.uuid, r.state)
    [] r.op = "archive" /\ d.tasks[r.uuid] # NoTask ->
         [db |-> [deleteTask(d, r.uuid) EXCEPT !.payloads = @ \ {r.uuid}],
          err |-> FALSE]

\* The writes of a batch in one transaction: a failed one does not stop it.
\* errs are the callers whose write failed.
applyBatch(d, cs) ==
  FoldLeft(LAMBDA acc, c :
             LET r == fn(acc.db, call[c].req)
             IN  [db |-> r.db, errs |-> IF r.err THEN acc.errs \cup {c} ELSE acc.errs],
           [db |-> d, errs |-> {}], cs)

\* The same writes, each in a transaction of its own.
applyEach(d, cs) ==
  FoldLeft(LAMBDA acc, c : LET r == fn(acc, call[c].req) IN IF r.err THEN acc ELSE r.db,
           d, cs)

-----------------------------------------------------------------------------
Idle == [status |-> "idle"]

Init ==
  /\ db = [tasks |-> [u \in UUIDs |-> NoTask], payloads |-> {}]
  /\ serial = db
  /\ call = [c \in Callers |-> Idle]
  /\ ops = <<>>
  /\ batch = <<>>
  /\ writes = 0
  /\ phase = "serving"

\* submit, first part: a new write; a submission has a new uuid.
Submit(c, r) ==
  /\ call[c] = Idle
  /\ writes < MaxWrites
  /\ r.op = "submit" => /\ db.tasks[r.uuid] = NoTask
                        /\ r.uuid \notin db.payloads
                        /\ \A d \in Callers :
                             call[d] # Idle => call[d].req.uuid # r.uuid
  /\ writes' = writes + 1
  /\ call' = [call EXCEPT ![c] = [status |-> "sending", req |-> r]]
  /\ UNCHANGED <<db, serial, ops, batch, phase>>

\* submit, second part: it waits for room in the channel.
Enqueue(c) ==
  /\ call[c].status = "sending"
  /\ Len(ops) < QueueLen
  /\ ops' = Append(ops, c)
  /\ call' = [call EXCEPT ![c].status = "queued"]
  /\ UNCHANGED <<db, serial, batch, writes, phase>>

\* run takes the first write, collect the ones after it.
Collect ==
  /\ phase # "returned"
  /\ ops # <<>>
  /\ Len(batch) < MaxBatch
  /\ batch' = Append(batch, Head(ops))
  /\ ops' = Tail(ops)
  /\ UNCHANGED <<db, serial, call, writes, phase>>

\* collect returns when the batch is full, when nothing is queued, or when the
\* delay is over; without a delay it never waits.
collected ==
  /\ batch # <<>>
  /\ Linger \/ ops = <<>> \/ Len(batch) = MaxBatch

answer(failed) ==
  call' = [c \in Callers |->
             IF Contains(batch, c)
               THEN [call[c] EXCEPT !.status = IF c \in failed THEN "error" ELSE "done"]
               ELSE call[c]]

Commit_AnswersFirst ==
  LET result == applyBatch(db, batch)
  IN  /\ phase # "closed"
      /\ collected
      /\ db' = result.db
      /\ serial' = applyEach(serial, batch)
      /\ call' = [c \in Callers |->
                    IF c = batch[1]
                      THEN [call[c] EXCEPT !.status =
                              IF c \in result.errs THEN "error" ELSE "done"]
                      ELSE call[c]]
      /\ batch' = <<>>
      /\ UNCHANGED <<ops, writes, phase>>

\* run: the transaction commits, and each caller gets the error of its write.
Commit ==
  LET result == applyBatch(db, batch)
  IN  /\ phase # "closed"
      /\ collected
      /\ db' = result.db
      /\ serial' = applyEach(serial, batch)
      /\ answer(result.errs)
      /\ batch' = <<>>
      /\ UNCHANGED <<ops, writes, phase>>

CommitFails_KeepsWrites ==
  /\ DiskFails \/ phase = "closed"
  /\ collected
  /\ db' = applyBatch(db, batch).db
  /\ answer(ToSet(batch))
  /\ batch' = <<>>
  /\ UNCHANGED <<serial, ops, writes, phase>>

\* run: the transaction fails, as it does once bbolt is closed, and every caller
\* gets its error.
CommitFails ==
  /\ DiskFails \/ phase = "closed"
  /\ collected
  /\ answer(ToSet(batch))
  /\ batch' = <<>>
  /\ UNCHANGED <<db, serial, ops, writes, phase>>

\* submit returns.
Return(c) ==
  /\ call[c].status \in {"done", "error"}
  /\ call' = [call EXCEPT ![c] = Idle]
  /\ UNCHANGED <<db, serial, ops, batch, writes, phase>>

\* The function Initialize returns, called when the server stops: it closes stop
\* and then bbolt, which waits for a transaction to end but not for run.
Close ==
  /\ phase = "serving"
  /\ phase' = "stopping"
  /\ UNCHANGED <<db, serial, call, ops, batch, writes>>

CloseDB ==
  /\ phase = "stopping"
  /\ phase' = "closed"
  /\ UNCHANGED <<db, serial, call, ops, batch, writes>>

\* run, at its select: when a write is queued as well, it may take either.
RunReturns ==
  /\ phase \in {"stopping", "closed"}
  /\ batch = <<>>
  /\ phase' = "returned"
  /\ UNCHANGED <<db, serial, call, ops, batch, writes>>

Next ==
  \/ \E c \in Callers, r \in Request : Submit(c, r)
  \/ \E c \in Callers : Enqueue(c)
  \/ Collect
  \/ Commit
  \/ CommitFails
  \/ \E c \in Callers : Return(c)
  \/ Close
  \/ CloseDB
  \/ RunReturns

Spec == Init /\ [][Next]_vars

\* The scheduler runs the committer goroutine, a goroutine that waits to send on a
\* channel is served in its turn, and a select takes each of its ready cases
\* sometimes.
FairSpec ==
  /\ Spec
  /\ WF_vars(Collect)
  /\ WF_vars(Commit \/ CommitFails)
  /\ SF_vars(RunReturns)
  /\ \A c \in Callers : SF_vars(Enqueue(c)) /\ WF_vars(Return(c))

-----------------------------------------------------------------------------
\* When no write fails by itself, the store is what the answered writes make of it
\* one after the other, and a transaction that fails leaves nothing of any of them
\* (run).
GroupIsSerial == db = serial

\* committer.go: a failing write leaves no partial state.  The tasks are those the
\* successful writes leave.
FailedWriteKeepsTasks == db.tasks = serial.tasks

\* Every submit returns, whatever else is queued, unless the store was closed before
\* run took its write; close does not strand a write that run has taken, whose caller
\* gets the commit or the error of a closed store (run, collect, close).
EveryWriteAnswered ==
  \A c \in Callers :
    /\ call[c].status = "sending" ~> call[c] = Idle \/ phase = "returned"
    /\ Contains(batch, c) ~> call[c] = Idle
=============================================================================
