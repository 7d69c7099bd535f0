---------------------------- MODULE MCTaskStore ----------------------------
(* Small instances of TaskStore for TLC. *)
EXTENDS TaskStore, FiniteSetsExt, TLC

CONSTANTS u1, u2, u3, q1, q2, todo, doing, o1, o2, o3, k1, k2

MCSubmit(q, timeout, guarded) ==
  [queue |-> q, state |-> todo, auto |-> doing, timeout |-> timeout,
   priority |-> 0, guarded |-> guarded]

MCClaim(qs, timeout) ==
  [queues |-> qs, state |-> todo, timeout |-> timeout, toState |-> Unset,
   toAuto |-> Unset]

\* Legacy operations: two queues, the default timeout or none, claims of one
\* queue and of a group, an override of the claimed state.
LegacySubmits == {MCSubmit(q1, 0, FALSE), MCSubmit(q2, -1, FALSE)}
LegacyClaims ==
  {MCClaim({q1, q2}, 0), MCClaim({q1}, -1),
   [MCClaim({q2}, 1) EXCEPT !.toState = doing, !.toAuto = doing]}
LegacyUpdates ==
  {[state |-> todo, auto |-> doing, timeout |-> 1, priority |-> 1]}

\* Guarded operations of two or three workers on one queue.
GuardedClaims == {MCClaim({q1}, 1)}
GuardedUpdates ==
  {[state |-> todo, auto |-> doing, timeout |-> 0, priority |-> Unset]}

\* Receipts: two contents under one key, and claims that time out at once.
KeyedSubmits == {MCSubmit(q1, 1, TRUE), MCSubmit(q1, -1, TRUE)}

\* CleanUpTimedOut as its loop: one deleteTask and one putTask per task, in
\* some order.
releaseLoop(d, ts, time) ==
  FoldSet(LAMBDA t, acc : putTask(deleteTask(acc, t), Released(t, time)), d, ts)

\* The one-step form of the timeout loop (releaseAll) does what the code's loop
\* over the collected tasks does, one deleteTask and putTask at a time.
ReleaseIsTheLoop ==
  \A q \in Queues \cup {Unset}, at \in Cutoffs :
    LET ts == Expired(db, q, at)
    IN  releaseAll(db, ts, now) = releaseLoop(db, ts, now)

UUIDSymmetry == Permutations(UUIDs)
=============================================================================
