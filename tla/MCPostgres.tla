---------------------------- MODULE MCPostgres ----------------------------
(* Small instances of PostgresStore for TLC. *)
EXTENDS PostgresStore, TLC

CONSTANTS s1, s2, u1, u2, q1, todo, doing, o1, k1

OneSubmit ==
  {[queue |-> q1, state |-> todo, auto |-> doing, timeout |-> 0, priority |-> 0]}

\* A legacy and a guarded claim; only the guarded one has a timeout.
GetNext ==
  [op |-> "next", queues |-> {q1}, from |-> todo, timeout |-> -1, toState |-> Unset,
   toAuto |-> Unset]
Claim ==
  [op |-> "claim", id |-> o1, queues |-> {q1}, from |-> todo, timeout |-> 1,
   toState |-> Unset, toAuto |-> Unset]

\* Changes of the task u1: back to its first state, and to the archive.
Update ==
  [op |-> "update", uuid |-> u1, state |-> todo, auto |-> doing, timeout |-> 0,
   priority |-> Unset]
GuardedComplete ==
  [op |-> "guardedComplete", id |-> o1, uuid |-> u1, queue |-> q1, revision |-> 2,
   expected |-> doing]

Keyed ==
  [op |-> "keyed", queue |-> q1, key |-> k1, guarded |-> TRUE, state |-> todo,
   auto |-> doing, timeout |-> 0, priority |-> 0]

MCRequests ==
  {GetNext, Claim, Update, GuardedComplete, Keyed,
   [op |-> "cleanup", queue |-> Unset, before |-> 2],
   [op |-> "lookup", queue |-> q1, key |-> k1],
   [op |-> "get", uuid |-> u1],
   [op |-> "purge"]}

SessionSymmetry == Permutations(Sessions)
=============================================================================
