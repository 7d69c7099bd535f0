------------------------------- MODULE Client -------------------------------
(***************************************************************************)
(* The Go client (clients/corndogs): ClusterTransport, which follows the   *)
(* leader and retries, over one multiplexed StreamTransport for each node. *)
(*                                                                         *)
(* Every caller makes one call.  The goroutines of the callers and the     *)
(* readLoop of each connection interleave at the points where the code     *)
(* takes or leaves a lock or waits.  A request may run on the server long  *)
(* after its connection broke.  The cluster is external: a node redirects, *)
(* or it leads and refuses, rejects or runs the request; a request of a    *)
(* replay-safe operation that ran before gets its first result again       *)
(* (module TaskStore).                                                     *)
(***************************************************************************)
EXTENDS Integers, Sequences, FiniteSetsExt

CONSTANTS
  Callers,
  Safe,         \* the callers whose operation is in replaySafeOps
  N,            \* the nodes, which are also the seeds, are 1 .. N
  MaxAttempts,  \* attempts of a call (len(Seeds) + 5 in the code)
  MaxTotal,     \* bound on the attempts of all calls together
  MaxConns,     \* bound on the connections that are dialed
  Deadlines     \* whether the callers' contexts may end

ASSUME SeedAssumption == N \in Nat \ {0}

VARIABLES
  call,      \* each caller: pc, attempts, addr, conn, id and its last error
  ch,        \* the result channel of each caller's attempt
  tr,        \* each node's transport: conn (0: none) and pending
  nextID,    \* each transport's nextID
  conns,     \* every connection: its node and state, whether readLoop
             \* runs, and the calls that teardown fails
  cache,     \* ClusterTransport.leader (0: unknown) and seedIdx
  requests,  \* requests on their way to a node or waiting there
  replies,   \* replies on their way
  applied    \* how often each caller's operation took effect

vars == <<call, ch, tr, nextID, conns, cache, requests, replies, applied>>

Nodes == 1 .. N
result(kind, leader) == [kind |-> kind, leader |-> leader]
NoResult == result("none", 0)
NoPending == [i \in {} |-> 0]

-----------------------------------------------------------------------------
(* Errors, and what they mean (errors.go). *)

Refusals == {"dial", "lost", "redirect", "unavailable"}
Doubts == {"broken", "internal", "ctx"}

NotApplied_Internal(err) == err \in Refusals \cup {"internal"}

\* errors.Is(err, ErrNotApplied), errors.Is(err, ErrOutcomeUncertain)
NotApplied(err) == err \in Refusals
Uncertain(err) == err \in Doubts

retryable_AfterDoubt(c, err) == err # "refused" /\ err # "ctx"

\* A service error and an unsupported operation ("refused") are final.
retryable(c, err) ==
  /\ err \notin {"refused", "ctx"}
  /\ NotApplied(err) \/ (Uncertain(err) /\ c \in Safe)

-----------------------------------------------------------------------------
Init ==
  /\ call = [c \in Callers |-> [pc |-> "target", tries |-> 0, addr |-> 0,
                                conn |-> 0, id |-> 0, err |-> "none"]]
  /\ ch = [c \in Callers |-> NoResult]
  /\ tr = [a \in Nodes |-> [conn |-> 0, pending |-> NoPending]]
  /\ nextID = [a \in Nodes |-> 0]
  /\ conns = <<>>
  /\ cache = [leader |-> 0, seedIdx |-> 0]
  /\ requests = {}
  /\ replies = {}
  /\ applied = [c \in Callers |-> 0]

\* Call, after an attempt with the result err: it returns, or it tries again.
\* The leader to remember is new (0: clearLeader).
attempted(c, err, new) ==
  LET again == /\ err # "ok"
               /\ err = "redirect" \/ retryable(c, err)
               /\ call[c].tries < MaxAttempts
  IN  /\ call' = [call EXCEPT ![c].pc = IF again THEN "target" ELSE "done",
                              ![c].err = err, ![c].addr = 0,
                              ![c].conn = 0, ![c].id = 0]
      /\ cache' = [cache EXCEPT !.leader =
                     IF err = "ok" \/ err = "redirect" \/ retryable(c, err)
                       THEN new ELSE @]
      /\ ch' = [ch EXCEPT ![c] = NoResult]

\* sleepBackoff: the context ends between two attempts.
GiveUp(c) ==
  /\ Deadlines
  /\ call[c].pc = "target"
  /\ call[c].err \notin {"none", "redirect"}
  /\ call' = [call EXCEPT ![c].pc = "done"]
  /\ UNCHANGED <<ch, tr, nextID, conns, cache, requests, replies, applied>>

\* The attempts of all calls.
attempts == MapThenSumSet(LAMBDA c : call[c].tries, Callers)

\* target: the cached leader, else the next seed.
Target(c) ==
  /\ call[c].pc = "target"
  /\ attempts < MaxTotal
  /\ call' = [call EXCEPT
       ![c].pc = "connect", ![c].tries = @ + 1,
       ![c].addr = IF cache.leader # 0 THEN cache.leader ELSE cache.seedIdx + 1]
  /\ cache' = [cache EXCEPT !.seedIdx = IF cache.leader # 0 THEN @ ELSE (@ + 1) % N]
  /\ UNCHANGED <<ch, tr, nextID, conns, requests, replies, applied>>

\* ensureConn: the current connection, or a new one.
EnsureConn(c) ==
  LET a == call[c].addr
      dial == tr[a].conn = 0
      k == IF dial THEN Len(conns) + 1 ELSE tr[a].conn
  IN  /\ call[c].pc = "connect"
      /\ dial => Len(conns) < MaxConns
      /\ call' = [call EXCEPT ![c].pc = "register", ![c].conn = k]
      /\ tr' = IF dial THEN [tr EXCEPT ![a] = [conn |-> k, pending |-> NoPending]]
               ELSE tr
      /\ conns' = IF dial THEN Append(conns, [node |-> a, state |-> "open",
                                         reading |-> TRUE, fails |-> NoPending])
                  ELSE conns
      /\ UNCHANGED <<ch, nextID, cache, requests, replies, applied>>

DialFails(c) ==
  /\ call[c].pc = "connect"
  /\ tr[call[c].addr].conn = 0
  /\ attempted(c, "dial", 0)
  /\ UNCHANGED <<tr, nextID, conns, requests, replies, applied>>

Register_SameID(c) ==
  LET a == call[c].addr
      id == nextID[a] + 1
  IN  /\ call[c].pc = "register"
      /\ IF tr[a].conn = 0 THEN attempted(c, "lost", 0) /\ UNCHANGED tr
         ELSE /\ call' = [call EXCEPT ![c].pc = "write", ![c].id = id]
              /\ tr' = [tr EXCEPT ![a].pending =
                          [i \in DOMAIN @ \cup {id} |-> IF i = id THEN c ELSE @[i]]]
              /\ UNCHANGED <<ch, cache>>
      /\ UNCHANGED <<nextID, conns, requests, replies, applied>>

\* The call takes an id and a place in pending, which by now may be that of a
\* newer connection, or of none.
Register(c) ==
  LET a == call[c].addr
      id == nextID[a] + 1
  IN  /\ call[c].pc = "register"
      /\ nextID' = [nextID EXCEPT ![a] = id]
      /\ IF tr[a].conn = 0 THEN attempted(c, "lost", 0) /\ UNCHANGED tr
         ELSE /\ call' = [call EXCEPT ![c].pc = "write", ![c].id = id]
              /\ tr' = [tr EXCEPT ![a].pending =
                          [i \in DOMAIN @ \cup {id} |-> IF i = id THEN c ELSE @[i]]]
              /\ UNCHANGED <<ch, cache>>
      /\ UNCHANGED <<conns, requests, replies, applied>>

-----------------------------------------------------------------------------
(* Connections. *)

request(c) ==
  [caller |-> c, node |-> call[c].addr, conn |-> call[c].conn, id |-> call[c].id]

\* writeFrame succeeds, which shows that this side has not closed the connection.
Write(c) ==
  /\ call[c].pc = "write"
  /\ conns[call[c].conn].state # "closed"
  /\ call' = [call EXCEPT ![c].pc = "wait"]
  /\ requests' = requests \cup {request(c)}
  /\ UNCHANGED <<ch, tr, nextID, conns, cache, replies, applied>>

\* teardown, first part: a current connection is given up under the lock.
giveUp(k) ==
  LET a == conns[k].node
  IN  IF tr[a].conn # k THEN UNCHANGED tr
      ELSE tr' = [tr EXCEPT ![a] = [conn |-> 0, pending |-> NoPending]]

closing(k) ==
  LET a == conns[k].node
  IN  IF tr[a].conn # k THEN conns[k]
      ELSE [conns[k] EXCEPT !.state = "closing", !.fails = tr[a].pending]

\* writeFrame fails after the node got the whole frame or a part of it; the
\* caller tears the connection down, unless another one has.
WriteFails(c) ==
  LET k == call[c].conn
  IN  /\ call[c].pc = "write"
      /\ IF tr[conns[k].node].conn = k
           THEN call' = [call EXCEPT ![c].pc = "teardown"] /\ UNCHANGED <<ch, cache>>
           ELSE attempted(c, "broken", 0)
      /\ giveUp(k)
      /\ conns' = [conns EXCEPT ![k] = closing(k)]
      /\ \/ UNCHANGED requests
         \/ conns[k].state # "closed" /\ requests' = requests \cup {request(c)}
      /\ UNCHANGED <<nextID, replies, applied>>

WriteFailed(c) ==
  /\ call[c].pc = "teardown"
  /\ conns[call[c].conn].state = "closed"
  /\ attempted(c, "broken", 0)
  /\ UNCHANGED <<tr, nextID, conns, requests, replies, applied>>

\* readLoop sees that the connection is gone, with the replies on it.
Break(k) ==
  /\ k <= Len(conns)
  /\ conns[k].reading
  /\ giveUp(k)
  /\ conns' = [conns EXCEPT ![k] = [closing(k) EXCEPT !.reading = FALSE]]
  /\ replies' = {r \in replies : r.conn # k}
  /\ UNCHANGED <<call, ch, nextID, cache, requests, applied>>

\* The attempt with this id at node a is the one that caller c is making.
current(c, a, id) == call[c].addr = a /\ call[c].id = id

\* teardown, second part: the connection is closed and every pending call fails.
Teardown(k) ==
  LET x == conns[k]
      failed == {c \in Callers : \E i \in DOMAIN x.fails :
                                  x.fails[i] = c /\ current(c, x.node, i)}
  IN  /\ k <= Len(conns)
      /\ x.state = "closing"
      /\ conns' = [conns EXCEPT ![k] = [@ EXCEPT !.state = "closed", !.reading = FALSE,
                                                 !.fails = NoPending]]
      /\ replies' = {r \in replies : r.conn # k}
      /\ ch' = [c \in Callers |-> IF c \in failed /\ ch[c] = NoResult
                                    THEN result("broken", 0) ELSE ch[c]]
      /\ UNCHANGED <<call, tr, nextID, cache, requests, applied>>

-----------------------------------------------------------------------------
(* The cluster, and the replies. *)

\* A node answers r; leader is the node a redirect names (0: it knows none).  On
\* a connection that is gone the reply is lost.
answered(r, kind, leader) ==
  /\ requests' = requests \ {r}
  /\ replies' = replies \cup
       {x \in {[conn |-> r.conn, id |-> r.id, kind |-> kind, leader |-> leader]} :
          conns[r.conn].reading}
  /\ UNCHANGED <<call, ch, tr, nextID, conns, cache>>

\* A follower redirects, a leader without a quorum and the service refuse, before
\* anything is changed; an internal error may come before the write, too.
Reject(c) ==
  /\ \E r \in requests :
       /\ r.caller = c
       /\ \/ \E leader \in 0 .. N : answered(r, "redirect", leader)
          \/ \E kind \in {"unavailable", "refused", "internal"} : answered(r, kind, 0)
  /\ UNCHANGED applied

\* The operation runs, or a replay-safe one that ran before is answered again; a
\* commit timeout reports an internal error.
Apply(c) ==
  /\ \E r \in requests :
       /\ r.caller = c
       /\ \E kind \in {"ok", "internal"} : answered(r, kind, 0)
  /\ applied' = [applied EXCEPT ![c] = IF c \in Safe /\ @ > 0 THEN @ ELSE @ + 1]

\* A request on a broken connection may never arrive.
LoseRequest(c) ==
  /\ \E r \in requests : /\ r.caller = c
                         /\ conns[r.conn].state # "open"
                         /\ requests' = requests \ {r}
  /\ UNCHANGED <<call, ch, tr, nextID, conns, cache, replies, applied>>

\* readLoop delivers a reply to the pending call with its id, if there is one.
Deliver(k) ==
  /\ k <= Len(conns)
  /\ conns[k].reading
  /\ \E r \in replies :
       LET a == conns[k].node
           to == {c \in Callers : /\ r.id \in DOMAIN tr[a].pending
                                  /\ tr[a].pending[r.id] = c
                                  /\ current(c, a, r.id)}
       IN  /\ r.conn = k
           /\ replies' = replies \ {r}
           /\ tr' = [tr EXCEPT ![a].pending = [i \in DOMAIN @ \ {r.id} |-> @[i]]]
           /\ ch' = [c \in Callers |-> IF c \in to THEN result(r.kind, r.leader) ELSE ch[c]]
  /\ UNCHANGED <<call, nextID, conns, cache, requests, applied>>

\* The caller takes its result.
Return(c) ==
  /\ call[c].pc = "wait"
  /\ ch[c] # NoResult
  /\ attempted(c, ch[c].kind, IF ch[c].kind = "ok" THEN call[c].addr ELSE ch[c].leader)
  /\ UNCHANGED <<tr, nextID, conns, requests, replies, applied>>

\* The context ends while the caller waits.
Expire(c) ==
  LET a == call[c].addr
  IN  /\ Deadlines
      /\ call[c].pc = "wait"
      /\ attempted(c, "ctx", 0)
      /\ tr' = [tr EXCEPT ![a].pending = [i \in DOMAIN @ \ {call[c].id} |-> @[i]]]
      /\ UNCHANGED <<nextID, conns, requests, replies, applied>>

Next ==
  \/ \E c \in Callers : Target(c)
  \/ \E c \in Callers : GiveUp(c)
  \/ \E c \in Callers : EnsureConn(c)
  \/ \E c \in Callers : DialFails(c)
  \/ \E c \in Callers : Register(c)
  \/ \E c \in Callers : Write(c)
  \/ \E c \in Callers : WriteFails(c)
  \/ \E c \in Callers : WriteFailed(c)
  \/ \E k \in 1 .. MaxConns : Break(k)
  \/ \E k \in 1 .. MaxConns : Teardown(k)
  \/ \E c \in Callers : Reject(c)
  \/ \E c \in Callers : Apply(c)
  \/ \E c \in Callers : LoseRequest(c)
  \/ \E k \in 1 .. MaxConns : Deliver(k)
  \/ \E c \in Callers : Return(c)
  \/ \E c \in Callers : Expire(c)

Spec == Init /\ [][Next]_vars

-----------------------------------------------------------------------------
\* Call never replays a legacy mutation after an uncertain outcome: whatever is
\* lost, late or redirected, it takes effect at most once.
LegacyAtMostOnce == \A c \in Callers \ Safe : applied[c] <= 1

\* A call that returns a result got the reply to its own request: its operation
\* took effect (callOnce and readLoop match replies by id).
ResultIsOwn == \A c \in Callers : call[c].pc = "done" /\ call[c].err = "ok" => applied[c] > 0

\* A legacy mutation that is reported as not applied has not run and never will.
LegacyNotAppliedIsTrue ==
  \A c \in Callers \ Safe : call[c].pc = "done" /\ NotApplied(call[c].err) => applied[c] = 0

\* docs/resilience.md: errors.Is(err, ErrNotApplied) means that the server did not
\* apply the call.
NotAppliedIsTrue ==
  \A c \in Callers : call[c].pc = "done" /\ NotApplied(call[c].err) => applied[c] = 0

\* teardown fails all pending calls: none goes on waiting for a reply on a
\* connection that is closed.
NoneWaitsOnClosed ==
  \A c \in Callers :
    call[c].pc = "wait" /\ ch[c] = NoResult => conns[call[c].conn].state # "closed"
=============================================================================
