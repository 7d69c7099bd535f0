---------------------------- MODULE ClientProofs ----------------------------
(***************************************************************************)
(* Proofs about the Go client, for any number of callers, nodes, attempts  *)
(* and connections: a result is the caller's own, a legacy operation takes *)
(* effect at most once, and one that is reported as not applied never runs.*)
(*                                                                         *)
(* They rest on the ids of attempts: no two attempts at one node share an  *)
(* id, so a request and a reply belong to the attempt whose id they carry, *)
(* however late they are, and on which connection the attempt then waits.  *)
(***************************************************************************)
EXTENDS Client, TLAPS

LEMMA SeqProperties ==
  ASSUME NEW T, NEW s \in Seq(T) PROVE Len(s) \in Nat /\ \A k \in 1 .. Len(s) : s[k] \in T
OBVIOUS

-----------------------------------------------------------------------------
(* Types. *)

Pcs == {"target", "connect", "register", "write", "wait", "teardown", "done"}
Kinds == {"ok", "internal", "redirect", "unavailable", "refused"}
Errors == Kinds \cup {"none", "dial", "lost", "broken", "ctx"}

\* Pending calls by the ids of their attempts, which are not 0.
Pendings == UNION {[D -> Callers] : D \in SUBSET (Nat \ {0})}

Calls == [pc : Pcs, tries : Nat, addr : 0 .. N, conn : Nat, id : Nat, err : Errors]
Results == [kind : Errors, leader : 0 .. N]
Transports == [conn : Nat, pending : Pendings]
Connections ==
  [node : Nodes, state : {"open", "closing", "closed"}, reading : BOOLEAN, fails : Pendings]
Caches == [leader : 0 .. N, seedIdx : 0 .. N - 1]
Sent == [caller : Callers, node : Nodes, conn : Nat, id : Nat]
Replied == [conn : Nat, id : Nat, kind : Kinds, leader : 0 .. N]

TypeOK ==
  /\ call \in [Callers -> Calls]
  /\ ch \in [Callers -> Results]
  /\ tr \in [Nodes -> Transports]
  /\ nextID \in [Nodes -> Nat]
  /\ conns \in Seq(Connections)
  /\ cache \in Caches
  /\ requests \in SUBSET Sent
  /\ replies \in SUBSET Replied
  /\ applied \in [Callers -> Nat]

-----------------------------------------------------------------------------
(* The invariant. *)

\* The requests of a caller that some node may still run.
reqs(c) == {r \in requests : r.caller = c}

\* Nothing of the call has run, and nothing will.
Untouched(c) == reqs(c) = {} /\ applied[c] = 0

\* The reply answers the attempt that c is making.
answers(p, c) == current(c, conns[p.conn].node, p.id)

\* The numbers a call carries are those of a connection and an attempt at its node.
CallerInv(c) ==
  /\ call[c].pc \notin {"target", "done"} => call[c].addr \in Nodes
  /\ call[c].pc \in {"register", "write", "wait", "teardown"} =>
       call[c].conn \in 1 .. Len(conns) /\ conns[call[c].conn].node = call[c].addr
  /\ call[c].pc \in {"write", "wait", "teardown"} => call[c].id \in 1 .. nextID[call[c].addr]
  /\ call[c].pc \notin {"write", "wait", "teardown"} => call[c].id = 0 /\ ch[c].kind = "none"
  /\ call[c].pc = "write" => ch[c].kind \in {"none", "broken"}
  /\ call[c].pc = "target" => call[c].err # "ok"

\* What a caller is told took effect.
OutcomeInv(c) ==
  /\ ch[c].kind = "ok" => applied[c] > 0
  /\ call[c].pc = "done" /\ call[c].err = "ok" => applied[c] > 0

\* A legacy call has one request, which runs once; a refusal means it never does.
LegacyInv(c) ==
  /\ \A r, q \in reqs(c) : r = q
  /\ reqs(c) # {} => applied[c] = 0
  /\ applied[c] <= 1
  /\ call[c].pc \in {"target", "connect", "register", "write"} => Untouched(c)
  /\ ch[c].kind \in Refusals => Untouched(c)
  /\ call[c].pc = "done" /\ call[c].err \in Refusals => Untouched(c)
  /\ \A p \in replies :
       answers(p, c) => /\ reqs(c) = {}
                        /\ p.kind \in Refusals => applied[c] = 0

\* A request is of an attempt that was written: nobody else makes one with its id.
RequestInv(r) ==
  /\ r.conn \in 1 .. Len(conns) /\ conns[r.conn].node = r.node
  /\ r.id \in 1 .. nextID[r.node]
  /\ \A c \in Callers :
       current(c, r.node, r.id) => c = r.caller /\ call[c].pc # "write"

ReplyInv(p) ==
  /\ p.conn \in 1 .. Len(conns)
  /\ p.id \in 1 .. nextID[conns[p.conn].node]
  /\ \A c \in Callers :
       answers(p, c) => call[c].pc # "write" /\ (p.kind = "ok" => applied[c] > 0)

\* The current connection of a transport is one to its node.
NodeInv(a) ==
  tr[a].conn # 0 => tr[a].conn \in 1 .. Len(conns) /\ conns[tr[a].conn].node = a

\* No two attempts share an id.
IdsInv ==
  \A c, d \in Callers : call[c].id # 0 /\ current(d, call[c].addr, call[c].id) => c = d

IInv ==
  /\ TypeOK
  /\ \A a \in Nodes : NodeInv(a)
  /\ \A c \in Callers : CallerInv(c) /\ OutcomeInv(c)
  /\ \A c \in Callers \ Safe : LegacyInv(c)
  /\ IdsInv
  /\ \A r \in requests : RequestInv(r)
  /\ \A p \in replies : ReplyInv(p)

-----------------------------------------------------------------------------
(* Types and helpers. *)

\* Nodes are numbered from 1; 0 stands for none.
LEMMA NodeNumbers == Nodes \subseteq 0 .. N /\ Nodes \subseteq Nat /\ 0 \notin Nodes
  BY SeedAssumption DEF Nodes

\* A pending call is one of a caller, under an id that is not 0; calls come and go.
LEMMA PendingType ==
  /\ NoPending \in Pendings
  /\ \A f \in Pendings : 0 \notin DOMAIN f
  /\ \A f \in Pendings, id \in Nat \ {0}, c \in Callers :
       [i \in DOMAIN f \cup {id} |-> IF i = id THEN c ELSE f[i]] \in Pendings
  /\ \A f \in Pendings : \A id : [i \in DOMAIN f \ {id} |-> f[i]] \in Pendings
<1>1. NoPending \in [{} -> Callers]
  BY Zenon DEF NoPending
<1>2. \A f \in Pendings : \E D \in SUBSET (Nat \ {0}) : f \in [D -> Callers]
  BY Zenon DEF Pendings
<1>3. \A D \in SUBSET (Nat \ {0}) : \A f \in [D -> Callers] : f \in Pendings
  BY Zenon DEF Pendings
<1>4. \A f \in Pendings, id \in Nat \ {0}, c \in Callers :
       [i \in DOMAIN f \cup {id} |-> IF i = id THEN c ELSE f[i]] \in Pendings
  <2> SUFFICES ASSUME NEW f \in Pendings, NEW id \in Nat \ {0}, NEW c \in Callers
               PROVE  [i \in DOMAIN f \cup {id} |-> IF i = id THEN c ELSE f[i]] \in Pendings
    BY Zenon
  <2>1. PICK D \in SUBSET (Nat \ {0}) : f \in [D -> Callers]
    BY <1>2, Zenon
  <2>2. [i \in DOMAIN f \cup {id} |-> IF i = id THEN c ELSE f[i]] \in [D \cup {id} -> Callers]
    BY <2>1, Zenon
  <2>3. D \cup {id} \in SUBSET (Nat \ {0})
    BY Zenon
  <2> QED BY <1>3, <2>2, <2>3, Zenon
<1>5. \A f \in Pendings : \A id : [i \in DOMAIN f \ {id} |-> f[i]] \in Pendings
  <2> SUFFICES ASSUME NEW f \in Pendings, NEW id
               PROVE  [i \in DOMAIN f \ {id} |-> f[i]] \in Pendings
    BY Zenon
  <2>1. PICK D \in SUBSET (Nat \ {0}) : f \in [D -> Callers]
    BY <1>2, Zenon
  <2>2. [i \in DOMAIN f \ {id} |-> f[i]] \in [D \ {id} -> Callers]
    BY <2>1, Zenon
  <2>3. D \ {id} \in SUBSET (Nat \ {0})
    BY Zenon
  <2> QED BY <1>3, <2>2, <2>3, Zenon
<1>6. \A f \in Pendings : 0 \notin DOMAIN f
  BY <1>2, Zenon
<1> QED BY <1>1, <1>3, <1>4, <1>5, <1>6, Zenon

\* What is sent on a channel.
LEMMA ResultType ==
  \A kind \in Errors, leader \in 0 .. N :
    result(kind, leader) \in Results /\ result(kind, leader).kind = kind
  BY Zenon DEF result, Results

\* The fields of calls, results, transports, requests and replies.
LEMMA Typed ==
  ASSUME TypeOK
  PROVE  /\ \A c \in Callers :
              /\ call[c] \in Calls /\ call[c].pc \in Pcs /\ call[c].addr \in 0 .. N
              /\ call[c].conn \in Nat /\ call[c].id \in Nat /\ call[c].err \in Errors
              /\ ch[c] \in Results /\ ch[c].kind \in Errors /\ ch[c].leader \in 0 .. N
              /\ applied[c] \in Nat
         /\ \A a \in Nodes : /\ tr[a] \in Transports /\ tr[a].conn \in Nat
                             /\ tr[a].pending \in Pendings /\ nextID[a] \in Nat
         /\ Len(conns) \in Nat
         /\ \A k \in 1 .. Len(conns) :
              conns[k] \in Connections /\ conns[k].node \in Nodes /\ conns[k].fails \in Pendings
         /\ \A r \in requests : r.caller \in Callers /\ r.node \in Nodes /\ r.conn \in Nat /\ r.id \in Nat
         /\ \A p \in replies : p.conn \in Nat /\ p.id \in Nat /\ p.kind \in Kinds /\ p.leader \in 0 .. N
<1>1. \A c \in Callers :
        /\ call[c] \in Calls /\ call[c].pc \in Pcs /\ call[c].addr \in 0 .. N
        /\ call[c].conn \in Nat /\ call[c].id \in Nat /\ call[c].err \in Errors
  BY Zenon DEF TypeOK, Calls
<1>2. \A c \in Callers :
        /\ ch[c] \in Results /\ ch[c].kind \in Errors /\ ch[c].leader \in 0 .. N
        /\ applied[c] \in Nat
  BY Zenon DEF TypeOK, Results
<1>3. \A a \in Nodes : /\ tr[a] \in Transports /\ tr[a].conn \in Nat
                       /\ tr[a].pending \in Pendings /\ nextID[a] \in Nat
  BY Zenon DEF TypeOK, Transports
<1>4. Len(conns) \in Nat /\ \A k \in 1 .. Len(conns) : conns[k] \in Connections
  BY SeqProperties, Zenon DEF TypeOK
<1>5. \A x \in Connections : x.node \in Nodes /\ x.fails \in Pendings
  BY Zenon DEF Connections
<1>6. \A r \in requests : r.caller \in Callers /\ r.node \in Nodes /\ r.conn \in Nat /\ r.id \in Nat
  BY Zenon DEF TypeOK, Sent
<1>7. \A p \in replies : p.conn \in Nat /\ p.id \in Nat /\ p.kind \in Kinds /\ p.leader \in 0 .. N
  BY Zenon DEF TypeOK, Replied
<1> QED BY <1>1, <1>2, <1>3, <1>4, <1>5, <1>6, <1>7, Zenon

\* After an attempt the call returns or tries again, and holds nothing of the attempt.
LEMMA AttemptedType ==
  ASSUME TypeOK, NEW c \in Callers, NEW err \in Errors, NEW new \in 0 .. N,
         attempted(c, err, new)
  PROVE  /\ call' \in [Callers -> Calls]
         /\ ch' \in [Callers -> Results]
         /\ cache' \in Caches
         /\ call'[c].pc \in {"target", "done"}
         /\ call'[c].pc = "target" => err # "ok" /\ (err = "redirect" \/ retryable(c, err))
         /\ call'[c].err = err /\ call'[c].id = 0
         /\ ch'[c].kind = "none"
         /\ \A d \in Callers \ {c} : call'[d] = call[d] /\ ch'[d] = ch[d]
<1> DEFINE again == /\ err # "ok"
                    /\ err = "redirect" \/ retryable(c, err)
                    /\ call[c].tries < MaxAttempts
           pc == IF again THEN "target" ELSE "done"
<1>1. call' = [call EXCEPT ![c] = [call[c] EXCEPT !.pc = pc, !.err = err, !.addr = 0,
                                                  !.conn = 0, !.id = 0]]
  BY Zenon DEF attempted, TypeOK
<1>2. ch' = [ch EXCEPT ![c] = NoResult]
  BY Zenon DEF attempted
<1>3. cache' = [cache EXCEPT !.leader = IF err = "ok" \/ err = "redirect" \/ retryable(c, err)
                                          THEN new ELSE @]
  BY Zenon DEF attempted
<1>4. pc \in {"target", "done"} /\ (pc = "target" => again)
  BY Zenon
<1>5. 0 \in 0 .. N /\ NoResult \in Results /\ NoResult.kind = "none"
  BY SeedAssumption DEF NoResult, result, Results, Errors
<1> HIDE DEF pc
<1>6. cache' \in Caches
  BY <1>3, Zenon DEF TypeOK, Caches
<1>7. ch' \in [Callers -> Results] /\ ch'[c].kind = "none"
        /\ \A d \in Callers \ {c} : ch'[d] = ch[d]
  BY <1>2, <1>5, Zenon DEF TypeOK
<1> DEFINE y == [call[c] EXCEPT !.pc = pc, !.err = err, !.addr = 0, !.conn = 0, !.id = 0]
<1>8. y \in Calls /\ y.pc = pc /\ y.err = err /\ y.id = 0
  BY <1>4, <1>5, Typed, ZenonT(60) DEF Calls, Pcs
<1> HIDE DEF y
<1>9. call' \in [Callers -> Calls] /\ call'[c] = y /\ \A d \in Callers \ {c} : call'[d] = call[d]
  BY <1>1, <1>8, Zenon DEF TypeOK, y
<1> QED BY <1>4, <1>6, <1>7, <1>8, <1>9, Zenon

-----------------------------------------------------------------------------
(* What a step leaves as it was. *)

\* Connections keep their nodes, counters only grow, and no caller takes an id that
\* was given out before.
Grows ==
  /\ Len(conns') >= Len(conns)
  /\ \A k \in 1 .. Len(conns) : conns'[k].node = conns[k].node
  /\ \A a \in Nodes : nextID'[a] >= nextID[a]
  /\ \A c \in Callers : applied'[c] >= applied[c]
  /\ \A c \in Callers, a \in Nodes : \A id \in 1 .. nextID[a] :
       current(c, a, id)' =>
         current(c, a, id) /\ (call'[c].pc = "write" => call[c].pc = "write")

\* Requests and replies on their way keep belonging to the same attempt.
LEMMA MessagesKept ==
  ASSUME IInv, TypeOK', Grows
  PROVE  (\A r \in requests : RequestInv(r)') /\ (\A p \in replies : ReplyInv(p)')
<1>1. TypeOK /\ Len(conns) \in Nat /\ Len(conns') \in Nat
        /\ \A a \in Nodes : nextID[a] \in Nat /\ nextID'[a] \in Nat
  BY Typed, SeqProperties, Zenon DEF IInv, TypeOK
<1>2. \A k \in 1 .. Len(conns) : k \in 1 .. Len(conns') /\ conns'[k].node = conns[k].node
  BY <1>1 DEF Grows
<1>3. \A a \in Nodes : \A id \in 1 .. nextID[a] : id \in 1 .. nextID'[a]
  BY <1>1 DEF Grows
<1>4. \A c \in Callers, a \in Nodes : \A id \in 1 .. nextID[a] :
        current(c, a, id)' =>
          current(c, a, id) /\ (call'[c].pc = "write" => call[c].pc = "write")
  BY Zenon DEF Grows
<1>5. ASSUME NEW r \in requests PROVE RequestInv(r)'
  <2>1. RequestInv(r) /\ r.node \in Nodes
    BY <1>1, Typed, Zenon DEF IInv
  <2> QED BY <1>2, <1>3, <1>4, <2>1, Zenon DEF RequestInv
<1>6. ASSUME NEW p \in replies PROVE ReplyInv(p)'
  <2>1. ReplyInv(p)
    BY Zenon DEF IInv
  <2>2. p.conn \in 1 .. Len(conns) /\ conns[p.conn].node \in Nodes
          /\ p.id \in 1 .. nextID[conns[p.conn].node]
    BY <1>1, <2>1, Typed, Zenon DEF ReplyInv
  <2>3. p.conn \in 1 .. Len(conns') /\ conns'[p.conn].node = conns[p.conn].node
          /\ p.id \in 1 .. nextID'[conns'[p.conn].node]
    BY <1>2, <1>3, <2>2, Zenon
  <2>4. ASSUME NEW c \in Callers, answers(p, c)'
        PROVE  call'[c].pc # "write" /\ (p.kind = "ok" => applied'[c] > 0)
    <3>1. answers(p, c) /\ (call'[c].pc = "write" => call[c].pc = "write")
      BY <1>4, <2>2, <2>3, <2>4, Zenon DEF answers
    <3>2. call[c].pc # "write" /\ (p.kind = "ok" => applied[c] > 0)
      BY <2>1, <3>1, Zenon DEF ReplyInv
    <3>3. applied'[c] >= applied[c]
      BY Zenon DEF Grows
    <3>4. applied[c] \in Nat /\ applied'[c] \in Nat
      BY <1>1, Zenon DEF TypeOK
    <3> QED BY <3>1, <3>2, <3>3, <3>4
  <2> QED BY <2>3, <2>4, Zenon DEF ReplyInv
<1> QED BY <1>5, <1>6, Zenon

\* A caller that does not move keeps its numbers and its outcome.
LEMMA CallerKept ==
  ASSUME IInv, TypeOK', Grows, NEW c \in Callers, call'[c] = call[c], ch'[c] = ch[c]
  PROVE  CallerInv(c)' /\ OutcomeInv(c)'
<1>1. TypeOK /\ CallerInv(c) /\ OutcomeInv(c)
  BY Zenon DEF IInv
<1>2. Len(conns) \in Nat /\ Len(conns') \in Nat /\ applied[c] \in Nat /\ applied'[c] \in Nat
        /\ \A a \in Nodes : nextID[a] \in Nat /\ nextID'[a] \in Nat
  BY <1>1, SeqProperties, Zenon DEF TypeOK
<1>3. \A k \in 1 .. Len(conns) : k \in 1 .. Len(conns') /\ conns'[k].node = conns[k].node
  BY <1>2 DEF Grows
<1>4. \A a \in Nodes : \A id \in 1 .. nextID[a] : id \in 1 .. nextID'[a]
  BY <1>2 DEF Grows
<1>5. applied[c] > 0 => applied'[c] > 0
  BY <1>2 DEF Grows
<1>6. CallerInv(c)'
  BY <1>1, <1>3, <1>4, Zenon DEF CallerInv
<1> QED BY <1>1, <1>5, <1>6, Zenon DEF OutcomeInv

\* So does a legacy caller, when nothing new is sent or answered for it.
LEMMA LegacyKept ==
  ASSUME IInv, TypeOK', Grows, NEW c \in Callers \ Safe, call'[c] = call[c], ch'[c] = ch[c],
         applied'[c] = applied[c], reqs(c)' \subseteq reqs(c),
         \A p \in replies' : answers(p, c)' => p \in replies
  PROVE  LegacyInv(c)'
<1>1. LegacyInv(c) /\ TypeOK
  BY Zenon DEF IInv
<1>2. \A p \in replies : answers(p, c)' => answers(p, c)
  <2> SUFFICES ASSUME NEW p \in replies, answers(p, c)' PROVE answers(p, c)
    BY Zenon
  <2>1. ReplyInv(p)
    BY Zenon DEF IInv
  <2>2. conns'[p.conn].node = conns[p.conn].node
    BY <2>1, Zenon DEF ReplyInv, Grows
  <2> QED BY <2>2, Zenon DEF answers, current
<1>3. Untouched(c) => Untouched(c)'
  BY Zenon DEF Untouched
<1>4. reqs(c) = {} => reqs(c)' = {}
  BY Zenon
<1>5. \A p \in replies' : answers(p, c)' => /\ reqs(c)' = {}
                                            /\ p.kind \in Refusals => applied[c] = 0
  BY <1>1, <1>2, <1>4, Zenon DEF LegacyInv
<1>6. /\ \A r, q \in reqs(c)' : r = q
      /\ reqs(c)' # {} => applied[c] = 0
  BY <1>1, Zenon DEF LegacyInv
<1> QED BY <1>1, <1>3, <1>5, <1>6, Zenon DEF LegacyInv

\* A transport keeps its connection, or gives it up.
LEMMA NodeKept ==
  ASSUME IInv, TypeOK', Grows, NEW a \in Nodes, tr'[a].conn \in {0, tr[a].conn}
  PROVE  NodeInv(a)'
<1>1. NodeInv(a) /\ Len(conns) \in Nat /\ Len(conns') \in Nat
  BY SeqProperties, Zenon DEF IInv, TypeOK
<1>2. \A k \in 1 .. Len(conns) : k \in 1 .. Len(conns') /\ conns'[k].node = conns[k].node
  BY <1>1 DEF Grows
<1> QED BY <1>1, <1>2, Zenon DEF NodeInv

\* No ids are shared when callers only drop theirs.
LEMMA IdsKept ==
  ASSUME IInv, TypeOK',
         \A c \in Callers : \/ call'[c].id = 0
                            \/ call'[c].id = call[c].id /\ call'[c].addr = call[c].addr
  PROVE  IdsInv'
  BY DEF IInv, IdsInv, current

\* One caller c moves; what is sent and answered is its own.
LEMMA StepInv ==
  ASSUME IInv, TypeOK', Grows, NEW c \in Callers,
         \A d \in Callers \ {c} :
           /\ call'[d] = call[d] /\ ch'[d] = ch[d] /\ applied'[d] = applied[d]
           /\ reqs(d)' \subseteq reqs(d),
         \A r \in requests' : r \in requests \/ RequestInv(r)',
         \A p \in replies' :
           p \in replies \/ (ReplyInv(p)' /\ \A d \in Callers \ {c} : ~answers(p, d)'),
         CallerInv(c)', OutcomeInv(c)', c \notin Safe => LegacyInv(c)', IdsInv',
         \A a \in Nodes : NodeInv(a)'
  PROVE  IInv'
<1>1. \A r \in requests' : RequestInv(r)'
  BY MessagesKept, Zenon
<1>2. \A p \in replies' : ReplyInv(p)'
  BY MessagesKept, Zenon
<1>3. \A d \in Callers : CallerInv(d)' /\ OutcomeInv(d)'
  BY CallerKept, Zenon
<1>4. ASSUME NEW d \in Callers \ Safe PROVE LegacyInv(d)'
  <2>1. CASE d = c
    BY <2>1, Zenon
  <2>2. CASE d # c
    <3>1. \A p \in replies' : answers(p, d)' => p \in replies
      BY <2>2, Zenon
    <3> QED BY <2>2, <3>1, LegacyKept, Zenon
  <2> QED BY <2>1, <2>2, Zenon
<1> QED BY <1>1, <1>2, <1>3, <1>4, Zenon DEF IInv

-----------------------------------------------------------------------------
(* The steps of a caller. *)

\* A step that only lets callers drop their ids keeps what is given out.
LEMMA DropsGrow ==
  ASSUME IInv, TypeOK',
         Len(conns') >= Len(conns),
         \A k \in 1 .. Len(conns) : conns'[k].node = conns[k].node,
         \A a \in Nodes : nextID'[a] >= nextID[a],
         \A d \in Callers : applied'[d] >= applied[d],
         \A d \in Callers : \/ call'[d].id = 0
                            \/ /\ call'[d].id = call[d].id /\ call'[d].addr = call[d].addr
                               /\ call'[d].pc = "write" => call[d].pc = "write"
  PROVE  Grows
<1>1. \A d \in Callers, a \in Nodes : \A id \in 1 .. nextID[a] :
        current(d, a, id)' =>
          current(d, a, id) /\ (call'[d].pc = "write" => call[d].pc = "write")
  BY DEF current
<1> QED BY <1>1, Zenon DEF Grows

\* After an attempt: what the caller is told, and that a legacy call tries again only
\* when nothing of it has run or will.
LEMMA AttemptedInv ==
  ASSUME IInv, TypeOK', NEW c \in Callers, NEW err \in Errors, NEW new \in 0 .. N,
         attempted(c, err, new), UNCHANGED <<applied, replies>>,
         err = "ok" => applied[c] > 0,
         c \notin Safe => /\ \A r, q \in reqs(c)' : r = q
                          /\ reqs(c)' # {} => applied[c] = 0
                          /\ err \in Refusals => Untouched(c)'
  PROVE  /\ CallerInv(c)' /\ OutcomeInv(c)'
         /\ c \notin Safe => LegacyInv(c)'
         /\ IdsInv'
<1>1. /\ call'[c].pc \in {"target", "done"}
      /\ call'[c].pc = "target" => err # "ok" /\ (err = "redirect" \/ retryable(c, err))
      /\ call'[c].err = err /\ call'[c].id = 0
      /\ ch'[c].kind = "none"
      /\ \A d \in Callers \ {c} : call'[d] = call[d] /\ ch'[d] = ch[d]
  BY AttemptedType, Zenon DEF IInv
<1>2. CallerInv(c)' /\ OutcomeInv(c)'
  BY <1>1, Zenon DEF CallerInv, OutcomeInv
<1>3. IdsInv'
  BY <1>1, IdsKept, Zenon
<1>4. ASSUME c \notin Safe PROVE LegacyInv(c)'
  <2>1. call'[c].pc = "target" => err \in Refusals
    BY <1>1, <1>4, Zenon DEF retryable, NotApplied, Refusals
  <2>2. \A p \in replies' : ~answers(p, c)'
    <3>1. \A p \in replies : p.id # 0
      BY DEF IInv, ReplyInv
    <3> QED BY <1>1, <3>1, Zenon DEF answers, current
  <2>3. applied'[c] <= 1
    BY <1>4, Zenon DEF IInv, LegacyInv
  <2>4. "none" \notin Refusals
    BY Zenon DEF Refusals
  <2> QED BY <1>1, <1>4, <2>1, <2>2, <2>3, <2>4, Zenon DEF LegacyInv
<1> QED BY <1>2, <1>3, <1>4, Zenon

\* An attempt that ends without a request or reply of its own changing.
LEMMA AttemptedStep ==
  ASSUME IInv, NEW c \in Callers, NEW err \in Errors, NEW new \in 0 .. N,
         attempted(c, err, new), UNCHANGED <<requests, replies, applied>>,
         nextID' \in [Nodes -> Nat], \A a \in Nodes : nextID'[a] >= nextID[a],
         tr' \in [Nodes -> Transports], \A a \in Nodes : tr'[a].conn \in {0, tr[a].conn},
         conns' = conns,
         err = "ok" => applied[c] > 0,
         c \notin Safe /\ err \in Refusals => Untouched(c)
  PROVE  IInv'
<1>1. TypeOK /\ TypeOK'
  BY AttemptedType, Zenon DEF IInv, TypeOK
<1>2. call'[c].id = 0 /\ \A d \in Callers \ {c} : call'[d] = call[d] /\ ch'[d] = ch[d]
  BY <1>1, AttemptedType, Zenon
<1>3. Grows
  <2>1. Len(conns') >= Len(conns) /\ \A d \in Callers : applied'[d] >= applied[d]
    BY <1>1, Typed
  <2> QED BY <1>1, <1>2, <2>1, DropsGrow, Zenon
<1>4. \A d : reqs(d)' = reqs(d)
  BY Zenon DEF reqs
<1>5. c \notin Safe => /\ \A r, q \in reqs(c)' : r = q
                       /\ reqs(c)' # {} => applied[c] = 0
                       /\ err \in Refusals => Untouched(c)'
  BY <1>4, Zenon DEF IInv, LegacyInv, Untouched
<1>6. CallerInv(c)' /\ OutcomeInv(c)' /\ (c \notin Safe => LegacyInv(c)') /\ IdsInv'
  BY <1>1, <1>5, AttemptedInv, Zenon
<1>7. \A a \in Nodes : NodeInv(a)'
  BY <1>1, <1>3, NodeKept, Zenon
<1> QED BY <1>1, <1>2, <1>3, <1>4, <1>6, <1>7, StepInv, Zenon

\* Steps that give out no id, and steps after which nothing more has taken effect.
LEMMA SameIds ==
  ASSUME IInv
  PROVE  /\ UNCHANGED nextID => nextID' \in [Nodes -> Nat] /\ \A a \in Nodes : nextID'[a] >= nextID[a]
         /\ UNCHANGED applied => \A d \in Callers : applied'[d] >= applied[d]
         /\ UNCHANGED conns => Len(conns') >= Len(conns)
<1>1. /\ nextID \in [Nodes -> Nat] /\ \A a \in Nodes : nextID[a] \in Nat
      /\ \A d \in Callers : applied[d] \in Nat
      /\ Len(conns) \in Nat
  BY Typed, Zenon DEF IInv, TypeOK
<1> QED BY <1>1

\* A call at its target or connecting has nothing of it running.
LEMMA DialFailsStep ==
  ASSUME IInv, NEW c \in Callers, DialFails(c) PROVE IInv'
<1>1. "dial" \in Errors /\ 0 \in 0 .. N
  BY SeedAssumption DEF Errors
<1>2. c \notin Safe => Untouched(c)
  BY Zenon DEF IInv, LegacyInv, DialFails
<1>3. tr' \in [Nodes -> Transports] /\ \A a \in Nodes : tr'[a].conn \in {0, tr[a].conn}
  BY Zenon DEF DialFails, IInv, TypeOK
<1> QED BY <1>1, <1>2, <1>3, SameIds, AttemptedStep, Zenon DEF DialFails

\* The caller takes its own result.
LEMMA ReturnStep ==
  ASSUME IInv, NEW c \in Callers, Return(c) PROVE IInv'
<1> DEFINE err == ch[c].kind
           new == IF ch[c].kind = "ok" THEN call[c].addr ELSE ch[c].leader
<1>1. err \in Errors /\ new \in 0 .. N
  BY Typed, Zenon DEF IInv
<1>2. attempted(c, err, new) /\ UNCHANGED <<tr, nextID, conns, requests, replies, applied>>
  BY Zenon DEF Return
<1>3. (err = "ok" => applied[c] > 0) /\ (c \notin Safe /\ err \in Refusals => Untouched(c))
  BY Zenon DEF IInv, OutcomeInv, LegacyInv
<1>4. tr' \in [Nodes -> Transports] /\ \A a \in Nodes : tr'[a].conn \in {0, tr[a].conn}
  BY <1>2, Zenon DEF IInv, TypeOK
<1> HIDE DEF err, new
<1> QED BY <1>1, <1>2, <1>3, <1>4, SameIds, AttemptedStep, Zenon

\* The connection is closed: the outcome of the attempt is in doubt.
LEMMA WriteFailedStep ==
  ASSUME IInv, NEW c \in Callers, WriteFailed(c) PROVE IInv'
<1>1. "broken" \in Errors /\ 0 \in 0 .. N /\ "broken" \notin Refusals
  BY SeedAssumption DEF Errors, Refusals
<1>2. tr' \in [Nodes -> Transports] /\ \A a \in Nodes : tr'[a].conn \in {0, tr[a].conn}
  BY Zenon DEF WriteFailed, IInv, TypeOK
<1> QED BY <1>1, <1>2, SameIds, AttemptedStep, Zenon DEF WriteFailed

\* The context ends: the outcome of the attempt is in doubt.
LEMMA ExpireStep ==
  ASSUME IInv, NEW c \in Callers, Expire(c) PROVE IInv'
<1> DEFINE a == call[c].addr
           pending == [i \in DOMAIN tr[a].pending \ {call[c].id} |-> tr[a].pending[i]]
<1>1. "ctx" \in Errors /\ 0 \in 0 .. N /\ "ctx" \notin Refusals
  BY SeedAssumption DEF Errors, Refusals, Kinds
<1>2. a \in Nodes
  BY Zenon DEF Expire, IInv, CallerInv
<1>3. tr' = [tr EXCEPT ![a] = [tr[a] EXCEPT !.pending = pending]]
  BY Zenon DEF Expire
<1>4. tr[a] \in Transports /\ pending \in Pendings
  BY <1>2, Typed, PendingType, Zenon DEF IInv
<1> HIDE DEF pending, a
<1>5. [tr[a] EXCEPT !.pending = pending] \in Transports
        /\ [tr[a] EXCEPT !.pending = pending].conn = tr[a].conn
  BY <1>4, Zenon DEF Transports
<1>6. tr' \in [Nodes -> Transports] /\ \A b \in Nodes : tr'[b].conn \in {0, tr[b].conn}
  BY <1>2, <1>3, <1>5, Zenon DEF IInv, TypeOK
<1> QED BY <1>1, <1>6, SameIds, AttemptedStep, Zenon DEF Expire

\* A caller moves before it has an id: nothing of it is on its way.
LEMMA EarlyMove ==
  ASSUME IInv, TypeOK', Grows, NEW c \in Callers,
         call[c].pc \in {"target", "connect"},
         call'[c].pc \in {"connect", "register", "done"}, call'[c].id = 0,
         call'[c].pc = "done" => call'[c].err # "ok",
         \A d \in Callers \ {c} : call'[d] = call[d],
         UNCHANGED <<ch, applied, requests, replies>>,
         CallerInv(c)', \A a \in Nodes : NodeInv(a)'
  PROVE  IInv'
<1>1. ch[c].kind = "none"
  BY Zenon DEF IInv, CallerInv
<1>2. OutcomeInv(c)'
  BY <1>1, Zenon DEF OutcomeInv
<1>3. IdsInv'
  BY IdsKept, Zenon
<1>4. ASSUME c \notin Safe PROVE LegacyInv(c)'
  <2>1. reqs(c) = {} /\ applied[c] = 0 /\ applied[c] <= 1
    BY <1>4, Zenon DEF IInv, LegacyInv, Untouched
  <2>2. reqs(c)' = {} /\ applied'[c] = 0 /\ applied'[c] <= 1
    BY <2>1, Zenon DEF reqs
  <2>3. \A p \in replies' : ~answers(p, c)'
    <3>1. \A p \in replies : p.id # 0
      BY DEF IInv, ReplyInv
    <3> QED BY <3>1, Zenon DEF answers, current
  <2> QED BY <2>2, <2>3, Zenon DEF LegacyInv, Untouched
<1>5. \A d : reqs(d)' = reqs(d)
  BY Zenon DEF reqs
<1> QED BY <1>2, <1>3, <1>4, <1>5, StepInv, Zenon

\* The call is set to y.
LEMMA SetCall ==
  ASSUME TypeOK, NEW c \in Callers, NEW y \in Calls, call' = [call EXCEPT ![c] = y]
  PROVE  /\ call' \in [Callers -> Calls] /\ call'[c] = y
         /\ \A d \in Callers \ {c} : call'[d] = call[d]
  BY Zenon DEF TypeOK

\* target picks a node: the leader it remembers or the next seed.
LEMMA TargetStep ==
  ASSUME IInv, NEW c \in Callers, Target(c) PROVE IInv'
<1> DEFINE addr == IF cache.leader # 0 THEN cache.leader ELSE cache.seedIdx + 1
           idx == IF cache.leader # 0 THEN cache.seedIdx ELSE (cache.seedIdx + 1) % N
           y == [call[c] EXCEPT !.pc = "connect", !.tries = @ + 1, !.addr = addr]
<1>1. /\ call[c].pc = "target"
      /\ call' = [call EXCEPT ![c] = y]
      /\ cache' = [cache EXCEPT !.seedIdx = idx]
      /\ UNCHANGED <<ch, tr, nextID, conns, requests, replies, applied>>
  BY Zenon DEF Target, IInv, TypeOK
<1>2. cache.leader \in 0 .. N /\ cache.seedIdx \in 0 .. N - 1 /\ N \in Nat \ {0}
  BY SeedAssumption, Zenon DEF IInv, TypeOK, Caches
<1>3. addr \in Nodes /\ addr \in 0 .. N
  BY <1>2 DEF Nodes
<1>4. idx \in 0 .. N - 1
  BY <1>2
<1> HIDE DEF addr, idx
<1>5. y \in Calls /\ y.pc = "connect" /\ y.id = call[c].id /\ y.addr = addr
  <2>1. PICK n : n = call[c].tries + 1
    BY Zenon
  <2>2. call[c] \in Calls /\ n \in Nat
    BY <2>1, Typed DEF IInv, Calls
  <2>3. y = [call[c] EXCEPT !.pc = "connect", !.tries = n, !.addr = addr]
    BY <2>1, Zenon
  <2> HIDE DEF y
  <2> QED BY <1>3, <2>2, <2>3, ZenonT(60) DEF Calls, Pcs
<1> HIDE DEF y
<1>6. call' \in [Callers -> Calls] /\ call'[c] = y /\ \A d \in Callers \ {c} : call'[d] = call[d]
  BY <1>1, <1>5, SetCall, Zenon DEF IInv
<1>7. cache' \in Caches
  BY <1>1, <1>4, Zenon DEF IInv, TypeOK, Caches
<1>8. TypeOK'
  BY <1>1, <1>6, <1>7, Zenon DEF IInv, TypeOK
<1>9. call[c].id = 0 /\ ch[c].kind = "none"
  BY <1>1, Zenon DEF IInv, CallerInv
<1>10. Grows
  <2>1. Len(conns') >= Len(conns) /\ (\A d \in Callers : applied'[d] >= applied[d])
          /\ \A a \in Nodes : nextID'[a] >= nextID[a]
    BY <1>1, SameIds, Zenon
  <2> QED BY <1>1, <1>5, <1>6, <1>8, <1>9, <2>1, DropsGrow, Zenon
<1>11. CallerInv(c)'
  BY <1>1, <1>3, <1>5, <1>6, <1>9, Zenon DEF CallerInv
<1>12. \A a \in Nodes : NodeInv(a)'
  BY <1>1, <1>8, <1>10, NodeKept, Zenon
<1> QED BY <1>1, <1>5, <1>6, <1>8, <1>9, <1>10, <1>11, <1>12, EarlyMove, Zenon

\* A call that gives up between two attempts was not told of a result.
LEMMA GiveUpStep ==
  ASSUME IInv, NEW c \in Callers, GiveUp(c) PROVE IInv'
<1> DEFINE y == [call[c] EXCEPT !.pc = "done"]
<1>1. /\ call[c].pc = "target"
      /\ call' = [call EXCEPT ![c] = y]
      /\ UNCHANGED <<ch, tr, nextID, conns, cache, requests, replies, applied>>
  BY Zenon DEF GiveUp, IInv, TypeOK
<1>2. y \in Calls /\ y.pc = "done" /\ y.id = call[c].id /\ y.err = call[c].err
  <2>1. call[c] \in Calls
    BY Typed, Zenon DEF IInv
  <2> QED BY <2>1, ZenonT(60) DEF Calls, Pcs
<1> HIDE DEF y
<1>3. call' \in [Callers -> Calls] /\ call'[c] = y /\ \A d \in Callers \ {c} : call'[d] = call[d]
  BY <1>1, <1>2, SetCall, Zenon DEF IInv
<1>4. TypeOK'
  BY <1>1, <1>3, Zenon DEF IInv, TypeOK
<1>5. call[c].id = 0 /\ ch[c].kind = "none" /\ call[c].err # "ok"
  BY <1>1, Zenon DEF IInv, CallerInv
<1>6. Grows
  <2>1. Len(conns') >= Len(conns) /\ (\A d \in Callers : applied'[d] >= applied[d])
          /\ \A a \in Nodes : nextID'[a] >= nextID[a]
    BY <1>1, SameIds, Zenon
  <2> QED BY <1>1, <1>2, <1>3, <1>4, <1>5, <2>1, DropsGrow, Zenon
<1>7. CallerInv(c)'
  BY <1>1, <1>2, <1>3, <1>5, Zenon DEF CallerInv
<1>8. \A a \in Nodes : NodeInv(a)'
  BY <1>1, <1>4, <1>6, NodeKept, Zenon
<1> QED BY <1>1, <1>2, <1>3, <1>4, <1>5, <1>6, <1>7, <1>8, EarlyMove, Zenon

\* ensureConn: the connection a call goes on with is one to its node.
LEMMA EnsureConnStep ==
  ASSUME IInv, NEW c \in Callers, EnsureConn(c) PROVE IInv'
<1>0. PICK a : a = call[c].addr
  BY Zenon
<1> DEFINE dial == tr[a].conn = 0
           k == IF dial THEN Len(conns) + 1 ELSE tr[a].conn
           y == [call[c] EXCEPT !.pc = "register", !.conn = k]
           x == [node |-> a, state |-> "open", reading |-> TRUE, fails |-> NoPending]
<1>1. /\ call[c].pc = "connect"
      /\ call' = [call EXCEPT ![c] = y]
      /\ UNCHANGED <<ch, nextID, cache, requests, replies, applied>>
  BY <1>0, Zenon DEF EnsureConn, IInv, TypeOK
<1>2. /\ dial => /\ tr' = [tr EXCEPT ![a] = [conn |-> k, pending |-> NoPending]]
                 /\ conns' = Append(conns, x)
      /\ ~dial => UNCHANGED <<tr, conns>>
  BY <1>0, Zenon DEF EnsureConn
<1>3. a \in Nodes /\ call[c].id = 0 /\ ch[c].kind = "none"
  BY <1>0, <1>1, Zenon DEF IInv, CallerInv
<1>4. x \in Connections /\ x.node = a
  BY <1>3, PendingType, Zenon DEF Connections
<1>5. Len(conns) \in Nat /\ tr[a].conn \in Nat /\ conns \in Seq(Connections)
  BY <1>3, Typed, Zenon DEF IInv, TypeOK
<1> HIDE DEF x
<1>6. /\ conns' \in Seq(Connections) /\ Len(conns') \in Nat
      /\ Len(conns') >= Len(conns)
      /\ \A i \in 1 .. Len(conns) : conns'[i] = conns[i]
      /\ k \in 1 .. Len(conns') /\ conns'[k].node = a
  <2>1. CASE dial
    <3>1. conns' = Append(conns, x) /\ k = Len(conns) + 1
      BY <1>2, <2>1, Zenon
    <3>2. /\ Append(conns, x) \in Seq(Connections) /\ Len(Append(conns, x)) = Len(conns) + 1
          /\ \A i \in 1 .. Len(conns) : Append(conns, x)[i] = conns[i]
          /\ Append(conns, x)[Len(conns) + 1] = x
      BY <1>4, <1>5
    <3> QED BY <1>4, <1>5, <3>1, <3>2
  <2>2. CASE ~dial
    <3>1. k = tr[a].conn /\ conns' = conns
      BY <1>2, <2>2, Zenon
    <3>2. NodeInv(a)
      BY <1>3, Zenon DEF IInv
    <3> QED BY <1>5, <2>2, <3>1, <3>2 DEF NodeInv
  <2> QED BY <2>1, <2>2, Zenon
<1>7. k \in Nat /\ (~dial => k = tr[a].conn)
  BY <1>5
<1> HIDE DEF k, dial
<1>8. tr' \in [Nodes -> Transports] /\ tr'[a].conn = k /\ \A b \in Nodes \ {a} : tr'[b] = tr[b]
  <2> DEFINE v == [conn |-> k, pending |-> NoPending]
  <2>1. v \in Transports /\ v.conn = k
    BY <1>7, PendingType, Zenon DEF Transports
  <2> HIDE DEF v
  <2>2. dial => tr' = [tr EXCEPT ![a] = v]
    BY <1>2, Zenon DEF v
  <2>3. ~dial => tr' = tr /\ k = tr[a].conn
    BY <1>2, <1>7, Zenon
  <2> QED BY <1>3, <2>1, <2>2, <2>3, Zenon DEF IInv, TypeOK
<1>9. y \in Calls /\ y.pc = "register" /\ y.id = call[c].id /\ y.addr = a /\ y.conn = k
  <2>1. call[c] \in Calls
    BY Typed, Zenon DEF IInv
  <2> QED BY <1>0, <1>7, <2>1, ZenonT(60) DEF Calls, Pcs
<1> HIDE DEF y
<1>10. call' \in [Callers -> Calls] /\ call'[c] = y /\ \A d \in Callers \ {c} : call'[d] = call[d]
  BY <1>1, <1>9, SetCall, Zenon DEF IInv
<1>11. TypeOK'
  BY <1>1, <1>6, <1>8, <1>10, Zenon DEF IInv, TypeOK
<1>12. Grows
  <2>1. (\A d \in Callers : applied'[d] >= applied[d]) /\ \A b \in Nodes : nextID'[b] >= nextID[b]
    BY <1>1, SameIds, Zenon
  <2> QED BY <1>1, <1>3, <1>6, <1>9, <1>10, <1>11, <2>1, DropsGrow, Zenon
<1>13. CallerInv(c)'
  BY <1>1, <1>3, <1>6, <1>9, <1>10, Zenon DEF CallerInv
<1>14. \A b \in Nodes : NodeInv(b)'
  <2>1. NodeInv(a)'
    BY <1>6, <1>8, Zenon DEF NodeInv
  <2>2. \A b \in Nodes \ {a} : NodeInv(b)'
    BY <1>8, <1>11, <1>12, NodeKept, Zenon
  <2> QED BY <2>1, <2>2, Zenon
<1> QED BY <1>1, <1>3, <1>9, <1>10, <1>11, <1>12, <1>13, <1>14, EarlyMove, Zenon

\* The call takes an id that no attempt at the node has had.
LEMMA RegisterStep ==
  ASSUME IInv, NEW c \in Callers, Register(c) PROVE IInv'
<1>0. PICK a, id : a = call[c].addr /\ id = nextID[a] + 1
  BY Zenon
<1>1. /\ call[c].pc = "register"
      /\ nextID' = [nextID EXCEPT ![a] = id]
      /\ UNCHANGED <<conns, requests, replies, applied>>
  BY <1>0, Zenon DEF Register
<1>2. /\ tr[a].conn = 0 => attempted(c, "lost", 0) /\ UNCHANGED tr
      /\ tr[a].conn # 0 =>
           /\ call' = [call EXCEPT ![c].pc = "write", ![c].id = id]
           /\ tr' = [tr EXCEPT ![a].pending =
                       [i \in DOMAIN @ \cup {id} |-> IF i = id THEN c ELSE @[i]]]
           /\ UNCHANGED <<ch, cache>>
  BY <1>0, Zenon DEF Register
<1>3. a \in Nodes /\ nextID[a] \in Nat /\ nextID \in [Nodes -> Nat]
  BY <1>0, <1>1, Typed, Zenon DEF IInv, CallerInv, TypeOK
<1>4. id \in Nat \ {0} /\ id > nextID[a]
  BY <1>0, <1>3
<1>5. nextID' \in [Nodes -> Nat] /\ nextID'[a] = id /\ \A b \in Nodes : nextID'[b] >= nextID[b]
  <2>1. \A b \in Nodes : nextID[b] \in Nat
    BY <1>3, Zenon
  <2> QED BY <1>1, <1>3, <1>4, <2>1
<1>6. c \notin Safe => Untouched(c)
  BY <1>1, Zenon DEF IInv, LegacyInv
<1>7. CASE tr[a].conn = 0
  <2>1. "lost" \in Errors /\ 0 \in 0 .. N
    BY SeedAssumption DEF Errors
  <2>2. tr' \in [Nodes -> Transports] /\ \A b \in Nodes : tr'[b].conn \in {0, tr[b].conn}
    BY <1>2, <1>7, Zenon DEF IInv, TypeOK
  <2> QED BY <1>1, <1>2, <1>5, <1>6, <1>7, <2>1, <2>2, AttemptedStep, Zenon
<1>8. CASE tr[a].conn # 0
  <2> DEFINE y == [call[c] EXCEPT !.pc = "write", !.id = id]
             f == [i \in DOMAIN tr[a].pending \cup {id} |->
                     IF i = id THEN c ELSE tr[a].pending[i]]
  <2>1. /\ call' = [call EXCEPT ![c] = y]
        /\ tr' = [tr EXCEPT ![a] = [tr[a] EXCEPT !.pending = f]]
        /\ UNCHANGED <<ch, cache>>
    BY <1>2, <1>8, Zenon DEF IInv, TypeOK
  <2>2. f \in Pendings /\ tr[a] \in Transports
    <3>1. tr[a] \in Transports /\ tr[a].pending \in Pendings
      BY <1>3, Typed, Zenon DEF IInv
    <3> QED BY <1>4, <3>1, PendingType, Zenon
  <2> HIDE DEF f
  <2>3. tr' \in [Nodes -> Transports] /\ \A b \in Nodes : tr'[b].conn \in {0, tr[b].conn}
    <3>1. [tr[a] EXCEPT !.pending = f] \in Transports
            /\ [tr[a] EXCEPT !.pending = f].conn = tr[a].conn
      BY <2>2, Zenon DEF Transports
    <3> QED BY <1>3, <2>1, <3>1, Zenon DEF IInv, TypeOK
  <2>4. y \in Calls /\ y.pc = "write" /\ y.id = id /\ y.addr = a /\ y.conn = call[c].conn
    <3>1. call[c] \in Calls
      BY Typed, Zenon DEF IInv
    <3> QED BY <1>0, <1>4, <3>1, ZenonT(60) DEF Calls, Pcs
  <2> HIDE DEF y
  <2>5. /\ call' \in [Callers -> Calls] /\ call'[c] = y
        /\ \A d \in Callers \ {c} : call'[d] = call[d]
    BY <2>1, <2>4, SetCall, Zenon DEF IInv
  <2>6. TypeOK'
    BY <1>1, <1>5, <2>1, <2>3, <2>5, Zenon DEF IInv, TypeOK
  <2>7. Grows
    <3>1. Len(conns') >= Len(conns) /\ \A d \in Callers : applied'[d] >= applied[d]
      BY <1>1, SameIds, Zenon
    <3>2. \A d \in Callers, b \in Nodes : \A i \in 1 .. nextID[b] :
            current(d, b, i)' =>
              current(d, b, i) /\ (call'[d].pc = "write" => call[d].pc = "write")
      <4> SUFFICES ASSUME NEW d \in Callers, NEW b \in Nodes, NEW i \in 1 .. nextID[b],
                          current(d, b, i)'
                   PROVE  current(d, b, i) /\ (call'[d].pc = "write" => call[d].pc = "write")
        BY Zenon
      <4>1. CASE d = c
        <5>1. b = a /\ i = id
          BY <2>4, <2>5, <4>1, Zenon DEF current
        <5> QED BY <1>3, <1>4, <5>1
      <4>2. CASE d # c
        BY <2>5, <4>2, Zenon DEF current
      <4> QED BY <4>1, <4>2, Zenon
    <3> QED BY <1>1, <1>5, <3>1, <3>2, Zenon DEF Grows
  <2>8. CallerInv(c)'
    <3>1. CallerInv(c)
      BY Zenon DEF IInv
    <3>2. /\ call[c].conn \in 1 .. Len(conns) /\ conns[call[c].conn].node = a
          /\ ch[c].kind = "none"
      BY <1>0, <1>1, <3>1, Zenon DEF CallerInv
    <3>3. id \in 1 .. nextID'[a]
      BY <1>4, <1>5
    <3> QED BY <1>1, <1>3, <2>1, <2>4, <2>5, <3>2, <3>3, Zenon DEF CallerInv
  <2>9. ch'[c].kind = "none"
    BY <1>1, <2>1, Zenon DEF IInv, CallerInv
  <2>10. OutcomeInv(c)'
    BY <2>4, <2>5, <2>9, Zenon DEF OutcomeInv
  <2>11. IdsInv'
    <3>1. \A d \in Callers : call[d].id \in Nat
      BY Typed, Zenon DEF IInv
    <3>2. \A d \in Callers : call[d].addr = a => call[d].id # id
      <4> SUFFICES ASSUME NEW d \in Callers, call[d].addr = a, call[d].id = id PROVE FALSE
        BY Zenon
      <4>1. call[d].id \in 1 .. nextID[a]
        BY <1>4, Zenon DEF IInv, CallerInv
      <4> QED BY <1>3, <1>4, <4>1
    <3>3. IdsInv
      BY Zenon DEF IInv
    <3> QED BY <2>4, <2>5, <3>2, <3>3 DEF IdsInv, current
  <2>12. ASSUME c \notin Safe PROVE LegacyInv(c)'
    <3>1. reqs(c)' = {} /\ applied'[c] = 0 /\ applied'[c] <= 1
      BY <1>1, <1>6, <2>12 DEF Untouched, reqs
    <3>2. \A p \in replies' : ~answers(p, c)'
      <4> SUFFICES ASSUME NEW p \in replies, answers(p, c)' PROVE FALSE
        BY <1>1, Zenon
      <4>1. p.id \in 1 .. nextID[conns[p.conn].node]
        BY Zenon DEF IInv, ReplyInv
      <4>2. conns[p.conn].node = a /\ p.id = id
        BY <1>1, <2>4, <2>5, Zenon DEF answers, current
      <4> QED BY <1>3, <1>4, <4>1, <4>2
    <3> QED BY <2>4, <2>5, <3>1, <3>2, Zenon DEF LegacyInv, Untouched
  <2>13. \A b \in Nodes : NodeInv(b)'
    BY <2>3, <2>6, <2>7, NodeKept, Zenon
  <2>14. \A d : reqs(d)' = reqs(d)
    BY <1>1, Zenon DEF reqs
  <2> QED BY <1>1, <2>1, <2>5, <2>6, <2>7, <2>8, <2>10, <2>11, <2>12, <2>13, <2>14, StepInv, Zenon
<1> QED BY <1>7, <1>8, Zenon

\* A request that is written is of the attempt that its caller is making.
LEMMA WrittenRequest ==
  ASSUME IInv, TypeOK', Grows, NEW c \in Callers, call[c].pc = "write",
         call'[c].pc # "write", call'[c].id \in {0, call[c].id},
         call'[c].addr = call[c].addr \/ call'[c].id = 0,
         \A d \in Callers \ {c} : call'[d] = call[d],
         NEW q, q = request(c)
  PROVE  q \in Sent /\ q.caller = c /\ RequestInv(q)'
<1>1. q.caller = c /\ q.node = call[c].addr /\ q.conn = call[c].conn /\ q.id = call[c].id
  BY Zenon DEF request
<1>2. /\ call[c].addr \in Nodes /\ call[c].conn \in 1 .. Len(conns)
      /\ conns[call[c].conn].node = call[c].addr /\ call[c].id \in 1 .. nextID[call[c].addr]
  BY Zenon DEF IInv, CallerInv
<1>3. q \in Sent
  <2>1. call[c].conn \in Nat /\ call[c].id \in Nat
    BY Typed, Zenon DEF IInv
  <2> QED BY <1>2, <2>1, Zenon DEF request, Sent
<1>5. Len(conns) \in Nat /\ Len(conns') \in Nat
        /\ \A b \in Nodes : nextID[b] \in Nat /\ nextID'[b] \in Nat
  BY Typed, SeqProperties, Zenon DEF IInv, TypeOK
<1>6. q.conn \in 1 .. Len(conns') /\ conns'[q.conn].node = q.node
  BY <1>1, <1>2, <1>5 DEF Grows
<1>7. q.id \in 1 .. nextID'[q.node]
  BY <1>1, <1>2, <1>5 DEF Grows
<1>8. ASSUME NEW d \in Callers, current(d, q.node, q.id)' PROVE d = c /\ call'[d].pc # "write"
  <2>1. current(d, q.node, q.id)
    BY <1>1, <1>2, <1>8, Zenon DEF Grows
  <2>2. d = c
    BY <1>1, <1>2, <2>1 DEF IInv, IdsInv
  <2> QED BY <2>2, Zenon
<1>9. RequestInv(q)'
  BY <1>1, <1>6, <1>7, <1>8, Zenon DEF RequestInv
<1> QED BY <1>1, <1>3, <1>9, Zenon

\* The connection k is set to y, one to the same node.
LEMMA SetConn ==
  ASSUME IInv, NEW k \in 1 .. Len(conns), NEW y \in Connections, y.node = conns[k].node,
         conns' = [conns EXCEPT ![k] = y]
  PROVE  /\ conns' \in Seq(Connections) /\ Len(conns') = Len(conns) /\ Len(conns') >= Len(conns)
         /\ \A i \in 1 .. Len(conns) : conns'[i].node = conns[i].node
<1>1. conns \in Seq(Connections) /\ Len(conns) \in Nat
  BY Typed, Zenon DEF IInv, TypeOK
<1>2. /\ conns' \in Seq(Connections) /\ Len(conns') = Len(conns)
      /\ \A i \in 1 .. Len(conns) : conns'[i] = IF i = k THEN y ELSE conns[i]
  BY <1>1
<1>3. Len(conns') >= Len(conns)
  BY <1>1, <1>2
<1> QED BY <1>2, <1>3, Zenon

\* teardown gives up the connection of its own node only.
LEMMA GivenUp ==
  ASSUME IInv, NEW k \in 1 .. Len(conns), giveUp(k)
  PROVE  /\ tr' \in [Nodes -> Transports]
         /\ \A b \in Nodes : tr'[b].conn \in {0, tr[b].conn}
         /\ closing(k) \in Connections /\ closing(k).node = conns[k].node
<1> DEFINE a == conns[k].node
           v == [conn |-> 0, pending |-> NoPending]
<1>1. conns[k] \in Connections /\ a \in Nodes /\ tr[a].pending \in Pendings
  BY Typed, Zenon DEF IInv
<1>2. v \in Transports /\ v.conn = 0
  BY PendingType, Zenon DEF Transports
<1> HIDE DEF v
<1>3. tr' = tr \/ tr' = [tr EXCEPT ![a] = v]
  BY Zenon DEF giveUp, v
<1>4. tr' \in [Nodes -> Transports] /\ \A b \in Nodes : tr'[b].conn \in {0, tr[b].conn}
  BY <1>1, <1>2, <1>3, Zenon DEF IInv, TypeOK
<1>5. closing(k) = conns[k]
        \/ closing(k) = [conns[k] EXCEPT !.state = "closing", !.fails = tr[a].pending]
  BY Zenon DEF closing
<1>6. closing(k) \in Connections /\ closing(k).node = conns[k].node
  <2>1. PICK x : x = conns[k]
    BY Zenon
  <2>2. PICK f : f = tr[a].pending
    BY Zenon
  <2>3. [x EXCEPT !.state = "closing", !.fails = f] \in Connections
          /\ [x EXCEPT !.state = "closing", !.fails = f].node = x.node
    BY <1>1, <2>1, <2>2, ZenonT(60) DEF Connections
  <2> QED BY <1>1, <1>5, <2>1, <2>2, <2>3, Zenon
<1> QED BY <1>4, <1>6, Zenon

\* A caller that writes had nothing written or answered before.
LEMMA WritesFirst ==
  ASSUME IInv, TypeOK', Grows, NEW c \in Callers \ Safe, call[c].pc = "write",
         call'[c].pc \in {"wait", "teardown"},
         call'[c].id = call[c].id, call'[c].addr = call[c].addr,
         UNCHANGED <<ch, applied, replies>>,
         NEW q, reqs(c)' \subseteq {q}
  PROVE  LegacyInv(c)'
<1>1. Untouched(c) /\ ch[c].kind \in {"none", "broken"}
  BY Zenon DEF IInv, LegacyInv, CallerInv
<1>2. applied'[c] = 0 /\ applied'[c] <= 1 /\ ch'[c].kind \notin Refusals
  BY <1>1 DEF Untouched, Refusals
<1>3. \A p \in replies' : ~answers(p, c)'
  <2> SUFFICES ASSUME NEW p \in replies, answers(p, c)' PROVE FALSE
    BY Zenon
  <2>1. ReplyInv(p)
    BY Zenon DEF IInv
  <2>2. conns'[p.conn].node = conns[p.conn].node
    BY <2>1, Zenon DEF ReplyInv, Grows
  <2>3. answers(p, c)
    BY <2>2, Zenon DEF answers, current
  <2> QED BY <2>1, <2>3, Zenon DEF ReplyInv
<1> QED BY <1>2, <1>3, Zenon DEF LegacyInv

\* writeFrame succeeds.
LEMMA WriteStep ==
  ASSUME IInv, NEW c \in Callers, Write(c) PROVE IInv'
<1> DEFINE y == [call[c] EXCEPT !.pc = "wait"]
<1>0. PICK q : q = request(c)
  BY Zenon
<1>1. /\ call[c].pc = "write"
      /\ call' = [call EXCEPT ![c] = y]
      /\ requests' = requests \cup {q}
      /\ UNCHANGED <<ch, tr, nextID, conns, cache, replies, applied>>
  BY <1>0, Zenon DEF Write, IInv, TypeOK
<1>2. y \in Calls /\ y.pc = "wait" /\ y.id = call[c].id /\ y.addr = call[c].addr
        /\ y.conn = call[c].conn
  <2>1. call[c] \in Calls
    BY Typed, Zenon DEF IInv
  <2> QED BY <2>1, ZenonT(60) DEF Calls, Pcs
<1> HIDE DEF y
<1>3. call' \in [Callers -> Calls] /\ call'[c] = y /\ \A d \in Callers \ {c} : call'[d] = call[d]
  BY <1>1, <1>2, SetCall, Zenon DEF IInv
<1>4. CallerInv(c) /\ OutcomeInv(c)
  BY Zenon DEF IInv
<1>5. q \in Sent
  <2>1. call[c].conn \in Nat /\ call[c].id \in Nat /\ call[c].addr \in Nodes
    BY <1>1, <1>4, Typed, Zenon DEF IInv, CallerInv
  <2> QED BY <1>0, <2>1, Zenon DEF request, Sent
<1>6. TypeOK'
  BY <1>1, <1>3, <1>5, Zenon DEF IInv, TypeOK
<1>7. Grows
  <2>1. Len(conns') >= Len(conns) /\ (\A d \in Callers : applied'[d] >= applied[d])
          /\ \A a \in Nodes : nextID'[a] >= nextID[a]
    BY <1>1, SameIds, Zenon
  <2> QED BY <1>1, <1>2, <1>3, <1>6, <2>1, DropsGrow, Zenon
<1>8. q.caller = c /\ RequestInv(q)'
  BY <1>0, <1>1, <1>2, <1>3, <1>6, <1>7, WrittenRequest, Zenon
<1>9. CallerInv(c)' /\ OutcomeInv(c)'
  BY <1>1, <1>2, <1>3, <1>4, Zenon DEF CallerInv, OutcomeInv
<1>10. IdsInv'
  BY <1>2, <1>3, <1>6, IdsKept, Zenon
<1>11. ASSUME c \notin Safe PROVE LegacyInv(c)'
  <2>1. reqs(c) = {}
    BY <1>1, <1>11, Zenon DEF IInv, LegacyInv, Untouched
  <2>2. reqs(c)' \subseteq {q}
    BY <1>1, <2>1, Zenon DEF reqs
  <2> QED BY <1>1, <1>2, <1>3, <1>6, <1>7, <1>11, <2>2, WritesFirst, Zenon
<1>12. \A a \in Nodes : NodeInv(a)'
  BY <1>1, <1>6, <1>7, NodeKept, Zenon
<1>13. \A d \in Callers \ {c} : reqs(d)' \subseteq reqs(d)
  BY <1>1, <1>8, Zenon DEF reqs
<1> QED BY <1>1, <1>3, <1>6, <1>7, <1>8, <1>9, <1>10, <1>11, <1>12, <1>13, StepInv, Zenon

\* writeFrame fails: the request may have arrived, and the caller tears the
\* connection down or finds that another one has.
LEMMA WriteFailsStep ==
  ASSUME IInv, NEW c \in Callers, WriteFails(c) PROVE IInv'
<1> DEFINE y == [call[c] EXCEPT !.pc = "teardown"]
<1>0. PICK k, q, x : k = call[c].conn /\ q = request(c) /\ x = closing(k)
  BY Zenon
<1>1. /\ call[c].pc = "write"
      /\ giveUp(k)
      /\ conns' = [conns EXCEPT ![k] = x]
      /\ requests' = requests \/ requests' = requests \cup {q}
      /\ UNCHANGED <<nextID, replies, applied>>
  BY <1>0, Zenon DEF WriteFails
<1>2. \/ call' = [call EXCEPT ![c] = y] /\ UNCHANGED <<ch, cache>>
      \/ attempted(c, "broken", 0)
  BY <1>0, Zenon DEF WriteFails, IInv, TypeOK
<1>3. CallerInv(c) /\ OutcomeInv(c)
  BY Zenon DEF IInv
<1>4. k \in 1 .. Len(conns)
  BY <1>0, <1>1, <1>3, Zenon DEF CallerInv
<1>5. /\ tr' \in [Nodes -> Transports]
      /\ \A b \in Nodes : tr'[b].conn \in {0, tr[b].conn}
      /\ x \in Connections /\ x.node = conns[k].node
  BY <1>0, <1>1, <1>4, GivenUp, Zenon
<1>6. /\ conns' \in Seq(Connections) /\ Len(conns') = Len(conns) /\ Len(conns') >= Len(conns)
      /\ \A i \in 1 .. Len(conns) : conns'[i].node = conns[i].node
  BY <1>1, <1>4, <1>5, SetConn, Zenon
<1>7. q \in Sent /\ q.caller = c
  <2>1. call[c].conn \in Nat /\ call[c].id \in Nat /\ call[c].addr \in Nodes
    BY <1>1, <1>3, Typed, Zenon DEF IInv, CallerInv
  <2> QED BY <1>0, <2>1, Zenon DEF request, Sent
<1>8. requests' \in SUBSET Sent
  BY <1>1, <1>7, Zenon DEF IInv, TypeOK
<1>9. \A d \in Callers \ {c} : reqs(d)' \subseteq reqs(d)
  BY <1>1, <1>7, Zenon DEF reqs
<1>10. c \notin Safe => reqs(c)' \subseteq {q} /\ applied'[c] = 0
  BY <1>1, Zenon DEF IInv, LegacyInv, Untouched, reqs
<1>11. (\A d \in Callers : applied'[d] >= applied[d]) /\ \A a \in Nodes : nextID'[a] >= nextID[a]
  BY <1>1, SameIds, Zenon
<1>12. CASE call' = [call EXCEPT ![c] = y] /\ UNCHANGED <<ch, cache>>
  <2>1. y \in Calls /\ y.pc = "teardown" /\ y.id = call[c].id /\ y.addr = call[c].addr
          /\ y.conn = call[c].conn
    <3>1. call[c] \in Calls
      BY Typed, Zenon DEF IInv
    <3> QED BY <3>1, ZenonT(60) DEF Calls, Pcs
  <2> HIDE DEF y
  <2>2. /\ call' \in [Callers -> Calls] /\ call'[c] = y
        /\ \A d \in Callers \ {c} : call'[d] = call[d]
    BY <1>12, <2>1, SetCall, Zenon DEF IInv
  <2>3. TypeOK'
    BY <1>1, <1>5, <1>6, <1>8, <1>12, <2>2, Zenon DEF IInv, TypeOK
  <2>4. Grows
    BY <1>6, <1>11, <2>1, <2>2, <2>3, DropsGrow, Zenon
  <2>5. RequestInv(q)'
    BY <1>0, <1>1, <2>1, <2>2, <2>3, <2>4, WrittenRequest, Zenon
  <2>6. CallerInv(c)' /\ OutcomeInv(c)'
    BY <1>1, <1>3, <1>6, <1>12, <2>1, <2>2, Zenon DEF CallerInv, OutcomeInv
  <2>7. IdsInv'
    BY <2>1, <2>2, <2>3, IdsKept, Zenon
  <2>8. c \notin Safe => LegacyInv(c)'
    BY <1>1, <1>10, <1>12, <2>1, <2>2, <2>3, <2>4, WritesFirst, Zenon
  <2>9. \A a \in Nodes : NodeInv(a)'
    BY <1>5, <2>3, <2>4, NodeKept, Zenon
  <2> QED BY <1>1, <1>9, <1>12, <2>2, <2>3, <2>4, <2>5, <2>6, <2>7, <2>8, <2>9, StepInv, Zenon
<1>13. CASE attempted(c, "broken", 0)
  <2>1. "broken" \in Errors /\ 0 \in 0 .. N /\ "broken" \notin Refusals
    BY SeedAssumption DEF Errors, Refusals
  <2>2. TypeOK
    BY Zenon DEF IInv
  <2>3. /\ call' \in [Callers -> Calls] /\ ch' \in [Callers -> Results] /\ cache' \in Caches
        /\ call'[c].pc # "write" /\ call'[c].id = 0
        /\ \A d \in Callers \ {c} : call'[d] = call[d] /\ ch'[d] = ch[d]
    BY <1>13, <2>1, <2>2, AttemptedType, Zenon
  <2>4. TypeOK'
    BY <1>1, <1>5, <1>6, <1>8, <2>2, <2>3, Zenon DEF TypeOK
  <2>5. Grows
    BY <1>6, <1>11, <2>3, <2>4, DropsGrow, Zenon
  <2>6. RequestInv(q)'
    BY <1>0, <1>1, <2>3, <2>4, <2>5, WrittenRequest, Zenon
  <2>7. CallerInv(c)' /\ OutcomeInv(c)' /\ (c \notin Safe => LegacyInv(c)') /\ IdsInv'
    BY <1>1, <1>10, <1>13, <2>1, <2>4, AttemptedInv, Zenon
  <2>8. \A a \in Nodes : NodeInv(a)'
    BY <1>5, <2>4, <2>5, NodeKept, Zenon
  <2> QED BY <1>1, <1>9, <2>3, <2>4, <2>5, <2>6, <2>7, <2>8, StepInv, Zenon
<1> QED BY <1>2, <1>12, <1>13, Zenon

-----------------------------------------------------------------------------
(* The steps of the connections and the cluster. *)

\* Messages are lost and connections change; the callers do not move.
LEMMA QuietStep ==
  ASSUME IInv, TypeOK', Grows, UNCHANGED <<call, ch, applied>>,
         requests' \subseteq requests, replies' \subseteq replies,
         \A a \in Nodes : tr'[a].conn \in {0, tr[a].conn}
  PROVE  IInv'
<1>1. (\A r \in requests' : RequestInv(r)') /\ (\A p \in replies' : ReplyInv(p)')
  BY MessagesKept, Zenon
<1>2. \A c \in Callers : CallerInv(c)' /\ OutcomeInv(c)'
  BY CallerKept, Zenon
<1>3. \A c : reqs(c)' \subseteq reqs(c)
  BY Zenon DEF reqs
<1>4. \A c \in Callers \ Safe : LegacyInv(c)'
  BY <1>3, LegacyKept, Zenon
<1>5. IdsInv'
  BY IdsKept, Zenon
<1>6. \A a \in Nodes : NodeInv(a)'
  BY NodeKept, Zenon
<1> QED BY <1>1, <1>2, <1>4, <1>5, <1>6, Zenon DEF IInv

\* readLoop sees that the connection is gone.
LEMMA BreakStep ==
  ASSUME IInv, NEW k \in 1 .. MaxConns, Break(k) PROVE IInv'
<1>0. PICK x : x = [closing(k) EXCEPT !.reading = FALSE]
  BY Zenon
<1>1. /\ k <= Len(conns) /\ giveUp(k)
      /\ conns' = [conns EXCEPT ![k] = x]
      /\ replies' \subseteq replies
      /\ UNCHANGED <<call, ch, nextID, cache, requests, applied>>
  BY <1>0, Zenon DEF Break
<1>2. k \in 1 .. Len(conns)
  BY <1>1, Typed DEF IInv
<1>3. /\ tr' \in [Nodes -> Transports]
      /\ \A b \in Nodes : tr'[b].conn \in {0, tr[b].conn}
      /\ closing(k) \in Connections /\ closing(k).node = conns[k].node
  BY <1>1, <1>2, GivenUp, Zenon
<1>4. x \in Connections /\ x.node = conns[k].node
  <2>1. PICK z : z = closing(k)
    BY Zenon
  <2>2. [z EXCEPT !.reading = FALSE] \in Connections
          /\ [z EXCEPT !.reading = FALSE].node = z.node
    BY <1>3, <2>1, ZenonT(60) DEF Connections
  <2> QED BY <1>0, <1>3, <2>1, <2>2, Zenon
<1>5. /\ conns' \in Seq(Connections) /\ Len(conns') >= Len(conns)
      /\ \A i \in 1 .. Len(conns) : conns'[i].node = conns[i].node
  BY <1>1, <1>2, <1>4, SetConn, Zenon
<1>6. TypeOK'
  BY <1>1, <1>3, <1>5, Zenon DEF IInv, TypeOK
<1>7. (\A d \in Callers : applied'[d] >= applied[d]) /\ \A a \in Nodes : nextID'[a] >= nextID[a]
  BY <1>1, SameIds, Zenon
<1>8. Grows
  BY <1>1, <1>5, <1>6, <1>7, DropsGrow, Zenon
<1> QED BY <1>1, <1>3, <1>6, <1>8, QuietStep, Zenon

\* A request is lost with its connection.
LEMMA LoseRequestStep ==
  ASSUME IInv, NEW c \in Callers, LoseRequest(c) PROVE IInv'
<1>1. /\ requests' \subseteq requests
      /\ UNCHANGED <<call, ch, tr, nextID, conns, cache, replies, applied>>
  BY Zenon DEF LoseRequest
<1>2. TypeOK'
  BY <1>1, Zenon DEF IInv, TypeOK
<1>3. Len(conns') >= Len(conns) /\ (\A d \in Callers : applied'[d] >= applied[d])
        /\ \A a \in Nodes : nextID'[a] >= nextID[a]
  BY <1>1, SameIds, Zenon
<1>4. Grows
  BY <1>1, <1>2, <1>3, DropsGrow, Zenon
<1> QED BY <1>1, <1>2, <1>4, QuietStep, Zenon

\* The channels of some callers are set; everything else but replies stays.
LEMMA ChannelStep ==
  ASSUME IInv, TypeOK', Grows, UNCHANGED <<call, requests, applied>>,
         replies' \subseteq replies,
         \A a \in Nodes : tr'[a].conn \in {0, tr[a].conn},
         \A c \in Callers : ch'[c] = ch[c] \/
           /\ call[c].pc \in {"write", "wait", "teardown"}
           /\ call[c].pc = "write" => ch'[c].kind = "broken"
           /\ ch'[c].kind = "ok" => applied[c] > 0
           /\ c \notin Safe /\ ch'[c].kind \in Refusals => Untouched(c)
  PROVE  IInv'
<1>1. (\A r \in requests' : RequestInv(r)') /\ (\A p \in replies' : ReplyInv(p)')
  BY MessagesKept, Zenon
<1>2. IdsInv' /\ \A a \in Nodes : NodeInv(a)'
  BY IdsKept, NodeKept, Zenon
<1>3. \A c : reqs(c)' = reqs(c)
  BY Zenon DEF reqs
<1>4. ASSUME NEW c \in Callers PROVE CallerInv(c)' /\ OutcomeInv(c)' /\ (c \notin Safe => LegacyInv(c)')
  <2>1. CASE ch'[c] = ch[c]
    BY <1>3, <2>1, CallerKept, LegacyKept, Zenon
  <2>2. CASE ch'[c] # ch[c]
    <3>1. /\ call[c].pc \in {"write", "wait", "teardown"}
          /\ call[c].pc = "write" => ch'[c].kind = "broken"
          /\ ch'[c].kind = "ok" => applied[c] > 0
          /\ c \notin Safe /\ ch'[c].kind \in Refusals => Untouched(c)
      BY <2>2, Zenon
    <3>2. CallerInv(c) /\ Len(conns) \in Nat /\ Len(conns') \in Nat
            /\ \A a \in Nodes : nextID[a] \in Nat /\ nextID'[a] \in Nat
      BY Typed, SeqProperties, Zenon DEF IInv, TypeOK
    <3>3. \A k \in 1 .. Len(conns) : k \in 1 .. Len(conns') /\ conns'[k].node = conns[k].node
      BY <3>2 DEF Grows
    <3>4. \A a \in Nodes : \A id \in 1 .. nextID[a] : id \in 1 .. nextID'[a]
      BY <3>2 DEF Grows
    <3>5. CallerInv(c)'
      BY <3>1, <3>2, <3>3, <3>4, Zenon DEF CallerInv
    <3>6. OutcomeInv(c)'
      BY <3>1, Zenon DEF OutcomeInv
    <3>7. ASSUME c \notin Safe PROVE LegacyInv(c)'
      <4>1. LegacyInv(c)
        BY <3>7, Zenon DEF IInv
      <4>2. Untouched(c)' = Untouched(c)
        BY <1>3, Zenon DEF Untouched
      <4>3. \A p \in replies' : answers(p, c)' => answers(p, c)
        <5> SUFFICES ASSUME NEW p \in replies, answers(p, c)' PROVE answers(p, c)
          BY Zenon
        <5>1. p.conn \in 1 .. Len(conns)
          BY Zenon DEF IInv, ReplyInv
        <5>2. conns'[p.conn].node = conns[p.conn].node
          BY <5>1, <3>3, Zenon
        <5> QED BY <5>2, Zenon DEF answers, current
      <4> QED BY <1>3, <3>1, <3>7, <4>1, <4>2, <4>3, Zenon DEF LegacyInv
    <3> QED BY <3>5, <3>6, <3>7, Zenon
  <2> QED BY <2>1, <2>2, Zenon
<1> QED BY <1>1, <1>2, <1>4, Zenon DEF IInv

\* teardown fails the calls that are pending on the connection.
LEMMA TeardownStep ==
  ASSUME IInv, NEW k \in 1 .. MaxConns, Teardown(k) PROVE IInv'
<1>0. PICK x, y : /\ x = conns[k]
                  /\ y = [x EXCEPT !.state = "closed", !.reading = FALSE, !.fails = NoPending]
  BY Zenon
<1> DEFINE failed == {c \in Callers : \E i \in DOMAIN x.fails :
                                        x.fails[i] = c /\ current(c, x.node, i)}
<1>1. /\ k <= Len(conns)
      /\ conns' = [conns EXCEPT ![k] = y]
      /\ replies' \subseteq replies
      /\ UNCHANGED <<call, tr, nextID, cache, requests, applied>>
  BY <1>0, Zenon DEF Teardown
<1>2. ch' = [c \in Callers |-> IF c \in failed /\ ch[c] = NoResult
                                 THEN result("broken", 0) ELSE ch[c]]
  BY <1>0, Zenon DEF Teardown
<1>3. k \in 1 .. Len(conns)
  BY <1>1, Typed DEF IInv
<1>4. x \in Connections /\ x.fails \in Pendings
  BY <1>0, <1>3, Typed, Zenon DEF IInv
<1>5. y \in Connections /\ y.node = conns[k].node
  BY <1>0, <1>4, PendingType, ZenonT(60) DEF Connections
<1>6. /\ conns' \in Seq(Connections) /\ Len(conns') >= Len(conns)
      /\ \A i \in 1 .. Len(conns) : conns'[i].node = conns[i].node
  BY <1>1, <1>3, <1>5, SetConn, Zenon
<1>7. result("broken", 0) \in Results /\ result("broken", 0).kind = "broken"
  <2>1. "broken" \in Errors /\ 0 \in 0 .. N
    BY SeedAssumption DEF Errors
  <2> QED BY <2>1, ResultType, Zenon
<1>8. \A c \in failed : call[c].id # 0
  BY <1>4, PendingType, Zenon DEF current
<1> HIDE DEF failed
<1>9. \A c \in Callers : ch'[c] = ch[c] \/ (c \in failed /\ ch'[c] = result("broken", 0))
  BY <1>2, Zenon
<1>10. ch' \in [Callers -> Results]
  <2>1. DOMAIN ch' = Callers /\ ch' = [c \in Callers |-> ch'[c]]
    BY <1>2, Zenon
  <2>2. \A c \in Callers : ch'[c] \in Results
    BY <1>7, <1>9, Typed, Zenon DEF IInv
  <2> QED BY <2>1, <2>2, Zenon
<1>11. TypeOK'
  BY <1>1, <1>6, <1>10, Zenon DEF IInv, TypeOK
<1>12. (\A d \in Callers : applied'[d] >= applied[d]) /\ \A a \in Nodes : nextID'[a] >= nextID[a]
  BY <1>1, SameIds, Zenon
<1>13. Grows
  BY <1>1, <1>6, <1>11, <1>12, DropsGrow, Zenon
<1>14. \A c \in failed \cap Callers : call[c].pc \in {"write", "wait", "teardown"}
  BY <1>8, Zenon DEF IInv, CallerInv
<1>15. "broken" \notin Refusals
  BY Zenon DEF Refusals
<1>16. \A c \in Callers : ch'[c] = ch[c] \/
           /\ call[c].pc \in {"write", "wait", "teardown"}
           /\ ch'[c].kind = "broken"
  BY <1>7, <1>9, <1>14, Zenon
<1> QED BY <1>1, <1>11, <1>13, <1>15, <1>16, ChannelStep, Zenon

\* readLoop delivers a reply: to the attempt with its id.
LEMMA DeliverStep ==
  ASSUME IInv, NEW k \in 1 .. MaxConns, Deliver(k) PROVE IInv'
<1> DEFINE a == conns[k].node
<1>1. /\ k <= Len(conns)
      /\ UNCHANGED <<call, nextID, conns, cache, requests, applied>>
  BY Zenon DEF Deliver
<1> DEFINE to(r) == {c \in Callers : /\ r.id \in DOMAIN tr[a].pending
                                     /\ tr[a].pending[r.id] = c
                                     /\ current(c, a, r.id)}
<1>2. PICK r \in replies :
        /\ r.conn = k
        /\ replies' = replies \ {r}
        /\ tr' = [tr EXCEPT ![a].pending = [i \in DOMAIN @ \ {r.id} |-> @[i]]]
        /\ ch' = [c \in Callers |-> IF c \in to(r) THEN result(r.kind, r.leader) ELSE ch[c]]
  BY Zenon DEF Deliver
<1>3. k \in 1 .. Len(conns)
  BY <1>1, Typed DEF IInv
<1>4. a \in Nodes /\ r.kind \in Kinds /\ r.leader \in 0 .. N
  BY <1>3, Typed, Zenon DEF IInv
<1>5. \A c \in to(r) : answers(r, c)
  BY <1>2, Zenon DEF answers
<1>6. result(r.kind, r.leader) \in Results /\ result(r.kind, r.leader).kind = r.kind
  <2>1. r.kind \in Errors
    BY <1>4, Zenon DEF Errors
  <2> QED BY <1>4, <2>1, ResultType, Zenon
<1> HIDE DEF to
<1>7. \A c \in Callers : ch'[c] = ch[c] \/ (c \in to(r) /\ ch'[c] = result(r.kind, r.leader))
  BY <1>2, Zenon
<1>8. ch' \in [Callers -> Results]
  <2>1. DOMAIN ch' = Callers /\ ch' = [c \in Callers |-> ch'[c]]
    BY <1>2, Zenon
  <2>2. \A c \in Callers : ch'[c] \in Results
    BY <1>6, <1>7, Typed, Zenon DEF IInv
  <2> QED BY <2>1, <2>2, Zenon
<1>9. tr' \in [Nodes -> Transports] /\ \A b \in Nodes : tr'[b].conn \in {0, tr[b].conn}
  <2> DEFINE f == [i \in DOMAIN tr[a].pending \ {r.id} |-> tr[a].pending[i]]
  <2>1. tr' = [tr EXCEPT ![a] = [tr[a] EXCEPT !.pending = f]]
    BY <1>2, Zenon
  <2>2. tr[a] \in Transports /\ tr[a].pending \in Pendings
    BY <1>4, Typed, Zenon DEF IInv
  <2>3. f \in Pendings
    BY <2>2, PendingType, Zenon
  <2> HIDE DEF f
  <2>4. [tr[a] EXCEPT !.pending = f] \in Transports
          /\ [tr[a] EXCEPT !.pending = f].conn = tr[a].conn
    BY <2>2, <2>3, Zenon DEF Transports
  <2> QED BY <1>4, <2>1, <2>4, Zenon DEF IInv, TypeOK
<1>10. TypeOK'
  BY <1>1, <1>2, <1>8, <1>9, Zenon DEF IInv, TypeOK
<1>11. Len(conns') >= Len(conns) /\ (\A d \in Callers : applied'[d] >= applied[d])
         /\ \A b \in Nodes : nextID'[b] >= nextID[b]
  BY <1>1, SameIds, Zenon
<1>12. Grows
  BY <1>1, <1>10, <1>11, DropsGrow, Zenon
<1>13. ReplyInv(r)
  BY Zenon DEF IInv
<1>14. \A c \in Callers : c \in to(r) =>
         /\ call[c].pc # "write" /\ (r.kind = "ok" => applied[c] > 0)
         /\ call[c].id # 0
  BY <1>5, <1>13 DEF ReplyInv, answers, current
<1>15. \A c \in Callers : c \in to(r) => call[c].pc \in {"wait", "teardown"}
  BY <1>14, Zenon DEF IInv, CallerInv
<1>16. \A c \in Callers \ Safe : c \in to(r) /\ r.kind \in Refusals => Untouched(c)
  BY <1>5, Zenon DEF IInv, LegacyInv, Untouched
<1>17. \A c \in Callers : ch'[c] = ch[c] \/
           /\ call[c].pc \in {"write", "wait", "teardown"}
           /\ call[c].pc = "write" => ch'[c].kind = "broken"
           /\ ch'[c].kind = "ok" => applied[c] > 0
           /\ c \notin Safe /\ ch'[c].kind \in Refusals => Untouched(c)
  BY <1>6, <1>7, <1>14, <1>15, <1>16, Zenon
<1>18. replies' \subseteq replies
  BY <1>2, Zenon
<1> QED BY <1>1, <1>9, <1>10, <1>12, <1>17, <1>18, ChannelStep, Zenon

\* A node answers a request; when it ran, it ran for the caller of the request.
LEMMA AnswerStep ==
  ASSUME IInv, NEW c \in Callers, NEW r \in requests, r.caller = c,
         NEW kind \in Kinds, NEW leader \in 0 .. N, answered(r, kind, leader),
         applied' \in [Callers -> Nat],
         \A d \in Callers \ {c} : applied'[d] = applied[d],
         applied'[c] >= applied[c],
         kind = "ok" => applied'[c] > 0,
         c \notin Safe => applied'[c] <= applied[c] + 1,
         kind \in Refusals => applied'[c] = applied[c]
  PROVE  IInv'
<1>0. PICK q : q = [conn |-> r.conn, id |-> r.id, kind |-> kind, leader |-> leader]
  BY Zenon
<1>1. /\ requests' = requests \ {r}
      /\ replies' \subseteq replies \cup {q} /\ replies \subseteq replies'
      /\ UNCHANGED <<call, ch, tr, nextID, conns, cache>>
  BY <1>0, Zenon DEF answered
<1>2. r.conn \in Nat /\ r.id \in Nat /\ r.node \in Nodes /\ RequestInv(r)
  BY Typed, Zenon DEF IInv
<1>3. q \in Replied /\ q.conn = r.conn /\ q.id = r.id /\ q.kind = kind
  BY <1>0, <1>2, Zenon DEF Replied
<1>4. TypeOK'
  BY <1>1, <1>3, Zenon DEF IInv, TypeOK
<1>5. applied[c] \in Nat /\ applied'[c] \in Nat /\ \A d \in Callers : applied'[d] >= applied[d]
  <2>1. \A d \in Callers : applied[d] \in Nat
    BY Typed, Zenon DEF IInv
  <2> QED BY <2>1
<1>6. Grows
  <2>1. Len(conns') >= Len(conns) /\ \A a \in Nodes : nextID'[a] >= nextID[a]
    BY <1>1, SameIds, Zenon
  <2> QED BY <1>1, <1>4, <1>5, <2>1, DropsGrow, Zenon
<1>7. \A d \in Callers : answers(q, d)' => d = c /\ call[d].pc # "write"
  BY <1>1, <1>2, <1>3, Zenon DEF answers, RequestInv, current
<1>8. ReplyInv(q)'
  <2>1. q.conn \in 1 .. Len(conns') /\ q.id \in 1 .. nextID'[conns'[q.conn].node]
    BY <1>1, <1>2, <1>3, Zenon DEF RequestInv
  <2>2. \A d \in Callers : answers(q, d)' =>
          call'[d].pc # "write" /\ (q.kind = "ok" => applied'[d] > 0)
    BY <1>1, <1>3, <1>7, Zenon
  <2> QED BY <2>1, <2>2, Zenon DEF ReplyInv
<1>9. CallerInv(c)'
  BY <1>1, Zenon DEF IInv, CallerInv
<1>10. OutcomeInv(c)'
  BY <1>1, <1>5 DEF IInv, OutcomeInv
<1>11. IdsInv' /\ \A a \in Nodes : NodeInv(a)'
  BY <1>1, <1>4, <1>6, IdsKept, NodeKept, Zenon
<1>12. ASSUME c \notin Safe PROVE LegacyInv(c)'
  <2>1. LegacyInv(c) /\ r \in reqs(c)
    BY <1>12, Zenon DEF IInv, reqs
  <2>2. applied[c] = 0 /\ reqs(c)' = {}
    BY <1>1, <2>1, Zenon DEF LegacyInv, reqs
  <2>3. applied'[c] <= 1 /\ (kind \in Refusals => applied'[c] = 0)
    BY <1>5, <1>12, <2>2
  <2>4. ~Untouched(c)
    BY <2>1, Zenon DEF Untouched
  <2>5. /\ call'[c].pc \notin {"target", "connect", "register", "write"}
        /\ ch'[c].kind \notin Refusals
        /\ ~(call'[c].pc = "done" /\ call'[c].err \in Refusals)
    BY <1>1, <2>1, <2>4, Zenon DEF LegacyInv
  <2>6. ASSUME NEW p \in replies', answers(p, c)' PROVE p.kind \in Refusals => applied'[c] = 0
    <3>1. CASE p = q
      BY <1>3, <2>3, <3>1, Zenon
    <3>2. CASE p # q
      <4>1. p \in replies /\ answers(p, c)
        BY <1>1, <2>6, <3>2, Zenon DEF answers, current
      <4> QED BY <2>1, <4>1, Zenon DEF LegacyInv
    <3> QED BY <3>1, <3>2, Zenon
  <2> QED BY <2>2, <2>3, <2>5, <2>6, Zenon DEF LegacyInv
<1>13. \A d : reqs(d)' \subseteq reqs(d)
  BY <1>1, Zenon DEF reqs
<1>14. \A p \in replies' :
         p \in replies \/ (ReplyInv(p)' /\ \A d \in Callers \ {c} : ~answers(p, d)')
  <2> SUFFICES ASSUME NEW p \in replies', p \notin replies
               PROVE  ReplyInv(p)' /\ \A d \in Callers \ {c} : ~answers(p, d)'
    BY Zenon
  <2>1. p = q
    BY <1>1, Zenon
  <2> QED BY <1>7, <1>8, <2>1, Zenon
<1>15. \A d \in Callers \ {c} : /\ call'[d] = call[d] /\ ch'[d] = ch[d] /\ applied'[d] = applied[d]
                                /\ reqs(d)' \subseteq reqs(d)
  BY <1>1, <1>13, Zenon
<1>16. \A x \in requests' : x \in requests
  BY <1>1, Zenon
<1> QED BY <1>4, <1>6, <1>9, <1>10, <1>11, <1>12, <1>14, <1>15, <1>16, StepInv, Zenon

\* A node redirects or refuses.
LEMMA RejectStep ==
  ASSUME IInv, NEW c \in Callers, Reject(c) PROVE IInv'
<1>1. PICK r \in requests, kind \in Kinds, leader \in 0 .. N :
        r.caller = c /\ kind # "ok" /\ answered(r, kind, leader)
  <2>1. 0 \in 0 .. N
    BY SeedAssumption
  <2> QED BY <2>1, Zenon DEF Reject, Kinds
<1>2. applied' = applied /\ applied \in [Callers -> Nat]
  BY Zenon DEF Reject, IInv, TypeOK
<1>3. /\ applied' \in [Callers -> Nat] /\ \A d \in Callers : applied'[d] = applied[d]
      /\ applied'[c] >= applied[c] /\ applied'[c] <= applied[c] + 1
  BY <1>2
<1> QED BY <1>1, <1>3, AnswerStep, Zenon

\* A node runs the operation of a request, or answers it again.
LEMMA ApplyStep ==
  ASSUME IInv, NEW c \in Callers, Apply(c) PROVE IInv'
<1> DEFINE n == IF c \in Safe /\ applied[c] > 0 THEN applied[c] ELSE applied[c] + 1
<1>1. PICK r \in requests, kind \in {"ok", "internal"} : r.caller = c /\ answered(r, kind, 0)
  BY Zenon DEF Apply
<1>2. applied' = [applied EXCEPT ![c] = n]
  BY Zenon DEF Apply
<1>3. applied \in [Callers -> Nat] /\ applied[c] \in Nat
  BY Typed, Zenon DEF IInv, TypeOK
<1>4. n \in Nat /\ n >= applied[c] /\ n > 0 /\ n <= applied[c] + 1
  BY <1>3
<1> HIDE DEF n
<1>5. applied' \in [Callers -> Nat] /\ applied'[c] = n /\ \A d \in Callers \ {c} : applied'[d] = applied[d]
  BY <1>2, <1>3, <1>4, Zenon
<1>6. kind \in Kinds /\ 0 \in 0 .. N /\ kind \notin Refusals
  BY SeedAssumption DEF Kinds, Refusals
<1> QED BY <1>1, <1>4, <1>5, <1>6, AnswerStep, Zenon

-----------------------------------------------------------------------------
(* The theorems. *)

\* At the start nothing is called, sent or answered.
LEMMA InitInv == Init => IInv
<1> SUFFICES ASSUME Init PROVE IInv
  BY Zenon
<1> DEFINE y == [pc |-> "target", tries |-> 0, addr |-> 0, conn |-> 0, id |-> 0, err |-> "none"]
           v == [conn |-> 0, pending |-> NoPending]
<1>1. 0 \in 0 .. N /\ 0 \in 0 .. N - 1
  BY SeedAssumption
<1>2. y \in Calls /\ y.pc = "target" /\ y.err = "none" /\ y.id = 0
  BY <1>1, Zenon DEF Calls, Pcs, Errors
<1>3. v \in Transports /\ v.conn = 0
  BY PendingType, Zenon DEF Transports
<1>4. NoResult \in Results /\ NoResult.kind = "none"
  <2>1. "none" \in Errors
    BY Zenon DEF Errors
  <2> QED BY <1>1, <2>1, ResultType, Zenon DEF NoResult
<1>5. call = [c \in Callers |-> y] /\ tr = [a \in Nodes |-> v] /\ ch = [c \in Callers |-> NoResult]
  BY Zenon DEF Init
<1> HIDE DEF y, v
<1>6. TypeOK
  <2>1. call \in [Callers -> Calls] /\ tr \in [Nodes -> Transports] /\ ch \in [Callers -> Results]
    BY <1>2, <1>3, <1>4, <1>5, Zenon
  <2>2. cache \in Caches
    BY <1>1, Zenon DEF Init, Caches
  <2>3. conns \in Seq(Connections)
    BY DEF Init
  <2> QED BY <2>1, <2>2, <2>3, Zenon DEF Init, TypeOK
<1>7. \A a \in Nodes : NodeInv(a)
  BY <1>3, <1>5, Zenon DEF NodeInv
<1>8. \A c \in Callers : /\ call[c].pc = "target" /\ call[c].err = "none" /\ call[c].id = 0
                         /\ ch[c].kind = "none" /\ applied[c] = 0 /\ reqs(c) = {}
  BY <1>2, <1>4, <1>5, Zenon DEF Init, reqs
<1>9. \A c \in Callers : CallerInv(c) /\ OutcomeInv(c)
  BY <1>8, Zenon DEF CallerInv, OutcomeInv
<1>10. requests = {} /\ replies = {} /\ "none" \notin Refusals /\ 0 <= 1
  BY DEF Init, Refusals
<1>11. \A c \in Callers \ Safe : LegacyInv(c)
  BY <1>8, <1>10, Zenon DEF LegacyInv, Untouched
<1>12. IdsInv
  BY <1>8, Zenon DEF IdsInv
<1> QED BY <1>6, <1>7, <1>9, <1>10, <1>11, <1>12, Zenon DEF IInv

\* A step that changes nothing keeps the invariant.
LEMMA StutterInv == IInv /\ UNCHANGED vars => IInv'
<1> SUFFICES ASSUME IInv, UNCHANGED vars PROVE IInv'
  BY Zenon
<1>1. UNCHANGED <<call, ch, tr, nextID, conns, cache, requests, replies, applied>>
  BY Zenon DEF vars
<1>2. TypeOK'
  BY <1>1, Zenon DEF IInv, TypeOK
<1>3. Len(conns') >= Len(conns) /\ (\A d \in Callers : applied'[d] >= applied[d])
        /\ \A a \in Nodes : nextID'[a] >= nextID[a]
  BY <1>1, SameIds, Zenon
<1>4. Grows
  BY <1>1, <1>2, <1>3, DropsGrow, Zenon
<1> QED BY <1>1, <1>2, <1>4, QuietStep, Zenon

\* Every step keeps the invariant.
LEMMA NextInv == IInv /\ [Next]_vars => IInv'
<1> SUFFICES ASSUME IInv, Next PROVE IInv'
  BY StutterInv, Zenon
<1>1. ASSUME NEW c \in Callers,
             \/ Target(c) \/ GiveUp(c) \/ EnsureConn(c) \/ DialFails(c) \/ Register(c)
             \/ Write(c) \/ WriteFails(c) \/ WriteFailed(c)
      PROVE  IInv'
  BY <1>1, TargetStep, GiveUpStep, EnsureConnStep, DialFailsStep, RegisterStep, WriteStep,
     WriteFailsStep, WriteFailedStep, Zenon
<1>2. ASSUME NEW c \in Callers,
             \/ Reject(c) \/ Apply(c) \/ LoseRequest(c) \/ Return(c) \/ Expire(c)
      PROVE  IInv'
  BY <1>2, RejectStep, ApplyStep, LoseRequestStep, ReturnStep, ExpireStep, Zenon
<1>3. ASSUME NEW k \in 1 .. MaxConns, Break(k) \/ Teardown(k) \/ Deliver(k)
      PROVE  IInv'
  BY <1>3, BreakStep, TeardownStep, DeliverStep, Zenon
<1> QED BY <1>1, <1>2, <1>3, Zenon DEF Next

\* The numbers of attempts, the requests and replies that carry them and what the
\* callers were told fit together in every state.
THEOREM ClientInvariance == Spec => []IInv
  BY InitInv, NextInv, PTL DEF Spec

\* However many connections break and replies come late, a legacy operation takes
\* effect at most once (Call retries it only after a refusal).
THEOREM AtMostOnce == Spec => []LegacyAtMostOnce
<1>1. IInv => LegacyAtMostOnce
  BY Zenon DEF IInv, LegacyInv, LegacyAtMostOnce
<1> QED BY <1>1, ClientInvariance, PTL

\* A call that returns a result got the reply to its own request (callOnce, readLoop).
THEOREM OwnResult == Spec => []ResultIsOwn
<1>1. IInv => ResultIsOwn
  BY Zenon DEF IInv, OutcomeInv, ResultIsOwn
<1> QED BY <1>1, ClientInvariance, PTL

\* A legacy operation that Call reports as not applied has not run and never will.
THEOREM NotAppliedHolds == Spec => []LegacyNotAppliedIsTrue
<1>1. IInv => LegacyNotAppliedIsTrue
  BY Zenon DEF IInv, LegacyInv, Untouched, NotApplied, LegacyNotAppliedIsTrue
<1> QED BY <1>1, ClientInvariance, PTL
=============================================================================
