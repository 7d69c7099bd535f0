------------------------------ MODULE Topology ------------------------------
(***************************************************************************)
(* How a node learns of leadership and tells its subscribers: the peer     *)
(* connections and the topology push of clustering/tcptransport.go, and    *)
(* publishTopology and WatchTopology of clustering/engine.go.              *)
(*                                                                         *)
(* A view is the leader with a number that grows with every change of the  *)
(* published topology, in place of its epoch.  The goroutines are the      *)
(* engine, one readConn for each peer and subscriber, and pushLoop; each   *)
(* step ends where one of them takes a lock, waits or writes a frame.      *)
(***************************************************************************)
EXTENDS Integers, Sequences, FiniteSets

CONSTANTS
  Peers,        \* the other members
  Subscribers,
  QueueLen,     \* capacity of the engine's frames channel (1024)
  MaxChanges,   \* bound on the changes of the topology
  MaxDials      \* bound on the connections of each peer

VARIABLES
  in,       \* frames on each peer's connection to this node
  dials,    \* how often each peer connected
  addrs,    \* rpcAddrs: the peers whose client address is known
  frames,   \* the engine's frames channel
  topo,     \* the published view
  watch,    \* pushLoop's channel: "none", "open" or "closed"
  push,     \* pushLoop: pc, the subscribers still to visit, the view it read
  sub,      \* each subscriber's readConn: pc and the view it read
  subs,     \* the set of subscribed connections
  got,      \* each subscriber: the last view sent to it, and the newest one
  told      \* the newest view published while pushLoop's channel was registered

vars == <<in, dials, addrs, frames, topo, watch, push, sub, subs, got, told>>

Nobody == "nobody"
View(v, leader) == [v |-> v, leader |-> leader]
NoView == View(0, Nobody)

Init ==
  /\ in = [q \in Peers |-> <<>>]
  /\ dials = [q \in Peers |-> 0]
  /\ addrs = {}
  /\ frames = <<>>
  /\ topo = NoView
  /\ watch = "none"
  /\ push = [pc |-> "watch", todo |-> {}, read |-> NoView]
  /\ sub = [s \in Subscribers |-> [pc |-> "new", read |-> NoView]]
  /\ subs = {}
  /\ got = [s \in Subscribers |-> [last |-> NoView, newest |-> -1, noAddr |-> FALSE]]
  /\ told = 0

-----------------------------------------------------------------------------
(* Peers. *)

PeerConnect_LateHello(q) ==
  /\ dials[q] < MaxDials
  /\ dials' = [dials EXCEPT ![q] = @ + 1]
  /\ in' = [in EXCEPT ![q] = <<"heartbeat", "hello">>]
  /\ UNCHANGED <<addrs, frames, topo, watch, push, sub, subs, got, told>>

\* peerSender of q connects, again or for the first time, and says hello first.
PeerConnect(q) ==
  /\ dials[q] < MaxDials
  /\ dials' = [dials EXCEPT ![q] = @ + 1]
  /\ in' = [in EXCEPT ![q] = <<"hello">>]
  /\ UNCHANGED <<addrs, frames, topo, watch, push, sub, subs, got, told>>

\* drainTo: q, now a leader, sends a heartbeat.
PeerSends(q) ==
  /\ dials[q] > 0
  /\ Len(in[q]) < QueueLen
  /\ in' = [in EXCEPT ![q] = Append(@, "heartbeat")]
  /\ UNCHANGED <<dials, addrs, frames, topo, watch, push, sub, subs, got, told>>

\* readConn: a hello is kept, any other frame is delivered or dropped.
ReadConn(q) ==
  /\ in[q] # <<>>
  /\ in' = [in EXCEPT ![q] = Tail(@)]
  /\ IF Head(in[q]) = "hello"
       THEN addrs' = addrs \cup {q} /\ UNCHANGED frames
       ELSE /\ frames' = IF Len(frames) < QueueLen THEN Append(frames, q) ELSE frames
            /\ UNCHANGED addrs
  /\ UNCHANGED <<dials, topo, watch, push, sub, subs, got, told>>

-----------------------------------------------------------------------------
(* The engine. *)

\* publishTopology: a change closes the channels of all watchers.
publish(leader) ==
  IF leader = topo.leader THEN UNCHANGED <<topo, watch, told>>
  ELSE /\ topo' = View(topo.v + 1, leader)
       /\ watch' = IF watch = "open" THEN "closed" ELSE watch
       /\ told' = IF watch = "open" THEN topo.v + 1 ELSE told

\* A heartbeat makes its sender the leader.
EngineRecv ==
  /\ frames # <<>>
  /\ topo.v < MaxChanges
  /\ frames' = Tail(frames)
  /\ publish(Head(frames))
  /\ UNCHANGED <<in, dials, addrs, push, sub, subs, got>>

\* An election begins: nobody leads.
EngineTick ==
  /\ topo.v < MaxChanges
  /\ topo.leader # Nobody
  /\ publish(Nobody)
  /\ UNCHANGED <<in, dials, addrs, frames, push, sub, subs, got>>

-----------------------------------------------------------------------------
(* pushLoop. *)

\* WatchTopology
Watch ==
  /\ push.pc = "watch"
  /\ watch' = "open"
  /\ push' = [push EXCEPT !.pc = "select"]
  /\ UNCHANGED <<in, dials, addrs, frames, topo, sub, subs, got, told>>

Wake_SkipsNew ==
  /\ push.pc = "select"
  /\ watch = "closed"
  /\ watch' = "none"
  /\ push' = [push EXCEPT !.pc = "next",
                          !.todo = {s \in subs : sub[s].pc = "subscribed"}]
  /\ UNCHANGED <<in, dials, addrs, frames, topo, sub, subs, got, told>>

\* broadcastTopology: the subscribers of this moment.
Wake ==
  /\ push.pc = "select"
  /\ watch = "closed"
  /\ watch' = "none"
  /\ push' = [push EXCEPT !.pc = "next", !.todo = subs]
  /\ UNCHANGED <<in, dials, addrs, frames, topo, sub, subs, got, told>>

\* pushOne, first part: the view is read.
PushRead ==
  /\ push.pc = "next"
  /\ push' = IF push.todo = {} THEN [push EXCEPT !.pc = "watch", !.read = NoView]
             ELSE [push EXCEPT !.pc = "send", !.read = topo]
  /\ UNCHANGED <<in, dials, addrs, frames, topo, watch, sub, subs, got, told>>

\* pushOne, second part: a frame with the leader's address, under pushMu.
sendView(s, view) ==
  got' = [got EXCEPT ![s] =
            [last |-> view,
             newest |-> IF view.v > @.newest THEN view.v ELSE @.newest,
             noAddr |-> @.noAddr \/ view.leader \notin addrs \cup {Nobody}]]

PushSend(s) ==
  /\ push.pc = "send"
  /\ s \in push.todo
  /\ sendView(s, push.read)
  /\ push' = [push EXCEPT !.pc = "next", !.todo = @ \ {s}]
  /\ UNCHANGED <<in, dials, addrs, frames, topo, watch, sub, subs, told>>

-----------------------------------------------------------------------------
(* Subscribers. *)

\* readConn of a FrameSubscribe: addSub,
Subscribe(s) ==
  /\ sub[s].pc = "new"
  /\ sub' = [sub EXCEPT ![s].pc = "read"]
  /\ subs' = subs \cup {s}
  /\ UNCHANGED <<in, dials, addrs, frames, topo, watch, push, got, told>>

\* then pushOne.
SubscriberRead(s) ==
  /\ sub[s].pc = "read"
  /\ sub' = [sub EXCEPT ![s] = [pc |-> "send", read |-> topo]]
  /\ UNCHANGED <<in, dials, addrs, frames, topo, watch, push, subs, got, told>>

SubscriberSend(s) ==
  /\ sub[s].pc = "send"
  /\ sub' = [sub EXCEPT ![s] = [pc |-> "subscribed", read |-> NoView]]
  /\ sendView(s, sub[s].read)
  /\ UNCHANGED <<in, dials, addrs, frames, topo, watch, push, subs, told>>

\* The subscriber hangs up: removeSub.
Unsubscribe(s) ==
  /\ sub[s].pc = "subscribed"
  /\ sub' = [sub EXCEPT ![s].pc = "gone"]
  /\ subs' = subs \ {s}
  /\ UNCHANGED <<in, dials, addrs, frames, topo, watch, push, got, told>>

Next ==
  \/ \E q \in Peers : PeerConnect(q)
  \/ \E q \in Peers : PeerSends(q)
  \/ \E q \in Peers : ReadConn(q)
  \/ EngineRecv
  \/ EngineTick
  \/ Watch
  \/ Wake
  \/ PushRead
  \/ \E s \in Subscribers : PushSend(s)
  \/ \E s \in Subscribers : Subscribe(s)
  \/ \E s \in Subscribers : SubscriberRead(s)
  \/ \E s \in Subscribers : SubscriberSend(s)
  \/ \E s \in Subscribers : Unsubscribe(s)

Spec == Init /\ [][Next]_vars

\* A goroutine that can run does: pushLoop, and the readConn of a subscriber once
\* its subscription has arrived.
FairSpec ==
  /\ Spec
  /\ WF_vars(Watch) /\ WF_vars(Wake) /\ WF_vars(PushRead)
  /\ WF_vars(\E s \in Subscribers : PushSend(s))
  /\ \A s \in Subscribers : WF_vars(SubscriberRead(s)) /\ WF_vars(SubscriberSend(s))

-----------------------------------------------------------------------------
\* Every pushed view that names a leader has its client address: hello is the
\* first frame of a connection, so a node knows where a peer serves clients before
\* a heartbeat can make that peer the leader (peerSender, readConn).
LeaderHasAddress == \A s \in Subscribers : ~got[s].noAddr

\* A change that finds pushLoop watching reaches every connection that stays
\* subscribed, as this view or a newer one, also when the subscription arrives in
\* the middle of the push (readConn: addSub, then pushOne).
ChangeIsPushed ==
  \A s \in Subscribers : \A v \in 1 .. MaxChanges :
    (told >= v /\ s \in subs) ~> (got[s].newest >= v \/ s \notin subs)

\* replicator.go (FrameSubscribe): the node pushes the topology on every leadership
\* change.  When no push is under way, the last view that a subscriber was sent is
\* the current one.
PushedOnEveryChange ==
  (push.pc = "select" /\ watch = "open") =>
    \A s \in subs : sub[s].pc = "subscribed" => got[s].last = topo
=============================================================================
