-------------------------- MODULE TopologyProofs --------------------------
(***************************************************************************)
(* Proof that every pushed view has the address of the leader it names     *)
(* (LeaderHasAddress), for any number of peers, subscribers, connections   *)
(* and changes.                                                            *)
(***************************************************************************)
EXTENDS Topology, TLAPS

Kinds == {"hello", "heartbeat"}

\* A peer that has connected is in addrs or its hello is still the first frame on
\* its connection, so a heartbeat is read only from a peer in addrs.
PeerInv ==
  /\ in \in [Peers -> Seq(Kinds)]
  /\ dials \in [Peers -> Nat]
  /\ \A q \in Peers : dials[q] = 0 => in[q] = <<>>
  /\ \A q \in Peers \ addrs : dials[q] > 0 => in[q] # <<>> /\ Head(in[q]) = "hello"
  /\ frames \in Seq(addrs)

\* All that follows from a heartbeat, up to the views that pushLoop and a readConn
\* have read but not sent, names such a peer.
Views == [v : Int, leader : addrs \cup {Nobody}]

PushInv == push \in [pc : {"watch", "select", "next", "send"}, todo : SUBSET Subscribers,
                     read : Views]
SubInv == sub \in [Subscribers -> [pc : {"new", "read", "send", "subscribed", "gone"},
                                  read : Views]]
GotInv == got \in [Subscribers -> [last : Views, newest : Int, noAddr : {FALSE}]]

ViewInv == topo \in Views /\ subs \subseteq Subscribers /\ PushInv /\ SubInv /\ GotInv

IInv == PeerInv /\ ViewInv

-----------------------------------------------------------------------------
(* Peers. *)

\* A connection begins with a hello.
LEMMA PeerConnectPeers ==
  ASSUME PeerInv, NEW q \in Peers, PeerConnect(q) PROVE PeerInv'
<1>1. <<"hello">> \in Seq(Kinds) /\ <<"hello">> # <<>> /\ Head(<<"hello">>) = "hello"
  BY DEF Kinds
<1> DEFINE hello == <<"hello">>
<1>2. hello \in Seq(Kinds) /\ hello # <<>> /\ Head(hello) = "hello"
  BY <1>1
<1>3. in' = [in EXCEPT ![q] = hello] /\ dials' = [dials EXCEPT ![q] = @ + 1]
        /\ UNCHANGED <<addrs, frames>>
  BY DEF PeerConnect
<1> HIDE DEF hello
<1> QED BY <1>2, <1>3 DEF PeerInv

\* A heartbeat goes behind the frames that are on the connection.
LEMMA PeerSendsPeers ==
  ASSUME PeerInv, NEW q \in Peers, PeerSends(q) PROVE PeerInv'
<1> DEFINE more == Append(in[q], "heartbeat")
<1>1. in[q] \in Seq(Kinds) /\ "heartbeat" \in Kinds
  BY DEF PeerInv, Kinds
<1>2. more \in Seq(Kinds) /\ more # <<>>
  BY <1>1
<1>3. in[q] # <<>> => Head(more) = Head(in[q])
  <2>1. in[q] # <<>> => Len(in[q]) >= 1
    BY <1>1
  <2>2. in[q] # <<>> => more[1] = in[q][1]
    BY <1>1, <2>1
  <2> QED BY <2>2 DEF Head
<1>4. in' = [in EXCEPT ![q] = more] /\ dials[q] > 0 /\ UNCHANGED <<dials, addrs, frames>>
  BY DEF PeerSends
<1> HIDE DEF more
<1> QED BY <1>2, <1>3, <1>4 DEF PeerInv

\* A hello is kept; a heartbeat comes from a peer whose hello was.
LEMMA ReadConnPeers ==
  ASSUME PeerInv, NEW q \in Peers, ReadConn(q) PROVE PeerInv'
<1> DEFINE rest == Tail(in[q])
<1>1. in[q] \in Seq(Kinds) /\ in[q] # <<>> /\ dials[q] \in Nat /\ dials[q] > 0
  BY DEF PeerInv, ReadConn
<1>2. rest \in Seq(Kinds)
  BY <1>1
<1>3. in' = [in EXCEPT ![q] = rest] /\ UNCHANGED dials
  BY DEF ReadConn
<1>4. q \in addrs' /\ addrs \subseteq addrs'
  BY <1>1 DEF ReadConn, PeerInv
<1>5. addrs' \subseteq addrs \cup {q}
  BY DEF ReadConn
<1>6. frames' \in Seq(addrs')
  <2>1. frames \in Seq(addrs')
    BY <1>4 DEF PeerInv
  <2>2. Append(frames, q) \in Seq(addrs')
    BY <2>1, <1>4
  <2> QED BY <2>1, <2>2 DEF ReadConn
<1> HIDE DEF rest
<1> QED BY <1>1, <1>2, <1>3, <1>4, <1>5, <1>6 DEF PeerInv

\* The engine takes the first frame.
LEMMA EngineRecvPeers ==
  ASSUME PeerInv, EngineRecv PROVE PeerInv' /\ Head(frames) \in addrs
<1>1. frames \in Seq(addrs) /\ frames # <<>>
  BY DEF PeerInv, EngineRecv
<1>2. Head(frames) \in addrs /\ Tail(frames) \in Seq(addrs)
  BY <1>1
<1> QED BY <1>2 DEF PeerInv, EngineRecv

-----------------------------------------------------------------------------
(* Views. *)

\* The addresses of one moment serve for the next.
LEMMA SameViews == UNCHANGED addrs => Views' = Views
  BY DEF Views

\* A view keeps its leader's address: addrs only grows.
LEMMA ViewsKept ==
  ASSUME addrs \subseteq addrs'
  PROVE  /\ topo \in Views /\ UNCHANGED topo => (topo \in Views)'
         /\ PushInv /\ UNCHANGED push => PushInv'
         /\ SubInv /\ UNCHANGED sub => SubInv'
         /\ GotInv /\ UNCHANGED got => GotInv'
<1>1. Views \subseteq Views'
  BY DEF Views
<1>2. PushInv /\ UNCHANGED push => PushInv'
  BY <1>1 DEF PushInv
<1>3. SubInv /\ UNCHANGED sub => SubInv'
  BY <1>1 DEF SubInv
<1>4. GotInv /\ UNCHANGED got => GotInv'
  BY <1>1, Zenon DEF GotInv
<1> QED BY <1>1, <1>2, <1>3, <1>4

\* Before a leader is known, there is a view that names nobody.
LEMMA NoViewIsView == NoView \in Views
  BY DEF NoView, View, Views

\* A view that is sent while its leader is known does not set noAddr.
LEMMA SendView ==
  ASSUME GotInv, NEW s \in Subscribers, NEW view \in Views, sendView(s, view), UNCHANGED addrs
  PROVE  GotInv'
<1>1. view.v \in Int /\ view.leader \in addrs \cup {Nobody}
  BY DEF Views
<1>2. got[s].newest \in Int /\ got[s].noAddr = FALSE
  BY ZenonT(60) DEF GotInv
<1> DEFINE new == [last |-> view,
                   newest |-> IF view.v > got[s].newest THEN view.v ELSE got[s].newest,
                   noAddr |-> got[s].noAddr \/ view.leader \notin addrs \cup {Nobody}]
<1>3. new \in [last : Views, newest : Int, noAddr : {FALSE}]
  <2>1. (got[s].noAddr \/ view.leader \notin addrs \cup {Nobody}) = FALSE
    BY <1>1, <1>2, ZenonT(60)
  <2> QED BY <1>1, <1>2, <2>1, ZenonT(60)
<1>4. got' = [got EXCEPT ![s] = new]
  BY DEF sendView
<1> HIDE DEF new
<1> QED BY <1>3, <1>4, SameViews, Zenon DEF GotInv

\* A published view names nobody or a known peer.
LEMMA Publish ==
  ASSUME topo \in Views, NEW leader \in addrs \cup {Nobody}, publish(leader)
  PROVE  topo' \in Views
<1>1. topo.v + 1 \in Int
  BY DEF Views
<1>2. View(topo.v + 1, leader) \in Views
  BY <1>1 DEF View, Views
<1> QED BY <1>2 DEF publish

-----------------------------------------------------------------------------
(* The invariant. *)

\* It holds at the start.
LEMMA InitInv == Init => IInv
<1> SUFFICES ASSUME Init PROVE IInv
  OBVIOUS
<1>1. PeerInv
  BY DEF Init, PeerInv
<1>2. topo \in Views /\ subs \subseteq Subscribers /\ PushInv /\ SubInv
  BY NoViewIsView DEF Init, PushInv, SubInv
<1>3. GotInv
  <2>1. -1 \in Int
    OBVIOUS
  <2> QED BY <2>1, NoViewIsView, ZenonT(60) DEF Init, GotInv
<1> QED BY <1>1, <1>2, <1>3 DEF IInv, ViewInv

\* Every step of the peers, the engine, pushLoop and the subscribers keeps it.
LEMMA NextInv == IInv /\ [Next]_vars => IInv'
<1> SUFFICES ASSUME PeerInv, ViewInv, [Next]_vars PROVE PeerInv' /\ ViewInv'
  BY DEF IInv
<1> USE DEF ViewInv
<1>0. ASSUME UNCHANGED <<in, dials, addrs, frames>> PROVE PeerInv'
  BY <1>0 DEF PeerInv
<1>1. ASSUME NEW q \in Peers, PeerConnect(q) PROVE PeerInv' /\ ViewInv'
  BY <1>1, PeerConnectPeers, ViewsKept, Zenon DEF PeerConnect
<1>2. ASSUME NEW q \in Peers, PeerSends(q) PROVE PeerInv' /\ ViewInv'
  BY <1>2, PeerSendsPeers, ViewsKept, Zenon DEF PeerSends
<1>3. ASSUME NEW q \in Peers, ReadConn(q) PROVE PeerInv' /\ ViewInv'
  <2>1. addrs \subseteq addrs' /\ UNCHANGED <<topo, push, sub, subs, got>>
    BY <1>3 DEF ReadConn
  <2> QED BY <1>3, <2>1, ReadConnPeers, ViewsKept
<1>4. CASE EngineRecv
  <2>1. topo' \in Views' /\ UNCHANGED <<addrs, push, sub, subs, got>>
    BY <1>4, EngineRecvPeers, Publish, SameViews DEF EngineRecv
  <2> QED BY <1>4, <2>1, EngineRecvPeers, ViewsKept
<1>5. CASE EngineTick
  <2>1. topo' \in Views' /\ UNCHANGED <<addrs, push, sub, subs, got>>
    BY <1>5, Publish, SameViews DEF EngineTick
  <2> QED BY <1>0, <1>5, <2>1, ViewsKept DEF EngineTick
<1>6. CASE Watch
  <2>1. PushInv'
    BY <1>6, SameViews DEF Watch, PushInv
  <2>2. UNCHANGED <<in, dials, addrs, frames, topo, sub, subs, got>>
    BY <1>6 DEF Watch
  <2> QED BY <1>0, <2>1, <2>2, ViewsKept
<1>7. CASE Wake
  <2>1. PushInv'
    BY <1>7, SameViews, Zenon DEF Wake, PushInv
  <2>2. UNCHANGED <<in, dials, addrs, frames, topo, sub, subs, got>>
    BY <1>7 DEF Wake
  <2> QED BY <1>0, <2>1, <2>2, ViewsKept
<1>8. CASE PushRead
  <2>1. PushInv'
    BY <1>8, SameViews, NoViewIsView, Zenon DEF PushRead, PushInv
  <2>2. UNCHANGED <<in, dials, addrs, frames, topo, sub, subs, got>>
    BY <1>8 DEF PushRead
  <2> QED BY <1>0, <2>1, <2>2, ViewsKept
<1>9. ASSUME NEW s \in Subscribers, PushSend(s) PROVE PeerInv' /\ ViewInv'
  <2>1. push.read \in Views /\ PushInv'
    BY <1>9, SameViews, Zenon DEF PushSend, PushInv
  <2>2. GotInv'
    BY <1>9, <2>1, SendView DEF PushSend
  <2> QED BY <1>0, <1>9, <2>1, <2>2, ViewsKept DEF PushSend
<1>10. ASSUME NEW s \in Subscribers, Subscribe(s) PROVE PeerInv' /\ ViewInv'
  <2>1. SubInv'
    BY <1>10, SameViews DEF Subscribe, SubInv
  <2> QED BY <1>0, <1>10, <2>1, ViewsKept DEF Subscribe
<1>11. ASSUME NEW s \in Subscribers, SubscriberRead(s) PROVE PeerInv' /\ ViewInv'
  <2>1. SubInv'
    BY <1>11, SameViews DEF SubscriberRead, SubInv
  <2> QED BY <1>0, <1>11, <2>1, ViewsKept DEF SubscriberRead
<1>12. ASSUME NEW s \in Subscribers, SubscriberSend(s) PROVE PeerInv' /\ ViewInv'
  <2>1. sub[s].read \in Views /\ SubInv'
    BY <1>12, NoViewIsView, SameViews DEF SubscriberSend, SubInv
  <2>2. GotInv'
    BY <1>12, <2>1, SendView DEF SubscriberSend
  <2> QED BY <1>0, <1>12, <2>1, <2>2, ViewsKept DEF SubscriberSend
<1>13. ASSUME NEW s \in Subscribers, Unsubscribe(s) PROVE PeerInv' /\ ViewInv'
  <2>1. SubInv'
    BY <1>13, SameViews DEF Unsubscribe, SubInv
  <2> QED BY <1>0, <1>13, <2>1, ViewsKept DEF Unsubscribe
<1>14. CASE UNCHANGED vars
  BY <1>0, <1>14, ViewsKept DEF vars
<1> QED BY <1>1, <1>2, <1>3, <1>4, <1>5, <1>6, <1>7, <1>8, <1>9, <1>10, <1>11, <1>12,
           <1>13, <1>14 DEF Next

\* A node pushes no view whose leader's client address it does not know, because
\* hello is the first frame of a peer's connection (peerSender, readConn, pushOne).
THEOREM LeaderAddressKnown == Spec => []LeaderHasAddress
<1>1. IInv => LeaderHasAddress
  BY ZenonT(60) DEF IInv, ViewInv, GotInv, LeaderHasAddress
<1> QED BY InitInv, NextInv, <1>1, PTL DEF Spec
=============================================================================
