------------------------------ MODULE MCCluster ------------------------------
(* Small instances of Cluster for TLC. *)
EXTENDS Cluster

AllLinks == Members \X Members

\* Members 1 and 2 both reach member 3 and not each other.
Split == {x \in Members \X Members : 3 \in {x[1], x[2]}}
\* Member 1 reaches member 2, and nothing of member 2 reaches member 1.
OneWay == Split \cup {<<1, 2>>}

\* Every member draws the same bid; or member 1 draws a higher one.
EqualDraws == [p \in Members |-> {1}]
FirstHigher == [p \in Members |-> IF p = 1 THEN {2} ELSE {1}]

\* Member 3 takes part in no round: its timer is slow and the bids it is sent are lost.
TwoStand == [p \in Members |-> IF p = 3 THEN {} ELSE {3 - p}]

\* One course of events, to keep the search of Cluster_epochs.cfg short: member 1 leads
\* in the first epoch until both writes are made and never learns of the second, and no
\* timer of the leader's engine or of a follower's acknowledgements runs out.
FirstLeadsThenIsAlone ==
  /\ net' # net \/ rounds' # rounds \/ writes' # writes
  /\ engine' # engine => member' # member
  /\ member'[1].n.epoch <= 1
  /\ writes < MaxWrites => \A r \in rounds' : r.epoch = 1 /\ r.from = 1
==============================================================================
