----------------------------- MODULE MCElection -----------------------------
(* Small instances of Election for TLC. *)
EXTENDS Election

At(tag, lsn) == [lastEpoch |-> tag, lsn |-> lsn]

\* All members at the start of history, or some of them ahead.
FreshPositions == {At(0, 0)}
MixedPositions == {At(0, 0), At(HistoryTag(1, 1), 1)}

\* Everything arrives, or everything but the acknowledgements, which no node's
\* part in an election depends on.
AllLinks == Members \X Members \X {"bid", "heartbeat", "ack"}
NoAcks == Members \X Members \X {"bid", "heartbeat"}
=============================================================================
