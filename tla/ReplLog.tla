------------------------------ MODULE ReplLog ------------------------------
(***************************************************************************)
(* The index of the replication log (filestore/repllog.go): which LSNs the *)
(* log holds and what it knows of their epochs.  A log is the record of    *)
(* the fields of the Go type that decide this:                             *)
(*   last       lastLSN                                                    *)
(*   firstSeg   first LSN of the oldest segment                            *)
(*   epochs     the epoch index, entries [first, ep]                       *)
(*   baseLSN, baseEp   the position before the first batch                 *)
(* "Epoch" is the code's word for the history tag of a batch.              *)
(***************************************************************************)
EXTENDS Integers, Sequences, FiniteSetsExt

Unknown == -1

EmptyLog == [last |-> 0, firstSeg |-> 1, epochs |-> <<>>, baseLSN |-> 0,
             baseEp |-> 0]

firstLSN(l) == IF l.firstSeg = 0 \/ l.firstSeg > l.last THEN l.last + 1 ELSE l.firstSeg

\* The epoch of the last index entry before the first one that starts above lsn;
\* 0 when there is none.
indexedEpoch(epochs, lsn) ==
  LET above == {i \in 1 .. Len(epochs) : epochs[i].first > lsn}
      k == IF above = {} THEN Len(epochs) ELSE Min(above) - 1
  IN  IF k = 0 THEN 0 ELSE epochs[k].ep

epochAt(l, lsn) ==
  CASE lsn = 0 -> 0
    [] lsn > 0 /\ lsn = l.baseLSN -> l.baseEp
    [] lsn > 0 /\ (lsn < l.baseLSN \/ lsn > l.last \/ lsn < firstLSN(l)) -> Unknown
    [] OTHER -> indexedEpoch(l.epochs, lsn)

LastEpoch(l) == LET e == epochAt(l, l.last) IN IF e = Unknown THEN 0 ELSE e

\* Append gives the index an entry only when the epoch changes.
appendEpoch(l, lsn, ep) ==
  IF ep = LastEpoch(l) THEN l
  ELSE [l EXCEPT !.epochs = Append(@, [first |-> lsn, ep |-> ep])]

\* Reset: the log is empty and continues after the position (ep, next - 1).
resetLog(next, ep) ==
  [last |-> next - 1, firstSeg |-> next, epochs |-> <<>>, baseLSN |-> next - 1,
   baseEp |-> ep]
=============================================================================
