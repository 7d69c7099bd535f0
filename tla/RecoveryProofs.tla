--------------------------- MODULE RecoveryProofs ---------------------------
(***************************************************************************)
(* Proofs about module Recovery, for any tags, bounds, segment size and    *)
(* number of crashes: what a member that runs knows of its data            *)
(* (PositionIsData, LogIsData, EpochNeverForeign), and that an upgrade is  *)
(* complete before it runs (UpgradeIsComplete).                            *)
(***************************************************************************)
EXTENDS Recovery, TLAPS

\* Two facts of the library, which the lemmas take as hypotheses; they are proved at
\* the end.
LeastElements == \A S \in SUBSET Nat : S # {} => \E m \in S : \A s \in S : m <= s

FiniteSubsets ==
  /\ Cardinality({}) = 0 /\ \A x : Cardinality({x}) = 1
  /\ \A S : IsFiniteSet(S) =>
       /\ Cardinality(S) \in Nat
       /\ \A T \in SUBSET S : /\ IsFiniteSet(T) /\ Cardinality(T) <= Cardinality(S)
                              /\ Cardinality(T) = Cardinality(S) => T = S

\* A history: tags never decrease along it.
Histories == {d \in Seq(Tags) : \A i, j \in 1 .. Len(d) : i < j => d[i] <= d[j]}

Lines == [first : Nat \ {0}, ep : Tags]

\* The index file belongs to the history h of the log: its base is a position of h,
\* and where a line covers a batch of h, it has that batch's tag.
IndexInv(h) ==
  /\ index \in [base : [lastEpoch : Nat, lsn : Nat], lines : Seq(Lines)]
  /\ index.base.lsn <= Len(h)
  /\ index.base.lastEpoch = IF index.base.lsn = 0 THEN 0 ELSE h[index.base.lsn]
  /\ \A i \in 1 .. Len(index.lines) : index.lines[i].first > index.base.lsn
  /\ \A lsn \in index.base.lsn + 1 .. Len(h) :
       indexedEpoch(index.lines, lsn) \in {0, h[lsn]}

\* The first LSN after segment s of the files g.
end(g, s) == s + Len(g[s])

\* The complete frames g of the segments are the batches of h from some LSN on.
SegInv(g, h) ==
  /\ g \in [DOMAIN g -> Seq([lsn : Nat, tag : Tags, torn : BOOLEAN])]
  /\ DOMAIN g \subseteq Nat
  /\ \A s \in DOMAIN g :
       /\ s > index.base.lsn
       /\ end(g, s) <= Len(h) + 1
       /\ \A i \in 1 .. Len(g[s]) : g[s][i] = Frame([lsn |-> s + i - 1, tag |-> h[s + i - 1]])
       /\ \A t \in DOMAIN g : s < t => end(g, s) <= t
       /\ \A lsn \in s .. Len(h) : \E t \in DOMAIN g : t <= lsn /\ lsn < end(g, t)
  /\ DOMAIN g = {} => Len(h) = index.base.lsn
  /\ DOMAIN g # {} => \E m \in DOMAIN g : end(g, m) = Len(h) + 1 /\ \A s \in DOMAIN g : s <= m

LinesBelow(n) == \A i \in 1 .. Len(index.lines) : index.lines[i].first <= n

\* The log is behind the data, or it has the same history and a clean index.
Behind(h) == older(stored(h), stored(data)) \/ (h = data /\ LinesBelow(Len(h)))

\* The files as they are: a killed process may have left a torn frame at the end.
Files(g) ==
  \/ segs = g
  \/ /\ pc = Down
     /\ DOMAIN g # {}
     /\ \E f \in [lsn : Nat, tag : Tags, torn : {TRUE}] :
          segs = [g EXCEPT ![Max(DOMAIN g)] = Append(@, f)]

\* The log in memory.
logOf(h) ==
  [last |-> Len(h), firstSeg |-> Min(DOMAIN segs), epochs |-> index.lines,
   baseLSN |-> index.base.lsn, baseEp |-> index.base.lastEpoch]

Serving(h) ==
  /\ DOMAIN segs # {}
  /\ log = logOf(h)
  /\ pos = stored(h)

IdleInv(h) == h = data /\ LinesBelow(Len(h)) /\ Serving(h)

\* A batch is in the database and not yet in the log.
WriteInv(h) ==
  /\ \E tag \in Tags :
       /\ data = Append(h, tag)
       /\ pc.batch = [lsn |-> Len(h) + 1, tag |-> tag]
       /\ pc.op = "frame" => indexedEpoch(index.lines, Len(h) + 1) \in {0, tag}
  /\ pc.op \in {"roll", "index"} => LinesBelow(Len(h))
  /\ pc.op = "frame" => LinesBelow(Len(h) + 1)
  /\ Serving(h)

ResetInv(h) ==
  /\ pc.pos = stored(data)
  /\ pc.op = "rename" => DOMAIN segs = {}
  /\ pc.op = "open" => h = data /\ index = [base |-> stored(data), lines |-> <<>>]
                         /\ DOMAIN segs = {}

Batches == [lsn : Nat, tag : Tags]
PcType ==
  \/ pc \in {Idle, Down, Held}
  \/ pc \in [op : {"roll", "index", "frame"}, batch : Batches]
  \/ pc \in [op : {"remove", "rename", "open"}, pos : [lastEpoch : Nat, lsn : Nat]]

PcInv(h) ==
  /\ pc = Idle => IdleInv(h)
  /\ pc = Held => data = <<>> /\ pos = NoPos
  /\ pc.op \in {"roll", "index", "frame"} => WriteInv(h)
  /\ pc.op \in {"remove", "rename", "open"} => ResetInv(h)

\* The log on disk, with its history h and its complete frames g.
DiskInv(h, g) == IndexInv(h) /\ SegInv(g, h) /\ Behind(h) /\ Files(g) /\ PcInv(h)

LogInv ==
  /\ data \in Histories
  /\ PcType
  /\ \E h \in Histories : \E g : DiskInv(h, g)

-----------------------------------------------------------------------------
(* Numbers, histories and positions. *)

LEMMA MaxIs ==
  ASSUME NEW S, S \subseteq Int, NEW m \in S, \A s \in S : s <= m PROVE Max(S) = m
<1>1. \A y \in S : m >= y
  BY Zenon
<1>2. Max(S) \in S /\ \A y \in S : Max(S) >= y
  BY <1>1, Zenon DEF Max
<1>3. Max(S) \in Int /\ m \in Int /\ Max(S) >= m /\ Max(S) <= m
  BY <1>2, Zenon
<1> QED
  BY <1>3

LEMMA MinIs ==
  ASSUME NEW S, S \subseteq Int, NEW m \in S, \A s \in S : m <= s PROVE Min(S) = m
<1>1. Min(S) \in S /\ \A y \in S : Min(S) <= y
  BY Zenon DEF Min
<1>2. Min(S) \in Int /\ m \in Int /\ Min(S) <= m /\ m <= Min(S)
  BY <1>1, Zenon
<1> QED
  BY <1>2

LEMMA MinExists ==
  ASSUME LeastElements, NEW S, S \subseteq Nat, S # {}
  PROVE  Min(S) \in S /\ \A s \in S : Min(S) <= s
<1>1. PICK m \in S : \A s \in S : m <= s
  BY Zenon DEF LeastElements
<1> QED
  BY <1>1, Zenon DEF Min

Pos == [lastEpoch : Nat, lsn : Nat]

LEMMA TagsAreNat == Tags \subseteq Nat /\ \A t \in Tags : t > 0
<1>1. Tags \subseteq Nat \ {0}
  BY RecoveryAssumption, Zenon
<1> QED
  BY <1>1

\* Positions are ordered.
LEMMA OlderOrder ==
  ASSUME NEW a \in Pos, NEW b \in Pos, NEW c \in Pos
  PROVE  /\ ~older(a, a)
         /\ older(a, b) \/ older(b, a) \/ a = b
         /\ older(a, b) /\ older(b, c) => older(a, c)
BY DEF Pos, older

LEMMA HistoryElements ==
  ASSUME NEW d \in Histories
  PROVE  /\ d \in Seq(Tags) /\ Len(d) \in Nat
         /\ \A i \in 1 .. Len(d) : d[i] \in Tags /\ d[i] \in Nat /\ d[i] > 0
         /\ \A i, j \in 1 .. Len(d) : i < j => d[i] <= d[j]
<1>1. d \in Seq(Tags) /\ \A i, j \in 1 .. Len(d) : i < j => d[i] <= d[j]
  BY Zenon DEF Histories
<1>2. Len(d) \in Nat /\ \A i \in 1 .. Len(d) : d[i] \in Tags
  BY <1>1
<1> QED
  BY <1>1, <1>2, TagsAreNat, Zenon

LEMMA StoredPosition ==
  ASSUME NEW d \in Histories
  PROVE  /\ stored(d) \in Pos /\ stored(d).lsn = Len(d)
         /\ stored(d).lastEpoch = IF Len(d) = 0 THEN 0 ELSE d[Len(d)]
         /\ Len(d) = 0 <=> d = <<>>
<1>1. d \in Seq(Tags) /\ Len(d) \in Nat /\ \A i \in 1 .. Len(d) : d[i] \in Nat
  BY HistoryElements, Zenon
<1>2. Len(d) = 0 <=> d = <<>>
  BY <1>1
<1>3. CASE d = <<>>
  <2>1. stored(d) = NoPos
    BY <1>3, Zenon DEF stored
  <2> QED
    BY <1>2, <1>3, <2>1 DEF NoPos, Pos
<1>4. CASE d # <<>>
  <2>1. stored(d) = [lastEpoch |-> d[Len(d)], lsn |-> Len(d)]
    BY <1>4, Zenon DEF stored
  <2>2. d[Len(d)] \in Nat
    BY <1>1, <1>2, <1>4
  <2> QED
    BY <1>1, <1>2, <1>4, <2>1, <2>2 DEF Pos
<1> QED
  BY <1>3, <1>4, Zenon

\* A history and its shorter prefixes.
LEMMA PrefixHistory ==
  ASSUME NEW h \in Histories, NEW k \in 0 .. Len(h)
  PROVE  LET p == SubSeq(h, 1, k)
         IN  /\ p \in Histories /\ Len(p) = k /\ \A i \in 1 .. k : p[i] = h[i]
             /\ k < Len(h) => older(stored(p), stored(h))
<1> DEFINE p == SubSeq(h, 1, k)
<1>1. /\ h \in Seq(Tags) /\ Len(h) \in Nat /\ \A i \in 1 .. Len(h) : h[i] \in Nat
      /\ \A i, j \in 1 .. Len(h) : i < j => h[i] <= h[j]
  BY HistoryElements, Zenon
<1>2. k \in Nat /\ k <= Len(h) /\ 1 .. k \subseteq 1 .. Len(h)
  BY <1>1
<1>3. p \in Seq(Tags) /\ Len(p) = k /\ \A i \in 1 .. k : p[i] = h[i]
  BY <1>1, <1>2
<1> HIDE DEF p
<1>4. \A i, j \in 1 .. Len(p) : i < j => p[i] <= p[j]
  BY <1>1, <1>2, <1>3, Zenon
<1>5. p \in Histories
  BY <1>3, <1>4, Zenon DEF Histories
<1>6. ASSUME k < Len(h) PROVE older(stored(p), stored(h))
  <2>1. /\ stored(p).lsn = k /\ stored(p).lastEpoch = IF k = 0 THEN 0 ELSE p[k]
        /\ stored(h).lsn = Len(h)
        /\ stored(h).lastEpoch = IF Len(h) = 0 THEN 0 ELSE h[Len(h)]
    BY <1>3, <1>5, StoredPosition, Zenon
  <2>2. Len(h) # 0 /\ Len(h) \in 1 .. Len(h) /\ h[Len(h)] \in Nat
    BY <1>1, <1>2, <1>6
  <2>3. stored(h).lastEpoch = h[Len(h)]
    BY <2>1, <2>2, Zenon
  <2>4. stored(p).lastEpoch \in Nat /\ stored(p).lastEpoch <= h[Len(h)]
    <3>1. CASE k = 0
      BY <2>1, <2>2, <3>1
    <3>2. CASE k # 0
      <4>1. k \in 1 .. k /\ k \in 1 .. Len(h)
        BY <1>2, <3>2
      <4>2. p[k] = h[k] /\ h[k] \in Nat /\ h[k] <= h[Len(h)]
        BY <1>1, <1>3, <1>6, <2>2, <4>1, Zenon
      <4> QED
        BY <2>1, <3>2, <4>2, Zenon
    <3> QED
      BY <3>1, <3>2, Zenon
  <2> QED
    BY <1>1, <1>2, <1>6, <2>1, <2>2, <2>3, <2>4 DEF older
<1> QED
  BY <1>3, <1>5, <1>6, Zenon DEF p

LEMMA AppendHistory ==
  ASSUME NEW h \in Histories, NEW tag \in Tags, tag >= stored(h).lastEpoch
  PROVE  LET d == Append(h, tag)
         IN  /\ d \in Histories /\ Len(d) = Len(h) + 1 /\ d[Len(h) + 1] = tag
             /\ \A i \in 1 .. Len(h) : d[i] = h[i]
             /\ older(stored(h), stored(d))
<1> DEFINE d == Append(h, tag)
<1>1. /\ h \in Seq(Tags) /\ Len(h) \in Nat /\ \A i \in 1 .. Len(h) : h[i] \in Nat
      /\ \A i, j \in 1 .. Len(h) : i < j => h[i] <= h[j]
  BY HistoryElements, Zenon
<1>2. /\ d \in Seq(Tags) /\ Len(d) = Len(h) + 1 /\ d[Len(h) + 1] = tag
      /\ \A i \in 1 .. Len(h) : d[i] = h[i]
  BY <1>1
<1>3. /\ stored(h).lsn = Len(h)
      /\ stored(h).lastEpoch = IF Len(h) = 0 THEN 0 ELSE h[Len(h)]
  BY StoredPosition, Zenon
<1>4. tag \in Nat
  BY TagsAreNat, Zenon
<1>5. ASSUME NEW i \in 1 .. Len(h) PROVE h[i] <= tag
  <2>1. Len(h) \in 1 .. Len(h) /\ Len(h) # 0 /\ (i < Len(h) \/ i = Len(h))
    BY <1>1
  <2>2. h[i] <= h[Len(h)] \/ h[i] = h[Len(h)]
    BY <1>1, <2>1, Zenon
  <2>3. h[Len(h)] <= tag
    BY <1>1, <1>3, <1>4, <2>1, Zenon
  <2> QED
    BY <1>1, <1>4, <2>1, <2>2, <2>3
<1> HIDE DEF d
<1>6. ASSUME NEW i \in 1 .. Len(d), NEW j \in 1 .. Len(d), i < j PROVE d[i] <= d[j]
  <2>1. i \in 1 .. Len(h) /\ (j \in 1 .. Len(h) \/ j = Len(h) + 1)
    BY <1>1, <1>2, <1>6
  <2> QED
    BY <1>1, <1>2, <1>5, <1>6, <2>1, Zenon
<1>7. d \in Histories
  BY <1>2, <1>6, Zenon DEF Histories
<1>8. stored(d).lsn = Len(h) + 1 /\ stored(d).lastEpoch = tag
  <2>1. stored(d).lsn = Len(d) /\ stored(d).lastEpoch = IF Len(d) = 0 THEN 0 ELSE d[Len(d)]
    BY <1>7, StoredPosition, Zenon
  <2>2. Len(d) # 0
    BY <1>1, <1>2
  <2> QED
    BY <1>2, <2>1, <2>2, Zenon
<1>9. older(stored(h), stored(d))
  <2>1. stored(h) \in Pos
    BY StoredPosition, Zenon
  <2> QED
    BY <1>1, <1>3, <1>4, <1>8, <2>1 DEF older, Pos
<1> QED
  BY <1>2, <1>7, <1>9, Zenon DEF d

-----------------------------------------------------------------------------
(* The epoch index. *)

\* A line that starts above an LSN does not change what the index has for it.
LEMMA IndexedAbove ==
  ASSUME LeastElements, NEW lines \in Seq(Lines), NEW x \in Lines, NEW lsn \in Nat, x.first > lsn
  PROVE  indexedEpoch(Append(lines, x), lsn) = indexedEpoch(lines, lsn)
<1> DEFINE more == Append(lines, x)
           n == Len(lines)
           above == {i \in 1 .. n : lines[i].first > lsn}
           above1 == {i \in 1 .. Len(more) : more[i].first > lsn}
           k == IF above = {} THEN n ELSE Min(above) - 1
           k1 == IF above1 = {} THEN Len(more) ELSE Min(above1) - 1
<1>1. n \in Nat /\ Len(more) = n + 1 /\ more[n + 1] = x /\ \A i \in 1 .. n : more[i] = lines[i]
  OBVIOUS
<1>2. above1 = above \cup {n + 1}
  <2>1. \A i : i \in 1 .. n + 1 <=> i \in 1 .. n \/ i = n + 1
    BY <1>1
  <2> QED
    BY <1>1, <2>1, Zenon
<1>3. above \subseteq 1 .. n /\ above \subseteq Nat /\ above1 \subseteq Int
  BY <1>1, <1>2
<1>4. k1 = k /\ k \in 0 .. n
  <2>1. CASE above = {}
    <3>1. Min(above1) = n + 1
      <4>1. above1 = {n + 1}
        BY <1>2, <2>1, Zenon
      <4>2. \A s \in above1 : n + 1 <= s
        BY <1>1, <4>1
      <4> HIDE DEF above1
      <4> QED
        BY <1>3, <4>1, <4>2, MinIs, Zenon
    <3> HIDE DEF above, above1
    <3> QED
      BY <1>1, <1>2, <2>1, <3>1
  <2>2. CASE above # {}
    <3> HIDE DEF above, above1
    <3>1. Min(above) \in above /\ \A s \in above : Min(above) <= s
      BY <1>3, <2>2, MinExists, Zenon
    <3>2. \A s \in above1 : Min(above) <= s
      BY <1>1, <1>2, <1>3, <3>1
    <3>3. Min(above1) = Min(above)
      BY <1>2, <1>3, <3>1, <3>2, MinIs, Zenon
    <3> QED
      BY <1>1, <1>2, <1>3, <2>2, <3>1, <3>3
  <2> QED
    BY <2>1, <2>2, Zenon
<1>5. indexedEpoch(lines, lsn) = IF k = 0 THEN 0 ELSE lines[k].ep
  BY Zenon DEF indexedEpoch
<1>6. indexedEpoch(more, lsn) = IF k1 = 0 THEN 0 ELSE more[k1].ep
  BY Zenon DEF indexedEpoch
<1> HIDE DEF k, k1, more
<1>7. k # 0 => more[k] = lines[k]
  BY <1>1, <1>4
<1>8. indexedEpoch(more, lsn) = indexedEpoch(lines, lsn)
  <2>1. CASE k = 0
    BY <1>4, <1>5, <1>6, <2>1, Zenon
  <2>2. CASE k # 0
    BY <1>4, <1>5, <1>6, <1>7, <2>2, Zenon
  <2> QED
    BY <2>1, <2>2, Zenon
<1> QED
  BY <1>8, Zenon DEF more

LEMMA LineNumbers ==
  ASSUME NEW lines \in Seq(Lines) PROVE \A i \in 1 .. Len(lines) : lines[i].first \in Nat
<1>1. \A i \in 1 .. Len(lines) : lines[i] \in Lines
  OBVIOUS
<1> QED
  BY <1>1, Zenon DEF Lines

\* When no line starts above an LSN, the index has the last one for it.
LEMMA IndexedLast ==
  ASSUME NEW lines \in Seq(Lines), NEW lsn \in Nat,
         \A i \in 1 .. Len(lines) : lines[i].first <= lsn
  PROVE  indexedEpoch(lines, lsn) = IF Len(lines) = 0 THEN 0 ELSE lines[Len(lines)].ep
<1> DEFINE above == {i \in 1 .. Len(lines) : lines[i].first > lsn}
<1>1. \A i \in 1 .. Len(lines) : lines[i].first \in Nat
  BY LineNumbers, Zenon
<1>2. above = {}
  BY <1>1
<1> QED
  BY <1>2, Zenon DEF indexedEpoch

\* What a log that ends at Len(h) gives for the epoch of its last batch.
LEMMA LastEpochOfLog ==
  ASSUME NEW h \in Histories, IndexInv(h), NEW l, l.last = Len(h), l.epochs = index.lines,
         l.baseLSN = index.base.lsn, l.baseEp = index.base.lastEpoch, l.firstSeg \in Nat
  PROVE  LastEpoch(l) \in {0, stored(h).lastEpoch}
<1> DEFINE n == Len(h)
           b == index.base.lsn
<1>1. n \in Nat /\ b \in Nat /\ b <= n
  <2>1. index \in [base : [lastEpoch : Nat, lsn : Nat], lines : Seq(Lines)] /\ b <= n
    BY Zenon DEF IndexInv
  <2>2. b \in Nat
    BY <2>1, Zenon
  <2> QED
    BY <2>1, <2>2, HistoryElements, Zenon
<1>2. stored(h).lastEpoch = IF n = 0 THEN 0 ELSE h[n]
  BY StoredPosition, Zenon
<1>3. l.baseEp = IF b = 0 THEN 0 ELSE h[b]
  BY Zenon DEF IndexInv
<1>4. b < n => indexedEpoch(l.epochs, n) \in {0, h[n]}
  <2>1. b < n => n \in b + 1 .. n
    BY <1>1
  <2> QED
    BY <2>1, Zenon DEF IndexInv
<1>5. firstLSN(l) \in Nat
  BY <1>1 DEF firstLSN
<1>6. epochAt(l, n) \in {Unknown, 0, stored(h).lastEpoch}
  <2>1. CASE n = 0
    BY <1>1, <2>1 DEF epochAt
  <2>2. CASE n > 0 /\ n = b
    BY <1>1, <1>2, <1>3, <2>2, Zenon DEF epochAt
  <2>3. CASE n > 0 /\ n # b /\ n < firstLSN(l)
    BY <1>1, <1>5, <2>3, Zenon DEF epochAt
  <2>4. CASE n > 0 /\ n # b /\ ~(n < firstLSN(l))
    <3>1. b < n /\ n # 0
      BY <1>1, <2>4
    <3>2. epochAt(l, n) = indexedEpoch(l.epochs, n)
      BY <1>1, <1>5, <2>4 DEF epochAt
    <3> QED
      BY <1>2, <1>4, <3>1, <3>2, Zenon
  <2> QED
    BY <1>1, <2>1, <2>2, <2>3, <2>4
<1> QED
  BY <1>6, Zenon DEF LastEpoch

-----------------------------------------------------------------------------
(* The process counter. *)

LEMMA PcFacts ==
  ASSUME PcType
  PROVE  /\ pc = Idle <=> pc.op = "idle"
         /\ pc = Down <=> pc.op = "down"
         /\ pc = Held <=> pc.op = "held"
         /\ pc.op \in {"roll", "index", "frame"} =>
              pc \in [op : {"roll", "index", "frame"}, batch : Batches]
         /\ pc.op \in {"remove", "rename", "open"} =>
              pc \in [op : {"remove", "rename", "open"}, pos : Pos]
BY DEF PcType, Idle, Down, Held, Pos

\* What PcInv says after a step, for each thing the process may then do.
LEMMA PcNextSimple ==
  ASSUME NEW h
  PROVE  /\ pc' = Idle /\ IdleInv(h)' => PcType' /\ PcInv(h)'
         /\ pc' = Down => PcType' /\ PcInv(h)'
         /\ pc' = Held /\ data' = <<>> /\ pos' = NoPos => PcType' /\ PcInv(h)'
<1>1. /\ pc' = Idle => pc'.op = "idle"
      /\ pc' = Down => pc'.op = "down"
      /\ pc' = Held => pc'.op = "held"
  BY DEF Idle, Down, Held
<1>2. Idle # Held /\ Idle # Down /\ Down # Held
  BY Zenon DEF Idle, Down, Held
<1> QED
  BY <1>1, <1>2, Zenon DEF PcInv, PcType

LEMMA PcNextWrite ==
  ASSUME NEW h, NEW op \in {"roll", "index", "frame"}, NEW b \in Batches,
         pc' = [op |-> op, batch |-> b], WriteInv(h)'
  PROVE  PcType' /\ PcInv(h)'
<1>1. /\ pc'.op = op /\ pc' # Idle /\ pc' # Held
      /\ pc' \in [op : {"roll", "index", "frame"}, batch : Batches]
  BY Zenon DEF Idle, Held
<1> QED
  BY <1>1, Zenon DEF PcInv, PcType

LEMMA PcNextReset ==
  ASSUME NEW h, NEW op \in {"remove", "rename", "open"}, NEW p \in Pos,
         pc' = [op |-> op, pos |-> p], ResetInv(h)'
  PROVE  PcType' /\ PcInv(h)'
<1>1. /\ pc'.op = op /\ pc' # Idle /\ pc' # Held
      /\ pc' \in [op : {"remove", "rename", "open"}, pos : Pos]
  BY Zenon DEF Idle, Held
<1> QED
  BY <1>1, Zenon DEF PcInv, PcType, Pos

\* Only a process that is down may have left a torn frame.
LEMMA FilesAreClean ==
  ASSUME NEW g, Files(g), pc # Down PROVE segs = g
BY Zenon DEF Files

-----------------------------------------------------------------------------
(* Writes. *)

\* The invariants of the files survive a step that leaves the files alone.
LEMMA FilesKept ==
  ASSUME NEW h, NEW g, IndexInv(h), SegInv(g, h), UNCHANGED index
  PROVE  IndexInv(h)' /\ SegInv(g, h)'
BY Zenon DEF IndexInv, SegInv

LEMMA CommitLog ==
  ASSUME data \in Histories, PcType, NEW h \in Histories, NEW g, DiskInv(h, g),
         NEW tag \in Tags, Commit(tag)
  PROVE  LogInv'
<1>1. /\ pc = Idle /\ tag >= pos.lastEpoch /\ data' = Append(data, tag)
      /\ pc' = [op |-> "roll", batch |-> [lsn |-> pos.lsn + 1, tag |-> tag]]
      /\ UNCHANGED <<segs, index, log, pos>>
  BY Zenon DEF Commit, Writing
<1>2. h = data /\ LinesBelow(Len(h)) /\ Serving(h) /\ IndexInv(h) /\ SegInv(g, h) /\ Files(g)
  BY <1>1, Zenon DEF DiskInv, PcInv, IdleInv
<1>3. segs = g
  BY <1>1, <1>2, FilesAreClean, Zenon DEF Idle, Down
<1>4. pos = stored(h)
  BY <1>2, Zenon DEF Serving
<1>5. data' \in Histories /\ older(stored(h), stored(data'))
  BY <1>1, <1>2, <1>4, AppendHistory, Zenon
<1>6. pos.lsn = Len(h) /\ [lsn |-> Len(h) + 1, tag |-> tag] \in Batches
  BY <1>4, StoredPosition, HistoryElements DEF Batches
<1>7. IndexInv(h)' /\ SegInv(g, h)'
  BY <1>1, <1>2, FilesKept, Zenon
<1>8. Behind(h)' /\ Files(g)'
  BY <1>1, <1>3, <1>5, Zenon DEF Behind, Files
<1>9. WriteInv(h)'
  <2>1. /\ pc'.op = "roll" /\ pc'.batch = [lsn |-> Len(h) + 1, tag |-> tag]
    BY <1>1, <1>6, Zenon
  <2>2. data' = Append(h, tag) /\ LinesBelow(Len(h))' /\ Serving(h)'
    BY <1>1, <1>2, Zenon DEF LinesBelow, Serving, logOf
  <2> QED
    BY <2>1, <2>2, Zenon DEF WriteInv
<1>10. PcType' /\ PcInv(h)'
  BY <1>1, <1>6, <1>9, PcNextWrite, Zenon
<1> QED
  BY <1>5, <1>7, <1>8, <1>10, Zenon DEF LogInv, DiskInv

\* The log restarts after the batch.
LEMMA AppendFailsLog ==
  ASSUME data \in Histories, PcType, NEW h \in Histories, NEW g, DiskInv(h, g), AppendFails
  PROVE  LogInv'
<1>1. /\ pc.op \in {"roll", "index", "frame"} /\ UNCHANGED <<data, segs, index>>
      /\ pc' = [op |-> "remove", pos |-> stored(data)]
  BY Zenon DEF AppendFails, Resetting
<1>2. pc # Down
  BY <1>1 DEF Down
<1>3. segs = g
  BY <1>2, FilesAreClean, Zenon DEF DiskInv
<1>4. IndexInv(h)' /\ SegInv(g, h)' /\ Behind(h)' /\ Files(g)'
  BY <1>1, <1>3, FilesKept, Zenon DEF DiskInv, Behind, Files, LinesBelow
<1>5. pc'.op = "remove" /\ pc'.pos = stored(data)
  BY <1>1, Zenon
<1>6. ResetInv(h)'
  BY <1>1, <1>5, Zenon DEF ResetInv
<1>7. PcType' /\ PcInv(h)'
  BY <1>1, <1>6, PcNextReset, StoredPosition, Zenon
<1> QED
  BY <1>1, <1>4, <1>7, Zenon DEF LogInv, DiskInv

\* A full segment is followed by an empty one, which changes nothing of the log.
LEMMA RollSegments ==
  ASSUME LeastElements, NEW h \in Histories, NEW g, SegInv(g, h), DOMAIN g # {},
         index.base.lsn \in Nat,
         index.base.lsn <= Len(h), NEW f, Len(g[Max(DOMAIN g)]) > 0,
         f = [s \in DOMAIN g \cup {Len(h) + 1} |-> IF s \in DOMAIN g THEN g[s] ELSE <<>>]
  PROVE  SegInv(f, h) /\ Min(DOMAIN f) = Min(DOMAIN g)
<1> DEFINE e == Len(h) + 1
<1>1. Len(h) \in Nat /\ DOMAIN g \subseteq Nat
  BY HistoryElements, Zenon DEF SegInv
<1>2. PICK m \in DOMAIN g : end(g, m) = e /\ \A s \in DOMAIN g : s <= m
  BY Zenon DEF SegInv
<1>3. m = Max(DOMAIN g)
  <2>1. DOMAIN g \subseteq Int
    BY <1>1
  <2> QED
    BY <1>2, <2>1, MaxIs, Zenon
<1>4. \A s \in DOMAIN g : s < e /\ s # e
  <2>1. m \in Nat /\ m + Len(g[m]) = e /\ g[m] \in Seq([lsn : Nat, tag : Tags, torn : BOOLEAN])
    BY <1>1, <1>2, Zenon DEF end, SegInv
  <2>2. m < e
    BY <1>1, <1>3, <2>1
  <2> QED
    BY <1>1, <1>2, <2>1, <2>2
<1>5. /\ DOMAIN f = DOMAIN g \cup {e} /\ f[e] = <<>>
      /\ \A s \in DOMAIN g : f[s] = g[s] /\ end(f, s) = end(g, s)
  BY <1>4, Zenon DEF end
<1>6. Len(f[e]) = 0 /\ end(f, e) = e
  <2>1. Len(<<>>) = 0 /\ e + 0 = e
    BY <1>1
  <2> QED
    BY <1>5, <2>1, Zenon DEF end
<1>7. f \in [DOMAIN f -> Seq([lsn : Nat, tag : Tags, torn : BOOLEAN])]
  <2>1. <<>> \in Seq([lsn : Nat, tag : Tags, torn : BOOLEAN])
    OBVIOUS
  <2>2. \A s \in DOMAIN g : g[s] \in Seq([lsn : Nat, tag : Tags, torn : BOOLEAN])
    BY Zenon DEF SegInv
  <2>3. \A s \in DOMAIN f : f[s] \in Seq([lsn : Nat, tag : Tags, torn : BOOLEAN])
    BY <1>5, <2>1, <2>2, Zenon
  <2> QED
    BY <2>3, Zenon
<1>8. ASSUME NEW s \in DOMAIN f
      PROVE  /\ s > index.base.lsn
             /\ end(f, s) <= Len(h) + 1
             /\ \A i \in 1 .. Len(f[s]) :
                  f[s][i] = Frame([lsn |-> s + i - 1, tag |-> h[s + i - 1]])
             /\ \A t \in DOMAIN f : s < t => end(f, s) <= t
             /\ \A lsn \in s .. Len(h) : \E t \in DOMAIN f : t <= lsn /\ lsn < end(f, t)
  <2>1. CASE s = e
    <3>1. e > index.base.lsn /\ e <= e /\ e .. Len(h) = {} /\ 1 .. 0 = {}
      BY <1>1
    <3>2. \A t \in DOMAIN f : ~(e < t)
      BY <1>1, <1>4, <1>5
    <3> QED
      BY <1>6, <2>1, <3>1, <3>2, Zenon
  <2>2. CASE s \in DOMAIN g
    <3>1. /\ s > index.base.lsn /\ end(g, s) <= e
          /\ \A i \in 1 .. Len(g[s]) : g[s][i] = Frame([lsn |-> s + i - 1, tag |-> h[s + i - 1]])
          /\ \A t \in DOMAIN g : s < t => end(g, s) <= t
          /\ \A lsn \in s .. Len(h) : \E t \in DOMAIN g : t <= lsn /\ lsn < end(g, t)
      BY <2>2, Zenon DEF SegInv
    <3> QED
      BY <1>5, <2>2, <3>1, Zenon
  <2> QED
    BY <1>5, <2>1, <2>2, Zenon
<1>9. \E x \in DOMAIN f : end(f, x) = Len(h) + 1 /\ \A s \in DOMAIN f : s <= x
  <2>1. e \in DOMAIN f /\ end(f, e) = e /\ \A s \in DOMAIN f : s <= e
    BY <1>1, <1>4, <1>5, <1>6
  <2> QED
    BY <2>1, Zenon
<1>10. SegInv(f, h)
  <2>1. DOMAIN f # {} /\ DOMAIN f \subseteq Nat
    BY <1>1, <1>5
  <2> QED
    BY <1>7, <1>8, <1>9, <2>1, Zenon DEF SegInv
<1>11. Min(DOMAIN f) = Min(DOMAIN g)
  <2>1. Min(DOMAIN g) \in DOMAIN g /\ \A s \in DOMAIN g : Min(DOMAIN g) <= s
    BY <1>1, MinExists, Zenon
  <2>2. \A s \in DOMAIN f : Min(DOMAIN g) <= s
    BY <1>1, <1>4, <1>5, <2>1
  <2>3. DOMAIN f \subseteq Int /\ Min(DOMAIN g) \in DOMAIN f
    BY <1>1, <1>5, <2>1
  <2> QED
    BY <2>2, <2>3, MinIs, Zenon
<1> QED
  BY <1>10, <1>11, Zenon

\* What WriteInv says, for the write in hand.
LEMMA Write ==
  ASSUME data \in Histories, PcType, NEW h \in Histories, NEW g, DiskInv(h, g),
         pc.op \in {"roll", "index", "frame"}
  PROVE  \E tag \in Tags :
           /\ data = Append(h, tag) /\ tag >= stored(h).lastEpoch
           /\ pc = [op |-> pc.op, batch |-> [lsn |-> Len(h) + 1, tag |-> tag]]
           /\ [lsn |-> Len(h) + 1, tag |-> tag] \in Batches
           /\ pc.op = "frame" => indexedEpoch(index.lines, Len(h) + 1) \in {0, tag}
           /\ pc # Down /\ segs = g /\ Serving(h) /\ WriteInv(h)
<1>1. WriteInv(h) /\ Files(g)
  BY Zenon DEF DiskInv, PcInv
<1>2. PICK tag \in Tags :
        /\ data = Append(h, tag) /\ pc.batch = [lsn |-> Len(h) + 1, tag |-> tag]
        /\ pc.op = "frame" => indexedEpoch(index.lines, Len(h) + 1) \in {0, tag}
  BY <1>1, Zenon DEF WriteInv
<1>3. pc \in [op : {"roll", "index", "frame"}, batch : Batches] /\ pc # Down
  BY PcFacts, Zenon DEF Down
<1>4. pc = [op |-> pc.op, batch |-> [lsn |-> Len(h) + 1, tag |-> tag]]
  BY <1>2, <1>3, Zenon
<1>5. [lsn |-> Len(h) + 1, tag |-> tag] \in Batches
  BY <1>2, <1>3, Zenon
<1>6. segs = g
  BY <1>1, <1>3, FilesAreClean, Zenon
<1>7. tag >= stored(h).lastEpoch
  <2>1. Len(h) \in Nat /\ h \in Seq(Tags) /\ \A i \in 1 .. Len(h) : h[i] \in Nat
    BY HistoryElements, Zenon
  <2>2. stored(h).lastEpoch = IF Len(h) = 0 THEN 0 ELSE h[Len(h)]
    BY StoredPosition, Zenon
  <2>3. tag \in Nat
    BY TagsAreNat, Zenon
  <2>4. CASE Len(h) = 0
    BY <2>2, <2>3, <2>4
  <2>5. CASE Len(h) # 0
    <3>1. /\ Len(data) = Len(h) + 1 /\ data[Len(h) + 1] = tag /\ data[Len(h)] = h[Len(h)]
          /\ Len(h) \in 1 .. Len(h) + 1 /\ Len(h) + 1 \in 1 .. Len(h) + 1
          /\ Len(h) < Len(h) + 1 /\ h[Len(h)] \in Nat
      BY <1>2, <2>1, <2>5
    <3>2. h[Len(h)] <= tag
      <4>1. \A i, j \in 1 .. Len(data) : i < j => data[i] <= data[j]
        BY HistoryElements, Zenon
      <4>2. data[Len(h)] <= data[Len(h) + 1]
        BY <3>1, <4>1, Zenon
      <4> QED
        BY <3>1, <4>2, Zenon
    <3> QED
      BY <2>2, <2>3, <2>5, <3>1, <3>2, Zenon
  <2> QED
    BY <2>4, <2>5, Zenon
<1>8. Serving(h)
  BY <1>1, Zenon DEF WriteInv
<1> QED
  BY <1>1, <1>2, <1>3, <1>4, <1>5, <1>6, <1>7, <1>8, Zenon

LEMMA AppendRollLog ==
  ASSUME LeastElements, data \in Histories, PcType, NEW h \in Histories, NEW g,
         DiskInv(h, g), AppendRoll
  PROVE  LogInv'
<1> DEFINE n == Len(h) + 1
           full == Len(segs[Max(DOMAIN segs)]) >= SegLen
           f == [s \in DOMAIN g \cup {n} |-> IF s \in DOMAIN g THEN g[s] ELSE <<>>]
<1>1. /\ pc.op = "roll" /\ pc' = [pc EXCEPT !.op = "index"] /\ UNCHANGED <<data, index, log, pos>>
      /\ segs' = [s \in DOMAIN segs \cup (IF full THEN {pc.batch.lsn} ELSE {}) |->
                    IF s \in DOMAIN segs THEN segs[s] ELSE <<>>]
  BY Zenon DEF AppendRoll
<1>2. PICK tag \in Tags :
        /\ data = Append(h, tag) /\ pc = [op |-> pc.op, batch |-> [lsn |-> n, tag |-> tag]]
        /\ [lsn |-> n, tag |-> tag] \in Batches /\ segs = g /\ Serving(h) /\ WriteInv(h)
  BY <1>1, Write, Zenon
<1>3. /\ pc.batch.lsn = n /\ pc' = [op |-> "index", batch |-> [lsn |-> n, tag |-> tag]]
      /\ pc'.op = "index" /\ pc'.batch = [lsn |-> n, tag |-> tag]
  BY <1>1, <1>2
<1>4. IndexInv(h) /\ SegInv(g, h) /\ Behind(h) /\ LinesBelow(Len(h))
  BY <1>1, <1>2, Zenon DEF DiskInv, WriteInv
<1>5. \E x : segs' = x /\ SegInv(x, h) /\ DOMAIN x # {} /\ Min(DOMAIN x) = Min(DOMAIN segs)
  <2>1. DOMAIN g # {} /\ g \in [DOMAIN g -> Seq([lsn : Nat, tag : Tags, torn : BOOLEAN])]
    BY <1>2, <1>4, Zenon DEF Serving, SegInv
  <2>2. CASE full
    <3>1. segs' = f
      BY <1>1, <1>2, <1>3, <2>2, Zenon
    <3>2. Len(g[Max(DOMAIN g)]) > 0
      <4>1. PICK m \in DOMAIN g : \A s \in DOMAIN g : s <= m
        BY <1>4, <2>1, Zenon DEF SegInv
      <4>2. DOMAIN g \subseteq Int
        BY <1>4 DEF SegInv
      <4>3. Max(DOMAIN g) \in DOMAIN g
        BY <4>1, <4>2, MaxIs, Zenon
      <4>4. Len(g[Max(DOMAIN g)]) \in Nat /\ Len(g[Max(DOMAIN g)]) >= SegLen
        BY <1>2, <2>1, <2>2, <4>3
      <4>5. SegLen \in Nat \ {0}
        BY RecoveryAssumption, Zenon
      <4> QED
        BY <4>4, <4>5
    <3>3. index.base.lsn \in Nat /\ index.base.lsn <= Len(h)
      BY <1>4, Zenon DEF IndexInv
    <3>4. SegInv(f, h) /\ Min(DOMAIN f) = Min(DOMAIN g)
      BY <1>4, <2>1, <3>2, <3>3, RollSegments, Zenon
    <3>5. DOMAIN f # {}
      BY <2>1, Zenon
    <3> QED
      BY <1>2, <3>1, <3>4, <3>5, Zenon
  <2>3. CASE ~full
    <3>1. segs' = [s \in DOMAIN segs |-> segs[s]]
      BY <1>1, <2>3, Zenon
    <3>2. segs' = g
      BY <1>2, <2>1, <3>1, Zenon
    <3> QED
      BY <1>2, <1>4, <2>1, <3>2, Zenon
  <2> QED
    BY <2>2, <2>3, Zenon
<1>6. PICK x : segs' = x /\ SegInv(x, h) /\ DOMAIN x # {} /\ Min(DOMAIN x) = Min(DOMAIN segs)
  BY <1>5, Zenon
<1>7. IndexInv(h)' /\ SegInv(x, h)'
  BY <1>1, <1>4, <1>6, FilesKept, Zenon
<1>8. Behind(h)' /\ Files(x)' /\ LinesBelow(Len(h))'
  BY <1>1, <1>4, <1>6, Zenon DEF Behind, Files, LinesBelow
<1>9. Serving(h)'
  BY <1>1, <1>2, <1>6, Zenon DEF Serving, logOf
<1>10. WriteInv(h)'
  BY <1>1, <1>2, <1>3, <1>8, <1>9, Zenon DEF WriteInv
<1>11. PcType' /\ PcInv(h)'
  BY <1>2, <1>3, <1>10, PcNextWrite, Zenon
<1> QED
  BY <1>1, <1>7, <1>8, <1>11, Zenon DEF LogInv, DiskInv

\* A line is written when the epoch changes; either way the index has the batch's tag
\* or nothing for it.
LEMMA AppendIndexLog ==
  ASSUME LeastElements, data \in Histories, PcType, NEW h \in Histories, NEW g,
         DiskInv(h, g), AppendIndex
  PROVE  LogInv'
<1> DEFINE n == Len(h) + 1
           lines == index.lines
           new == appendEpoch(log, pc.batch.lsn, pc.batch.tag)
<1>1. /\ pc.op = "index" /\ pc' = [pc EXCEPT !.op = "frame"] /\ UNCHANGED <<data, segs, pos>>
      /\ log' = new
      /\ index' = [index EXCEPT !.lines =
                     IF new = log THEN @
                     ELSE Append(@, [first |-> pc.batch.lsn, ep |-> pc.batch.tag])]
  BY Zenon DEF AppendIndex
<1>2. PICK tag \in Tags :
        /\ data = Append(h, tag) /\ pc = [op |-> pc.op, batch |-> [lsn |-> n, tag |-> tag]]
        /\ [lsn |-> n, tag |-> tag] \in Batches /\ segs = g /\ Serving(h) /\ WriteInv(h)
  BY <1>1, Write, Zenon
<1> DEFINE line == [first |-> n, ep |-> tag]
<1>3. /\ pc.batch.lsn = n /\ pc.batch.tag = tag
      /\ pc' = [op |-> "frame", batch |-> [lsn |-> n, tag |-> tag]]
      /\ pc'.op = "frame" /\ pc'.batch = [lsn |-> n, tag |-> tag]
  BY <1>1, <1>2
<1>4. IndexInv(h) /\ SegInv(g, h) /\ Behind(h) /\ LinesBelow(Len(h))
  BY <1>1, <1>2, Zenon DEF DiskInv, WriteInv
<1>5. /\ index \in [base : [lastEpoch : Nat, lsn : Nat], lines : Seq(Lines)]
      /\ lines \in Seq(Lines) /\ index.base.lsn \in Nat /\ index.base.lsn <= Len(h)
      /\ Len(h) \in Nat
  BY <1>4, HistoryElements, Zenon DEF IndexInv
<1>6. log = logOf(h) /\ log.epochs = lines /\ DOMAIN segs # {}
  BY <1>2, Zenon DEF Serving, logOf
<1>7. line \in Lines /\ line.first = n /\ line.ep = tag
  BY <1>5 DEF Lines
<1>8. Behind(h)'
  <2>1. stored(h) \in Pos /\ stored(data) \in Pos
    BY StoredPosition, Zenon
  <2>2. h # data
    BY <1>2, <1>5, HistoryElements
  <2> QED
    BY <1>1, <1>4, <2>2, Zenon DEF Behind
<1>9. SegInv(g, h)' /\ Files(g)'
  <2>1. index'.base = index.base
    BY <1>1, <1>5, Zenon
  <2> QED
    BY <1>1, <1>2, <1>4, <2>1, Zenon DEF SegInv, Files
<1> HIDE DEF line
<1>10. ASSUME NEW ls \in Seq(Lines), index' = [index EXCEPT !.lines = ls],
              log' = [log EXCEPT !.epochs = ls],
              \A i \in 1 .. Len(ls) : index.base.lsn < ls[i].first /\ ls[i].first <= n,
              \A lsn \in index.base.lsn + 1 .. Len(h) :
                indexedEpoch(ls, lsn) = indexedEpoch(lines, lsn),
              indexedEpoch(ls, n) \in {0, tag}
       PROVE  LogInv'
  <2>1. /\ index' \in [base : [lastEpoch : Nat, lsn : Nat], lines : Seq(Lines)]
        /\ index'.base = index.base /\ index'.lines = ls
    BY <1>5, <1>10, Zenon
  <2>2. \A i \in 1 .. Len(ls) : ls[i].first > index.base.lsn
    <3>1. \A i \in 1 .. Len(ls) : ls[i].first \in Nat
      BY LineNumbers, Zenon
    <3> QED
      BY <1>5, <1>10, <3>1, Zenon
  <2>3. IndexInv(h)'
    BY <1>4, <1>10, <2>1, <2>2, Zenon DEF IndexInv
  <2>4. LinesBelow(n)'
    BY <1>10, <2>1, Zenon DEF LinesBelow
  <2>5. log' = logOf(h)'
    <3>1. log = [last |-> Len(h), firstSeg |-> Min(DOMAIN segs), epochs |-> lines,
                 baseLSN |-> index.base.lsn, baseEp |-> index.base.lastEpoch]
      BY <1>6, Zenon DEF logOf
    <3>2. log' = [last |-> Len(h), firstSeg |-> Min(DOMAIN segs), epochs |-> ls,
                  baseLSN |-> index.base.lsn, baseEp |-> index.base.lastEpoch]
      BY <1>10, <3>1, Zenon
    <3> QED
      BY <1>1, <2>1, <3>2, Zenon DEF logOf
  <2>6. Serving(h)'
    BY <1>1, <1>2, <2>5, Zenon DEF Serving
  <2>7. indexedEpoch(index'.lines, n) \in {0, tag}
    BY <1>10, <2>1, Zenon
  <2>8. WriteInv(h)'
    BY <1>1, <1>2, <1>3, <2>4, <2>6, <2>7, Zenon DEF WriteInv
  <2>9. PcType' /\ PcInv(h)'
    BY <1>2, <1>3, <2>8, PcNextWrite, Zenon
  <2> QED
    BY <1>1, <1>8, <1>9, <2>3, <2>9, Zenon DEF LogInv, DiskInv
<1>11. /\ \A i \in 1 .. Len(lines) : lines[i].first \in Nat
       /\ \A i \in 1 .. Len(lines) : index.base.lsn < lines[i].first
       /\ \A i \in 1 .. Len(lines) : lines[i].first <= Len(h) /\ lines[i].first <= n
  <2>2. \A i \in 1 .. Len(lines) : lines[i].first \in Nat
    BY <1>5, LineNumbers, Zenon
  <2>3. \A i \in 1 .. Len(lines) : lines[i].first > index.base.lsn /\ lines[i].first <= Len(h)
    BY <1>4, Zenon DEF IndexInv, LinesBelow
  <2> QED
    BY <1>5, <2>2, <2>3
<1>12. n \in Nat /\ tag \in Nat /\ tag # 0
  BY <1>5, TagsAreNat
<1>13. CASE tag = LastEpoch(log)
  <2>1. new = log
    BY <1>3, <1>13, Zenon DEF appendEpoch
  <2>2. index' = [index EXCEPT !.lines = lines]
    BY <1>1, <2>1, Zenon
  <2>3. log' = [log EXCEPT !.epochs = lines]
    BY <1>1, <1>6, <2>1, Zenon DEF logOf
  <2>4. indexedEpoch(lines, n) = IF Len(lines) = 0 THEN 0 ELSE lines[Len(lines)].ep
    BY <1>5, <1>11, <1>12, IndexedLast, Zenon
  <2>5. indexedEpoch(lines, Len(h)) = IF Len(lines) = 0 THEN 0 ELSE lines[Len(lines)].ep
    BY <1>5, <1>11, IndexedLast, Zenon
  <2>6. index.base.lsn = Len(h) => Len(lines) = 0
    <3> SUFFICES ASSUME index.base.lsn = Len(h), Len(lines) # 0 PROVE FALSE
      BY Zenon
    <3>1. 1 \in 1 .. Len(lines)
      BY <1>5
    <3>2. lines[1].first \in Nat /\ Len(h) < lines[1].first /\ lines[1].first <= Len(h)
      BY <1>11, <3>1, Zenon
    <3> QED
      BY <1>5, <3>2
  <2>7. /\ log.last = Len(h) /\ log.baseLSN = index.base.lsn /\ log.firstSeg \in Nat
    <3>1. Min(DOMAIN segs) \in Nat
      <4>1. DOMAIN segs \subseteq Nat
        BY <1>2, <1>4, Zenon DEF SegInv
      <4> QED
        BY <1>6, <4>1, MinExists, Zenon
    <3> QED
      BY <1>6, <3>1, Zenon DEF logOf
  <2>8. indexedEpoch(lines, n) \in {0, tag}
    <3>1. epochAt(log, Len(h)) = tag
      BY <1>12, <1>13, <2>7, Zenon DEF LastEpoch
    <3>2. firstLSN(log) \in Nat
      BY <1>5, <2>7 DEF firstLSN
    <3>3. Len(h) # 0
      BY <1>12, <3>1 DEF epochAt
    <3>4. CASE Len(h) = index.base.lsn
      BY <2>4, <2>6, <3>4, Zenon
    <3>5. CASE Len(h) # index.base.lsn
      <4>1. tag # Unknown
        BY <1>12 DEF Unknown
      <4>2. epochAt(log, Len(h)) = indexedEpoch(lines, Len(h))
        BY <1>5, <1>6, <2>7, <3>1, <3>2, <3>3, <3>5, <4>1, Zenon DEF epochAt
      <4> QED
        BY <2>4, <2>5, <3>1, <4>2, Zenon
    <3> QED
      BY <3>4, <3>5, Zenon
  <2> QED
    BY <1>5, <1>10, <1>11, <2>2, <2>3, <2>8, Zenon
<1>14. CASE tag # LastEpoch(log)
  <2> DEFINE ls == Append(lines, line)
  <2>1. new = [log EXCEPT !.epochs = ls]
    BY <1>3, <1>6, <1>14, Zenon DEF appendEpoch, line
  <2>2. Len(ls) = Len(lines) + 1 /\ ls \in Seq(Lines) /\ ls[Len(ls)] = line
    BY <1>5, <1>7
  <2>3. new # log
    <3>1. new.epochs = ls
      BY <1>6, <2>1, Zenon DEF logOf
    <3>2. ls # lines
      BY <1>5, <2>2
    <3> QED
      BY <1>6, <3>1, <3>2, Zenon
  <2>4. index' = [index EXCEPT !.lines = ls]
    BY <1>1, <1>3, <2>3, Zenon DEF line
  <2>5. log' = [log EXCEPT !.epochs = ls]
    BY <1>1, <2>1, Zenon
  <2>6. ASSUME NEW i \in 1 .. Len(ls) PROVE index.base.lsn < ls[i].first /\ ls[i].first <= n
    <3>1. CASE i \in 1 .. Len(lines)
      <4>1. ls[i] = lines[i]
        BY <1>5, <3>1
      <4> QED
        BY <1>11, <3>1, <4>1, Zenon
    <3>2. CASE i = Len(ls)
      <4>1. index.base.lsn < n /\ n <= n
        BY <1>5
      <4> QED
        BY <1>7, <2>2, <3>2, <4>1, Zenon
    <3> QED
      BY <1>5, <2>2, <3>1, <3>2
  <2>7. ASSUME NEW lsn \in index.base.lsn + 1 .. Len(h)
        PROVE  indexedEpoch(ls, lsn) = indexedEpoch(lines, lsn)
    <3>1. lsn \in Nat /\ line.first > lsn
      BY <1>5, <1>7
    <3> QED
      BY <1>5, <1>7, <3>1, IndexedAbove, Zenon
  <2>8. indexedEpoch(ls, n) \in {0, tag}
    <3>1. Len(ls) # 0
      BY <1>5, <2>2
    <3> HIDE DEF ls
    <3>2. indexedEpoch(ls, n) = IF Len(ls) = 0 THEN 0 ELSE ls[Len(ls)].ep
      BY <1>12, <2>2, <2>6, IndexedLast, Zenon
    <3> QED
      BY <1>7, <2>2, <3>1, <3>2, Zenon
  <2> HIDE DEF ls
  <2> QED
    BY <1>10, <2>2, <2>4, <2>5, <2>6, <2>7, <2>8, Zenon
<1> QED
  BY <1>13, <1>14, Zenon

\* The frame goes to the newest segment.
LEMMA FrameSegments ==
  ASSUME NEW h \in Histories, NEW tag \in Tags, NEW d \in Histories, d = Append(h, tag),
         NEW g, SegInv(g, h), DOMAIN g # {}, index.base.lsn \in Nat,
         NEW f, f = [g EXCEPT ![Max(DOMAIN g)] =
                       Append(@, Frame([lsn |-> Len(h) + 1, tag |-> tag]))]
  PROVE  SegInv(f, d)
<1> DEFINE Frames == [lsn : Nat, tag : Tags, torn : BOOLEAN]
           new == Frame([lsn |-> Len(h) + 1, tag |-> tag])
<1>1. /\ g \in [DOMAIN g -> Seq(Frames)] /\ DOMAIN g \subseteq Nat
      /\ Len(h) \in Nat /\ h \in Seq(Tags)
  BY HistoryElements, Zenon DEF SegInv
<1>2. PICK m \in DOMAIN g : end(g, m) = Len(h) + 1 /\ \A s \in DOMAIN g : s <= m
  BY Zenon DEF SegInv
<1>3. m = Max(DOMAIN g)
  <2>1. DOMAIN g \subseteq Int
    BY <1>1
  <2> QED
    BY <1>2, <2>1, MaxIs, Zenon
<1>4. Len(d) = Len(h) + 1 /\ d[Len(h) + 1] = tag /\ \A i \in 1 .. Len(h) : d[i] = h[i]
  BY <1>1
<1>5. new \in Frames
  BY <1>1 DEF Frame
<1> HIDE DEF Frames, new
<1>6. m \in Nat /\ g[m] \in Seq(Frames) /\ m + Len(g[m]) = Len(h) + 1 /\ Len(g[m]) \in Nat
  <2>1. m \in Nat /\ g[m] \in Seq(Frames) /\ m + Len(g[m]) = Len(h) + 1
    BY <1>1, <1>2, Zenon DEF end
  <2> QED
    BY <2>1
<1>7. /\ f \in [DOMAIN g -> Seq(Frames)] /\ DOMAIN f = DOMAIN g
      /\ f[m] = Append(g[m], new) /\ \A s \in DOMAIN g : s # m => f[s] = g[s]
  <2>1. Append(g[m], new) \in Seq(Frames)
    BY <1>5, <1>6
  <2>2. f = [g EXCEPT ![m] = Append(g[m], new)]
    BY <1>1, <1>2, <1>3, Zenon DEF new
  <2> QED
    BY <1>1, <1>2, <2>1, <2>2, Zenon
<1>8. Len(f[m]) = Len(g[m]) + 1 /\ f[m][Len(g[m]) + 1] = new
      /\ \A i \in 1 .. Len(g[m]) : f[m][i] = g[m][i]
  BY <1>5, <1>6, <1>7
<1>9. end(f, m) = Len(d) + 1 /\ \A s \in DOMAIN g : s # m => end(f, s) = end(g, s)
  <2>1. m + Len(f[m]) = Len(d) + 1
    BY <1>1, <1>4, <1>6, <1>8
  <2> QED
    BY <1>7, <2>1, Zenon DEF end
<1>12. /\ Len(h) \in Nat /\ Len(d) = Len(h) + 1
       /\ end(f, m) = Len(d) + 1 /\ end(g, m) = Len(h) + 1
  BY <1>1, <1>2, <1>4, <1>9, Zenon
<1>10. \A s \in DOMAIN g : Len(g[s]) \in Nat /\ s \in Nat /\ end(g, s) \in Nat /\ end(g, s) >= s
  <2>1. \A s \in DOMAIN g : g[s] \in Seq(Frames) /\ s \in Nat
    BY <1>1, Zenon
  <2>2. \A s \in DOMAIN g : Len(g[s]) \in Nat /\ s \in Nat
    BY <2>1
  <2> QED
    BY <2>2 DEF end
<1>11. ASSUME NEW s \in DOMAIN g
       PROVE  /\ s > index.base.lsn
              /\ end(f, s) <= Len(d) + 1
              /\ \A i \in 1 .. Len(f[s]) :
                   f[s][i] = Frame([lsn |-> s + i - 1, tag |-> d[s + i - 1]])
              /\ \A t \in DOMAIN g : s < t => end(f, s) <= t
              /\ \A lsn \in s .. Len(d) : \E t \in DOMAIN g : t <= lsn /\ lsn < end(f, t)
  <2>1. /\ s > index.base.lsn /\ end(g, s) <= Len(h) + 1
        /\ \A i \in 1 .. Len(g[s]) : g[s][i] = Frame([lsn |-> s + i - 1, tag |-> h[s + i - 1]])
        /\ \A t \in DOMAIN g : s < t => end(g, s) <= t
        /\ \A lsn \in s .. Len(h) : \E t \in DOMAIN g : t <= lsn /\ lsn < end(g, t)
    BY Zenon DEF SegInv
  <2>2. s \in Nat /\ s > 0 /\ Len(g[s]) \in Nat /\ s + Len(g[s]) <= Len(h) + 1
    <3>1. s \in Nat /\ Len(g[s]) \in Nat /\ s + Len(g[s]) <= Len(h) + 1
      BY <1>10, <2>1, Zenon DEF end
    <3> QED
      BY <2>1, <3>1
  <2>3. end(f, s) <= Len(d) + 1
    <3>1. CASE s = m
      BY <1>12, <3>1
    <3>2. CASE s # m
      <4>1. end(f, s) = end(g, s) /\ end(g, s) \in Nat
        BY <1>9, <1>10, <3>2, Zenon
      <4> QED
        BY <1>12, <2>1, <4>1
    <3> QED
      BY <3>1, <3>2, Zenon
  <2>4. ASSUME NEW i \in 1 .. Len(g[s]) PROVE h[s + i - 1] = d[s + i - 1]
    <3>1. s + i - 1 \in 1 .. Len(h)
      BY <1>1, <2>2
    <3> QED
      BY <1>4, <3>1, Zenon
  <2>5. ASSUME NEW i \in 1 .. Len(f[s])
        PROVE  f[s][i] = Frame([lsn |-> s + i - 1, tag |-> d[s + i - 1]])
    <3>1. CASE i \in 1 .. Len(g[s])
      <4>1. f[s][i] = g[s][i]
        BY <1>7, <1>8, <3>1, Zenon
      <4> QED
        BY <2>1, <2>4, <3>1, <4>1, Zenon
    <3>2. CASE s = m /\ i = Len(g[m]) + 1
      <4>1. s + i - 1 = Len(h) + 1
        BY <1>1, <1>6, <3>2
      <4> QED
        BY <1>4, <1>8, <3>2, <4>1, Zenon DEF new
    <3>3. CASE s # m
      BY <1>7, <3>1, <3>3, Zenon
    <3>4. s = m => i \in 1 .. Len(g[m]) \/ i = Len(g[m]) + 1
      BY <1>6, <1>8
    <3> QED
      BY <3>1, <3>2, <3>3, <3>4, Zenon
  <2>6. ASSUME NEW t \in DOMAIN g, s < t PROVE end(f, s) <= t
    <3>1. s # m
      <4>1. t <= m /\ t \in Nat
        BY <1>1, <1>2, Zenon
      <4> QED
        BY <1>6, <2>2, <2>6, <4>1
    <3> QED
      BY <1>9, <2>1, <2>6, <3>1, Zenon
  <2>7. ASSUME NEW lsn \in s .. Len(d)
        PROVE  \E t \in DOMAIN g : t <= lsn /\ lsn < end(f, t)
    <3>1. CASE lsn \in s .. Len(h)
      <4>1. PICK t \in DOMAIN g : t <= lsn /\ lsn < end(g, t)
        BY <2>1, <3>1, Zenon
      <4>2. end(g, t) <= end(f, t)
        <5>1. CASE t = m
          BY <1>12, <5>1
        <5>2. CASE t # m
          <6>1. end(f, t) = end(g, t) /\ end(g, t) \in Nat
            BY <1>9, <1>10, <5>2, Zenon
          <6> QED
            BY <6>1
        <5> QED
          BY <5>1, <5>2, Zenon
      <4>3. end(f, t) \in Nat /\ end(g, t) \in Nat /\ lsn \in Int
        <5>1. end(f, m) \in Nat
          BY <1>12
        <5>2. end(f, t) \in Nat /\ end(g, t) \in Nat
          BY <1>9, <1>10, <5>1, Zenon
        <5> QED
          BY <2>2, <5>2
      <4>4. lsn < end(f, t)
        BY <4>1, <4>2, <4>3
      <4> QED
        BY <4>1, <4>4, Zenon
    <3>2. CASE lsn = Len(h) + 1
      <4>1. m <= lsn /\ lsn < end(f, m)
        BY <1>6, <1>12, <3>2
      <4> QED
        BY <4>1, Zenon
    <3>3. lsn \in s .. Len(h) \/ lsn = Len(h) + 1
      BY <1>12, <2>2
    <3> QED
      BY <3>1, <3>2, <3>3, Zenon
  <2> QED
    BY <2>1, <2>3, <2>5, <2>6, <2>7, Zenon
<1> QED
  BY <1>1, <1>2, <1>7, <1>9, <1>11, Zenon DEF SegInv, Frames

LEMMA AppendFrameLog ==
  ASSUME data \in Histories, PcType, NEW h \in Histories, NEW g, DiskInv(h, g), AppendFrame
  PROVE  LogInv'
<1> DEFINE n == Len(h) + 1
<1>1. PICK f : f = [g EXCEPT ![Max(DOMAIN g)] = Append(@, Frame(pc.batch))]
  BY Zenon
<1>2. PICK tag \in Tags :
        /\ data = Append(h, tag) /\ tag >= stored(h).lastEpoch
        /\ pc = [op |-> pc.op, batch |-> [lsn |-> n, tag |-> tag]]
        /\ indexedEpoch(index.lines, n) \in {0, tag}
        /\ segs = g /\ Serving(h) /\ WriteInv(h)
  BY Write, Zenon DEF AppendFrame
<1>3. /\ pc.op = "frame" /\ UNCHANGED <<data, index>> /\ pc' = Idle
      /\ segs' = f /\ log' = [log EXCEPT !.last = pc.batch.lsn] /\ pos' = stored(data)
  BY <1>1, <1>2, Zenon DEF AppendFrame
<1>4. pc.batch = [lsn |-> n, tag |-> tag] /\ pc.batch.lsn = n
  BY <1>2
<1>5. IndexInv(h) /\ SegInv(g, h) /\ LinesBelow(n) /\ DOMAIN g # {} /\ log = logOf(h)
  BY <1>2, <1>3, Zenon DEF DiskInv, WriteInv, Serving
<1>6. PICK d : d = data
  BY Zenon
<1>7. /\ d \in Histories /\ d = Append(h, tag) /\ Len(d) = n /\ d[n] = tag
      /\ \A i \in 1 .. Len(h) : d[i] = h[i]
  BY <1>2, <1>6, AppendHistory, Zenon
<1>8. Len(h) \in Nat /\ index.base.lsn \in Nat /\ index.base.lsn <= Len(h)
  BY <1>5, HistoryElements, Zenon DEF IndexInv
<1>9. SegInv(f, d)
  BY <1>1, <1>4, <1>5, <1>7, <1>8, FrameSegments, Zenon
<1>10. IndexInv(d)
  <2>1. /\ index \in [base : [lastEpoch : Nat, lsn : Nat], lines : Seq(Lines)]
        /\ index.base.lastEpoch = IF index.base.lsn = 0 THEN 0 ELSE h[index.base.lsn]
        /\ \A i \in 1 .. Len(index.lines) : index.lines[i].first > index.base.lsn
        /\ \A lsn \in index.base.lsn + 1 .. Len(h) :
             indexedEpoch(index.lines, lsn) \in {0, h[lsn]}
    BY <1>5, Zenon DEF IndexInv
  <2>2. index.base.lsn <= Len(d)
    BY <1>7, <1>8
  <2>3. index.base.lsn # 0 => d[index.base.lsn] = h[index.base.lsn]
    <3>1. index.base.lsn # 0 => index.base.lsn \in 1 .. Len(h)
      BY <1>8
    <3> QED
      BY <1>7, <3>1, Zenon
  <2>4. ASSUME NEW lsn \in index.base.lsn + 1 .. Len(d)
        PROVE  indexedEpoch(index.lines, lsn) \in {0, d[lsn]}
    <3>1. \/ lsn \in index.base.lsn + 1 .. Len(h) /\ lsn \in 1 .. Len(h)
          \/ lsn = n
      BY <1>7, <1>8
    <3> QED
      BY <1>2, <1>7, <2>1, <3>1, Zenon
  <2>5. index.base.lastEpoch = IF index.base.lsn = 0 THEN 0 ELSE d[index.base.lsn]
    BY <2>1, <2>3, Zenon
  <2> QED
    BY <2>1, <2>2, <2>4, <2>5, Zenon DEF IndexInv
<1>11. IndexInv(d)' /\ SegInv(f, d)'
  BY <1>3, <1>9, <1>10, FilesKept, Zenon
<1>12. LinesBelow(Len(d))'
  BY <1>3, <1>5, <1>7, Zenon DEF LinesBelow
<1>13. Behind(d)' /\ Files(f)'
  BY <1>3, <1>6, <1>12, Zenon DEF Behind, Files
<1>14. DOMAIN f = DOMAIN g
  BY <1>1, Zenon
<1>15. log' = logOf(d)'
  <2>1. log = [last |-> Len(h), firstSeg |-> Min(DOMAIN segs), epochs |-> index.lines,
               baseLSN |-> index.base.lsn, baseEp |-> index.base.lastEpoch]
    BY <1>5, Zenon DEF logOf
  <2>2. log' = [last |-> n, firstSeg |-> Min(DOMAIN segs), epochs |-> index.lines,
                baseLSN |-> index.base.lsn, baseEp |-> index.base.lastEpoch]
    BY <1>3, <1>4, <2>1, Zenon
  <2> QED
    BY <1>2, <1>3, <1>7, <1>14, <2>2, Zenon DEF logOf
<1>16. Serving(d)'
  BY <1>3, <1>5, <1>6, <1>14, <1>15, Zenon DEF Serving
<1>17. IdleInv(d)'
  BY <1>3, <1>6, <1>12, <1>16, Zenon DEF IdleInv
<1>18. PcType' /\ PcInv(d)'
  BY <1>3, <1>17, PcNextSimple, Zenon
<1> QED
  BY <1>3, <1>6, <1>7, <1>11, <1>13, <1>18, Zenon DEF LogInv, DiskInv

-----------------------------------------------------------------------------
(* Snapshots, resets and truncation. *)

LEMMA SnapshotIsHistory == ASSUME NEW s \in Snapshots PROVE s \in Histories
<1>1. /\ s \in UNION {[1 .. n -> Tags] : n \in 0 .. MaxLSN}
      /\ \A i, j \in 1 .. Len(s) : i < j => s[i] <= s[j]
  BY Zenon DEF Snapshots
<1>2. PICK n \in 0 .. MaxLSN : s \in [1 .. n -> Tags]
  BY <1>1, Zenon
<1>3. n \in Nat
  BY RecoveryAssumption
<1>4. s \in Seq(Tags)
  BY <1>2, <1>3
<1> QED
  BY <1>1, <1>4, Zenon DEF Histories

\* Two histories of one origin at the same position are the same.
LEMMA SameOrigin ==
  ASSUME NEW d \in Histories, NEW e \in Histories, sameOrigin(d, e), stored(d) = stored(e)
  PROVE  d = e
<1> DEFINE n == Len(d)
<1>1. /\ d \in Seq(Tags) /\ e \in Seq(Tags) /\ n \in Nat /\ Len(e) = n
      /\ n # 0 => d[n] = e[n]
  <2>1. /\ stored(d).lsn = Len(d) /\ stored(e).lsn = Len(e)
        /\ stored(d).lastEpoch = IF Len(d) = 0 THEN 0 ELSE d[Len(d)]
        /\ stored(e).lastEpoch = IF Len(e) = 0 THEN 0 ELSE e[Len(e)]
    BY StoredPosition, Zenon
  <2>2. Len(e) = n
    BY <2>1, Zenon
  <2>3. n # 0 => d[n] = e[n]
    BY <2>1, <2>2, Zenon
  <2> QED
    BY <2>2, <2>3, HistoryElements, Zenon
<1>2. CASE n = 0
  BY <1>1, <1>2
<1>3. CASE n # 0
  <2>1. Min({Len(d), Len(e)}) = n
    <3>1. {Len(d), Len(e)} = {n} /\ {n} \subseteq Int /\ n \in {n} /\ \A s \in {n} : n <= s
      BY <1>1
    <3> HIDE DEF n
    <3>2. Min({n}) = n
      BY <3>1, MinIs, Zenon
    <3> QED
      BY <3>1, <3>2, Zenon
  <2>2. n \in 1 .. n
    BY <1>1, <1>3
  <2>3. SubSeq(d, 1, n) = SubSeq(e, 1, n)
    BY <1>1, <1>3, <2>1, <2>2, Zenon DEF sameOrigin
  <2>4. SubSeq(d, 1, n) = d /\ SubSeq(e, 1, n) = e
    BY <1>1
  <2> QED
    BY <2>3, <2>4, Zenon
<1> QED
  BY <1>2, <1>3, Zenon

LEMMA RestoreLog ==
  ASSUME data \in Histories, PcType, NEW h \in Histories, NEW g, DiskInv(h, g),
         NEW snap \in Snapshots, Restore(snap)
  PROVE  LogInv'
<1>1. /\ pc \in {Idle, Held} /\ ~older(stored(snap), pos) /\ sameOrigin(snap, data)
      /\ data' = snap /\ pc' = [op |-> "remove", pos |-> stored(snap)]
      /\ UNCHANGED <<segs, index>>
  BY Zenon DEF Restore, Resetting
<1>2. snap \in Histories
  BY SnapshotIsHistory, Zenon
<1>3. stored(snap) \in Pos /\ stored(h) \in Pos
  BY <1>2, StoredPosition, Zenon
<1>4. h = data /\ pos = stored(data) /\ LinesBelow(Len(h))
  <2>1. CASE pc = Idle
    BY <2>1, Zenon DEF DiskInv, PcInv, IdleInv, Serving
  <2>2. CASE pc = Held
    <3>1. data = <<>> /\ pos = NoPos /\ Behind(h)
      BY <2>2, Zenon DEF DiskInv, PcInv
    <3>2. stored(data) = NoPos
      BY <3>1, Zenon DEF stored
    <3>3. ~older(stored(h), NoPos)
      BY <1>3 DEF older, NoPos, Pos
    <3> QED
      BY <3>1, <3>2, <3>3, Zenon DEF Behind
  <2> QED
    BY <1>1, <2>1, <2>2, Zenon
<1>5. pc # Down
  BY <1>1 DEF Idle, Held, Down
<1>6. segs = g /\ IndexInv(h) /\ SegInv(g, h)
  BY <1>5, FilesAreClean, Zenon DEF DiskInv
<1>7. IndexInv(h)' /\ SegInv(g, h)'
  BY <1>1, <1>6, FilesKept, Zenon
<1>8. LinesBelow(Len(h))' /\ Files(g)'
  BY <1>1, <1>4, <1>6, Zenon DEF LinesBelow, Files
<1>9. Behind(h)'
  <2>1. older(stored(h), stored(snap)) \/ stored(h) = stored(snap)
    BY <1>1, <1>3, <1>4, OlderOrder, Zenon
  <2>2. stored(h) = stored(snap) => h = snap
    BY <1>1, <1>2, <1>4, SameOrigin, Zenon
  <2> QED
    BY <1>1, <1>8, <2>1, <2>2, Zenon DEF Behind
<1>10. pc'.op = "remove" /\ pc'.pos = stored(data')
  BY <1>1, Zenon
<1>11. ResetInv(h)'
  BY <1>10, Zenon DEF ResetInv
<1>12. PcType' /\ PcInv(h)'
  BY <1>1, <1>3, <1>11, PcNextReset, Zenon
<1> QED
  BY <1>1, <1>2, <1>7, <1>8, <1>9, <1>12, Zenon DEF LogInv, DiskInv

\* Removing the oldest segments leaves a log that begins later.
LEMMA LaterSegments ==
  ASSUME NEW h \in Histories, NEW g, SegInv(g, h), NEW K \in SUBSET DOMAIN g, K # {},
         \A s \in K : \A t \in DOMAIN g : s <= t => t \in K,
         NEW f, f = [s \in K |-> g[s]]
  PROVE  SegInv(f, h)
<1> DEFINE Frames == [lsn : Nat, tag : Tags, torn : BOOLEAN]
<1>1. DOMAIN g \subseteq Nat /\ g \in [DOMAIN g -> Seq(Frames)] /\ Len(h) \in Nat
  BY HistoryElements, Zenon DEF SegInv
<1>2. /\ DOMAIN f = K /\ f \in [K -> Seq(Frames)] /\ K \subseteq Nat
      /\ \A s \in K : f[s] = g[s] /\ end(f, s) = end(g, s)
  BY <1>1, Zenon DEF end
<1> HIDE DEF Frames
<1>3. PICK m \in DOMAIN g : end(g, m) = Len(h) + 1 /\ \A s \in DOMAIN g : s <= m
  BY Zenon DEF SegInv
<1>4. m \in K
  BY <1>3, Zenon
<1>5. \A s \in DOMAIN g : s \in Nat /\ end(g, s) \in Nat
  <2>1. \A s \in DOMAIN g : g[s] \in Seq(Frames) /\ s \in Nat
    BY <1>1, Zenon
  <2>2. \A s \in DOMAIN g : Len(g[s]) \in Nat /\ s \in Nat
    BY <2>1
  <2> QED
    BY <2>2 DEF end
<1>6. ASSUME NEW s \in K
      PROVE  /\ s > index.base.lsn
             /\ end(f, s) <= Len(h) + 1
             /\ \A i \in 1 .. Len(f[s]) :
                  f[s][i] = Frame([lsn |-> s + i - 1, tag |-> h[s + i - 1]])
             /\ \A t \in K : s < t => end(f, s) <= t
             /\ \A lsn \in s .. Len(h) : \E t \in K : t <= lsn /\ lsn < end(f, t)
  <2>1. /\ s > index.base.lsn /\ end(g, s) <= Len(h) + 1
        /\ \A i \in 1 .. Len(g[s]) : g[s][i] = Frame([lsn |-> s + i - 1, tag |-> h[s + i - 1]])
        /\ \A t \in DOMAIN g : s < t => end(g, s) <= t
        /\ \A lsn \in s .. Len(h) : \E t \in DOMAIN g : t <= lsn /\ lsn < end(g, t)
    BY Zenon DEF SegInv
  <2>2. ASSUME NEW lsn \in s .. Len(h) PROVE \E t \in K : t <= lsn /\ lsn < end(f, t)
    <3>1. PICK t \in DOMAIN g : t <= lsn /\ lsn < end(g, t)
      BY <2>1, Zenon
    <3>2. t < s => end(g, t) <= s
      BY Zenon DEF SegInv
    <3>3. s \in Nat /\ t \in Nat /\ end(g, t) \in Nat /\ lsn \in Int /\ s <= lsn
      BY <1>1, <1>5
    <3>4. s <= t
      BY <3>1, <3>2, <3>3
    <3>5. t \in K
      BY <3>4, Zenon
    <3> QED
      BY <1>2, <3>1, <3>5, Zenon
  <2> QED
    BY <1>2, <2>1, <2>2, Zenon
<1> QED
  BY <1>2, <1>3, <1>4, <1>6, ZenonT(60) DEF SegInv, Frames

\* A reset in progress.
LEMMA ResetStep ==
  ASSUME data \in Histories, PcType, NEW h \in Histories, NEW g, DiskInv(h, g),
         pc.op \in {"remove", "rename", "open"}
  PROVE  /\ pc = [op |-> pc.op, pos |-> stored(data)] /\ stored(data) \in Pos
         /\ pc # Down /\ segs = g /\ ResetInv(h) /\ pc.pos = stored(data)
<1>1. pc \in [op : {"remove", "rename", "open"}, pos : Pos] /\ pc # Down
  BY PcFacts, Zenon DEF Down
<1>2. ResetInv(h) /\ Files(g)
  BY Zenon DEF DiskInv, PcInv
<1>3. pc.pos = stored(data) /\ segs = g
  BY <1>1, <1>2, FilesAreClean, Zenon DEF ResetInv
<1>4. pc = [op |-> pc.op, pos |-> stored(data)]
  BY <1>1, <1>3, Zenon
<1> QED
  BY <1>1, <1>2, <1>3, <1>4, StoredPosition, Zenon

LEMMA ResetRemoveLog ==
  ASSUME LeastElements, data \in Histories, PcType, NEW h \in Histories, NEW g,
         DiskInv(h, g), ResetRemove
  PROVE  LogInv'
<1>1. pc.op = "remove" /\ UNCHANGED <<data, index>>
  BY Zenon DEF ResetRemove
<1>2. /\ pc = [op |-> "remove", pos |-> stored(data)] /\ stored(data) \in Pos
      /\ pc # Down /\ segs = g /\ ResetInv(h)
  <2>1. pc.op \in {"remove", "rename", "open"}
    BY <1>1, Zenon
  <2> QED
    BY <1>1, <2>1, ResetStep, Zenon
<1>3. IndexInv(h) /\ SegInv(g, h) /\ Behind(h) /\ DOMAIN g \subseteq Nat
  BY Zenon DEF DiskInv, SegInv
<1>4. CASE DOMAIN segs = {}
  <2>1. pc' = [op |-> "rename", pos |-> stored(data)] /\ segs' = segs
    <3>1. pc' = [pc EXCEPT !.op = "rename"] /\ segs' = segs
      BY <1>4, Zenon DEF ResetRemove
    <3> QED
      BY <3>1, <1>2, Zenon
  <2>2. IndexInv(h)' /\ SegInv(g, h)' /\ Behind(h)' /\ Files(g)'
    <3>1. IndexInv(h)' /\ SegInv(g, h)'
      BY <1>1, <1>3, FilesKept, Zenon
    <3> QED
      BY <1>1, <1>2, <1>3, <2>1, <3>1, Zenon DEF Behind, LinesBelow, Files
  <2>3. ResetInv(h)'
    <3>1. pc'.op = "rename" /\ pc'.pos = stored(data') /\ DOMAIN segs' = {}
      BY <1>1, <1>4, <2>1, Zenon
    <3> QED
      BY <3>1, Zenon DEF ResetInv
  <2>4. PcType' /\ PcInv(h)'
    BY <1>2, <2>1, <2>3, PcNextReset, Zenon
  <2> QED
    BY <1>1, <2>2, <2>4, Zenon DEF LogInv, DiskInv
<1>5. CASE DOMAIN segs # {}
  <2> DEFINE x == Min(DOMAIN g)
             K == DOMAIN g \ {x}
  <2>1. segs' = [s \in K |-> g[s]] /\ pc' = pc
    BY <1>2, <1>5, Zenon DEF ResetRemove
  <2>2. x \in DOMAIN g /\ \A s \in DOMAIN g : x <= s
    BY <1>2, <1>3, <1>5, MinExists, Zenon
  <2>3. PICK f : f = [s \in K |-> g[s]]
    BY Zenon
  <2>4. ASSUME NEW d \in Histories, IndexInv(d), SegInv(f, d), Behind(d)
        PROVE  LogInv'
    <3>1. IndexInv(d)' /\ SegInv(f, d)'
      BY <1>1, <2>4, FilesKept, Zenon
    <3>2. Behind(d)' /\ Files(f)'
      BY <1>1, <2>1, <2>3, <2>4, Zenon DEF Behind, LinesBelow, Files
    <3>3. ResetInv(d)'
      <4>1. pc'.op = "remove" /\ pc'.pos = stored(data')
        BY <1>1, <1>2, <2>1, Zenon
      <4> QED
        BY <4>1, Zenon DEF ResetInv
    <3>4. PcType' /\ PcInv(d)'
      BY <1>2, <2>1, <3>3, PcNextReset, Zenon
    <3> QED
      BY <1>1, <3>1, <3>2, <3>4, Zenon DEF LogInv, DiskInv
  <2>5. CASE K # {}
    <3>1. ASSUME NEW s \in K, NEW t \in DOMAIN g, s <= t PROVE t \in K
      <4>1. s \in Nat /\ t \in Nat /\ x \in Nat /\ x <= s /\ s # x
        BY <1>3, <2>2, Zenon
      <4> HIDE DEF x
      <4>2. t # x
        BY <3>1, <4>1
      <4> QED
        BY <4>2, Zenon
    <3> HIDE DEF x, K
    <3>2. K \in SUBSET DOMAIN g
      BY Zenon DEF K
    <3>3. SegInv(f, h)
      BY <1>3, <2>3, <2>5, <3>1, <3>2, LaterSegments, Zenon
    <3> QED
      BY <1>3, <2>4, <3>3, Zenon
  <2>6. CASE K = {}
    <3> DEFINE b == index.base.lsn
               p == SubSeq(h, 1, b)
    <3>1. /\ index \in [base : [lastEpoch : Nat, lsn : Nat], lines : Seq(Lines)]
          /\ b <= Len(h) /\ Len(h) \in Nat /\ h \in Seq(Tags)
          /\ index.base.lastEpoch = IF b = 0 THEN 0 ELSE h[b]
          /\ \A i \in 1 .. Len(index.lines) : index.lines[i].first > b
      BY <1>3, HistoryElements, Zenon DEF IndexInv
    <3>2. b \in Nat
      BY <3>1, Zenon
    <3>3. b \in 0 .. Len(h) /\ (b # 0 => b \in 1 .. b) /\ b + 1 .. b = {}
      BY <3>1, <3>2
    <3>4. /\ p \in Histories /\ Len(p) = b /\ \A i \in 1 .. b : p[i] = h[i]
          /\ b < Len(h) => older(stored(p), stored(h))
      BY <3>3, PrefixHistory, Zenon
    <3>5. IndexInv(p)
      <4> HIDE DEF b, p
      <4>1. b <= Len(p) /\ index.base.lastEpoch = IF b = 0 THEN 0 ELSE p[b]
        BY <3>1, <3>2, <3>3, <3>4
      <4>2. \A lsn \in b + 1 .. Len(p) : indexedEpoch(index.lines, lsn) \in {0, p[lsn]}
        BY <3>3, <3>4, Zenon
      <4> QED
        BY <3>1, <4>1, <4>2, Zenon DEF IndexInv, b
    <3>6. SegInv(f, p)
      <4> HIDE DEF p, x, b
      <4>1. DOMAIN f = {} /\ f = [s \in {} |-> g[s]]
        BY <2>3, <2>6, Zenon
      <4>2. f \in [DOMAIN f -> Seq([lsn : Nat, tag : Tags, torn : BOOLEAN])]
        BY <4>1, Zenon
      <4>3. Len(p) = index.base.lsn
        BY <3>4, Zenon DEF b
      <4> QED
        BY <4>1, <4>2, <4>3, Zenon DEF SegInv
    <3>7. Behind(p)
      <4>1. CASE b = Len(h)
        <5>1. p = h
          BY <3>1, <4>1
        <5> QED
          BY <5>1, <1>3, Zenon
      <4>2. CASE b # Len(h)
        <5> HIDE DEF p, b
        <5>1. older(stored(p), stored(h))
          BY <3>1, <3>2, <3>4, <4>2
        <5>2. stored(p) \in Pos /\ stored(h) \in Pos /\ stored(data) \in Pos
          BY <3>4, StoredPosition, Zenon
        <5>3. older(stored(h), stored(data)) => older(stored(p), stored(data))
          BY <5>1, <5>2, OlderOrder, Zenon
        <5> QED
          BY <1>3, <5>1, <5>3, Zenon DEF Behind
      <4> QED
        BY <4>1, <4>2, Zenon
    <3> QED
      BY <2>4, <3>4, <3>5, <3>6, <3>7, Zenon
  <2> QED
    BY <2>5, <2>6, Zenon
<1> QED
  BY <1>4, <1>5, Zenon

LEMMA ResetIndexLog ==
  ASSUME data \in Histories, PcType, NEW h \in Histories, NEW g, DiskInv(h, g), ResetIndex
  PROVE  LogInv'
<1>1. pc.op = "rename" /\ UNCHANGED <<data, segs>>
  BY Zenon DEF ResetIndex
<1>2. /\ pc = [op |-> "rename", pos |-> stored(data)] /\ stored(data) \in Pos
      /\ pc # Down /\ segs = g /\ ResetInv(h) /\ pc.pos = stored(data)
  <2>1. pc.op \in {"remove", "rename", "open"}
    BY <1>1, Zenon
  <2> QED
    BY <1>1, <2>1, ResetStep, Zenon
<1>3. DOMAIN g = {} /\ SegInv(g, h)
  BY <1>1, <1>2, Zenon DEF ResetInv, DiskInv
<1>4. /\ index' = [base |-> stored(data), lines |-> <<>>]
      /\ pc' = [op |-> "open", pos |-> stored(data)]
  <2>1. index' = [base |-> pc.pos, lines |-> <<>>] /\ pc' = [pc EXCEPT !.op = "open"]
    BY Zenon DEF ResetIndex
  <2> QED
    BY <1>2, <2>1, Zenon
<1>5. /\ stored(data).lsn = Len(data) /\ Len(data) \in Nat
      /\ stored(data).lastEpoch = IF Len(data) = 0 THEN 0 ELSE data[Len(data)]
  BY StoredPosition, HistoryElements, Zenon
<1>6. /\ index'.base = stored(data) /\ index'.lines = <<>> /\ Len(index'.lines) = 0
      /\ index' \in [base : [lastEpoch : Nat, lsn : Nat], lines : Seq(Lines)]
      /\ index'.base.lsn = Len(data) /\ index'.base.lastEpoch = stored(data).lastEpoch
  BY <1>2, <1>4, <1>5 DEF Pos
<1>7. \A n : n \in Len(data) + 1 .. Len(data) \/ n \in 1 .. 0 => FALSE
  BY <1>5
<1>8. IndexInv(data)'
  <2>1. index'.base.lsn <= Len(data)
    BY <1>5, <1>6
  <2> QED
    BY <1>1, <1>5, <1>6, <1>7, <2>1, Zenon DEF IndexInv
<1>9. SegInv(g, data)'
  <2>1. g \in [DOMAIN g -> Seq([lsn : Nat, tag : Tags, torn : BOOLEAN])]
    BY <1>3, Zenon DEF SegInv
  <2> QED
    BY <1>1, <1>3, <1>6, <2>1, Zenon DEF SegInv
<1>10. Behind(data)' /\ Files(g)'
  BY <1>1, <1>2, <1>6, <1>7, Zenon DEF Behind, LinesBelow, Files
<1>11. ResetInv(data)'
  <2>1. pc'.op = "open" /\ pc'.pos = stored(data) /\ DOMAIN segs' = {}
    BY <1>1, <1>2, <1>3, <1>4, Zenon
  <2> QED
    BY <1>1, <1>4, <2>1, Zenon DEF ResetInv
<1>12. PcType' /\ PcInv(data)'
  <2>1. "open" \in {"remove", "rename", "open"}
    BY Zenon
  <2> QED
    BY <1>2, <1>4, <1>11, <2>1, PcNextReset, Zenon
<1>13. DiskInv(data, g)'
  BY <1>8, <1>9, <1>10, <1>12, Zenon DEF DiskInv
<1>14. PICK d : d = data
  BY Zenon
<1>15. DiskInv(d, g)' /\ d \in Histories
  BY <1>1, <1>13, <1>14, Zenon
<1> QED
  BY <1>1, <1>12, <1>15, Zenon DEF LogInv

LEMMA MinMaxOne == ASSUME NEW e \in Int PROVE Min({e}) = e /\ Max({e}) = e
<1>1. PICK S : S = {e}
  BY Zenon
<1>2. S \subseteq Int /\ e \in S /\ (\A s \in S : e <= s) /\ (\A s \in S : s <= e)
  BY <1>1
<1>3. Min(S) = e
  BY <1>2, MinIs, Zenon
<1>4. Max(S) = e
  BY <1>2, MaxIs, Zenon
<1> QED
  BY <1>1, <1>3, <1>4, Zenon

\* The first segment of a log that has no batch yet.
LEMMA FirstSegment ==
  ASSUME NEW h \in Histories, index.base.lsn = Len(h), NEW f,
         f = [s \in {Len(h) + 1} |-> <<>>]
  PROVE  /\ SegInv(f, h) /\ DOMAIN f = {Len(h) + 1} /\ f[Len(h) + 1] = <<>>
         /\ Min(DOMAIN f) = Len(h) + 1 /\ Max(DOMAIN f) = Len(h) + 1
<1>1. PICK e : e = Len(h) + 1
  BY Zenon
<1>2. Len(h) \in Nat
  BY HistoryElements, Zenon
<1>3. e \in Nat /\ e > Len(h) /\ e <= e /\ e + 0 = e /\ e .. Len(h) = {} /\ ~(e < e)
  BY <1>1, <1>2
<1>4. DOMAIN f = {e} /\ f[e] = <<>>
  BY <1>1, Zenon
<1>5. Len(f[e]) = 0 /\ 1 .. 0 = {} /\ <<>> \in Seq([lsn : Nat, tag : Tags, torn : BOOLEAN])
  BY <1>4
<1>6. end(f, e) = e
  BY <1>3, <1>5, Zenon DEF end
<1>7. f \in [DOMAIN f -> Seq([lsn : Nat, tag : Tags, torn : BOOLEAN])]
  BY <1>1, <1>4, <1>5, Zenon
<1>8. SegInv(f, h)
  BY <1>1, <1>3, <1>4, <1>5, <1>6, <1>7, Zenon DEF SegInv
<1>9. Min({e}) = e /\ Max({e}) = e
  <2>1. e \in Int
    BY <1>3
  <2> QED
    BY <2>1, MinMaxOne, Zenon
<1> QED
  BY <1>1, <1>4, <1>8, <1>9, Zenon

LEMMA ResetOpenLog ==
  ASSUME data \in Histories, PcType, NEW h \in Histories, NEW g, DiskInv(h, g), ResetOpen
  PROVE  LogInv'
<1>1. pc.op = "open" /\ UNCHANGED <<data, index>> /\ pc' = Idle
  BY Zenon DEF ResetOpen
<1>2. ResetInv(h) /\ pc.pos = stored(data)
  <2>1. pc.op \in {"remove", "rename", "open"}
    BY <1>1, Zenon
  <2> QED
    BY <1>1, <2>1, ResetStep, Zenon
<1>3. h = data /\ index = [base |-> stored(h), lines |-> <<>>] /\ IndexInv(h)
  BY <1>1, <1>2, Zenon DEF ResetInv, DiskInv
<1>4. /\ stored(h).lsn = Len(h) /\ Len(h) \in Nat
  BY StoredPosition, HistoryElements, Zenon
<1>5. PICK f : f = [s \in {Len(h) + 1} |-> <<>>]
  BY Zenon
<1>6. segs' = f /\ log' = resetLog(Len(h) + 1, stored(h).lastEpoch) /\ pos' = stored(h)
  BY <1>2, <1>3, <1>4, <1>5, Zenon DEF ResetOpen
<1>7. index.base = stored(h) /\ index.lines = <<>> /\ index.base.lsn = Len(h)
      /\ \A i : i \notin 1 .. Len(index.lines)
  BY <1>3, <1>4
<1>8. SegInv(f, h) /\ Min(DOMAIN f) = Len(h) + 1 /\ DOMAIN f # {}
  BY <1>5, <1>7, FirstSegment, Zenon
<1>9. IndexInv(h)' /\ SegInv(f, h)'
  BY <1>1, <1>3, <1>8, FilesKept, Zenon
<1>10. LinesBelow(Len(h))' /\ Behind(h)' /\ Files(f)'
  BY <1>1, <1>3, <1>6, <1>7, Zenon DEF LinesBelow, Behind, Files
<1>11. log' = logOf(h)'
  <2>1. log' = [last |-> Len(h), firstSeg |-> Len(h) + 1, epochs |-> <<>>,
                baseLSN |-> Len(h), baseEp |-> stored(h).lastEpoch]
    BY <1>4, <1>6 DEF resetLog
  <2> QED
    BY <1>1, <1>6, <1>7, <1>8, <2>1, Zenon DEF logOf
<1>12. IdleInv(h)'
  BY <1>1, <1>3, <1>6, <1>8, <1>10, <1>11, Zenon DEF IdleInv, Serving
<1>13. PcType' /\ PcInv(h)'
  BY <1>1, <1>12, PcNextSimple, Zenon
<1> QED
  BY <1>1, <1>9, <1>10, <1>13, Zenon DEF LogInv, DiskInv

LEMMA TruncateLog ==
  ASSUME LeastElements, data \in Histories, PcType, NEW h \in Histories, NEW g, DiskInv(h, g),
         NEW floor \in 1 .. MaxLSN + 1, Truncate(floor)
  PROVE  LogInv'
<1> DEFINE after(s) == {x \in DOMAIN g : x > s}
           K == {s \in DOMAIN g : s = Max(DOMAIN g) \/ Min(after(s)) > floor}
<1>1. pc = Idle /\ pc # Down /\ UNCHANGED <<data, index, pos, pc>>
  <2>1. Idle # Down
    BY Zenon DEF Idle, Down
  <2> QED
    BY <2>1, Zenon DEF Truncate
<1>2. segs = g /\ IdleInv(h) /\ IndexInv(h) /\ SegInv(g, h) /\ Behind(h)
  BY <1>1, FilesAreClean, Zenon DEF DiskInv, PcInv
<1>3. PICK f : f = [s \in K |-> g[s]]
  BY Zenon
<1>4. segs' = f /\ log' = [log EXCEPT !.firstSeg = Min(K)]
  BY <1>2, <1>3, Zenon DEF Truncate
<1>5. DOMAIN g # {} /\ DOMAIN g \subseteq Nat /\ log = logOf(h) /\ pos = stored(h) /\ h = data
      /\ LinesBelow(Len(h))
  BY <1>2, Zenon DEF IdleInv, Serving, SegInv
<1>6. PICK m \in DOMAIN g : \A s \in DOMAIN g : s <= m
  BY <1>2, <1>5, Zenon DEF SegInv
<1>7. m = Max(DOMAIN g)
  <2>1. DOMAIN g \subseteq Int
    BY <1>5
  <2> QED
    BY <1>6, <2>1, MaxIs, Zenon
<1>8. ASSUME NEW s \in K, NEW t \in DOMAIN g, s <= t PROVE t \in K
  <2>1. CASE t = m
    BY <1>7, <2>1, Zenon
  <2>2. CASE t # m
    <3>1. s \in DOMAIN g /\ s \in Nat /\ t \in Nat /\ m \in Nat /\ t <= m
      BY <1>5, <1>6, Zenon
    <3>2. s # m /\ m > t /\ m > s
      BY <1>8, <2>2, <3>1
    <3>3. Min(after(s)) > floor
      BY <1>7, <3>2, Zenon
    <3>4. after(t) \subseteq after(s) /\ after(s) \subseteq Nat /\ m \in after(t)
      BY <1>5, <1>8, <3>1, <3>2
    <3>5. Min(after(t)) \in after(s) /\ \A x \in after(s) : Min(after(s)) <= x
      <4> HIDE DEF after
      <4>1. Min(after(t)) \in after(t)
        <5>1. after(t) # {} /\ after(t) \subseteq Nat
          BY <3>4, Zenon
        <5> QED
          BY <5>1, MinExists, Zenon
      <4>2. after(s) # {}
        BY <3>4, Zenon
      <4>3. \A x \in after(s) : Min(after(s)) <= x
        BY <3>4, <4>2, MinExists, Zenon
      <4> QED
        BY <3>4, <4>1, <4>3, Zenon
    <3>6. Min(after(s)) \in Nat /\ Min(after(t)) \in Nat /\ Min(after(s)) <= Min(after(t))
      <4> HIDE DEF after
      <4>1. after(s) # {}
        BY <3>4, Zenon
      <4>2. Min(after(s)) \in after(s)
        BY <3>4, <4>1, MinExists, Zenon
      <4> QED
        BY <3>4, <3>5, <4>2, Zenon
    <3>7. floor \in Int
      OBVIOUS
    <3>8. Min(after(t)) > floor
      <4> HIDE DEF after
      <4> QED
        BY <3>3, <3>6, <3>7
    <3> QED
      BY <3>8, Zenon
  <2> QED
    BY <2>1, <2>2, Zenon
<1>9. K \in SUBSET DOMAIN g /\ m \in K
  BY <1>6, <1>7, Zenon
<1> HIDE DEF K
<1>10. SegInv(f, h) /\ DOMAIN f = K
  <2>1. K # {}
    BY <1>9, Zenon
  <2> QED
    BY <1>2, <1>3, <1>8, <1>9, <2>1, LaterSegments, Zenon
<1>11. IndexInv(h)' /\ SegInv(f, h)'
  BY <1>1, <1>2, <1>10, FilesKept, Zenon
<1>12. LinesBelow(Len(h))' /\ Behind(h)' /\ Files(f)'
  BY <1>1, <1>2, <1>4, <1>5, Zenon DEF LinesBelow, Behind, Files
<1>13. log' = logOf(h)'
  <2>1. log' = [last |-> Len(h), firstSeg |-> Min(K), epochs |-> index.lines,
                baseLSN |-> index.base.lsn, baseEp |-> index.base.lastEpoch]
    BY <1>4, <1>5, Zenon DEF logOf
  <2> QED
    BY <1>1, <1>4, <1>10, <2>1, Zenon DEF logOf
<1>14. IdleInv(h)'
  BY <1>1, <1>4, <1>5, <1>9, <1>10, <1>12, <1>13, Zenon DEF IdleInv, Serving
<1>15. PcType' /\ PcInv(h)'
  BY <1>1, <1>14, PcNextSimple, Zenon
<1> QED
  BY <1>1, <1>11, <1>12, <1>15, Zenon DEF LogInv, DiskInv

-----------------------------------------------------------------------------
(* Crash and start. *)

LEMMA CrashLog ==
  ASSUME LeastElements, data \in Histories, PcType, NEW h \in Histories, NEW g, DiskInv(h, g),
         Crash
  PROVE  LogInv'
<1>1. pc # Down /\ pc' = Down /\ data' = data
  BY Zenon DEF Crash
<1>2. segs = g /\ IndexInv(h) /\ SegInv(g, h) /\ Behind(h)
  BY <1>1, FilesAreClean, Zenon DEF DiskInv
<1>3. PcType' /\ PcInv(h)'
  BY <1>1, PcNextSimple, Zenon
<1>4. ASSUME index' = index, Files(g)' PROVE LogInv'
  <2>1. IndexInv(h)' /\ SegInv(g, h)'
    BY <1>2, <1>4, FilesKept, Zenon
  <2>2. Behind(h)'
    BY <1>1, <1>2, <1>4, Zenon DEF Behind, LinesBelow
  <2> QED
    BY <1>1, <1>3, <1>4, <2>1, <2>2, Zenon DEF LogInv, DiskInv
<1>5. CASE UNCHANGED <<segs, index>>
  BY <1>2, <1>4, <1>5, Zenon DEF Files
<1>6. ASSUME pc.op = "frame", index' = index,
             segs' = [segs EXCEPT ![Max(DOMAIN segs)] =
                        Append(@, [Frame(pc.batch) EXCEPT !.torn = TRUE])]
      PROVE  LogInv'
  <2>1. PICK tag \in Tags :
          /\ pc = [op |-> pc.op, batch |-> [lsn |-> Len(h) + 1, tag |-> tag]]
          /\ [lsn |-> Len(h) + 1, tag |-> tag] \in Batches /\ Serving(h)
    BY <1>6, Write, Zenon
  <2>2. pc.batch = [lsn |-> Len(h) + 1, tag |-> tag]
    BY <2>1
  <2>3. PICK f : f = [Frame(pc.batch) EXCEPT !.torn = TRUE]
    BY Zenon
  <2>4. f \in [lsn : Nat, tag : Tags, torn : {TRUE}]
    BY <2>1, <2>2, <2>3, Zenon DEF Frame, Batches
  <2>5. DOMAIN g # {} /\ segs' = [g EXCEPT ![Max(DOMAIN g)] = Append(@, f)]
    BY <1>2, <1>6, <2>1, <2>3, Zenon DEF Serving
  <2>6. Files(g)'
    BY <1>1, <2>4, <2>5, Zenon DEF Files
  <2> QED
    BY <1>4, <1>6, <2>6, Zenon
<1>7. ASSUME pc.op = "index", segs' = segs, NEW ep \in Tags,
             index' = [index EXCEPT !.lines = Append(@, [first |-> pc.batch.lsn, ep |-> ep])]
      PROVE  LogInv'
  <2>1. PICK tag \in Tags :
          /\ data = Append(h, tag)
          /\ pc = [op |-> pc.op, batch |-> [lsn |-> Len(h) + 1, tag |-> tag]]
    BY <1>7, Write, Zenon
  <2>2. pc.batch.lsn = Len(h) + 1
    BY <2>1
  <2>3. /\ index \in [base : [lastEpoch : Nat, lsn : Nat], lines : Seq(Lines)]
        /\ index.lines \in Seq(Lines) /\ index.base.lsn \in Nat /\ index.base.lsn <= Len(h)
        /\ Len(h) \in Nat
    BY <1>2, HistoryElements, Zenon DEF IndexInv
  <2>4. PICK line : line = [first |-> Len(h) + 1, ep |-> ep]
    BY Zenon
  <2>5. line \in Lines /\ line.first = Len(h) + 1
    BY <2>3, <2>4 DEF Lines
  <2>6. PICK ls : ls = Append(index.lines, line)
    BY Zenon
  <2>7. /\ ls \in Seq(Lines) /\ index'.lines = ls /\ index'.base = index.base
        /\ index' \in [base : [lastEpoch : Nat, lsn : Nat], lines : Seq(Lines)]
    <3>1. index' = [index EXCEPT !.lines = ls]
      BY <1>7, <2>2, <2>4, <2>6, Zenon
    <3>2. ls \in Seq(Lines)
      BY <2>3, <2>5, <2>6
    <3> QED
      BY <2>3, <3>1, <3>2, Zenon
  <2>8. \A lsn \in index.base.lsn + 1 .. Len(h) :
          indexedEpoch(ls, lsn) = indexedEpoch(index.lines, lsn)
    <3> SUFFICES ASSUME NEW lsn \in index.base.lsn + 1 .. Len(h)
                 PROVE  indexedEpoch(ls, lsn) = indexedEpoch(index.lines, lsn)
      BY Zenon
    <3>1. lsn \in Nat /\ line.first > lsn
      BY <2>3, <2>5
    <3> QED
      BY <2>3, <2>5, <2>6, <3>1, IndexedAbove, Zenon
  <2>9. \A i \in 1 .. Len(ls) : ls[i].first > index.base.lsn
    <3>1. \A i \in 1 .. Len(index.lines) : index.lines[i].first > index.base.lsn
      BY <1>2, Zenon DEF IndexInv
    <3>2. line.first > index.base.lsn
      BY <2>3, <2>5
    <3>3. \A i \in 1 .. Len(ls) : ls[i] = line \/ (i \in 1 .. Len(index.lines) /\ ls[i] = index.lines[i])
      BY <2>3, <2>5, <2>6
    <3> QED
      BY <3>1, <3>2, <3>3, Zenon
  <2>10. IndexInv(h)'
    BY <1>2, <2>7, <2>8, <2>9, Zenon DEF IndexInv
  <2>11. Behind(h)'
    <3>1. h # data
      BY <2>1, <2>3, HistoryElements
    <3> QED
      BY <1>1, <1>2, <3>1, Zenon DEF Behind
  <2>12. SegInv(g, h)' /\ Files(g)'
    BY <1>2, <1>7, <2>7, Zenon DEF SegInv, Files
  <2> QED
    BY <1>1, <1>3, <2>10, <2>11, <2>12, Zenon DEF LogInv, DiskInv
<1> QED
  BY <1>5, <1>6, <1>7, Zenon DEF Crash

\* recoverSegmentTail keeps complete frames and drops a torn one at the end.
LEMMA CompleteFrames ==
  ASSUME NEW S, NEW q \in Seq(S), NEW x \in S, x.torn,
         \A i \in 1 .. Len(q) : ~q[i].torn
  PROVE  recoverSegmentTail(q) = q /\ recoverSegmentTail(Append(q, x)) = q
<1> DEFINE n == Len(q)
           more == Append(q, x)
           torn == {i \in 1 .. Len(more) : more[i].torn}
<1>1. recoverSegmentTail(q) = q
  <2>1. {i \in 1 .. Len(q) : q[i].torn} = {}
    BY Zenon
  <2> QED
    BY <2>1, Zenon DEF recoverSegmentTail
<1>2. /\ n \in Nat /\ Len(more) = n + 1 /\ more[n + 1] = x
      /\ \A i \in 1 .. n : more[i] = q[i]
      /\ SubSeq(more, 1, n) = q
  OBVIOUS
<1>3. torn = {n + 1}
  <2>1. \A i : i \in 1 .. n + 1 <=> i \in 1 .. n \/ i = n + 1
    BY <1>2
  <2> QED
    BY <1>2, <2>1, Zenon
<1>4. Min({n + 1}) = n + 1
  <2>1. n + 1 \in Int
    BY <1>2
  <2> QED
    BY <2>1, MinMaxOne, Zenon
<1>5. (n + 1) - 1 = n /\ torn # {}
  BY <1>2, <1>3
<1> QED
  BY <1>1, <1>2, <1>3, <1>4, <1>5, Zenon DEF recoverSegmentTail

LEMMA FramesComplete ==
  ASSUME NEW h \in Histories, NEW g, SegInv(g, h), NEW s \in DOMAIN g
  PROVE  recoverSegmentTail(g[s]) = g[s] /\ \A i \in 1 .. Len(g[s]) : ~g[s][i].torn
<1>1. \A i \in 1 .. Len(g[s]) : g[s][i] = Frame([lsn |-> s + i - 1, tag |-> h[s + i - 1]])
  BY Zenon DEF SegInv
<1>2. \A i \in 1 .. Len(g[s]) : g[s][i].torn = FALSE
  <2> SUFFICES ASSUME NEW i \in 1 .. Len(g[s]) PROVE g[s][i].torn = FALSE
    BY Zenon
  <2>1. PICK a, b : g[s][i] = Frame([lsn |-> a, tag |-> b])
    BY <1>1, Zenon
  <2> QED
    BY <2>1 DEF Frame
<1>3. {i \in 1 .. Len(g[s]) : g[s][i].torn} = {}
  BY <1>2, Zenon
<1> QED
  BY <1>2, <1>3, Zenon DEF recoverSegmentTail

\* What Open finds: the complete frames, in a first segment if there is none.
LEMMA CutFiles ==
  ASSUME NEW h \in Histories, NEW g, IndexInv(h), SegInv(g, h), Files(g),
         NEW cut, cut = IF DOMAIN segs = {} THEN [s \in {index.base.lsn + 1} |-> <<>>]
                        ELSE [segs EXCEPT ![Max(DOMAIN segs)] = recoverSegmentTail(@)]
  PROVE  SegInv(cut, h) /\ DOMAIN cut # {}
<1> DEFINE M == Max(DOMAIN g)
           Frames == [lsn : Nat, tag : Tags, torn : BOOLEAN]
<1>1. CASE DOMAIN g = {}
  <2>1. segs = g /\ Len(h) = index.base.lsn
    BY <1>1, Zenon DEF Files, SegInv
  <2>2. cut = [s \in {Len(h) + 1} |-> <<>>]
    BY <1>1, <2>1, Zenon
  <2>3. SegInv(cut, h) /\ DOMAIN cut = {Len(h) + 1}
    BY <2>1, <2>2, FirstSegment, Zenon
  <2> QED
    BY <2>3, Zenon
<1>2. CASE DOMAIN g # {}
  <2>1. M \in DOMAIN g
    <3>1. PICK m \in DOMAIN g : \A s \in DOMAIN g : s <= m
      BY <1>2, Zenon DEF SegInv
    <3>2. DOMAIN g \subseteq Int
      BY DEF SegInv
    <3> QED
      BY <3>1, <3>2, MaxIs, Zenon
  <2>2. g \in [DOMAIN g -> Seq(Frames)] /\ g[M] \in Seq(Frames)
    BY <2>1, Zenon DEF SegInv
  <2>3. recoverSegmentTail(g[M]) = g[M]
    BY <2>1, FramesComplete, Zenon
  <2>4. CASE segs = g
    <3>1. cut = [g EXCEPT ![M] = g[M]]
      BY <1>2, <2>3, <2>4, Zenon
    <3>2. cut = g
      BY <2>1, <2>2, <3>1, Zenon
    <3> QED
      BY <1>2, <3>2, Zenon
  <2>5. ASSUME NEW f \in [lsn : Nat, tag : Tags, torn : {TRUE}],
               segs = [g EXCEPT ![M] = Append(@, f)]
        PROVE  cut = g
    <3>1. f \in Frames /\ f.torn
      BY Zenon
    <3>2. \A i \in 1 .. Len(g[M]) : ~g[M][i].torn
      BY <2>1, FramesComplete, Zenon
    <3> HIDE DEF M, Frames
    <3>3. DOMAIN segs = DOMAIN g /\ segs[M] = Append(g[M], f)
          /\ \A s \in DOMAIN g \ {M} : segs[s] = g[s]
      <4>1. segs = [s \in DOMAIN g |-> IF s = M THEN Append(g[M], f) ELSE g[s]]
        BY <2>1, <2>5, Zenon
      <4> QED
        BY <2>1, <4>1, Zenon
    <3>4. recoverSegmentTail(segs[M]) = g[M]
      <4>1. recoverSegmentTail(Append(g[M], f)) = g[M]
        BY <2>2, <3>1, <3>2, CompleteFrames, Zenon
      <4> QED
        BY <3>3, <4>1, Zenon
    <3>5. cut = [segs EXCEPT ![M] = g[M]]
      BY <1>2, <3>3, <3>4, Zenon DEF M
    <3>6. DOMAIN cut = DOMAIN g /\ \A s \in DOMAIN g : cut[s] = g[s]
      BY <2>1, <3>3, <3>5, Zenon
    <3>7. cut = [s \in DOMAIN g |-> cut[s]] /\ g = [s \in DOMAIN g |-> g[s]]
      BY <2>2, <3>3, <3>5, Zenon
    <3> QED
      BY <3>6, <3>7, Zenon
  <2>6. segs = g \/ \E f \in [lsn : Nat, tag : Tags, torn : {TRUE}] :
                       segs = [g EXCEPT ![M] = Append(@, f)]
    BY Zenon DEF Files
  <2> QED
    BY <1>2, <2>4, <2>5, <2>6, Zenon
<1> QED
  BY <1>1, <1>2, Zenon

\* The log it opens ends where the history of the files ends.
LEMMA OpenedLog ==
  ASSUME NEW h \in Histories, NEW f, SegInv(f, h), DOMAIN f # {}
  PROVE  openedLog(f) = [last |-> Len(h), firstSeg |-> Min(DOMAIN f), epochs |-> index.lines,
                         baseLSN |-> index.base.lsn, baseEp |-> index.base.lastEpoch]
<1>1. PICK m \in DOMAIN f : end(f, m) = Len(h) + 1 /\ \A s \in DOMAIN f : s <= m
  BY Zenon DEF SegInv
<1>2. m = Max(DOMAIN f)
  <2>1. DOMAIN f \subseteq Int
    BY DEF SegInv
  <2> QED
    BY <1>1, <2>1, MaxIs, Zenon
<1>3. /\ f[m] \in Seq([lsn : Nat, tag : Tags, torn : BOOLEAN]) /\ m \in Nat
      /\ \A i \in 1 .. Len(f[m]) : f[m][i] = Frame([lsn |-> m + i - 1, tag |-> h[m + i - 1]])
  BY <1>1, Zenon DEF SegInv
<1>4. Len(f[m]) \in Nat /\ m + Len(f[m]) = Len(h) + 1 /\ Len(h) \in Nat
  BY <1>1, <1>3, HistoryElements DEF end
<1>5. (IF f[m] = <<>> THEN m - 1 ELSE f[m][Len(f[m])].lsn) = Len(h)
  <2>1. CASE f[m] = <<>>
    BY <1>4, <2>1
  <2>2. CASE f[m] # <<>>
    <3>1. Len(f[m]) \in 1 .. Len(f[m])
      BY <1>3, <1>4, <2>2
    <3>2. PICK b : f[m][Len(f[m])] = Frame([lsn |-> m + Len(f[m]) - 1, tag |-> b])
      BY <1>3, <3>1, Zenon
    <3>3. f[m][Len(f[m])].lsn = m + Len(f[m]) - 1
      BY <3>2 DEF Frame
    <3>4. m + Len(f[m]) - 1 = Len(h)
      BY <1>3, <1>4
    <3> QED
      BY <2>2, <3>3, <3>4, Zenon
  <2> QED
    BY <2>1, <2>2, Zenon
<1> QED
  BY <1>2, <1>5, Zenon DEF openedLog

\* The position New recovers is that of the data; the log is used as it is only when
\* it has the same history.
LEMMA RecoveredPosition ==
  ASSUME data \in Histories, NEW h \in Histories, IndexInv(h), Behind(h), NEW l,
         l.last = Len(h), l.epochs = index.lines, l.baseLSN = index.base.lsn,
         l.baseEp = index.base.lastEpoch, l.firstSeg \in Nat
  PROVE  /\ recoverPosition(l) = stored(data)
         /\ stored(data) = [lastEpoch |-> LastEpoch(l), lsn |-> l.last] =>
              h = data /\ LinesBelow(Len(h))
<1>1. PICK e : e = LastEpoch(l)
  BY Zenon
<1>2. PICK lp : lp = [lastEpoch |-> e, lsn |-> Len(h)]
  BY Zenon
<1>3. e \in {0, stored(h).lastEpoch}
  BY <1>1, LastEpochOfLog, Zenon
<1>4. /\ stored(h) \in Pos /\ stored(data) \in Pos
      /\ stored(h).lsn = Len(h) /\ stored(data).lsn = Len(data)
      /\ stored(h).lastEpoch = IF Len(h) = 0 THEN 0 ELSE h[Len(h)]
      /\ stored(data).lastEpoch = IF Len(data) = 0 THEN 0 ELSE data[Len(data)]
      /\ Len(h) \in Nat /\ Len(data) \in Nat
  BY StoredPosition, HistoryElements, Zenon
<1>5. stored(data).lastEpoch = 0 => Len(data) = 0
  <2>1. Len(data) # 0 => Len(data) \in 1 .. Len(data)
    BY <1>4
  <2>2. Len(data) # 0 => data[Len(data)] \in Nat /\ data[Len(data)] > 0
    BY <2>1, HistoryElements, Zenon
  <2> QED
    BY <1>4, <2>2
<1>6. lp \in Pos /\ lp.lastEpoch = e /\ lp.lsn = Len(h)
  BY <1>2, <1>3, <1>4 DEF Pos
<1>7. lp = stored(h) \/ older(lp, stored(h))
  <2>1. CASE e = stored(h).lastEpoch
    BY <1>4, <1>6, <2>1 DEF Pos
  <2>2. CASE e # stored(h).lastEpoch
    BY <1>3, <1>4, <1>6, <2>2 DEF Pos, older
  <2> QED
    BY <2>1, <2>2, Zenon
<1>8. older(stored(h), stored(data)) \/ h = data
  BY Zenon DEF Behind
<1>9. lp = stored(data) \/ older(lp, stored(data))
  BY <1>4, <1>6, <1>7, <1>8, OlderOrder, Zenon
<1>10. recoverPosition(l) = stored(data)
  BY <1>1, <1>2, <1>9, Zenon DEF recoverPosition
<1>11. ASSUME stored(data) = lp PROVE h = data /\ LinesBelow(Len(h))
  <2>1. ~older(stored(h), stored(data))
    <3>1. CASE lp = stored(h)
      BY <1>4, <1>11, <3>1, OlderOrder, Zenon
    <3>2. CASE lp # stored(h)
      <4>1. e = 0
        BY <1>3, <1>4, <1>6, <3>2 DEF Pos
      <4>2. Len(data) = 0 /\ Len(h) = 0
        BY <1>4, <1>5, <1>6, <1>11, <4>1, Zenon
      <4>3. stored(h) = lp
        BY <1>4, <1>6, <4>1, <4>2 DEF Pos
      <4> QED
        BY <3>2, <4>3, Zenon
    <3> QED
      BY <3>1, <3>2, Zenon
  <2> QED
    BY <2>1, Zenon DEF Behind
<1> QED
  BY <1>1, <1>2, <1>10, <1>11, Zenon

LEMMA OpenLog ==
  ASSUME LeastElements, data \in Histories, PcType, NEW h \in Histories, NEW g, DiskInv(h, g),
         Open
  PROVE  LogInv'
<1>1. PICK cut : cut = IF DOMAIN segs = {} THEN [s \in {index.base.lsn + 1} |-> <<>>]
                       ELSE [segs EXCEPT ![Max(DOMAIN segs)] = recoverSegmentTail(@)]
  BY Zenon
<1>2. PICK l : l = openedLog(cut)
  BY Zenon
<1>3. IndexInv(h) /\ SegInv(g, h) /\ Files(g) /\ Behind(h)
  BY Zenon DEF DiskInv
<1>4. SegInv(cut, h) /\ DOMAIN cut # {}
  BY <1>1, <1>3, CutFiles, Zenon
<1>5. l = [last |-> Len(h), firstSeg |-> Min(DOMAIN cut), epochs |-> index.lines,
           baseLSN |-> index.base.lsn, baseEp |-> index.base.lastEpoch]
  BY <1>2, <1>4, OpenedLog, Zenon
<1>6. /\ l.last = Len(h) /\ l.epochs = index.lines /\ l.baseLSN = index.base.lsn
      /\ l.baseEp = index.base.lastEpoch /\ l.firstSeg \in Nat
  <2>1. Min(DOMAIN cut) \in DOMAIN cut /\ DOMAIN cut \subseteq Nat
    BY <1>4, MinExists, Zenon DEF SegInv
  <2> QED
    BY <1>5, <2>1, Zenon
<1>7. PICK lp : lp = [lastEpoch |-> LastEpoch(l), lsn |-> l.last]
  BY Zenon
<1>8. recoverPosition(l) = stored(data) /\ (stored(data) = lp => h = data /\ LinesBelow(Len(h)))
  BY <1>3, <1>6, <1>7, RecoveredPosition, Zenon
<1>9. /\ segs' = cut /\ log' = l /\ pos' = stored(data) /\ UNCHANGED <<data, index>>
      /\ pc' = IF stored(data).lsn = 0 /\ legacy.tasks # {} THEN Held
               ELSE IF stored(data) # lp THEN Resetting("remove", stored(data)) ELSE Idle
  BY <1>1, <1>2, <1>7, <1>8, Zenon DEF Open
<1>10. IndexInv(h)' /\ SegInv(cut, h)'
  BY <1>3, <1>4, <1>9, FilesKept, Zenon
<1>11. Behind(h)' /\ Files(cut)'
  BY <1>3, <1>9, Zenon DEF Behind, LinesBelow, Files
<1>12. PcType' /\ PcInv(h)'
  <2>1. CASE pc' = Held /\ stored(data).lsn = 0
    <3>1. data = <<>>
      BY StoredPosition, HistoryElements, <2>1, Zenon
    <3>2. stored(data) = NoPos
      BY <3>1, Zenon DEF stored
    <3> QED
      BY <1>9, <2>1, <3>1, <3>2, PcNextSimple, Zenon
  <2>2. CASE pc' = Resetting("remove", stored(data))
    <3>1. /\ pc' = [op |-> "remove", pos |-> stored(data)] /\ "remove" \in {"remove", "rename", "open"}
          /\ pc'.op = "remove" /\ pc'.pos = stored(data)
      BY <2>2, Zenon DEF Resetting
    <3>2. ResetInv(h)'
      BY <1>9, <3>1, Zenon DEF ResetInv
    <3>3. stored(data) \in Pos
      BY StoredPosition, Zenon
    <3> QED
      BY <3>1, <3>2, <3>3, PcNextReset, Zenon
  <2>3. CASE pc' = Idle /\ stored(data) = lp
    <3>1. h = data /\ LinesBelow(Len(h))
      BY <1>8, <2>3, Zenon
    <3>2. log' = logOf(h)'
      BY <1>5, <1>9, Zenon DEF logOf
    <3>3. IdleInv(h)'
      BY <1>4, <1>9, <3>1, <3>2, Zenon DEF IdleInv, Serving, LinesBelow
    <3> QED
      BY <2>3, <3>3, PcNextSimple, Zenon
  <2> QED
    BY <1>9, <2>1, <2>2, <2>3, Zenon
<1> QED
  BY <1>9, <1>10, <1>11, <1>12, Zenon DEF LogInv, DiskInv

LEMMA InitLog == ASSUME Init PROVE LogInv
<1>1. /\ data = <<>> /\ segs = [x \in {} |-> <<>>] /\ index = [base |-> NoPos, lines |-> <<>>]
      /\ pc = Down
  BY Zenon DEF Init
<1>2. PICK h : h = <<>>
  BY Zenon
<1>3. h \in Histories /\ Len(h) = 0 /\ data = h
  BY <1>1, <1>2 DEF Histories
<1>4. index.base.lsn = 0 /\ index.base.lastEpoch = 0 /\ Len(index.lines) = 0
      /\ index \in [base : [lastEpoch : Nat, lsn : Nat], lines : Seq(Lines)]
  BY <1>1 DEF NoPos
<1>5. (\A i : i \notin 1 .. 0) /\ (\A i : i \notin 0 + 1 .. 0) /\ 0 <= 0
  OBVIOUS
<1>6. IndexInv(h)
  BY <1>3, <1>4, <1>5, Zenon DEF IndexInv
<1>7. SegInv(segs, h)
  <2>1. DOMAIN segs = {} /\ segs \in [DOMAIN segs -> Seq([lsn : Nat, tag : Tags, torn : BOOLEAN])]
    BY <1>1, Zenon
  <2> QED
    BY <1>3, <1>4, <2>1, Zenon DEF SegInv
<1>8. Behind(h) /\ Files(segs)
  BY <1>3, <1>4, <1>5, Zenon DEF Behind, LinesBelow, Files
<1>9. PcType /\ PcInv(h)
  <2>1. pc.op = "down" /\ pc # Idle /\ pc # Held /\ pc \in {Idle, Down, Held}
    BY <1>1, Zenon DEF Down, Idle, Held
  <2> QED
    BY <2>1, Zenon DEF PcType, PcInv
<1> QED
  BY <1>3, <1>6, <1>7, <1>8, <1>9, Zenon DEF LogInv, DiskInv

LEMMA NextLog == ASSUME LeastElements, LogInv, [Next]_vars PROVE LogInv'
<1>1. data \in Histories /\ PcType
  BY Zenon DEF LogInv
<1>2. PICK h \in Histories : \E g : DiskInv(h, g)
  BY Zenon DEF LogInv
<1>3. PICK g : DiskInv(h, g)
  BY <1>2, Zenon
<1>4. ASSUME UNCHANGED <<data, segs, index, log, pos, pc>> PROVE LogInv'
  <2>1. IndexInv(h)' /\ SegInv(g, h)'
    BY <1>3, <1>4, FilesKept, Zenon DEF DiskInv
  <2>2. Behind(h)' /\ Files(g)'
    BY <1>3, <1>4, Zenon DEF DiskInv, Behind, LinesBelow, Files
  <2>3. PcType'
    BY <1>1, <1>4, Zenon DEF PcType
  <2>4. Serving(h) = Serving(h)' /\ (\A n : LinesBelow(n) = LinesBelow(n)')
    BY <1>4, Zenon DEF Serving, logOf, LinesBelow
  <2>5. IdleInv(h) = IdleInv(h)' /\ WriteInv(h) = WriteInv(h)' /\ ResetInv(h) = ResetInv(h)'
    BY <1>4, <2>4, Zenon DEF IdleInv, WriteInv, ResetInv
  <2>6. PcInv(h)'
    BY <1>3, <1>4, <2>5, Zenon DEF DiskInv, PcInv
  <2> QED
    BY <1>1, <1>4, <2>1, <2>2, <2>3, <2>6, Zenon DEF LogInv, DiskInv
<1>5. CASE UNCHANGED vars
  BY <1>4, <1>5, Zenon DEF vars
<1>6. CASE Migrate
  BY <1>4, <1>6, Zenon DEF Migrate
<1>7. CASE EnsureCounts
  BY <1>4, <1>7, Zenon DEF EnsureCounts
<1>8. ASSUME NEW tag \in Tags, Commit(tag) PROVE LogInv'
  BY <1>1, <1>3, <1>8, CommitLog, Zenon
<1>9. ASSUME NEW snap \in Snapshots, Restore(snap) PROVE LogInv'
  BY <1>1, <1>3, <1>9, RestoreLog, Zenon
<1>10. ASSUME NEW floor \in 1 .. MaxLSN + 1, Truncate(floor) PROVE LogInv'
  BY <1>1, <1>3, <1>10, TruncateLog, Zenon
<1>11. CASE AppendRoll \/ AppendIndex \/ AppendFrame \/ AppendFails
  BY <1>1, <1>3, <1>11, AppendRollLog, AppendIndexLog, AppendFrameLog, AppendFailsLog, Zenon
<1>12. CASE ResetRemove \/ ResetIndex \/ ResetOpen
  BY <1>1, <1>3, <1>12, ResetRemoveLog, ResetIndexLog, ResetOpenLog, Zenon
<1>13. CASE Crash \/ Open
  BY <1>1, <1>3, <1>13, CrashLog, OpenLog, Zenon
<1> QED
  BY <1>5, <1>6, <1>7, <1>8, <1>9, <1>10, <1>11, <1>12, <1>13, Zenon DEF Next

-----------------------------------------------------------------------------
(* What it says of a process between two operations. *)

LEMMA IdleDisk ==
  ASSUME LogInv, pc = Idle
  PROVE  /\ data \in Histories /\ IndexInv(data) /\ SegInv(segs, data) /\ DOMAIN segs # {}
         /\ log = logOf(data) /\ pos = stored(data) /\ pos.lsn = Len(data) /\ Len(data) \in Nat
<1>1. data \in Histories /\ \E h \in Histories : \E g : DiskInv(h, g)
  BY Zenon DEF LogInv
<1>2. PICK h \in Histories : \E g : DiskInv(h, g)
  BY <1>1, Zenon
<1>3. PICK g : DiskInv(h, g)
  BY <1>2, Zenon
<1>4. pc # Down
  BY Zenon DEF Idle, Down
<1>5. h = data /\ segs = g
  BY <1>3, <1>4, FilesAreClean, Zenon DEF DiskInv, PcInv, IdleInv
<1>6. Serving(h)
  BY <1>3, Zenon DEF DiskInv, PcInv, IdleInv
<1> QED
  BY <1>1, <1>3, <1>5, <1>6, StoredPosition, HistoryElements, Zenon DEF DiskInv, Serving

LEMMA ReadableFrames ==
  ASSUME NEW h \in Histories, SegInv(segs, h)
  PROVE  \A f : f \in Readable <=> \E s \in DOMAIN segs : \E i \in 1 .. Len(segs[s]) : f = segs[s][i]
<1> DEFINE F(s) == LET f == recoverSegmentTail(segs[s]) IN {f[i] : i \in 1 .. Len(f)}
<1>1. \A s \in DOMAIN segs : recoverSegmentTail(segs[s]) = segs[s]
  BY FramesComplete, Zenon
<1>2. ASSUME NEW s \in DOMAIN segs, NEW f
      PROVE  f \in F(s) <=> \E i \in 1 .. Len(segs[s]) : f = segs[s][i]
  <2>1. F(s) = {segs[s][i] : i \in 1 .. Len(segs[s])}
    BY <1>1, Zenon
  <2> QED
    BY <2>1, Zenon
<1>3. Readable = UNION {F(s) : s \in DOMAIN segs}
  BY Zenon DEF Readable
<1> HIDE DEF F
<1>4. \A f : f \in Readable <=> \E s \in DOMAIN segs : f \in F(s)
  BY <1>3, Zenon
<1>5. ASSUME NEW f, f \in Readable
      PROVE  \E s \in DOMAIN segs : \E i \in 1 .. Len(segs[s]) : f = segs[s][i]
  <2>1. PICK s \in DOMAIN segs : f \in F(s)
    BY <1>4, <1>5, Zenon
  <2>2. \E i \in 1 .. Len(segs[s]) : f = segs[s][i]
    BY <1>2, <2>1, Zenon
  <2> QED
    BY <2>2, Zenon
<1>6. ASSUME NEW f, NEW s \in DOMAIN segs, NEW i \in 1 .. Len(segs[s]), f = segs[s][i]
      PROVE  f \in Readable
  BY <1>2, <1>4, <1>6, Zenon
<1> QED
  BY <1>5, <1>6, Zenon

LEMMA DiskLogIsData ==
  ASSUME LeastElements, LogInv, pc = Idle
  PROVE  /\ log.last = pos.lsn
         /\ {f.lsn : f \in Readable} = firstLSN(log) .. log.last
         /\ \A f \in Readable : f.tag = data[f.lsn]
<1>1. PICK h : h = data
  BY Zenon
<1>2. PICK a : a = Min(DOMAIN segs)
  BY Zenon
<1>3. /\ h \in Histories /\ IndexInv(h) /\ SegInv(segs, h) /\ DOMAIN segs # {} /\ log = logOf(h)
      /\ pos.lsn = Len(h) /\ Len(h) \in Nat
  BY <1>1, IdleDisk, Zenon
<1>4. log.last = Len(h) /\ log.firstSeg = a
  BY <1>2, <1>3, Zenon DEF logOf
<1>5. a \in DOMAIN segs /\ DOMAIN segs \subseteq Nat /\ \A s \in DOMAIN segs : a <= s
  BY <1>2, <1>3, MinExists, Zenon DEF SegInv
<1>6. a \in Nat /\ a > 0
  <2>1. index \in [base : [lastEpoch : Nat, lsn : Nat], lines : Seq(Lines)]
    BY <1>3, Zenon DEF IndexInv
  <2>2. index.base.lsn \in Nat
    BY <2>1, Zenon
  <2>3. a > index.base.lsn /\ a \in Nat
    BY <1>3, <1>5, Zenon DEF SegInv
  <2> QED
    BY <2>2, <2>3
<1>7. firstLSN(log) .. log.last = a .. Len(h)
  <2>1. firstLSN(log) = IF a = 0 \/ a > Len(h) THEN Len(h) + 1 ELSE a
    BY <1>4, Zenon DEF firstLSN
  <2>2. CASE a > Len(h)
    <3>1. firstLSN(log) = Len(h) + 1 /\ a .. Len(h) = {} /\ Len(h) + 1 .. Len(h) = {}
      BY <1>3, <1>6, <2>1, <2>2
    <3> QED
      BY <1>4, <3>1, Zenon
  <2>3. CASE ~(a > Len(h))
    <3>1. firstLSN(log) = a
      BY <1>6, <2>1, <2>3
    <3> QED
      BY <1>4, <3>1, Zenon
  <2> QED
    BY <2>2, <2>3, Zenon
<1>8. \A f : f \in Readable <=>
                \E s \in DOMAIN segs : \E i \in 1 .. Len(segs[s]) : f = segs[s][i]
  BY <1>3, ReadableFrames, Zenon
<1>9. ASSUME NEW f \in Readable PROVE f.lsn \in a .. Len(h) /\ f.tag = h[f.lsn]
  <2>1. PICK s \in DOMAIN segs : \E i \in 1 .. Len(segs[s]) : f = segs[s][i]
    BY <1>8, Zenon
  <2>2. PICK i \in 1 .. Len(segs[s]) : f = segs[s][i]
    BY <2>1, Zenon
  <2>3. f = Frame([lsn |-> s + i - 1, tag |-> h[s + i - 1]])
    BY <1>3, <2>2, Zenon DEF SegInv
  <2>4. PICK x : x = s + i - 1
    BY Zenon
  <2>5. f = Frame([lsn |-> x, tag |-> h[x]])
    BY <2>3, <2>4, Zenon
  <2>6. f.lsn = x /\ f.tag = h[x]
    BY <2>5, Zenon DEF Frame
  <2>7. s \in Nat /\ a <= s /\ end(segs, s) <= Len(h) + 1
        /\ segs[s] \in Seq([lsn : Nat, tag : Tags, torn : BOOLEAN])
    BY <1>3, <1>5, Zenon DEF SegInv
  <2>8. Len(segs[s]) \in Nat /\ s + Len(segs[s]) <= Len(h) + 1
    BY <2>7 DEF end
  <2>9. x \in a .. Len(h)
    <3>1. i \in Int /\ 1 <= i /\ i <= Len(segs[s])
      BY <2>8
    <3>2. PICK n : n = Len(segs[s])
      BY Zenon
    <3>3. PICK k : k = Len(h)
      BY Zenon
    <3>4. n \in Nat /\ k \in Nat /\ i <= n /\ s + n <= k + 1
      BY <1>3, <2>8, <3>1, <3>2, <3>3, Zenon
    <3>5. x \in a .. k
      BY <1>6, <2>4, <2>7, <3>1, <3>4
    <3> QED
      BY <3>3, <3>5, Zenon
  <2> QED
    BY <2>6, <2>9, Zenon
<1>10. ASSUME NEW x \in a .. Len(h) PROVE \E f \in Readable : f.lsn = x
  <2>1. PICK t \in DOMAIN segs : t <= x /\ x < end(segs, t)
    BY <1>3, <1>5, Zenon DEF SegInv
  <2>2. /\ t \in Nat /\ segs[t] \in Seq([lsn : Nat, tag : Tags, torn : BOOLEAN])
        /\ \A i \in 1 .. Len(segs[t]) : segs[t][i] = Frame([lsn |-> t + i - 1, tag |-> h[t + i - 1]])
    BY <1>3, <1>5, Zenon DEF SegInv
  <2>3. Len(segs[t]) \in Nat /\ x < t + Len(segs[t]) /\ x \in Int
    BY <2>1, <2>2 DEF end
  <2>4. PICK i : i = x - t + 1
    BY Zenon
  <2>5. i \in 1 .. Len(segs[t]) /\ t + i - 1 = x
    BY <2>1, <2>2, <2>3, <2>4
  <2>6. PICK f : f = segs[t][i]
    BY Zenon
  <2>7. f = Frame([lsn |-> x, tag |-> h[x]])
    BY <2>2, <2>5, <2>6, Zenon
  <2>8. f.lsn = x
    BY <2>7, Zenon DEF Frame
  <2>9. f \in Readable
    BY <1>8, <2>5, <2>6, Zenon
  <2> QED
    BY <2>8, <2>9, Zenon
<1>11. {f.lsn : f \in Readable} = a .. Len(h)
  BY <1>9, <1>10, Zenon
<1> QED
  BY <1>1, <1>3, <1>4, <1>7, <1>9, <1>11, Zenon

LEMMA DiskEpochs ==
  ASSUME LogInv, pc = Idle, NEW lsn \in 1 .. Len(data)
  PROVE  epochAt(log, lsn) \in {Unknown, 0, data[lsn]}
<1> DEFINE b == index.base.lsn
<1>1. PICK h : h = data
  BY Zenon
<1>2. /\ h \in Histories /\ IndexInv(h) /\ log = logOf(h) /\ Len(h) \in Nat
  BY <1>1, IdleDisk, Zenon
<1>3. /\ log.last = Len(h) /\ log.epochs = index.lines /\ log.baseLSN = b
      /\ log.baseEp = index.base.lastEpoch
  BY <1>2, Zenon DEF logOf
<1>4. /\ index \in [base : [lastEpoch : Nat, lsn : Nat], lines : Seq(Lines)]
      /\ index.base.lastEpoch = IF b = 0 THEN 0 ELSE h[b]
      /\ \A n \in b + 1 .. Len(h) : indexedEpoch(index.lines, n) \in {0, h[n]}
  BY <1>2, Zenon DEF IndexInv
<1>5. b \in Nat
  BY <1>4, Zenon
<1>6. lsn \in Nat /\ lsn > 0 /\ lsn # 0 /\ lsn <= Len(h)
  BY <1>1, <1>2
<1>7. lsn = b => log.baseEp = h[lsn]
  BY <1>3, <1>4, <1>6, Zenon
<1>8. ~(lsn < b) /\ lsn # b => indexedEpoch(index.lines, lsn) \in {0, h[lsn]}
  <2>1. ~(lsn < b) /\ lsn # b => lsn \in b + 1 .. Len(h)
    BY <1>2, <1>5, <1>6
  <2> QED
    BY <1>4, <2>1, Zenon
<1> HIDE DEF b
<1>9. PICK e : e = indexedEpoch(index.lines, lsn)
  BY Zenon
<1>10. \/ epochAt(log, lsn) = Unknown
       \/ lsn = b /\ epochAt(log, lsn) = log.baseEp
       \/ ~(lsn < b) /\ lsn # b /\ epochAt(log, lsn) = e
  BY <1>3, <1>6, <1>9 DEF epochAt
<1> QED
  BY <1>1, <1>7, <1>8, <1>9, <1>10, Zenon

-----------------------------------------------------------------------------
(* The upgrade. *)

\* A file whose tasks T are migrated up to the cursor, or all of them.
Upgraded(T, cursor, current, counted, ready) ==
  LET inline == IF current THEN {} ELSE {t \in T : t > cursor}
  IN  [tasks |-> T, inline |-> inline, payloads |-> [t \in T \ inline |-> payloadOf(t)],
       deadlines |-> (T \ inline) \cap TimedTasks, counted |-> counted, ready |-> ready,
       cursor |-> cursor, current |-> current]

\* A task is behind the cursor exactly when it has its new layout, and a store that
\* serves has passed both steps of the upgrade.
LegacyInv ==
  \E T \in SUBSET OldTasks, cursor \in Nat, current \in BOOLEAN, ready \in BOOLEAN :
    \E counted :
      /\ legacy = Upgraded(T, cursor, current, counted, ready)
      /\ ready => counted = Cardinality(T)
      /\ pc # Down => current /\ ready

Fields(f, T, c, cur, n, r) ==
  /\ f.tasks = T /\ f.inline = (IF cur THEN {} ELSE {t \in T : t > c})
  /\ f.payloads = [t \in T \ f.inline |-> payloadOf(t)]
  /\ f.deadlines = (T \ f.inline) \cap TimedTasks
  /\ f.counted = n /\ f.ready = r /\ f.cursor = c /\ f.current = cur

LEMMA UpgradedFields ==
  ASSUME NEW T, NEW c, NEW cur, NEW n, NEW r
  PROVE  Fields(Upgraded(T, c, cur, n, r), T, c, cur, n, r)
<1>1. PICK inl : inl = IF cur THEN {} ELSE {t \in T : t > c}
  BY Zenon
<1>2. PICK pay : pay = [t \in T \ inl |-> payloadOf(t)]
  BY Zenon
<1>3. PICK dead : dead = (T \ inl) \cap TimedTasks
  BY Zenon
<1>4. PICK f : f = Upgraded(T, c, cur, n, r)
  BY Zenon
<1>5. f = [tasks |-> T, inline |-> inl, payloads |-> pay, deadlines |-> dead, counted |-> n,
           ready |-> r, cursor |-> c, current |-> cur]
  BY <1>1, <1>2, <1>3, <1>4, Zenon DEF Upgraded
<1>6. /\ f.tasks = T /\ f.inline = inl /\ f.payloads = pay /\ f.deadlines = dead
      /\ f.counted = n /\ f.ready = r /\ f.cursor = c /\ f.current = cur
  BY <1>5, Zenon
<1>7. Fields(f, T, c, cur, n, r)
  BY <1>1, <1>2, <1>3, <1>6, Zenon DEF Fields
<1> QED
  BY <1>4, <1>7, Zenon

LEMMA CursorFile ==
  ASSUME NEW a, NEW b, NEW c, NEW d, NEW e, NEW g, NEW h, NEW i, NEW h2, NEW f,
         f = [tasks |-> a, inline |-> b, payloads |-> c, deadlines |-> d, counted |-> e,
              ready |-> g, cursor |-> h, current |-> i]
  PROVE  [f EXCEPT !.cursor = h2] =
           [tasks |-> a, inline |-> b, payloads |-> c, deadlines |-> d, counted |-> e,
            ready |-> g, cursor |-> h2, current |-> i]
OBVIOUS

LEMMA CurrentFile ==
  ASSUME NEW a, NEW b, NEW c, NEW d, NEW e, NEW g, NEW h, NEW i, NEW i2, NEW h2, NEW f,
         f = [tasks |-> a, inline |-> b, payloads |-> c, deadlines |-> d, counted |-> e,
              ready |-> g, cursor |-> h, current |-> i]
  PROVE  [f EXCEPT !.current = i2, !.cursor = h2] =
           [tasks |-> a, inline |-> b, payloads |-> c, deadlines |-> d, counted |-> e,
            ready |-> g, cursor |-> h2, current |-> i2]
<1>1. PICK f1 : f1 = [f EXCEPT !.current = i2]
  BY Zenon
<1>2. f1 = [tasks |-> a, inline |-> b, payloads |-> c, deadlines |-> d, counted |-> e,
           ready |-> g, cursor |-> h, current |-> i2]
  BY <1>1, Zenon
<1>3. [f EXCEPT !.current = i2, !.cursor = h2] = [f1 EXCEPT !.cursor = h2]
  BY <1>1, Zenon
<1>4. [f1 EXCEPT !.cursor = h2] = [tasks |-> a, inline |-> b, payloads |-> c, deadlines |-> d, counted |-> e,
           ready |-> g, cursor |-> h2, current |-> i2]
  BY <1>2
<1> QED
  BY <1>3, <1>4, Zenon

LEMMA CountedFile ==
  ASSUME NEW a, NEW b, NEW c, NEW d, NEW e, NEW g, NEW h, NEW i, NEW e2, NEW g2, NEW f,
         f = [tasks |-> a, inline |-> b, payloads |-> c, deadlines |-> d, counted |-> e,
              ready |-> g, cursor |-> h, current |-> i]
  PROVE  [f EXCEPT !.counted = e2, !.ready = g2] =
           [tasks |-> a, inline |-> b, payloads |-> c, deadlines |-> d, counted |-> e2,
            ready |-> g2, cursor |-> h, current |-> i]
<1>1. PICK f1 : f1 = [f EXCEPT !.counted = e2]
  BY Zenon
<1>2. f1 = [tasks |-> a, inline |-> b, payloads |-> c, deadlines |-> d, counted |-> e2,
           ready |-> g, cursor |-> h, current |-> i]
  BY <1>1, Zenon
<1>3. [f EXCEPT !.counted = e2, !.ready = g2] = [f1 EXCEPT !.ready = g2]
  BY <1>1, Zenon
<1>4. [f1 EXCEPT !.ready = g2] = [tasks |-> a, inline |-> b, payloads |-> c, deadlines |-> d, counted |-> e2,
           ready |-> g2, cursor |-> h, current |-> i]
  BY <1>2
<1> QED
  BY <1>3, <1>4, Zenon

LEMMA ReadyFile ==
  ASSUME NEW a, NEW b, NEW c, NEW d, NEW e, NEW g, NEW h, NEW i, NEW g2, NEW i2, NEW f,
         f = [tasks |-> a, inline |-> b, payloads |-> c, deadlines |-> d, counted |-> e,
              ready |-> g, cursor |-> h, current |-> i]
  PROVE  [f EXCEPT !.ready = g2, !.current = i2] =
           [tasks |-> a, inline |-> b, payloads |-> c, deadlines |-> d, counted |-> e,
            ready |-> g2, cursor |-> h, current |-> i2]
<1>1. PICK f1 : f1 = [f EXCEPT !.ready = g2]
  BY Zenon
<1>2. f1 = [tasks |-> a, inline |-> b, payloads |-> c, deadlines |-> d, counted |-> e,
           ready |-> g2, cursor |-> h, current |-> i]
  BY <1>1, Zenon
<1>3. [f EXCEPT !.ready = g2, !.current = i2] = [f1 EXCEPT !.current = i2]
  BY <1>1, Zenon
<1>4. [f1 EXCEPT !.current = i2] = [tasks |-> a, inline |-> b, payloads |-> c, deadlines |-> d, counted |-> e,
           ready |-> g2, cursor |-> h, current |-> i2]
  BY <1>2
<1> QED
  BY <1>3, <1>4, Zenon

\* A migration that is not done, with its next batch B of the tasks P before it.
Migrating(T, c, n, r, f, B, P) ==
  f = Upgraded(T, c, FALSE, n, r) /\ B = firstBatch(f) /\ P = {t \in T : t > c}

\* The file after the transaction.
Moved(T, c, n, r, B, P) ==
  [tasks |-> T, inline |-> P \ B, payloads |-> [t \in (T \ P) \cup B |-> payloadOf(t)],
   deadlines |-> ((T \ P) \cup B) \cap TimedTasks, counted |-> n, ready |-> r,
   cursor |-> c, current |-> FALSE]

\* What one transaction of the migration makes of a file, whatever batch it takes.
LEMMA MigratedFile ==
  ASSUME NEW T, NEW c, NEW n, NEW r, NEW f, NEW B, NEW P, Migrating(T, c, n, r, f, B, P)
  PROVE  pending(f) = P /\ B \subseteq P /\ migrated(f) = Moved(T, c, n, r, B, P)
<1> PICK no : no = FALSE
  BY Zenon
<1>1. PICK old, gone : old = [t \in T \ P |-> payloadOf(t)] /\ gone = (T \ P) \cap TimedTasks
  BY Zenon
<1>2. f = [tasks |-> T, inline |-> P, payloads |-> old, deadlines |-> gone, counted |-> n,
           ready |-> r, cursor |-> c, current |-> no]
  BY <1>1, Zenon DEF Migrating, Upgraded
<1>3. /\ f.tasks = T /\ f.inline = P /\ f.cursor = c
      /\ f.payloads = [t \in T \ P |-> payloadOf(t)] /\ f.deadlines = (T \ P) \cap TimedTasks
  <2>1. f.tasks = T /\ f.inline = P /\ f.cursor = c /\ f.payloads = old /\ f.deadlines = gone
    BY <1>2, Zenon
  <2> QED
    BY <1>1, <2>1, Zenon
<1>4. pending(f) = P
  BY <1>3, Zenon DEF Migrating, pending
<1>5. B \subseteq P
  BY <1>4, Zenon DEF Migrating, firstBatch
<1>6. PICK pay : pay = [t \in (T \ P) \cup B |-> payloadOf(t)]
  BY Zenon
<1>7. PICK dead : dead = ((T \ P) \cup B) \cap TimedTasks
  BY Zenon
<1>8. B \cap f.inline = B
  BY <1>3, <1>5, Zenon
<1>9. [t \in DOMAIN f.payloads \cup B |-> IF t \in B THEN payloadOf(t) ELSE f.payloads[t]] = pay
  <2>1. DOMAIN f.payloads = T \ P /\ \A t \in T \ P : f.payloads[t] = payloadOf(t)
    BY <1>3, Zenon
  <2> QED
    BY <1>6, <2>1, Zenon
<1>10. f.deadlines \cup (B \cap TimedTasks) = dead
  BY <1>3, <1>7, Zenon
<1>11. migrated(f) = [f EXCEPT !.payloads = pay, !.inline = P \ B, !.deadlines = dead]
  BY <1>3, <1>8, <1>9, <1>10, Zenon DEF Migrating, migrated
<1>12. PICK rest : rest = P \ B
  BY Zenon
<1>13. migrated(f) = [f EXCEPT !.payloads = pay, !.inline = rest, !.deadlines = dead]
  BY <1>11, <1>12, Zenon
<1>14. migrated(f) = [tasks |-> T, inline |-> rest, payloads |-> pay, deadlines |-> dead,
                      counted |-> n, ready |-> r, cursor |-> c, current |-> no]
  <2>1. PICK f1 : f1 = [f EXCEPT !.payloads = pay]
    BY Zenon
  <2>2. PICK f2 : f2 = [f1 EXCEPT !.inline = rest]
    BY Zenon
  <2>3. f1 = [tasks |-> T, inline |-> P, payloads |-> pay, deadlines |-> gone, counted |-> n,
              ready |-> r, cursor |-> c, current |-> no]
    BY <1>2, <2>1, Zenon
  <2>4. f2 = [tasks |-> T, inline |-> rest, payloads |-> pay, deadlines |-> gone, counted |-> n,
              ready |-> r, cursor |-> c, current |-> no]
    BY <2>2, <2>3, Zenon
  <2>5. [f2 EXCEPT !.deadlines = dead] =
             [tasks |-> T, inline |-> rest, payloads |-> pay, deadlines |-> dead, counted |-> n,
              ready |-> r, cursor |-> c, current |-> no]
    BY <2>4
  <2>6. migrated(f) = [f2 EXCEPT !.deadlines = dead]
    BY <1>13, <2>1, <2>2, Zenon
  <2> QED
    BY <2>5, <2>6, Zenon
<1> QED
  BY <1>4, <1>5, <1>6, <1>7, <1>12, <1>14, Zenon DEF Moved

FirstOf(k, P, B, m) ==
  /\ B = {t \in P : Cardinality({u \in P : u <= t}) <= k}
  /\ m = CHOOSE t \in B : \A u \in B : u <= t

\* The first tasks in key order are those up to the largest of them, the new cursor.
LEMMA FirstTasks ==
  ASSUME LeastElements, FiniteSubsets, NEW P, P \subseteq Nat, IsFiniteSet(P), NEW k \in Nat \ {0}, NEW B, B # P, NEW m,
         FirstOf(k, P, B, m)
  PROVE  m \in B /\ \A t \in P : t \in B <=> t <= m
<1> DEFINE low(t) == {u \in P : u <= t}
           rank(t) == Cardinality(low(t))
<1>1. B \subseteq P /\ \A t \in P : t \in B <=> rank(t) <= k
  BY Zenon DEF FirstOf
<1>2. \A t \in P : IsFiniteSet(low(t)) /\ rank(t) \in Nat
  <2>1. \A t \in P : low(t) \in SUBSET P
    BY Zenon
  <2> HIDE DEF low
  <2>2. \A t \in P : IsFiniteSet(low(t))
    BY <2>1, Zenon DEF FiniteSubsets
  <2> QED
    BY <2>2, Zenon DEF FiniteSubsets
<1>3. ASSUME NEW s \in P, NEW t \in P, s <= t PROVE rank(s) <= rank(t)
  <2>1. low(s) \in SUBSET low(t)
    <3>1. s \in Nat /\ t \in Nat /\ \A u \in P : u \in Nat
      BY Zenon
    <3>2. ASSUME NEW u \in P, u <= s PROVE u <= t
      <4>1. u \in Nat
        BY <3>1, Zenon
      <4> QED
        BY <1>3, <3>1, <3>2, <4>1
    <3> QED
      BY <3>2, Zenon
  <2> HIDE DEF low
  <2> QED
    BY <1>2, <2>1, Zenon DEF FiniteSubsets
<1>4. ASSUME NEW s \in P, NEW t \in P, s < t PROVE rank(s) < rank(t)
  <2>1. s \in Nat /\ t \in Nat /\ rank(s) \in Nat /\ rank(t) \in Nat
    BY <1>2, Zenon
  <2>2. s <= t
    BY <1>4, <2>1
  <2>3. low(s) \in SUBSET low(t) /\ t \in low(t) /\ t \notin low(s)
    <3>1. t <= t /\ ~(t <= s)
      BY <1>4, <2>1
    <3>2. ASSUME NEW u \in P, u <= s PROVE u <= t
      <4>1. u \in Nat
        BY Zenon
      <4> QED
        BY <2>1, <2>2, <3>2, <4>1
    <3> QED
      BY <3>1, <3>2, Zenon
  <2>4. rank(s) <= rank(t)
    BY <1>3, <2>2, Zenon
  <2> HIDE DEF low
  <2>5. rank(t) # rank(s)
    BY <1>2, <2>3, Zenon DEF FiniteSubsets
  <2> HIDE DEF rank
  <2> QED
    BY <2>1, <2>4, <2>5
<1>5. B # {}
  <2>1. P # {}
    BY <1>1, Zenon
  <2>2. PICK p : p = Min(P)
    BY Zenon
  <2>3. p \in P /\ \A t \in P : p <= t
    BY <2>1, <2>2, MinExists, Zenon
  <2>4. low(p) = {p}
    <3>1. p \in Nat /\ \A u \in P : u \in Nat /\ p <= u
      BY <2>3, Zenon
    <3>2. p <= p /\ \A u \in P : u <= p => u = p
      BY <3>1
    <3> QED
      BY <2>3, <3>2, Zenon
  <2>5. rank(p) = 1 /\ 1 <= k
    <3>1. Cardinality({p}) = 1
      BY Zenon DEF FiniteSubsets
    <3>2. 1 <= k
      OBVIOUS
    <3> QED
      BY <2>4, <3>1, <3>2, Zenon
  <2> QED
    BY <1>1, <2>3, <2>5, Zenon
<1> HIDE DEF low, rank
<1>6. PICK x \in B : \A u \in B : u <= x
  <2> DEFINE D == {k - rank(t) : t \in B}
  <2>1. \A t \in B : rank(t) \in Nat /\ rank(t) <= k /\ k - rank(t) \in Nat
    <3>1. \A t \in B : rank(t) \in Nat /\ rank(t) <= k
      BY <1>1, <1>2, Zenon
    <3> QED
      BY <3>1
  <2>2. D \subseteq Nat /\ D # {}
    BY <1>5, <2>1, Zenon
  <2>3. PICK d : d = Min(D)
    BY Zenon
  <2>4. d \in D /\ \A e \in D : d <= e
    <3> HIDE DEF D
    <3> QED
      BY <2>2, <2>3, MinExists, Zenon
  <2>5. PICK x \in B : d = k - rank(x)
    BY <2>4, Zenon
  <2>6. ASSUME NEW u \in B PROVE u <= x
    <3>1. k - rank(x) <= k - rank(u)
      BY <2>4, <2>5, Zenon
    <3>2. rank(x) \in Nat /\ rank(u) \in Nat /\ x \in Nat /\ u \in Nat /\ x \in P /\ u \in P
      BY <1>1, <2>1, Zenon
    <3>3. rank(u) <= rank(x)
      BY <3>1, <3>2
    <3>4. x < u => rank(x) < rank(u)
      BY <1>4, <3>2, Zenon
    <3> QED
      BY <3>2, <3>3, <3>4
  <2> QED
    BY <2>6, Zenon
<1>7. m \in B /\ \A u \in B : u <= m
  BY <1>6, Zenon DEF FirstOf
<1>8. ASSUME NEW t \in P, t <= m PROVE t \in B
  <2>1. m \in P /\ rank(m) <= k /\ rank(m) \in Nat /\ rank(t) \in Nat /\ rank(t) <= rank(m)
    BY <1>1, <1>2, <1>3, <1>7, <1>8, Zenon
  <2>2. rank(t) <= k
    BY <2>1
  <2> QED
    BY <1>1, <2>2, Zenon
<1> QED
  BY <1>7, <1>8, Zenon

\* A transaction of the migration moves the cursor, or finishes.
LEMMA MigrateStep ==
  ASSUME LeastElements, FiniteSubsets, NEW T \in SUBSET OldTasks, NEW c \in Nat, NEW n, NEW r, NEW f, NEW B, NEW P,
         Migrating(T, c, n, r, f, B, P)
  PROVE  \E c2 \in Nat, cur \in BOOLEAN : migrateTaskStorage(f) = Upgraded(T, c2, cur, n, r)
<1>1. B = firstBatch(f)
  BY Zenon DEF Migrating
<1>2. P = {t \in T : t > c}
  BY Zenon DEF Migrating
<1>3. PICK no, yes : no = FALSE /\ yes = TRUE
  BY Zenon
<1>4. PICK rest, done : rest = P \ B /\ done = (T \ P) \cup B
  BY Zenon
<1>5. PICK pay, dead : pay = [t \in done |-> payloadOf(t)] /\ dead = done \cap TimedTasks
  BY Zenon
<1>6. pending(f) = P /\ B \subseteq P /\ migrated(f) = Moved(T, c, n, r, B, P)
  BY MigratedFile, SMT
<1>7. PICK g : g = migrated(f)
  BY Zenon
<1>8. g = [tasks |-> T, inline |-> rest, payloads |-> pay, deadlines |-> dead, counted |-> n,
           ready |-> r, cursor |-> c, current |-> no]
  BY <1>3, <1>4, <1>5, <1>6, <1>7, Zenon DEF Moved
<1>9. CASE B = P
  <2>1. rest = {} /\ done = T \ rest
    BY <1>2, <1>4, <1>9, Zenon
  <2>2. migrateTaskStorage(f) = [g EXCEPT !.current = yes, !.cursor = 0]
    BY <1>1, <1>3, <1>6, <1>7, <1>9, Zenon DEF migrateTaskStorage
  <2>3. migrateTaskStorage(f) =
          [tasks |-> T, inline |-> rest, payloads |-> pay, deadlines |-> dead, counted |-> n,
           ready |-> r, cursor |-> 0, current |-> yes]
    BY <1>8, <2>2, CurrentFile, Zenon
  <2>4. (IF yes THEN {} ELSE {t \in T : t > 0}) = rest
    BY <1>3, <2>1, Zenon
  <2>5. migrateTaskStorage(f) = Upgraded(T, 0, yes, n, r)
    BY <1>5, <2>1, <2>3, <2>4, Zenon DEF Upgraded
  <2>6. 0 \in Nat /\ yes \in BOOLEAN
    BY <1>3, Zenon
  <2> QED
    BY <2>5, <2>6, Zenon
<1>10. CASE B # P
  <2>1. PICK m : m = CHOOSE t \in B : \A u \in B : u <= t
    BY Zenon
  <2>2. OldTasks \subseteq Nat /\ IsFiniteSet(OldTasks) /\ MigrationBatchSize \in Nat \ {0}
    BY MigrationAssumption, Zenon
  <2>3. P \subseteq Nat /\ IsFiniteSet(P)
    <3>1. P \in SUBSET OldTasks
      BY <1>2, Zenon
    <3> QED
      BY <2>2, <3>1, Zenon DEF FiniteSubsets
  <2>4. B = {t \in P : Cardinality({u \in P : u <= t}) <= MigrationBatchSize}
    BY <1>1, <1>6, Zenon DEF firstBatch
  <2>5. m \in B /\ \A t \in P : t \in B <=> t <= m
    <3>1. FirstOf(MigrationBatchSize, P, B, m)
      BY <2>1, <2>4, Zenon DEF FirstOf
    <3> QED
      BY <1>10, <2>2, <2>3, <3>1, FirstTasks, Zenon
  <2>6. m \in Nat /\ m > c /\ m \in P
    BY <1>2, <1>6, <2>3, <2>5, Zenon
  <2>7. rest = {t \in T : t > m}
    <3>1. ASSUME NEW t \in T PROVE t \in rest <=> t > m
      <4>1. t \in Nat
        BY <2>2, Zenon
      <4>2. t > m => t > c
        BY <2>6, <4>1
      <4>3. t > m <=> ~(t <= m)
        BY <2>6, <4>1
      <4>4. t \in rest <=> t > c /\ ~(t <= m)
        BY <1>2, <1>4, <2>5, Zenon
      <4> QED
        BY <4>2, <4>3, <4>4, Zenon
    <3>2. rest \subseteq T
      BY <1>2, <1>4, Zenon
    <3> QED
      BY <3>1, <3>2, Zenon
  <2>8. done = T \ rest
    BY <1>2, <1>4, <1>6, Zenon
  <2>9. migrateTaskStorage(f) = [g EXCEPT !.cursor = m]
    BY <1>1, <1>6, <1>7, <1>10, <2>1, Zenon DEF migrateTaskStorage
  <2>10. migrateTaskStorage(f) =
           [tasks |-> T, inline |-> rest, payloads |-> pay, deadlines |-> dead, counted |-> n,
            ready |-> r, cursor |-> m, current |-> no]
    BY <1>8, <2>9, CursorFile, Zenon
  <2>11. (IF no THEN {} ELSE {t \in T : t > m}) = rest
    BY <1>3, <2>7, Zenon
  <2>12. migrateTaskStorage(f) = Upgraded(T, m, no, n, r)
    BY <1>5, <2>8, <2>10, <2>11, Zenon DEF Upgraded
  <2>13. no \in BOOLEAN
    BY <1>3, Zenon
  <2> QED
    BY <2>6, <2>12, <2>13, Zenon
<1> QED
  BY <1>9, <1>10, Zenon

LEMMA NewFileUpgraded == NewFile = Upgraded({}, 0, TRUE, 0, TRUE)
<1>1. PICK no, yes, pay, f : /\ no = FALSE /\ yes = TRUE /\ pay = [t \in {} |-> ""]
                             /\ f = OldFile({})
  BY Zenon
<1>2. f = [tasks |-> {}, inline |-> {}, payloads |-> pay, deadlines |-> {}, counted |-> 0,
           ready |-> no, cursor |-> 0, current |-> no]
  BY <1>1, Zenon DEF OldFile
<1>3. NewFile = [f EXCEPT !.ready = yes, !.current = yes]
  BY <1>1, Zenon DEF NewFile
<1>4. NewFile = [tasks |-> {}, inline |-> {}, payloads |-> pay, deadlines |-> {}, counted |-> 0,
                 ready |-> yes, cursor |-> 0, current |-> yes]
  BY <1>2, <1>3, ReadyFile, Zenon
<1>5. /\ (IF yes THEN {} ELSE {t \in {} : t > 0}) = {}
      /\ [t \in {} \ {} |-> payloadOf(t)] = pay /\ ({} \ {}) \cap TimedTasks = {}
  BY <1>1, Zenon
<1>6. NewFile = Upgraded({}, 0, yes, 0, yes)
  BY <1>4, <1>5, Zenon DEF Upgraded
<1> QED
  BY <1>1, <1>6, Zenon

LEMMA OldFileUpgraded ==
  ASSUME NEW T \in SUBSET OldTasks PROVE OldFile(T) = Upgraded(T, 0, FALSE, 0, FALSE)
<1>1. PICK no, pay : no = FALSE /\ pay = [t \in {} |-> ""]
  BY Zenon
<1>2. {t \in T : t > 0} = T
  <2>1. \A t \in T : t \in Nat \ {0}
    BY MigrationAssumption, Zenon
  <2>2. \A t \in T : t > 0
    BY <2>1
  <2> QED
    BY <2>2, Zenon
<1>3. /\ (IF no THEN {} ELSE {t \in T : t > 0}) = T
      /\ [t \in T \ T |-> payloadOf(t)] = pay /\ (T \ T) \cap TimedTasks = {}
  BY <1>1, <1>2, Zenon
<1>4. OldFile(T) = [tasks |-> T, inline |-> T, payloads |-> pay, deadlines |-> {}, counted |-> 0,
                    ready |-> no, cursor |-> 0, current |-> no]
  BY <1>1, Zenon DEF OldFile
<1>5. OldFile(T) = Upgraded(T, 0, no, 0, no)
  BY <1>3, <1>4, Zenon DEF Upgraded
<1> QED
  BY <1>1, <1>5, Zenon

LEMMA CountsRebuilt ==
  ASSUME NEW T, NEW c, NEW cur, NEW n, NEW r
  PROVE  rebuildCounts(Upgraded(T, c, cur, n, r)) = Upgraded(T, c, cur, Cardinality(T), TRUE)
<1>1. PICK f, yes, k : f = Upgraded(T, c, cur, n, r) /\ yes = TRUE /\ k = Cardinality(T)
  BY Zenon
<1>2. PICK inl, pay, dead :
        /\ inl = (IF cur THEN {} ELSE {t \in T : t > c})
        /\ pay = [t \in T \ inl |-> payloadOf(t)] /\ dead = (T \ inl) \cap TimedTasks
  BY Zenon
<1>3. f = [tasks |-> T, inline |-> inl, payloads |-> pay, deadlines |-> dead, counted |-> n,
           ready |-> r, cursor |-> c, current |-> cur]
  BY <1>1, <1>2, Zenon DEF Upgraded
<1>4. f.tasks = T
  BY <1>3, Zenon
<1>5. rebuildCounts(f) = [f EXCEPT !.counted = k, !.ready = yes]
  BY <1>1, <1>4, Zenon DEF rebuildCounts
<1>6. rebuildCounts(f) =
        [tasks |-> T, inline |-> inl, payloads |-> pay, deadlines |-> dead, counted |-> k,
         ready |-> yes, cursor |-> c, current |-> cur]
  BY <1>3, <1>5, CountedFile, Zenon
<1>7. rebuildCounts(f) = Upgraded(T, c, cur, k, yes)
  BY <1>2, <1>6, Zenon DEF Upgraded
<1> QED
  BY <1>1, <1>7, Zenon

LEMMA InitLegacy == ASSUME Init PROVE LegacyInv
<1>1. pc = Down
  BY Zenon DEF Init
<1>2. PICK T \in SUBSET OldTasks : legacy = OldFile(T)
  BY Zenon DEF Init
<1>3. legacy = Upgraded(T, 0, FALSE, 0, FALSE)
  BY <1>2, OldFileUpgraded, Zenon
<1>4. 0 \in Nat
  BY Zenon
<1> QED
  BY <1>1, <1>3, <1>4, Zenon DEF LegacyInv

LEMMA NextLegacy == ASSUME LeastElements, FiniteSubsets, LegacyInv, [Next]_vars PROVE LegacyInv'
<1>1. PICK T \in SUBSET OldTasks, c \in Nat, cur \in BOOLEAN, r \in BOOLEAN :
        \E n : /\ legacy = Upgraded(T, c, cur, n, r)
               /\ r => n = Cardinality(T)
               /\ pc # Down => cur /\ r
  BY Zenon DEF LegacyInv
<1>2. PICK n : legacy = Upgraded(T, c, cur, n, r) /\ (r => n = Cardinality(T))
               /\ (pc # Down => cur /\ r)
  BY <1>1, Zenon
<1>3. legacy.current = cur /\ legacy.ready = r
  <2>1. Fields(legacy, T, c, cur, n, r)
    BY <1>2, UpgradedFields, Zenon
  <2> QED
    BY <2>1, Zenon DEF Fields
<1>4. ASSUME legacy' = legacy, pc' # Down => cur /\ r PROVE LegacyInv'
  BY <1>2, <1>4, Zenon DEF LegacyInv
<1>5. ASSUME legacy' = legacy, pc # Down PROVE LegacyInv'
  BY <1>2, <1>4, <1>5, Zenon
<1>6. CASE UNCHANGED vars
  BY <1>2, <1>4, <1>6, Zenon DEF vars
<1>7. ASSUME NEW tag \in Tags, Commit(tag) PROVE LegacyInv'
  <2>1. Idle # Down
    BY Zenon DEF Idle, Down
  <2> QED
    BY <1>5, <1>7, <2>1, Zenon DEF Commit
<1>8. ASSUME NEW floor \in 1 .. MaxLSN + 1, Truncate(floor) PROVE LegacyInv'
  <2>1. Idle # Down
    BY Zenon DEF Idle, Down
  <2> QED
    BY <1>5, <1>8, <2>1, Zenon DEF Truncate
<1>9. CASE AppendRoll \/ AppendIndex \/ AppendFrame \/ AppendFails
  <2>1. legacy' = legacy /\ pc.op \in {"roll", "index", "frame"}
    BY <1>9, Zenon DEF AppendRoll, AppendIndex, AppendFrame, AppendFails
  <2>2. pc # Down
    BY <2>1 DEF Down
  <2> QED
    BY <1>5, <2>1, <2>2, Zenon
<1>10. CASE ResetRemove \/ ResetIndex \/ ResetOpen
  <2>1. legacy' = legacy /\ pc.op \in {"remove", "rename", "open"}
    BY <1>10, Zenon DEF ResetRemove, ResetIndex, ResetOpen
  <2>2. pc # Down
    BY <2>1 DEF Down
  <2> QED
    BY <1>5, <2>1, <2>2, Zenon
<1>11. CASE Crash
  BY <1>4, <1>11, Zenon DEF Crash
<1>12. CASE Open
  BY <1>3, <1>4, <1>12, Zenon DEF Open
<1>13. ASSUME NEW snap \in Snapshots, Restore(snap) PROVE LegacyInv'
  <2>1. legacy' = Upgraded({}, 0, TRUE, 0, TRUE)
    BY <1>13, NewFileUpgraded, Zenon DEF Restore
  <2>2. Cardinality({}) = 0 /\ 0 \in Nat
    BY Zenon DEF FiniteSubsets
  <2> QED
    BY <2>1, <2>2, Zenon DEF LegacyInv
<1>14. CASE Migrate
  <2>1. pc' = Down /\ cur = FALSE /\ legacy' = migrateTaskStorage(legacy)
    BY <1>3, <1>14, Zenon DEF Migrate
  <2>2. PICK f, B, P : f = legacy /\ B = firstBatch(legacy) /\ P = {t \in T : t > c}
    BY Zenon
  <2>3. Migrating(T, c, n, r, f, B, P)
    BY <1>2, <2>1, <2>2, Zenon DEF Migrating
  <2>4. PICK c2 \in Nat, cur2 \in BOOLEAN : migrateTaskStorage(f) = Upgraded(T, c2, cur2, n, r)
    BY <2>3, MigrateStep, SMT
  <2>5. legacy' = Upgraded(T, c2, cur2, n, r)
    BY <2>1, <2>2, <2>4, Zenon
  <2> QED
    BY <1>2, <2>1, <2>5, Zenon DEF LegacyInv
<1>15. CASE EnsureCounts
  <2>1. pc' = Down /\ legacy' = rebuildCounts(legacy)
    BY <1>15, Zenon DEF EnsureCounts
  <2>2. legacy' = Upgraded(T, c, cur, Cardinality(T), TRUE)
    BY <1>2, <2>1, CountsRebuilt, Zenon
  <2> QED
    BY <2>1, <2>2, Zenon DEF LegacyInv
<1> QED
  BY <1>6, <1>7, <1>8, <1>9, <1>10, <1>11, <1>12, <1>13, <1>14, <1>15, Zenon DEF Next

LEMMA UpgradedIsComplete == LegacyInv => UpgradeIsComplete
<1> SUFFICES ASSUME LegacyInv, pc # Down
             PROVE  /\ legacy.inline = {}
                    /\ legacy.payloads = [t \in legacy.tasks |-> payloadOf(t)]
                    /\ legacy.deadlines = legacy.tasks \cap TimedTasks
                    /\ legacy.counted = Cardinality(legacy.tasks)
  BY Zenon DEF UpgradeIsComplete
<1>1. PICK T \in SUBSET OldTasks, c \in Nat, cur \in BOOLEAN, r \in BOOLEAN :
        \E n : /\ legacy = Upgraded(T, c, cur, n, r)
               /\ r => n = Cardinality(T)
               /\ pc # Down => cur /\ r
  BY Zenon DEF LegacyInv
<1>2. PICK n : legacy = Upgraded(T, c, cur, n, r) /\ n = Cardinality(T) /\ cur
  BY <1>1, Zenon
<1>3. /\ legacy.tasks = T /\ legacy.inline = (IF cur THEN {} ELSE {t \in T : t > c})
      /\ legacy.payloads = [t \in T \ legacy.inline |-> payloadOf(t)]
      /\ legacy.deadlines = (T \ legacy.inline) \cap TimedTasks
      /\ legacy.counted = n
  <2>1. Fields(legacy, T, c, cur, n, r)
    BY <1>2, UpgradedFields, Zenon
  <2> QED
    BY <2>1, Zenon DEF Fields
<1>4. legacy.inline = {} /\ T \ {} = T
  BY <1>2, <1>3, Zenon
<1> QED
  BY <1>2, <1>3, <1>4, Zenon

-----------------------------------------------------------------------------
(* The facts about numbers and finite sets, and the theorems. *)

INSTANCE WellFoundedInduction
INSTANCE FiniteSetTheorems

LEMMA LeastElementExists == LeastElements
<1> SUFFICES ASSUME NEW S \in SUBSET Nat, S # {} PROVE \E m \in S : \A s \in S : m <= s
  BY Zenon DEF LeastElements
<1>1. PICK m \in S : \A s \in S : ~(<<s, m>> \in OpToRel(<, Nat))
  BY NatLessThanWellFounded, WFMin, Zenon
<1>2. \A s \in S : m <= s
  <2> SUFFICES ASSUME NEW s \in S, ~(m <= s) PROVE FALSE
    BY Zenon
  <2>1. m \in Nat /\ s \in Nat
    BY Zenon
  <2>2. s < m
    BY <2>1
  <2>3. <<s, m>> \in OpToRel(<, Nat)
    BY <2>1, <2>2, Zenon DEF OpToRel
  <2> QED
    BY <1>1, <2>3, Zenon
<1> QED
  BY <1>2, Zenon

LEMMA SubsetsFinite == FiniteSubsets
BY FS_EmptySet, FS_Singleton, FS_CardinalityType, FS_Subset, Zenon DEF FiniteSubsets

LEMMA LogInvariance == Spec => []LogInv
<1>1. Init => LogInv
  BY InitLog, Zenon
<1>2. LogInv /\ [Next]_vars => LogInv'
  BY NextLog, LeastElementExists, Zenon
<1> QED
  BY <1>1, <1>2, PTL DEF Spec

\* After any crash, a node that runs knows the position of its data (recoverPosition).
THEOREM PositionKnown == Spec => []PositionIsData
<1>1. LogInv => PositionIsData
  BY IdleDisk, Zenon DEF PositionIsData
<1> QED
  BY <1>1, LogInvariance, PTL

\* The log holds a gap-free run of the batches the database has, up to the node's
\* position (Append, Reset, Truncate, OpenReplLog).
THEOREM LogHoldsData == Spec => []LogIsData
<1>1. LogInv => LogIsData
  BY DiskLogIsData, LeastElementExists, Zenon DEF LogIsData
<1> QED
  BY <1>1, LogInvariance, PTL

\* For an LSN the log knows, the epoch index gives the batch's tag or nothing, whatever
\* line a crash left in the file (EpochAt, LastEpoch).
THEOREM EpochsAreOwn == Spec => []EpochNeverForeign
<1>1. LogInv => EpochNeverForeign
  BY DiskEpochs, Zenon DEF EpochNeverForeign
<1> QED
  BY <1>1, LogInvariance, PTL

\* However often the upgrade was cut short, a store that serves has every task of the
\* earlier release in the new layout (migrateTaskStorage, ensureCounts).
THEOREM UpgradesComplete == Spec => []UpgradeIsComplete
<1>1. Init => LegacyInv
  BY InitLegacy, Zenon
<1>2. LegacyInv /\ [Next]_vars => LegacyInv'
  BY NextLegacy, LeastElementExists, SubsetsFinite, Zenon
<1> QED
  BY <1>1, <1>2, UpgradedIsComplete, PTL DEF Spec
=============================================================================
