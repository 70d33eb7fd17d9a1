-------------------------- MODULE MixedLayoutProofs --------------------------
(***************************************************************************)
(* Proofs about the mixed KV plane, for every sink, window and context     *)
(* length and every chunk size: the row of a position is where the layout  *)
(* looks for it; chunks leave the window where single tokens would; a saved*)
(* window and a capture bring every row of their prefix back.              *)
(*                                                                         *)
(* The argument.  The window base stays on the grid of whole windows, at   *)
(* most a window behind the position, so that a full window is evicted to  *)
(* exactly the places its positions are looked for; and nothing is ever    *)
(* written to the sink below the position or to the bulk below the base,   *)
(* which is all a saved point needs beyond its own window.                 *)
(***************************************************************************)
EXTENDS MixedLayout, SequenceTheorems, TLAPS

RowRecords == [pos : Nat, seq : Nat]
Cells == RowRecords \cup {Empty}

Planes ==
  [base : Nat, sink : [SinkSlots -> Cells], win : [WinSlots -> Cells],
   bulk : [BulkSlots -> Cells]]

Points == [pos : Nat, base : Nat, win : [WinSlots -> Cells]]

\* Where the window base can be when n rows are in the plane; and between
\* calls, when no full window was evicted for rows yet to come.
Aligned(b) == \E k \in Nat : b = SinkLen + k * WindowLen

Shaped(b, n) ==
  /\ b \in Nat /\ Aligned(b)
  /\ SinkLen <= b /\ n <= b + WindowLen
  /\ b <= n \/ b = SinkLen

Closed(b, n) == n > SinkLen => b < n

\* The first n rows of rs are where the layout looks for them.
Placed(p, n, rs) == \A i \in 0..(n - 1) : RowAt(p, i) = rs[i + 1]

\* The sink below n and the bulk below the base b are the same.
Unmoved(p, q, n, b) ==
  /\ \A i \in SinkSlots : i < n => q.sink[i] = p.sink[i]
  /\ \A i \in BulkSlots : i < b - SinkLen => q.bulk[i] = p.bulk[i]

PointOK(point) ==
  /\ point \in Points
  /\ point.pos <= pos /\ point.base <= plane.base
  /\ Shaped(point.base, point.pos) /\ Closed(point.base, point.pos)
  /\ Placed(Rewound(plane, point), point.pos, rows)

CaptureOK(c) ==
  /\ c.rows \in Seq(RowRecords) /\ Len(c.rows) \in 1..MaxSeq
  /\ Shaped(c.base, Len(c.rows)) /\ Closed(c.base, Len(c.rows))
  /\ \A p \in Planes : /\ Restored(p, c) \in Planes
                       /\ Placed(Restored(p, c), Len(c.rows), c.rows)

PlaneInv ==
  /\ plane \in Planes /\ rows \in Seq(RowRecords)
  /\ pos \in 0..Len(rows) /\ Len(rows) <= MaxSeq
  /\ Shaped(plane.base, pos) /\ Placed(plane, pos, rows)
  /\ IF Settled THEN Closed(plane.base, pos) ELSE SinkLen <= pos

LayoutInv ==
  /\ PlaneInv /\ label \in Nat
  /\ saved # NoPoint => PointOK(saved)
  /\ host # NoCapture => CaptureOK(host)

-----------------------------------------------------------------------------
\* The lengths, one fact each; the bulk has a place for every later position.
LEMMA LayoutConstants ==
  /\ SinkLen \in Nat /\ WindowLen \in Nat /\ MaxSeq \in Nat /\ MaxLabels \in Nat
  /\ SinkLen >= 1 /\ WindowLen >= 1 /\ SinkLen < MaxSeq
  /\ NumBlocks * WindowLen \in Nat /\ NumBlocks * WindowLen >= MaxSeq - SinkLen
<1>1. /\ SinkLen \in Nat /\ WindowLen \in Nat /\ MaxSeq \in Nat /\ MaxLabels \in Nat
      /\ SinkLen >= 1 /\ WindowLen >= 1 /\ SinkLen < MaxSeq
  BY LayoutAssumption DEF ValidSinkWindow
<1> DEFINE x == MaxSeq - SinkLen + WindowLen - 1
<1>2. x \in Nat
  BY <1>1
<1> HIDE DEF x
<1>3. /\ x \div WindowLen \in Nat /\ (x \div WindowLen) * WindowLen \in Nat
      /\ (x \div WindowLen) * WindowLen + WindowLen > x
  BY <1>1, <1>2
<1>4. NumBlocks = x \div WindowLen
  BY DEF NumBlocks, x
<1>5. x = MaxSeq - SinkLen + WindowLen - 1
  BY DEF x
<1> QED
  BY <1>1, <1>3, <1>4, <1>5

\* The grid: the base starts on it, moves along it, and names whole blocks.
LEMMA AlignedSteps ==
  /\ Aligned(SinkLen)
  /\ \A b : Aligned(b) => b \in Nat /\ b >= SinkLen /\ Aligned(b + WindowLen)
<1>1. SinkLen \in Nat /\ WindowLen \in Nat
  BY LayoutConstants
<1>2. Aligned(SinkLen)
  <2>1. SinkLen = SinkLen + 0 * WindowLen
    BY <1>1
  <2> QED
    BY <2>1 DEF Aligned
<1>3. ASSUME NEW b, Aligned(b)
      PROVE  b \in Nat /\ b >= SinkLen /\ Aligned(b + WindowLen)
  <2>1. PICK k \in Nat : b = SinkLen + k * WindowLen
    BY <1>3 DEF Aligned
  <2>2. k * WindowLen \in Nat /\ (k + 1) * WindowLen = k * WindowLen + WindowLen
    BY <1>1
  <2>3. b + WindowLen = SinkLen + (k + 1) * WindowLen
    BY <1>1, <2>1, <2>2
  <2> QED
    BY <1>1, <2>1, <2>2, <2>3 DEF Aligned
<1> QED
  BY <1>2, <1>3

\* Where the layout looks, the block arithmetic done.
LEMMA RowOf ==
  ASSUME NEW p \in Planes, NEW i \in Nat
  PROVE  RowAt(p, i) = IF i < SinkLen THEN p.sink[i]
                       ELSE IF i >= p.base THEN p.win[i - p.base]
                       ELSE p.bulk[i - SinkLen]
<1>1. SinkLen \in Nat /\ WindowLen \in Nat /\ WindowLen >= 1
  BY LayoutConstants
<1>2. ASSUME i >= SinkLen
      PROVE  ((i - SinkLen) \div WindowLen) * WindowLen + ((i - SinkLen) % WindowLen) = i - SinkLen
  <2>1. PICK r \in Nat : r = i - SinkLen
    BY <1>1, <1>2
  <2>2. (r \div WindowLen) * WindowLen + (r % WindowLen) = r
    BY <1>1
  <2> QED
    BY <2>1, <2>2
<1> QED
  BY <1>1, <1>2 DEF RowAt

\* An eviction puts the window's rows at their positions' places, no others.
LEMMA EvictOK ==
  ASSUME NEW p \in Planes, Aligned(p.base)
  PROVE  LET e == Evict(p)
             first == p.base - SinkLen
         IN  /\ e \in Planes /\ e.base = p.base + WindowLen
             /\ e.sink = p.sink /\ e.win = p.win
             /\ \A i \in BulkSlots :
                  e.bulk[i] = IF first <= i /\ i < first + WindowLen THEN p.win[i - first]
                              ELSE p.bulk[i]
<1> DEFINE e == Evict(p)
           first == p.base - SinkLen
<1>1. SinkLen \in Nat /\ WindowLen \in Nat /\ WindowLen >= 1
  BY LayoutConstants
<1>2. PICK k \in Nat : p.base = SinkLen + k * WindowLen
  BY DEF Aligned
<1>3. k * WindowLen \in Nat /\ first = k * WindowLen
  BY <1>1, <1>2
<1>4. EvictedBlocks(p.base) = k
  <2>1. (k * WindowLen) \div WindowLen = k
    BY <1>1
  <2> QED
    BY <1>3, <2>1 DEF EvictedBlocks
<1>5. ASSUME NEW i \in BulkSlots
      PROVE  /\ i \in Nat /\ i % WindowLen \in WinSlots
             /\ i \div WindowLen = k <=> first <= i /\ i < first + WindowLen
             /\ i \div WindowLen = k => i % WindowLen = i - first
  <2>1. i \in Nat
    BY <1>1, LayoutConstants DEF BulkSlots
  <2>2. i % WindowLen \in WinSlots
    BY <1>1, <2>1 DEF WinSlots
  <2>3. /\ i \div WindowLen \in Nat
        /\ (i \div WindowLen) * WindowLen + (i % WindowLen) = i
        /\ i % WindowLen \in 0..(WindowLen - 1)
    BY <1>1, <2>1
  <2>4. i \div WindowLen = k => i % WindowLen = i - k * WindowLen
    BY <1>1, <1>3, <2>1, <2>3
  <2>5. ASSUME k * WindowLen <= i, i < k * WindowLen + WindowLen
        PROVE  i \div WindowLen = k
    BY <1>1, <2>1, <2>5
  <2>6. i \div WindowLen = k => k * WindowLen <= i /\ i < k * WindowLen + WindowLen
    BY <1>1, <1>3, <2>1, <2>3, <2>4
  <2> QED
    BY <1>3, <2>1, <2>2, <2>4, <2>5, <2>6
<1>6. /\ e.base = p.base + WindowLen /\ e.sink = p.sink /\ e.win = p.win
      /\ e.bulk = [i \in BulkSlots |-> IF i \div WindowLen = k THEN p.win[i % WindowLen]
                                       ELSE p.bulk[i]]
      /\ e \in Planes <=> e.base \in Nat /\ e.bulk \in [BulkSlots -> Cells]
  BY <1>4 DEF Evict, Planes
<1> HIDE DEF e, first
<1>7. e.bulk \in [BulkSlots -> Cells]
  BY <1>5, <1>6 DEF Planes
<1>8. \A i \in BulkSlots :
        e.bulk[i] = IF first <= i /\ i < first + WindowLen THEN p.win[i - first] ELSE p.bulk[i]
  BY <1>5, <1>6
<1>9. e.base \in Nat
  BY <1>1, <1>6 DEF Planes
<1> QED
  BY <1>6, <1>7, <1>8, <1>9 DEF e, first

-----------------------------------------------------------------------------
(***************************************************************************)
(* What an append does to the rows that are in place: rows go to the sink, *)
(* rows go to the window, a full window is evicted.                        *)
(***************************************************************************)
LEMMA PlaneTypes ==
  ASSUME NEW p \in Planes
  PROVE  /\ p.base \in Nat /\ p.sink \in [SinkSlots -> Cells]
         /\ p.win \in [WinSlots -> Cells] /\ p.bulk \in [BulkSlots -> Cells]
BY DEF Planes

\* A plane with the same rows in other windows: what is unmoved.
LEMMA UnmovedSame ==
  ASSUME NEW p, NEW q, q.sink = p.sink, q.bulk = p.bulk, NEW n, NEW b
  PROVE  Unmoved(p, q, n, b)
BY DEF Unmoved

LEMMA SinkGrows ==
  ASSUME NEW p \in Planes, NEW rs \in Seq(RowRecords), NEW i \in Nat, NEW n \in Nat,
         Placed(p, i, rs), Shaped(p.base, i), i + n <= Len(rs), i + n <= SinkLen \/ n = 0,
         NEW q \in Planes, q.base = p.base, q.win = p.win, q.bulk = p.bulk,
         \A s \in SinkSlots : q.sink[s] = IF i <= s /\ s < i + n THEN rs[s + 1] ELSE p.sink[s]
  PROVE  /\ Placed(q, i + n, rs) /\ Shaped(q.base, i + n)
         /\ Unmoved(p, q, i, p.base)
<1>1. SinkLen \in Nat /\ WindowLen \in Nat /\ p.base \in Nat
  BY LayoutConstants DEF Planes
<1>2. Shaped(q.base, i + n)
  BY <1>1 DEF Shaped
<1>3. ASSUME NEW k \in 0..(i + n - 1)
      PROVE  RowAt(q, k) = rs[k + 1]
  <2>1. k \in Nat /\ k < i + n
    BY <1>3
  <2>2. CASE k < i
    <3>1. RowAt(p, k) = rs[k + 1]
      BY <2>1, <2>2 DEF Placed
    <3>2. k < SinkLen => q.sink[k] = p.sink[k]
      BY <1>1, <2>1, <2>2 DEF SinkSlots
    <3> QED
      BY <2>1, <3>1, <3>2, RowOf
  <2>3. CASE ~ (k < i)
    <3>1. k < SinkLen /\ k \in SinkSlots
      BY <1>1, <2>1, <2>3 DEF SinkSlots
    <3>2. q.sink[k] = rs[k + 1]
      BY <2>1, <2>3, <3>1
    <3> QED
      BY <2>1, <3>1, <3>2, RowOf
  <2> QED
    BY <2>2, <2>3
<1>4. Unmoved(p, q, i, p.base)
  BY <1>1 DEF Unmoved, SinkSlots
<1> QED
  BY <1>2, <1>3, <1>4 DEF Placed

LEMMA WindowGrows ==
  ASSUME NEW p \in Planes, NEW rs \in Seq(RowRecords), NEW i \in Nat, NEW n \in Nat,
         Placed(p, i, rs), Shaped(p.base, i), SinkLen <= i, i + n <= p.base + WindowLen,
         NEW q \in Planes, q.base = p.base, q.sink = p.sink, q.bulk = p.bulk,
         \A j \in WinSlots :
           q.win[j] = IF i - p.base <= j /\ j < i - p.base + n THEN rs[p.base + j + 1]
                      ELSE p.win[j]
  PROVE  /\ Placed(q, i + n, rs) /\ Shaped(q.base, i + n)
         /\ n > 0 => Closed(q.base, i + n)
<1>1. SinkLen \in Nat /\ WindowLen \in Nat /\ p.base \in Nat /\ p.base <= i
  BY LayoutConstants DEF Planes, Shaped
<1>2. Shaped(q.base, i + n) /\ (n > 0 => Closed(q.base, i + n))
  BY <1>1 DEF Shaped, Closed
<1>3. ASSUME NEW k \in 0..(i + n - 1)
      PROVE  RowAt(q, k) = rs[k + 1]
  <2>1. k \in Nat /\ k < i + n
    BY <1>3
  <2>2. k < i => RowAt(p, k) = rs[k + 1]
    BY <2>1 DEF Placed
  <2>3. CASE k < p.base
    <3>1. k < i
      BY <1>1, <2>1, <2>3
    <3>2. RowAt(q, k) = RowAt(p, k)
      <4>1. RowAt(q, k) = IF k < SinkLen THEN q.sink[k] ELSE q.bulk[k - SinkLen]
        BY <1>1, <2>1, <2>3, RowOf
      <4>2. RowAt(p, k) = IF k < SinkLen THEN p.sink[k] ELSE p.bulk[k - SinkLen]
        BY <1>1, <2>1, <2>3, RowOf
      <4> QED
        BY <4>1, <4>2
    <3> QED
      BY <2>2, <3>1, <3>2
  <2>4. CASE k >= p.base
    <3>1. ~ (k < SinkLen)
      BY <1>1, <2>1, <2>4 DEF Shaped
    <3>2. PICK j \in WinSlots : j = k - p.base
      BY <1>1, <2>1, <2>4 DEF WinSlots
    <3>3. RowAt(q, k) = q.win[j] /\ RowAt(p, k) = p.win[j]
      BY <2>1, <2>4, <3>1, <3>2, RowOf
    <3>4. p.base + j = k /\ j \in Nat
      BY <1>1, <2>1, <3>2 DEF WinSlots
    <3>5. k >= i <=> i - p.base <= j /\ j < i - p.base + n
      BY <1>1, <2>1, <3>2, <3>4
    <3>6. /\ k >= i => q.win[j] = rs[k + 1]
          /\ k < i => q.win[j] = p.win[j]
      BY <2>1, <3>2, <3>4, <3>5
    <3> QED
      BY <2>1, <2>2, <3>3, <3>5, <3>6
  <2> QED
    BY <1>1, <2>1, <2>3, <2>4
<1> QED
  BY <1>2, <1>3 DEF Placed

LEMMA FullEvicted ==
  ASSUME NEW p \in Planes, NEW rs, NEW i \in Nat, i <= MaxSeq,
         Placed(p, i, rs), Shaped(p.base, i), i = p.base + WindowLen
  PROVE  LET e == Evict(p) IN
         /\ e \in Planes /\ e.base = i /\ Placed(e, i, rs) /\ Shaped(e.base, i)
         /\ \A n : Unmoved(p, e, n, p.base)
<1>1. /\ SinkLen \in Nat /\ WindowLen \in Nat /\ WindowLen >= 1 /\ p.base \in Nat
      /\ MaxSeq \in Nat /\ SinkLen <= p.base
  BY LayoutConstants DEF Planes, Shaped
<1> DEFINE e == Evict(p)
           first == p.base - SinkLen
<1>2. /\ e \in Planes /\ e.base = p.base + WindowLen /\ e.sink = p.sink
      /\ \A k \in BulkSlots :
           e.bulk[k] = IF first <= k /\ k < first + WindowLen THEN p.win[k - first]
                       ELSE p.bulk[k]
  BY EvictOK DEF Shaped
<1> HIDE DEF e
<1>3. Shaped(e.base, i)
  BY <1>1, <1>2, AlignedSteps DEF Shaped
<1>4. ASSUME NEW k \in 0..(i - 1)
      PROVE  RowAt(e, k) = rs[k + 1]
  <2>1. k \in Nat /\ k < i /\ RowAt(p, k) = rs[k + 1]
    BY <1>4 DEF Placed
  <2>2. CASE k < SinkLen
    BY <1>2, <2>1, <2>2, RowOf
  <2>3. CASE k >= SinkLen
    <3>1. PICK b \in Nat : b = k - SinkLen
      BY <1>1, <2>1, <2>3
    <3>2. b \in BulkSlots
      <4>1. b < MaxSeq - SinkLen
        BY <1>1, <2>1, <2>3, <3>1
      <4> HIDE DEF NumBlocks
      <4> QED
        BY <1>1, <3>1, <4>1, LayoutConstants DEF BulkSlots
    <3>3. RowAt(e, k) = e.bulk[b]
      BY <1>1, <1>2, <2>1, <2>3, <3>1, RowOf
    <3>4. CASE k < p.base
      BY <1>1, <1>2, <2>1, <2>3, <3>1, <3>2, <3>3, <3>4, RowOf
    <3>5. CASE k >= p.base
      <4>1. b - first = k - p.base /\ first <= b /\ b < first + WindowLen
        BY <1>1, <2>1, <3>1, <3>5
      <4>2. RowAt(p, k) = p.win[k - p.base]
        BY <1>1, <2>1, <2>3, <3>5, RowOf
      <4> QED
        BY <1>2, <2>1, <3>2, <3>3, <4>1, <4>2
    <3> QED
      BY <1>1, <2>1, <3>4, <3>5
  <2> QED
    BY <1>1, <2>1, <2>2, <2>3
<1>5. \A n : Unmoved(p, e, n, p.base)
  <2>1. ASSUME NEW k \in BulkSlots, k < first
        PROVE  e.bulk[k] = p.bulk[k]
    <3>1. k \in Int
      BY LayoutConstants DEF BulkSlots
    <3> QED
      BY <1>1, <1>2, <2>1, <3>1
  <2> QED
    BY <1>2, <2>1 DEF Unmoved
<1> QED
  BY <1>2, <1>3, <1>4, <1>5 DEF Placed, e

-----------------------------------------------------------------------------
(***************************************************************************)
(* Saved points and captures.  What an append leaves unmoved is all that a *)
(* saved point needs beside its own window.                                *)
(***************************************************************************)
LEMMA RewoundOK ==
  ASSUME NEW p \in Planes, NEW point \in Points
  PROVE  LET w == Rewound(p, point) IN
         /\ w \in Planes /\ w.base = point.base /\ w.win = point.win
         /\ w.sink = p.sink /\ w.bulk = p.bulk
BY DEF Rewound, Planes, Points

\* The first n rows read no bulk past the base.
LEMMA PlacedSame ==
  ASSUME NEW p \in Planes, NEW q \in Planes, NEW n \in Nat, NEW rs,
         q.base = p.base, q.win = p.win, n <= MaxSeq, Shaped(p.base, n),
         Unmoved(p, q, n, p.base), Placed(p, n, rs)
  PROVE  Placed(q, n, rs)
<1>1. SinkLen \in Nat /\ p.base \in Nat /\ MaxSeq \in Nat /\ WindowLen \in Nat
  BY LayoutConstants DEF Planes
<1>2. ASSUME NEW k \in 0..(n - 1)
      PROVE  RowAt(q, k) = rs[k + 1]
  <2>1. k \in Nat /\ k < n /\ RowAt(p, k) = rs[k + 1]
    BY <1>2 DEF Placed
  <2>2. CASE k < SinkLen
    <3>1. k \in SinkSlots
      BY <1>1, <2>1, <2>2 DEF SinkSlots
    <3>2. q.sink[k] = p.sink[k]
      BY <2>1, <3>1 DEF Unmoved
    <3> QED
      BY <2>1, <2>2, <3>2, RowOf
  <2>3. CASE k >= SinkLen /\ k >= p.base
    BY <1>1, <2>1, <2>3, RowOf
  <2>4. CASE k >= SinkLen /\ k < p.base
    <3>1. PICK b \in Nat : b = k - SinkLen
      BY <1>1, <2>1, <2>4
    <3>2. b < p.base - SinkLen /\ b < MaxSeq - SinkLen
      BY <1>1, <2>1, <2>4, <3>1
    <3>3. b \in BulkSlots
      <4> HIDE DEF NumBlocks
      <4> QED
        BY <1>1, <3>1, <3>2, LayoutConstants DEF BulkSlots
    <3>4. q.bulk[b] = p.bulk[b]
      BY <3>2, <3>3 DEF Unmoved
    <3>5. RowAt(q, k) = q.bulk[b] /\ RowAt(p, k) = p.bulk[b]
      BY <1>1, <2>1, <2>4, <3>1, RowOf
    <3> QED
      BY <2>1, <3>4, <3>5
  <2> QED
    BY <1>1, <2>1, <2>2, <2>3, <2>4
<1> QED
  BY <1>2 DEF Placed

LEMMA PointKept ==
  ASSUME LayoutInv, plane' \in Planes, plane'.base >= plane.base,
         Unmoved(plane, plane', pos, plane.base), saved' = saved, pos' \in Nat, pos' >= pos,
         \A i \in 1..pos : rows'[i] = rows[i]
  PROVE  saved' # NoPoint => PointOK(saved)'
<1> SUFFICES ASSUME saved # NoPoint
             PROVE  PointOK(saved)'
  OBVIOUS
<1>1. PointOK(saved) /\ plane \in Planes /\ pos \in 0..Len(rows) /\ Len(rows) <= MaxSeq
      /\ pos \in Nat /\ rows \in Seq(RowRecords) /\ MaxSeq \in Nat
  BY LayoutConstants DEF LayoutInv, PlaneInv
<1>2. /\ saved \in Points /\ saved.pos \in Nat /\ saved.base \in Nat /\ plane.base \in Nat
      /\ saved.pos <= pos /\ saved.base <= plane.base /\ plane'.base \in Nat
      /\ Shaped(saved.base, saved.pos) /\ Closed(saved.base, saved.pos)
  BY <1>1 DEF PointOK, Points, Planes
<1>3. PICK point : point = saved
  OBVIOUS
<1> DEFINE w == Rewound(plane, point)
           v == Rewound(plane', point)
<1>4. /\ w \in Planes /\ w.base = point.base /\ w.win = point.win
      /\ w.sink = plane.sink /\ w.bulk = plane.bulk
      /\ v \in Planes /\ v.base = point.base /\ v.win = point.win
      /\ v.sink = plane'.sink /\ v.bulk = plane'.bulk
  BY <1>1, <1>2, <1>3, RewoundOK
<1>5. Placed(w, point.pos, rows)
  BY <1>1, <1>3 DEF PointOK
<1> HIDE DEF w, v
<1>6. Unmoved(w, v, point.pos, w.base)
  <2>1. \A i \in SinkSlots : i < point.pos => i < pos
    BY <1>1, <1>2, <1>3, LayoutConstants DEF SinkSlots
  <2>2. \A i \in BulkSlots : i < point.base - SinkLen => i < plane.base - SinkLen
    <3> HIDE DEF NumBlocks
    <3> QED
      BY <1>2, <1>3, LayoutConstants DEF BulkSlots
  <2> QED
    BY <1>4, <2>1, <2>2 DEF Unmoved
<1>7. Placed(v, point.pos, rows)
  <2>1. point.pos <= MaxSeq
    BY <1>1, <1>2, <1>3
  <2> QED
    BY <1>2, <1>3, <1>4, <1>5, <1>6, <2>1, PlacedSame
<1>8. Placed(v, point.pos, rows')
  <2>1. \A i \in 0..(point.pos - 1) : i + 1 \in 1..pos
    BY <1>1, <1>2, <1>3
  <2> QED
    BY <1>7, <2>1 DEF Placed
<1>9. point.pos <= pos' /\ point.base <= plane'.base
  BY <1>1, <1>2, <1>3
<1> QED
  BY <1>2, <1>3, <1>8, <1>9 DEF PointOK, v

-----------------------------------------------------------------------------
(***************************************************************************)
(* Each action keeps the invariant.                                        *)
(***************************************************************************)
LEMMA InvTypes ==
  ASSUME LayoutInv
  PROVE  /\ plane \in Planes /\ plane.base \in Nat /\ rows \in Seq(RowRecords)
         /\ pos \in Nat /\ Len(rows) \in Nat /\ pos <= Len(rows) /\ Len(rows) <= MaxSeq
         /\ Shaped(plane.base, pos) /\ Placed(plane, pos, rows) /\ label \in Nat
         /\ Settled => pos = Len(rows) /\ Closed(plane.base, pos)
         /\ ~ Settled => SinkLen <= pos /\ pos < Len(rows)
BY DEF LayoutInv, PlaneInv, Planes, Settled

\* Rows further on change nothing for those in place.
LEMMA PlacedIn ==
  ASSUME NEW p, NEW n \in Nat, NEW rs, NEW ss, Placed(p, n, rs),
         \A i \in 1..n : ss[i] = rs[i]
  PROVE  Placed(p, n, ss)
<1>1. \A i \in 0..(n - 1) : i + 1 \in 1..n
  OBVIOUS
<1> QED
  BY <1>1 DEF Placed

\* What a decoded row, or a chunk's, is.
LEMMA NewRowOK ==
  ASSUME LayoutInv, NEW i \in Nat
  PROVE  NewRow(i) \in RowRecords /\ NewRow(i) \in Cells
BY InvTypes DEF NewRow, RowRecords, Cells

LEMMA AppendOneStep ==
  ASSUME LayoutInv, AppendOne
  PROVE  LayoutInv'
<1> DEFINE row == NewRow(pos)
           rs == Append(rows, row)
<1>1. /\ plane \in Planes /\ plane.base \in Nat /\ rows \in Seq(RowRecords) /\ pos \in Nat
      /\ pos = Len(rows) /\ pos < MaxSeq /\ Closed(plane.base, pos)
      /\ Shaped(plane.base, pos) /\ Placed(plane, pos, rows) /\ label \in Nat
      /\ SinkLen \in Nat /\ WindowLen \in Nat /\ WindowLen >= 1 /\ MaxSeq \in Nat
  BY InvTypes, LayoutConstants DEF AppendOne
<1>2. row \in RowRecords /\ row \in Cells
  BY <1>1, NewRowOK
<1>3. /\ plane' = AppendRow(plane, pos, row) /\ rows' = rs /\ pos' = pos + 1
      /\ saved' = saved /\ host' = host /\ label' = label
  BY DEF AppendOne
<1> HIDE DEF row
<1>4. /\ rs \in Seq(RowRecords) /\ Len(rs) = pos + 1 /\ rs[pos + 1] = row
      /\ \A i \in 1..pos : rs[i] = rows[i]
  BY <1>1, <1>2
<1> HIDE DEF rs
<1>5. Placed(plane, pos, rs)
  BY <1>1, <1>4, PlacedIn
<1>6. plane \in Planes /\ pos \in Nat /\ Shaped(plane.base, pos)
  BY <1>1
<1>7. pos <= MaxSeq
  BY <1>1
<1>8. /\ plane' \in Planes /\ plane'.base >= plane.base
      /\ Unmoved(plane, plane', pos, plane.base)
      /\ Placed(plane', pos + 1, rs) /\ Shaped(plane'.base, pos + 1)
      /\ Closed(plane'.base, pos + 1)
  <2>1. CASE pos < SinkLen
    <3>1. plane' = [plane EXCEPT !.sink = [@ EXCEPT ![pos] = row]]
      BY <1>3, <2>1 DEF AppendRow
    <3>2. /\ plane' \in Planes /\ plane'.base = plane.base /\ plane'.win = plane.win
          /\ plane'.bulk = plane.bulk
          /\ plane'.sink = [plane.sink EXCEPT ![pos] = row]
      BY <1>1, <1>2, <3>1 DEF Planes
    <3>3. \A s \in SinkSlots :
            plane'.sink[s] = IF pos <= s /\ s < pos + 1 THEN rs[s + 1] ELSE plane.sink[s]
      BY <1>1, <1>4, <3>2 DEF SinkSlots, Planes
    <3>4. /\ Placed(plane', pos + 1, rs) /\ Shaped(plane'.base, pos + 1)
          /\ Unmoved(plane, plane', pos, plane.base)
      <4>1. PICK one \in Nat : one = 1
        OBVIOUS
      <4>2. pos + one <= Len(rs) /\ pos + one <= SinkLen
        BY <1>1, <1>4, <2>1, <4>1
      <4>3. \A s \in SinkSlots :
              plane'.sink[s] = IF pos <= s /\ s < pos + one THEN rs[s + 1] ELSE plane.sink[s]
        BY <3>3, <4>1
      <4>4. /\ Placed(plane', pos + one, rs) /\ Shaped(plane'.base, pos + one)
            /\ Unmoved(plane, plane', pos, plane.base)
        BY <1>4, <1>5, <1>6, <3>2, <4>2, <4>3, SinkGrows
      <4> QED
        BY <4>1, <4>4
    <3>5. Closed(plane'.base, pos + 1)
      BY <1>1, <2>1 DEF Closed
    <3> QED
      BY <1>1, <3>2, <3>4, <3>5
  <2>2. CASE SinkLen <= pos
    <3> DEFINE q == Prepared(plane, pos)
    <3>1. /\ q \in Planes /\ q.base >= plane.base /\ Placed(q, pos, rs)
          /\ Shaped(q.base, pos) /\ pos + 1 <= q.base + WindowLen
          /\ Unmoved(plane, q, pos, plane.base)
      <4>1. CASE pos - plane.base >= WindowLen
        <5>1. pos = plane.base + WindowLen
          BY <1>1, <4>1 DEF Shaped
        <5>2. q = Evict(plane)
          BY <4>1 DEF Prepared
        <5>3. /\ Evict(plane) \in Planes /\ Evict(plane).base = pos
              /\ Placed(Evict(plane), pos, rs) /\ Shaped(Evict(plane).base, pos)
              /\ Unmoved(plane, Evict(plane), pos, plane.base)
          BY <1>6, <1>7, <1>5, <5>1, FullEvicted
        <5> QED
          BY <1>1, <5>1, <5>2, <5>3
      <4>2. CASE ~ (pos - plane.base >= WindowLen)
        <5>1. q = plane /\ pos + 1 <= plane.base + WindowLen
          BY <1>1, <4>2 DEF Prepared
        <5> QED
          BY <1>1, <1>5, <5>1, UnmovedSame
      <4> QED
        BY <4>1, <4>2
    <3>2. plane' = [q EXCEPT !.win = [@ EXCEPT ![pos - q.base] = row]]
      BY <1>1, <1>3, <2>2 DEF AppendRow
    <3> HIDE DEF q
    <3>3. /\ plane' \in Planes /\ plane'.base = q.base /\ plane'.sink = q.sink
          /\ plane'.bulk = q.bulk
          /\ plane'.win = [q.win EXCEPT ![pos - q.base] = row]
      BY <1>2, <3>1, <3>2 DEF Planes
    <3>4. q.base \in Nat /\ q.base <= pos
      BY <1>1, <2>2, <3>1 DEF Shaped
    <3>5. \A j \in WinSlots :
            plane'.win[j] = IF pos - q.base <= j /\ j < pos - q.base + 1
                            THEN rs[q.base + j + 1] ELSE q.win[j]
      <4> SUFFICES ASSUME NEW j \in WinSlots
                   PROVE  plane'.win[j] = IF pos - q.base <= j /\ j < pos - q.base + 1
                                          THEN rs[q.base + j + 1] ELSE q.win[j]
        OBVIOUS
      <4>1. j \in Nat
        BY <1>1 DEF WinSlots
      <4>2. plane'.win[j] = IF j = pos - q.base THEN row ELSE q.win[j]
        BY <3>1, <3>3 DEF Planes
      <4>3. j = pos - q.base => q.base + j + 1 = pos + 1
        BY <1>1, <3>4, <4>1
      <4>4. pos - q.base <= j /\ j < pos - q.base + 1 <=> j = pos - q.base
        BY <1>1, <3>4, <4>1
      <4> QED
        BY <1>4, <4>2, <4>3, <4>4
    <3>6. /\ Placed(plane', pos + 1, rs) /\ Shaped(plane'.base, pos + 1)
          /\ Closed(plane'.base, pos + 1)
      <4>1. PICK one \in Nat : one = 1
        OBVIOUS
      <4>2. pos + one <= q.base + WindowLen /\ one > 0
        BY <3>1, <4>1
      <4>3. \A j \in WinSlots :
              plane'.win[j] = IF pos - q.base <= j /\ j < pos - q.base + one
                              THEN rs[q.base + j + 1] ELSE q.win[j]
        BY <3>5, <4>1
      <4>4. /\ Placed(plane', pos + one, rs) /\ Shaped(plane'.base, pos + one)
            /\ Closed(plane'.base, pos + one)
        BY <1>4, <1>6, <2>2, <3>1, <3>3, <4>2, <4>3, WindowGrows
      <4> QED
        BY <4>1, <4>4
    <3>7. Unmoved(plane, plane', pos, plane.base)
      BY <3>1, <3>3 DEF Unmoved
    <3> QED
      BY <3>1, <3>3, <3>6, <3>7
  <2> QED
    BY <1>1, <2>1, <2>2
<1>9. PlaneInv'
  BY <1>1, <1>3, <1>4, <1>8 DEF PlaneInv, Settled
<1>10. saved' # NoPoint => PointOK(saved)'
  <2>1. plane' \in Planes /\ plane'.base >= plane.base
    BY <1>1, <1>8
  <2>2. Unmoved(plane, plane', pos, plane.base)
    BY <1>8
  <2>3. saved' = saved /\ pos' \in Nat /\ pos' >= pos
    BY <1>1, <1>3
  <2>4. \A i \in 1..pos : rows'[i] = rows[i]
    BY <1>3, <1>4
  <2> QED
    BY <2>1, <2>2, <2>3, <2>4, PointKept, Zenon
<1> QED
  BY <1>3, <1>9, <1>10 DEF LayoutInv

LEMMA AppendChunkStep ==
  ASSUME LayoutInv, NEW n \in Nat \ {0}, AppendChunk(n)
  PROVE  LayoutInv'
<1> DEFINE c == [k \in 1..n |-> NewRow(pos + k - 1)]
           rs == rows \o c
           m == SinkRows(pos, n)
<1>1. /\ plane \in Planes /\ plane.base \in Nat /\ rows \in Seq(RowRecords) /\ pos \in Nat
      /\ pos = Len(rows) /\ pos + n <= MaxSeq /\ Closed(plane.base, pos)
      /\ Shaped(plane.base, pos) /\ Placed(plane, pos, rows) /\ label \in Nat
      /\ SinkLen \in Nat /\ MaxSeq \in Nat
  BY InvTypes, LayoutConstants DEF AppendChunk
<1>2. c \in Seq(RowRecords) /\ Len(c) = n
  <2>1. \A k \in 1..n : NewRow(pos + k - 1) \in RowRecords
    <3> SUFFICES ASSUME NEW k \in 1..n
                 PROVE  NewRow(pos + k - 1) \in RowRecords
      OBVIOUS
    <3>1. pos + k - 1 \in Nat
      BY <1>1
    <3> QED
      BY <3>1, NewRowOK
  <2> QED
    BY <2>1
<1>3. /\ rows' = rs /\ plane' = WriteSink(plane, pos, m, rs) /\ pos' = pos + m
      /\ saved' = saved /\ host' = host /\ label' = label
  BY DEF AppendChunk
<1> HIDE DEF c
<1>4. /\ rs \in Seq(RowRecords) /\ Len(rs) = pos + n
      /\ \A i \in 1..pos : rs[i] = rows[i]
  BY <1>1, <1>2
<1> HIDE DEF rs
<1>5. /\ m \in Nat /\ m <= n /\ (pos + m <= SinkLen \/ m = 0)
      /\ pos + m < pos + n => SinkLen <= pos + m
  BY <1>1 DEF SinkRows, Smaller
<1> HIDE DEF m
<1>6. Placed(plane, pos, rs)
  BY <1>1, <1>4, PlacedIn
<1>7. /\ plane' \in Planes /\ plane'.base = plane.base /\ plane'.win = plane.win
      /\ plane'.bulk = plane.bulk
      /\ \A s \in SinkSlots :
           plane'.sink[s] = IF pos <= s /\ s < pos + m THEN rs[s + 1] ELSE plane.sink[s]
  <2> DEFINE sink == [s \in SinkSlots |-> IF s \in pos..(pos + m - 1) THEN rs[s + 1]
                                          ELSE plane.sink[s]]
  <2>1. ASSUME NEW s \in SinkSlots
        PROVE  /\ sink[s] \in Cells
               /\ sink[s] = IF pos <= s /\ s < pos + m THEN rs[s + 1] ELSE plane.sink[s]
    <3>1. s \in Nat
      BY <1>1 DEF SinkSlots
    <3>2. s \in pos..(pos + m - 1) <=> pos <= s /\ s < pos + m
      BY <1>1, <1>5, <3>1
    <3>3. pos <= s /\ s < pos + m => s + 1 \in 1..Len(rs)
      BY <1>1, <1>4, <1>5, <3>1
    <3>4. pos <= s /\ s < pos + m => rs[s + 1] \in Cells
      BY <1>4, <3>3 DEF Cells
    <3>5. plane.sink[s] \in Cells
      BY <1>1 DEF Planes
    <3> QED
      BY <3>2, <3>4, <3>5
  <2>2. plane' = [plane EXCEPT !.sink = sink]
    BY <1>3 DEF WriteSink
  <2>3. sink \in [SinkSlots -> Cells]
    BY <2>1
  <2> HIDE DEF sink
  <2> QED
    BY <1>1, <2>1, <2>2, <2>3 DEF Planes
<1>8. /\ Placed(plane', pos + m, rs) /\ Shaped(plane'.base, pos + m)
      /\ Unmoved(plane, plane', pos, plane.base)
  <2>1. pos + m <= Len(rs)
    BY <1>1, <1>4, <1>5
  <2> QED
    BY <1>1, <1>4, <1>5, <1>6, <1>7, <2>1, SinkGrows
<1>9. pos + m = pos + n => Closed(plane'.base, pos + m)
  BY <1>1, <1>5, <1>7 DEF Closed
<1>10. PlaneInv'
  <2>1. /\ pos' = pos + m /\ rows' = rs /\ Len(rs) = pos + n /\ Len(rs) <= MaxSeq
        /\ pos + m \in 0..Len(rs)
    BY <1>1, <1>3, <1>4, <1>5
  <2>2. /\ pos + m = Len(rs) => Closed(plane'.base, pos + m)
        /\ pos + m # Len(rs) => SinkLen <= pos + m
    BY <1>1, <1>4, <1>5, <1>9
  <2>3. Shaped(plane'.base, pos') /\ Placed(plane', pos', rows')
    BY <1>8, <2>1
  <2>4. IF Settled' THEN Closed(plane'.base, pos') ELSE SinkLen <= pos'
    BY <2>1, <2>2 DEF Settled
  <2>5. plane' \in Planes /\ rows' \in Seq(RowRecords)
    BY <1>4, <1>7, <2>1
  <2>6. pos' \in 0..Len(rows') /\ Len(rows') <= MaxSeq
    BY <2>1
  <2> QED
    BY <2>3, <2>4, <2>5, <2>6 DEF PlaneInv
<1>11. saved' # NoPoint => PointOK(saved)'
  <2>1. plane' \in Planes /\ plane'.base >= plane.base
    BY <1>1, <1>7
  <2>2. Unmoved(plane, plane', pos, plane.base)
    BY <1>8
  <2>3. saved' = saved /\ pos' \in Nat /\ pos' >= pos
    BY <1>1, <1>3, <1>5
  <2>4. \A i \in 1..pos : rows'[i] = rows[i]
    BY <1>3, <1>4
  <2> QED
    BY <2>1, <2>2, <2>3, <2>4, PointKept, Zenon
<1> QED
  BY <1>3, <1>10, <1>11 DEF LayoutInv

\* A segment of a chunk: rows for the window, then perhaps an eviction.
LEMMA AppendSegmentStep ==
  ASSUME LayoutInv, AppendSegment
  PROVE  LayoutInv'
<1> DEFINE left == Len(rows) - pos
           room == Room(plane, pos)
           n == Smaller(room, left)
           w == WriteWindow(plane, pos, n, rows)
<1>1. /\ plane \in Planes /\ plane.base \in Nat /\ rows \in Seq(RowRecords) /\ pos \in Nat
      /\ Len(rows) \in Nat /\ pos < Len(rows) /\ Len(rows) <= MaxSeq /\ SinkLen <= pos
      /\ label \in Nat /\ SinkLen \in Nat /\ WindowLen \in Nat /\ MaxSeq \in Nat
  BY InvTypes, LayoutConstants DEF AppendSegment
<1>2. Shaped(plane.base, pos) /\ Placed(plane, pos, rows) /\ plane \in Planes /\ pos \in Nat
  BY <1>1, InvTypes
<1>3. plane.base <= pos /\ pos <= plane.base + WindowLen
  BY <1>1, <1>2 DEF Shaped
<1>4. /\ n \in Nat /\ pos + n <= plane.base + WindowLen /\ pos + n <= Len(rows)
      /\ room < left => pos + n = plane.base + WindowLen /\ pos + n < Len(rows)
      /\ ~ (room < left) => pos + n = Len(rows) /\ n > 0
  BY <1>1, <1>3 DEF Room, Smaller
<1>5. /\ plane' = IF room < left THEN Evict(w) ELSE w
      /\ pos' = pos + n /\ rows' = rows /\ saved' = saved /\ host' = host /\ label' = label
  BY DEF AppendSegment, WriteSegment, EvictAfter
<1> HIDE DEF left, room, n
<1>6. /\ w \in Planes /\ w.base = plane.base /\ w.sink = plane.sink /\ w.bulk = plane.bulk
      /\ \A j \in WinSlots :
           w.win[j] = IF pos - plane.base <= j /\ j < pos - plane.base + n
                      THEN rows[plane.base + j + 1] ELSE plane.win[j]
  <2> DEFINE first == pos - plane.base
             win == [j \in WinSlots |-> IF j \in first..(first + n - 1)
                                        THEN rows[pos + (j - first) + 1] ELSE plane.win[j]]
  <2>1. ASSUME NEW j \in WinSlots
        PROVE  /\ win[j] \in Cells
               /\ win[j] = IF first <= j /\ j < first + n THEN rows[plane.base + j + 1]
                           ELSE plane.win[j]
    <3>1. j \in Nat /\ first \in Nat
      BY <1>1, <1>3 DEF WinSlots
    <3>2. j \in first..(first + n - 1) <=> first <= j /\ j < first + n
      BY <1>4, <3>1
    <3>3. pos + (j - first) + 1 = plane.base + j + 1
      BY <1>1, <3>1
    <3>4. first <= j /\ j < first + n => plane.base + j + 1 \in 1..Len(rows)
      <4>1. n \in Nat /\ pos + n <= Len(rows)
        BY <1>4
      <4>2. plane.base \in Nat /\ pos \in Nat /\ Len(rows) \in Nat /\ j \in Nat
        BY <1>1, <3>1
      <4>3. \A b, i, m, l, k \in Nat :
              k < i - b + m /\ i + m <= l => b + k + 1 \in 1..l
        OBVIOUS
      <4> QED
        BY <4>1, <4>2, <4>3
    <3>5. first <= j /\ j < first + n => rows[plane.base + j + 1] \in Cells
      BY <1>1, <3>4 DEF Cells
    <3>6. plane.win[j] \in Cells
      BY <1>1 DEF Planes
    <3> QED
      BY <3>2, <3>3, <3>5, <3>6
  <2>2. w = [plane EXCEPT !.win = win]
    BY DEF WriteWindow
  <2>3. win \in [WinSlots -> Cells]
    BY <2>1
  <2> HIDE DEF win, w
  <2> QED
    BY <1>1, <2>1, <2>2, <2>3 DEF Planes
<1> HIDE DEF w
<1>7. /\ Placed(w, pos + n, rows) /\ Shaped(w.base, pos + n)
      /\ n > 0 => Closed(w.base, pos + n)
  BY <1>1, <1>2, <1>4, <1>6, WindowGrows
<1>8. Unmoved(plane, w, pos, plane.base)
  BY <1>6, UnmovedSame
<1>9. CASE ~ (room < left)
  <2>1. plane' = w /\ pos' = Len(rows') /\ Closed(w.base, pos + n)
    BY <1>4, <1>5, <1>7, <1>9
  <2>2. PlaneInv'
    BY <1>1, <1>4, <1>5, <1>6, <1>7, <2>1 DEF PlaneInv, Settled
  <2>3. saved' # NoPoint => PointOK(saved)'
    <3>1. plane' \in Planes /\ plane'.base >= plane.base
      BY <1>1, <1>6, <2>1
    <3>2. Unmoved(plane, plane', pos, plane.base)
      BY <1>8, <2>1
    <3>3. saved' = saved /\ pos' \in Nat /\ pos' >= pos
      BY <1>1, <1>4, <1>5, <2>1
    <3>4. \A i \in 1..pos : rows'[i] = rows[i]
      BY <1>5
    <3> QED
      BY <3>1, <3>2, <3>3, <3>4, PointKept, Zenon
  <2> QED
    BY <1>5, <2>2, <2>3 DEF LayoutInv
<1>10. CASE room < left
  <2>1. plane' = Evict(w)
    BY <1>5, <1>10
  <2>2. pos + n = w.base + WindowLen /\ pos + n <= MaxSeq /\ pos + n \in Nat
    BY <1>1, <1>4, <1>6, <1>10
  <2>3. PICK i \in Nat : i = pos + n
    BY <2>2
  <2>4. /\ Evict(w) \in Planes /\ Evict(w).base = i
        /\ Placed(Evict(w), i, rows) /\ Shaped(Evict(w).base, i)
        /\ \A k : Unmoved(w, Evict(w), k, w.base)
    BY <1>6, <1>7, <2>2, <2>3, FullEvicted
  <2>5. Unmoved(plane, plane', pos, plane.base)
    BY <1>6, <1>8, <2>1, <2>4 DEF Unmoved
  <2>6. SinkLen <= i /\ plane.base <= i /\ i \in 0..Len(rows) /\ i # Len(rows)
    BY <1>1, <1>3, <1>4, <1>10, <2>3
  <2>7. PlaneInv'
    BY <1>1, <1>5, <2>1, <2>3, <2>4, <2>6 DEF PlaneInv, Settled
  <2>8. pos' \in Nat /\ pos' >= pos /\ plane'.base >= plane.base
    BY <1>1, <1>4, <1>5, <2>1, <2>2, <2>4, <2>6
  <2>9. saved' # NoPoint => PointOK(saved)'
    <3>1. plane' \in Planes /\ plane'.base >= plane.base
      BY <2>1, <2>4, <2>8
    <3>2. Unmoved(plane, plane', pos, plane.base)
      BY <2>5
    <3>3. saved' = saved /\ pos' \in Nat /\ pos' >= pos
      BY <1>5, <2>8
    <3>4. \A j \in 1..pos : rows'[j] = rows[j]
      BY <1>5
    <3> QED
      BY <3>1, <3>2, <3>3, <3>4, PointKept, Zenon
  <2> QED
    BY <1>5, <2>7, <2>9 DEF LayoutInv
<1> QED
  BY <1>9, <1>10

\* The window as it is, saved: putting it back changes nothing.
LEMMA SaveWindowStep ==
  ASSUME LayoutInv, SaveWindow
  PROVE  LayoutInv'
<1>1. /\ plane \in Planes /\ plane.base \in Nat /\ pos \in Nat
      /\ Closed(plane.base, pos) /\ Shaped(plane.base, pos) /\ Placed(plane, pos, rows)
  BY InvTypes DEF SaveWindow
<1> DEFINE point == [pos |-> pos, base |-> plane.base, win |-> plane.win]
<1>2. /\ saved' = point /\ plane' = plane /\ host' = host /\ rows' = rows /\ pos' = pos
      /\ label' = label
  BY DEF SaveWindow
<1>3. point \in Points
  BY <1>1 DEF Planes, Points
<1>4. Rewound(plane, point) = plane
  BY <1>1 DEF Rewound, Planes
<1>5. PointOK(saved)'
  BY <1>1, <1>2, <1>3, <1>4 DEF PointOK
<1>6. PlaneInv'
  BY <1>2 DEF LayoutInv, PlaneInv, Settled
<1> QED
  BY <1>2, <1>5, <1>6 DEF LayoutInv

LEMMA RestoreWindowStep ==
  ASSUME LayoutInv, RestoreWindow
  PROVE  LayoutInv'
<1>1. /\ plane \in Planes /\ pos \in Nat /\ rows \in Seq(RowRecords)
      /\ pos = Len(rows) /\ Len(rows) <= MaxSeq /\ label \in Nat /\ MaxSeq \in Nat
  BY InvTypes, LayoutConstants DEF RestoreWindow
<1>2. /\ plane' = Rewound(plane, saved) /\ rows' = SubSeq(rows, 1, saved.pos)
      /\ pos' = saved.pos /\ label' = label + 1 /\ saved' = saved /\ host' = host
      /\ saved # NoPoint
  BY DEF RestoreWindow
<1>3. /\ saved \in Points /\ saved.pos \in Nat /\ saved.base \in Nat
      /\ saved.pos <= pos /\ Shaped(saved.base, saved.pos) /\ Closed(saved.base, saved.pos)
      /\ Placed(Rewound(plane, saved), saved.pos, rows)
  BY <1>2 DEF LayoutInv, PointOK, Points
<1>4. /\ plane' \in Planes /\ plane'.base = saved.base /\ plane'.win = saved.win
      /\ plane'.sink = plane.sink /\ plane'.bulk = plane.bulk
  BY <1>1, <1>2, <1>3, RewoundOK
<1>5. /\ rows' \in Seq(RowRecords) /\ Len(rows') = saved.pos
      /\ \A i \in 1..saved.pos : rows'[i] = rows[i]
  <2>1. PICK n \in 0..Len(rows) : n = saved.pos
    BY <1>1, <1>3
  <2>2. /\ SubSeq(rows, 1, n) \in Seq(RowRecords) /\ Len(SubSeq(rows, 1, n)) = n
        /\ \A i \in 1..n : SubSeq(rows, 1, n)[i] = rows[i]
    BY <1>1, <2>1
  <2> QED
    BY <1>2, <2>1, <2>2
<1>6. Placed(plane', saved.pos, rows')
  <2>1. Placed(plane', saved.pos, rows)
    BY <1>2, <1>3
  <2>2. PICK n \in Nat : n = saved.pos
    BY <1>3
  <2>3. Placed(plane', n, rows) /\ \A i \in 1..n : rows'[i] = rows[i]
    BY <1>5, <2>1, <2>2
  <2>4. Placed(plane', n, rows')
    BY <2>3, PlacedIn
  <2> QED
    BY <2>2, <2>4
<1>7. PlaneInv'
  BY <1>1, <1>2, <1>3, <1>4, <1>5, <1>6 DEF PlaneInv, Settled
<1>8. PointOK(saved)'
  <2>1. PICK point : point = saved
    OBVIOUS
  <2>2. Rewound(plane', point) = plane'
    BY <1>4, <2>1 DEF Rewound, Planes
  <2> QED
    BY <1>2, <1>3, <1>4, <1>6, <2>1, <2>2 DEF PointOK
<1> QED
  BY <1>1, <1>2, <1>7, <1>8 DEF LayoutInv

\* A capture holds every place that the layout looks at.
LEMMA CaptureStep ==
  ASSUME LayoutInv, Capture
  PROVE  LayoutInv'
<1>1. /\ plane \in Planes /\ plane.base \in Nat /\ rows \in Seq(RowRecords) /\ pos \in Nat
      /\ pos = Len(rows) /\ pos > 0 /\ Len(rows) <= MaxSeq /\ Closed(plane.base, pos)
      /\ Shaped(plane.base, pos) /\ Placed(plane, pos, rows)
      /\ SinkLen \in Nat /\ WindowLen \in Nat /\ WindowLen >= 1 /\ MaxSeq \in Nat
  BY InvTypes, LayoutConstants DEF Capture
<1> DEFINE last == FilledBlocks(plane.base) * WindowLen - 1
           bulk == [i \in 0..last |-> plane.bulk[i]]
           c == [rows |-> rows, base |-> plane.base, sink |-> plane.sink,
                 win |-> plane.win, bulk |-> bulk]
<1>2. /\ host' = c /\ plane' = plane /\ saved' = saved /\ rows' = rows /\ pos' = pos
      /\ label' = label
  BY DEF Capture
<1>3. last = plane.base - SinkLen - 1
  <2>1. PICK k \in Nat : plane.base = SinkLen + k * WindowLen
    BY <1>1 DEF Shaped, Aligned
  <2>2. k * WindowLen \in Nat /\ (k * WindowLen) \div WindowLen = k
    BY <1>1
  <2>3. plane.base - SinkLen = k * WindowLen
    BY <1>1, <2>1, <2>2
  <2>4. FilledBlocks(plane.base) = k
    BY <2>2, <2>3 DEF FilledBlocks, EvictedBlocks
  <2> QED
    BY <2>3, <2>4
<1> HIDE DEF last
<1>4. ASSUME NEW i \in BulkSlots, i < plane.base - SinkLen
      PROVE  i \in 0..last
  <2>1. i \in Nat
    BY LayoutConstants DEF BulkSlots
  <2> QED
    BY <1>1, <1>3, <1>4, <2>1
<1>5. 0..last \subseteq BulkSlots
  <2>1. plane.base <= pos \/ plane.base = SinkLen
    BY <1>1 DEF Shaped
  <2>2. ASSUME NEW i \in 0..last
        PROVE  i \in BulkSlots
    <3>1. i \in Nat /\ i <= plane.base - SinkLen - 1
      BY <1>1, <1>3, <2>2
    <3>2. i < MaxSeq - SinkLen
      BY <1>1, <2>1, <3>1
    <3> HIDE DEF NumBlocks
    <3> QED
      BY <1>1, <3>1, <3>2, LayoutConstants DEF BulkSlots
  <2> QED
    BY <2>2
<1>6. /\ plane.sink \in [SinkSlots -> Cells] /\ plane.win \in [WinSlots -> Cells]
      /\ plane.bulk \in [BulkSlots -> Cells]
  BY <1>1 DEF Planes
<1>7. DOMAIN bulk = 0..last /\ \A i \in 0..last : bulk[i] = plane.bulk[i] /\ bulk[i] \in Cells
  BY <1>5, <1>6
<1> HIDE DEF bulk
<1>8. /\ c.rows = rows /\ c.base = plane.base /\ c.sink = plane.sink /\ c.win = plane.win
      /\ c.bulk = bulk
  OBVIOUS
<1> HIDE DEF c
<1>9. ASSUME NEW p \in Planes
      PROVE  Restored(p, c) \in Planes /\ Placed(Restored(p, c), Len(c.rows), c.rows)
  <2> DEFINE r == Restored(p, c)
             all == [i \in BulkSlots |-> IF i \in DOMAIN c.bulk THEN c.bulk[i] ELSE p.bulk[i]]
  <2>1. all \in [BulkSlots -> Cells]
    BY <1>7, <1>8 DEF Planes
  <2>2. r = [base |-> plane.base, sink |-> plane.sink, win |-> plane.win, bulk |-> all]
    BY <1>8 DEF Restored
  <2>3. \A i \in BulkSlots : i < plane.base - SinkLen => all[i] = plane.bulk[i]
    BY <1>4, <1>7, <1>8
  <2> HIDE DEF all, r
  <2>4. r \in Planes /\ r.base = plane.base /\ r.win = plane.win
    BY <1>1, <1>6, <2>1, <2>2 DEF Planes
  <2>5. Unmoved(plane, r, pos, plane.base)
    BY <2>2, <2>3 DEF Unmoved
  <2>6. Placed(r, pos, rows)
    BY <1>1, <2>4, <2>5, PlacedSame
  <2> QED
    BY <1>1, <1>8, <2>4, <2>6 DEF r
<1>10. CaptureOK(c)
  BY <1>1, <1>8, <1>9 DEF CaptureOK
<1>11. CaptureOK(host)'
  BY <1>2, <1>10 DEF CaptureOK
<1>12. PlaneInv' /\ (saved' # NoPoint => PointOK(saved)')
  BY <1>2 DEF LayoutInv, PlaneInv, PointOK, Settled
<1> QED
  BY <1>2, <1>11, <1>12 DEF LayoutInv

LEMMA RestoreCaptureStep ==
  ASSUME LayoutInv, RestoreCapture
  PROVE  LayoutInv'
<1>1. plane \in Planes /\ label \in Nat /\ MaxSeq \in Nat
  BY InvTypes, LayoutConstants
<1>2. /\ plane' = Restored(plane, host) /\ rows' = host.rows /\ pos' = Len(host.rows)
      /\ label' = label + 1 /\ saved' = NoPoint /\ host' = host /\ host # NoCapture
  BY DEF RestoreCapture, Dropped
<1>3. CaptureOK(host)
  BY <1>2 DEF LayoutInv
<1>4. /\ plane' \in Planes /\ plane'.base = host.base
      /\ Placed(plane', Len(host.rows), host.rows)
  BY <1>1, <1>2, <1>3 DEF CaptureOK, Restored
<1>5. /\ host.rows \in Seq(RowRecords) /\ Len(host.rows) \in Nat /\ Len(host.rows) <= MaxSeq
      /\ Shaped(host.base, Len(host.rows)) /\ Closed(host.base, Len(host.rows))
  BY <1>1, <1>3 DEF CaptureOK
<1>6. PlaneInv'
  BY <1>2, <1>4, <1>5 DEF PlaneInv, Settled
<1>7. CaptureOK(host)'
  BY <1>2, <1>3 DEF CaptureOK
<1> QED
  BY <1>1, <1>2, <1>6, <1>7 DEF LayoutInv

LEMMA EmptyOK ==
  ASSUME NEW p \in Planes, p.base = SinkLen
  PROVE  Shaped(p.base, 0) /\ Closed(p.base, 0) /\ Placed(p, 0, <<>>)
<1>1. SinkLen \in Nat /\ WindowLen \in Nat /\ MaxSeq \in Nat
  BY LayoutConstants
<1>2. Shaped(p.base, 0) /\ Closed(p.base, 0)
  BY <1>1, AlignedSteps DEF Shaped, Closed
<1>3. \A i \in 0..(0 - 1) : FALSE
  OBVIOUS
<1> QED
  BY <1>2, <1>3 DEF Placed

LEMMA ResetStep ==
  ASSUME LayoutInv, Reset
  PROVE  LayoutInv'
<1>1. plane \in Planes /\ label \in Nat /\ SinkLen \in Nat /\ MaxSeq \in Nat
  BY InvTypes, LayoutConstants
<1>2. /\ plane' = ResetPlane(plane) /\ rows' = <<>> /\ pos' = 0
      /\ label' = label + 1 /\ saved' = NoPoint /\ host' = host
  BY DEF Reset, Dropped
<1>3. plane' \in Planes /\ plane'.base = SinkLen
  BY <1>1, <1>2 DEF ResetPlane, Planes
<1>4. Shaped(plane'.base, 0) /\ Closed(plane'.base, 0) /\ Placed(plane', 0, <<>>)
  BY <1>3, EmptyOK
<1>5. <<>> \in Seq(RowRecords) /\ Len(<<>>) = 0 /\ 0 \in 0..Len(<<>>) /\ Len(<<>>) <= MaxSeq
  BY <1>1
<1>6. PlaneInv'
  BY <1>2, <1>3, <1>4, <1>5 DEF PlaneInv, Settled
<1>7. host' # NoCapture => CaptureOK(host)'
  BY <1>2 DEF LayoutInv, CaptureOK
<1> QED
  BY <1>1, <1>2, <1>6, <1>7 DEF LayoutInv

LEMMA NewPlaneOK == NewPlane \in Planes /\ NewPlane.base = SinkLen
BY LayoutConstants DEF NewPlane, Planes, Cells

LEMMA InitLayout == Init => LayoutInv
<1> SUFFICES ASSUME Init
             PROVE  LayoutInv
  OBVIOUS
<1>1. /\ plane = NewPlane /\ rows = <<>> /\ pos = 0 /\ label = 1
      /\ saved = NoPoint /\ host = NoCapture
  BY DEF Init
<1>2. /\ plane \in Planes
      /\ Shaped(plane.base, 0) /\ Closed(plane.base, 0) /\ Placed(plane, 0, <<>>)
  BY <1>1, NewPlaneOK, EmptyOK
<1>3. /\ <<>> \in Seq(RowRecords) /\ Len(<<>>) = 0 /\ 0 \in 0..Len(<<>>)
      /\ Len(<<>>) <= MaxSeq
  BY LayoutConstants
<1>4. PlaneInv
  BY <1>1, <1>2, <1>3 DEF PlaneInv, Settled
<1> QED
  BY <1>1, <1>4 DEF LayoutInv

LEMMA NextLayout == LayoutInv /\ [Next]_vars => LayoutInv'
<1> SUFFICES ASSUME LayoutInv, [Next]_vars
             PROVE  LayoutInv'
  OBVIOUS
<1>1. ASSUME NEW n \in 1..ChunkCap, AppendChunk(n)
      PROVE  LayoutInv'
  <2>1. n \in Nat \ {0}
    OBVIOUS
  <2> QED
    BY <1>1, <2>1, AppendChunkStep
<1>2. CASE UNCHANGED vars
  BY <1>2 DEF vars, LayoutInv, PlaneInv, PointOK, CaptureOK, Settled
<1> QED
  BY <1>1, <1>2, AppendOneStep, AppendSegmentStep, SaveWindowStep, RestoreWindowStep,
     CaptureStep, RestoreCaptureStep, ResetStep DEF Next

\* The invariant of the plane, its points and its captures holds throughout.
THEOREM LayoutInvariant == Spec => []LayoutInv
BY InitLayout, NextLayout, PTL DEF Spec

-----------------------------------------------------------------------------
(***************************************************************************)
(* When a query attends, the region that the layout names for a position   *)
(* holds that position's own row, however the rows got there.              *)
(***************************************************************************)
THEOREM LayoutFindsRows == Spec => []EveryRowInPlace
<1>1. LayoutInv => EveryRowInPlace
  BY DEF LayoutInv, PlaneInv, Placed, EveryRowInPlace
<1> QED
  BY <1>1, LayoutInvariant, PTL

(***************************************************************************)
(* Chunks leave the window where single tokens would: the base is the one  *)
(* multiple of the window length that the last position is in.             *)
(***************************************************************************)
LEMMA SerialBaseOK ==
  ASSUME NEW b \in Nat, NEW n \in Nat \ {0}, Shaped(b, n), Closed(b, n)
  PROVE  b = SerialBase(n - 1)
<1>1. SinkLen \in Nat /\ WindowLen \in Nat /\ WindowLen >= 1
  BY LayoutConstants
<1>2. PICK q \in Nat : q = n - 1
  OBVIOUS
<1>3. CASE q < SinkLen
  BY <1>1, <1>2, <1>3 DEF Shaped, SerialBase
<1>4. CASE q >= SinkLen
  <2>1. b <= q /\ q < b + WindowLen
    BY <1>1, <1>2, <1>4 DEF Shaped, Closed
  <2>2. PICK k \in Nat : b = SinkLen + k * WindowLen
    BY DEF Shaped, Aligned
  <2>3. k * WindowLen \in Nat
    BY <1>1
  <2>4. PICK r \in Nat : r = q - b /\ r < WindowLen
    BY <1>1, <1>2, <2>1
  <2>5. q - SinkLen = k * WindowLen + r
    BY <1>1, <1>2, <2>2, <2>3, <2>4
  <2>6. (k * WindowLen + r) % WindowLen = r
    BY <1>1, <2>4
  <2> QED
    BY <1>1, <1>2, <1>4, <2>4, <2>5, <2>6 DEF SerialBase
<1> QED
  BY <1>1, <1>2, <1>3, <1>4

(***************************************************************************)
(* After a chunk, cut and evicted wherever it was, the window base is where*)
(* single tokens would have left it (layout/chunk_plan.rs, plan_chunk).    *)
(***************************************************************************)
THEOREM LayoutLikeSerial == Spec => []ChunksLikeSerial
<1>1. LayoutInv => ChunksLikeSerial
  <2> SUFFICES ASSUME LayoutInv, Settled, pos > 0
               PROVE  plane.base = SerialBase(pos - 1)
    BY DEF ChunksLikeSerial
  <2> QED
    BY InvTypes, SerialBaseOK
<1> QED
  BY <1>1, LayoutInvariant, PTL

(***************************************************************************)
(* Putting the saved window back brings every row of the saved prefix back.*)
(***************************************************************************)
THEOREM LayoutPointsRestorable == Spec => []PointIsRestorable
<1>1. LayoutInv => PointIsRestorable
  BY DEF LayoutInv, PointOK, Placed, PointIsRestorable
<1> QED
  BY <1>1, LayoutInvariant, PTL

(***************************************************************************)
(* A capture restored into a new plane has every row it was taken with.    *)
(***************************************************************************)
THEOREM LayoutCaptureComplete == Spec => []CaptureIsComplete
<1>1. LayoutInv => CaptureIsComplete
  BY NewPlaneOK DEF LayoutInv, CaptureOK, Placed, CaptureIsComplete
<1> QED
  BY <1>1, LayoutInvariant, PTL
=============================================================================
