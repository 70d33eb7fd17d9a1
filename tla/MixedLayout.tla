----------------------------- MODULE MixedLayout -----------------------------
(***************************************************************************)
(* One mixed-precision KV plane (rocml/src/kv_quant/layout and             *)
(* rocml/src/qwen35/cache_mixed): an fp16 sink for the first positions, a  *)
(* recent fp16 window, and a quantized bulk region that takes the whole    *)
(* window in one batch when a position would overflow it.  Rows arrive one *)
(* at a time (decode) or as a chunk (prefill) written segment by segment;  *)
(* the window can be saved for a rewind, the filled part of the plane      *)
(* captured to the host, and the plane reset.                              *)
(*                                                                         *)
(* Abstractions.  A row is the position and the sequence it was computed   *)
(* for; quantizing keeps it recognisable.  K and V, and the heads, move    *)
(* together.  Failing launches are in HybridModel, where the whole cache   *)
(* and the one fault they lead to are.                                     *)
(***************************************************************************)
EXTENDS Integers, Sequences

CONSTANTS
  SinkLen,      \* --kv-sink
  WindowLen,    \* --kv-window
  MaxSeq,       \* --ctx
  ChunkCap,     \* CHUNK_CAP
  MaxLabels,    \* bound: sequences the plane holds one after another
  Empty         \* a slot nothing was written to

VARIABLES
  plane,    \* window_base and the three regions
  saved,    \* MixedWindowRewind, with the length it was saved at
  host,     \* AttnLayerBytes::Mixed, with the rows it was captured with
  rows,     \* the rows of positions 0, 1, ..., of a chunk under way too
  pos,      \* how many of them the plane has
  label     \* of the sequence being appended

vars == <<plane, saved, host, rows, pos, label>>

ValidSinkWindow(sinkLen, windowLen, ctx) ==
  sinkLen # 0 /\ windowLen # 0 /\ sinkLen + windowLen < ctx

ASSUME LayoutAssumption ==
  /\ SinkLen \in Nat /\ WindowLen \in Nat /\ MaxSeq \in Nat
  /\ ValidSinkWindow(SinkLen, WindowLen, MaxSeq)
  /\ ChunkCap \in Nat \ {0} /\ MaxLabels \in Nat \ {0}

\* MixedAttnPlane::new.
NumBlocks == (MaxSeq - SinkLen + WindowLen - 1) \div WindowLen
BulkSlots == 0..(NumBlocks * WindowLen - 1)
SinkSlots == 0..(SinkLen - 1)
WinSlots  == 0..(WindowLen - 1)

NewPlane ==
  [base |-> SinkLen,
   sink |-> [i \in SinkSlots |-> Empty],
   win  |-> [j \in WinSlots |-> Empty],
   bulk |-> [i \in BulkSlots |-> Empty]]

EvictedBlocks(base) == (base - SinkLen) \div WindowLen

\* The row that MixedLayout::region finds for position i.
RowAt(p, i) ==
  IF i < SinkLen THEN p.sink[i]
  ELSE IF i >= p.base THEN p.win[i - p.base]
  ELSE LET rel == i - SinkLen
           block == rel \div WindowLen
           offset == rel % WindowLen
       IN  p.bulk[block * WindowLen + offset]

\* quantize_evict_k and quantize_evict_v: the window becomes the next block.
Evict(p) ==
  [p EXCEPT !.bulk = [i \in BulkSlots |->
                        IF i \div WindowLen = EvictedBlocks(p.base)
                        THEN p.win[i % WindowLen] ELSE p.bulk[i]],
            !.base = @ + WindowLen]

-----------------------------------------------------------------------------
(***************************************************************************)
(* MixedAttnPlane::append: a row past the sink evicts a full window first. *)
(***************************************************************************)
Prepared(p, i) == IF i - p.base >= WindowLen THEN Evict(p) ELSE p

AppendRow(p, i, row) ==
  IF i < SinkLen THEN [p EXCEPT !.sink[i] = row]
  ELSE LET q == Prepared(p, i) IN [q EXCEPT !.win[i - q.base] = row]

(***************************************************************************)
(* MixedAttnPlane::append_chunk with plan_chunk_append.  A chunk is laid   *)
(* down segment by segment: the sink's, and then as many rows as the window*)
(* has room for, none when it is full already, followed by an eviction when*)
(* that fills the window and the chunk goes on.                            *)
(***************************************************************************)
Smaller(a, b) == IF a < b THEN a ELSE b
SinkRows(i, n) == IF i < SinkLen THEN Smaller(SinkLen - i, n) ELSE 0
Room(p, i) == WindowLen - (i - p.base)

\* The next n rows of rs, from position i on, into the sink; into the window.
WriteSink(p, i, n, rs) ==
  [p EXCEPT !.sink = [s \in SinkSlots |-> IF s \in i..(i + n - 1) THEN rs[s + 1] ELSE p.sink[s]]]

WriteWindow(p, i, n, rs) ==
  LET first == i - p.base
  IN  [p EXCEPT !.win = [j \in WinSlots |-> IF j \in first..(first + n - 1)
                                            THEN rs[i + (j - first) + 1] ELSE p.win[j]]]

\* Mutant of EvictAfter: also when the chunk stops where the window is full.
EvictWhenFull(p, i, left) == Room(p, i) <= left

EvictAfter(p, i, left) == Room(p, i) < left

WriteSegment(p, i, left, rs) ==
  LET written == WriteWindow(p, i, Smaller(Room(p, i), left), rs)
  IN  IF EvictAfter(p, i, left) THEN Evict(written) ELSE written

-----------------------------------------------------------------------------
\* The chunk's queries attend, and everything else happens, once all its rows
\* are appended.
Settled == pos = Len(rows)

NoPoint   == [pos |-> -1]
NoCapture == [rows |-> <<>>]

Init ==
  /\ plane = NewPlane /\ saved = NoPoint /\ host = NoCapture
  /\ rows = <<>> /\ pos = 0 /\ label = 1

NewRow(i) == [pos |-> i, seq |-> label]

\* One decoded token: its row is appended, then its query attends.
AppendOne ==
  /\ Settled /\ pos < MaxSeq
  /\ plane' = AppendRow(plane, pos, NewRow(pos))
  /\ rows' = Append(rows, NewRow(pos)) /\ pos' = pos + 1
  /\ UNCHANGED <<saved, host, label>>

\* append_chunk: its rows are there, and those for the sink are written.
AppendChunk(n) ==
  /\ Settled /\ pos + n <= MaxSeq
  /\ rows' = rows \o [k \in 1..n |-> NewRow(pos + k - 1)]
  /\ plane' = WriteSink(plane, pos, SinkRows(pos, n), rows')
  /\ pos' = pos + SinkRows(pos, n)
  /\ UNCHANGED <<saved, host, label>>

\* append_chunk's loop: the next segment.
AppendSegment ==
  /\ ~ Settled
  /\ plane' = WriteSegment(plane, pos, Len(rows) - pos, rows)
  /\ pos' = pos + Smaller(Room(plane, pos), Len(rows) - pos)
  /\ UNCHANGED <<saved, host, rows, label>>

\* save_window.
SaveWindow ==
  /\ Settled /\ pos > 0
  /\ saved' = [pos |-> pos, base |-> plane.base, win |-> plane.win]
  /\ UNCHANGED <<plane, host, rows, pos, label>>

\* restore_window.  What is appended from here on is another sequence.
Rewound(p, point) == [p EXCEPT !.base = point.base, !.win = point.win]

RestoreWindow ==
  /\ Settled /\ saved # NoPoint /\ label < MaxLabels
  /\ plane' = Rewound(plane, saved)
  /\ rows' = SubSeq(rows, 1, saved.pos) /\ pos' = saved.pos
  /\ label' = label + 1
  /\ UNCHANGED <<saved, host>>

\* Mutant of FilledBlocks: the block evicted last is left out.
FilledBlocksButLast(base) ==
  IF base = SinkLen THEN 0 ELSE EvictedBlocks(base) - 1

FilledBlocks(base) == EvictedBlocks(base)

\* capture: sink and window whole, and the filled prefix of the bulk.
Capture ==
  /\ Settled /\ pos > 0
  /\ host' = [rows |-> rows, base |-> plane.base, sink |-> plane.sink,
              win |-> plane.win,
              bulk |-> [i \in 0..(FilledBlocks(plane.base) * WindowLen - 1) |->
                          plane.bulk[i]]]
  /\ UNCHANGED <<plane, saved, rows, pos, label>>

\* Mutant of Dropped: the rewind points outlive what they point into.
Undropped == saved

\* RewindPoints::invalidate_all, with reset and restore.
Dropped == NoPoint

\* restore: the bulk past the captured prefix keeps what it held.
Restored(p, c) ==
  [base |-> c.base, sink |-> c.sink, win |-> c.win,
   bulk |-> [i \in BulkSlots |-> IF i \in DOMAIN c.bulk THEN c.bulk[i] ELSE p.bulk[i]]]

RestoreCapture ==
  /\ Settled /\ host # NoCapture /\ label < MaxLabels
  /\ plane' = Restored(plane, host)
  /\ saved' = Dropped /\ rows' = host.rows /\ pos' = Len(host.rows)
  /\ label' = label + 1
  /\ UNCHANGED host

\* Mutant of ResetPlane: window_base stays where the last sequence left it.
ResetNothing(p) == p

\* MixedAttnPlane::reset: no row is cleared.
ResetPlane(p) == [p EXCEPT !.base = SinkLen]

Reset ==
  /\ Settled /\ rows # <<>> /\ label < MaxLabels
  /\ plane' = ResetPlane(plane)
  /\ saved' = Dropped /\ rows' = <<>> /\ pos' = 0
  /\ label' = label + 1
  /\ UNCHANGED host

Next ==
  \/ AppendOne \/ (\E n \in 1..ChunkCap : AppendChunk(n)) \/ AppendSegment
  \/ SaveWindow \/ RestoreWindow
  \/ Capture \/ RestoreCapture
  \/ Reset

Spec == Init /\ [][Next]_vars

-----------------------------------------------------------------------------
(* Properties *)

\* However a sequence got into the plane (decoded, in chunks, rewound to,
\* restored from a capture, after a reset over stale rows), when a query
\* attends the region that MixedLayout::region names for a position holds
\* that position's own row.
EveryRowInPlace == Settled => \A i \in 0..(pos - 1) : RowAt(plane, i) = rows[i + 1]

\* Where token-serial appends have window_base once position q is in.
SerialBase(q) ==
  IF q < SinkLen THEN SinkLen
  ELSE q - ((q - SinkLen) % WindowLen)

\* chunk_plan.rs: the state chunks leave is the one token-serial appends
\* would leave, whichever way the two were mixed; in particular a chunk that
\* ends where the window is full does not evict it.
ChunksLikeSerial == Settled /\ pos > 0 => plane.base = SerialBase(pos - 1)

\* rewind.rs: later evictions only write higher blocks, so putting the saved
\* window back is enough to have every row of the saved prefix again.
PointIsRestorable ==
  saved # NoPoint =>
    /\ saved.pos <= pos
    /\ \A i \in 0..(saved.pos - 1) : RowAt(Rewound(plane, saved), i) = rows[i + 1]

\* snapshot.rs: what capture leaves out is never needed; a capture
\* restored into a new plane (another process, later) has every row it was
\* taken with.
CaptureIsComplete ==
  host # NoCapture =>
    \A i \in 0..(Len(host.rows) - 1) :
      RowAt(Restored(NewPlane, host), i) = host.rows[i + 1]
=============================================================================
