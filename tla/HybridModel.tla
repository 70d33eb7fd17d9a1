----------------------------- MODULE HybridModel -----------------------------
(***************************************************************************)
(* The state of a loaded qwen35-hybrid model that turns reuse, rewind and  *)
(* restore (rocml/src/qwen35/{cache,cache_mixed,forward}): the recurrent   *)
(* GDN state, the attention rows of the positions so far, and the two GPU  *)
(* rewind points.  Operators on records; SnapshotTurn gives them a state.  *)
(*                                                                         *)
(* Abstractions.  What a forward pass writes is a function of everything it*)
(* reads, so a GDN state or a row is identified with the tokens it is the  *)
(* result of, or is Garbage once anything it was computed from was not the *)
(* state of one token sequence.  All attention layers do the same thing to *)
(* their rows; one of them stands for all, and a failure half-way through  *)
(* the layers may leave it done or not done.  A row lives in the sink and  *)
(* bulk region, where its place is its position, or in the recent window.  *)
(* A dense plane is the case Sink >= MaxLen.  A chunk is appended token by *)
(* token; that its plan does the same is MixedLayout's business.           *)
(***************************************************************************)
EXTENDS Snapshots

CONSTANTS
  Sink,       \* --kv-sink
  Window,     \* --kv-window
  Garbage,    \* a state that is no token sequence's
  Invalid     \* a rewind point without a prefix

ASSUME ModelAssumption ==
  /\ Sink \in Nat /\ Window \in Nat \ {0}
  /\ Garbage \notin TokenSeqs \cup {<<>>} /\ Invalid \notin TokenSeqs \cup {<<>>}

Histories == TokenSeqs \cup {<<>>}
Contents  == Histories \cup {Garbage}
Positions == 0..(MaxLen - 1)
WinSlots  == 0..(Window - 1)

NewModel ==
  [pos |-> 0, base |-> Sink, gdn |-> <<>>,
   fixed |-> [i \in Positions |-> Garbage], win |-> [j \in WinSlots |-> Garbage]]

\* MixedLayout::region: where the row of a position is read.
Row(m, i) == IF i < m.base THEN m.fixed[i] ELSE m.win[i - m.base]

\* The model's state is the one token sequence q leaves behind.
Exact(m, q) ==
  /\ m.gdn = q /\ m.pos = Len(q)
  /\ \A i \in 0..(Len(q) - 1) : Row(m, i) = SubSeq(q, 1, i + 1)

Context(m) == IF m.gdn # Garbage /\ Exact(m, m.gdn) THEN m.gdn ELSE Garbage

-----------------------------------------------------------------------------
WindowFull(m) == m.pos - m.base >= Window

\* The eviction of the whole window to the bulk region, when it is full.
Evict(m) ==
  [m EXCEPT !.fixed = [i \in Positions |-> IF i - m.base \in WinSlots THEN m.win[i - m.base]
                                           ELSE m.fixed[i]],
            !.base  = @ + Window]

\* MixedAttnPlane::append at m.pos.
AppendRow(m, c) ==
  IF m.pos < Sink THEN [m EXCEPT !.fixed = [@ EXCEPT ![m.pos] = c]]
  ELSE LET e == IF WindowFull(m) THEN Evict(m) ELSE m
       IN  [e EXCEPT !.win = [@ EXCEPT ![m.pos - e.base] = c]]

Result(m, t) == IF Context(m) = Garbage THEN Garbage ELSE Append(Context(m), t)

Forward(m, t) ==
  [AppendRow(m, Result(m, t)) EXCEPT !.gdn = Result(m, t), !.pos = m.pos + 1]

(***************************************************************************)
(* A pass that returns an error.  The layers' cache has advanced or not,   *)
(* what it wrote at or past `pos` and in the block it was evicting may be  *)
(* wrong; `pos` has not moved.                                             *)
(***************************************************************************)
Scribbled(m) ==
  [m EXCEPT !.fixed = [i \in Positions |-> IF i < m.pos /\ i < m.base THEN m.fixed[i]
                                           ELSE Garbage],
            !.win   = [j \in WinSlots |-> Garbage]]

ForwardBroken(m, t) ==
  {[m EXCEPT !.gdn = Garbage],
   [Forward(m, t) EXCEPT !.gdn = Garbage, !.pos = m.pos],
   [Scribbled(m) EXCEPT !.gdn = Garbage, !.base = Forward(m, t).base]}

\* Model::reset, HybridCache::reset: the rows are left, the GDN state is zeroed.
ResetModel(m) == [m EXCEPT !.pos = 0, !.base = Sink, !.gdn = <<>>]

\* A GDN layer cannot be zeroed: `pos` is 0, no attention layer was reset.
ResetBroken(m) == [m EXCEPT !.pos = 0, !.gdn = Garbage]

(***************************************************************************)
(* restore_snapshot of what capture_snapshot took after prefix p: the sink,*)
(* the evicted rows and the window, with the window_base it was taken at.  *)
(***************************************************************************)
BasesAt(n) ==
  {b \in Sink..(Sink + MaxLen) :
     /\ (b - Sink) % Window = 0
     /\ IF n <= Sink THEN b = Sink ELSE b < n /\ n <= b + Window}

RestoreModel(m, p, base) ==
  [pos |-> Len(p), base |-> base, gdn |-> p,
   fixed |-> [i \in Positions |-> IF i < base /\ i < Len(p) THEN SubSeq(p, 1, i + 1)
                                  ELSE m.fixed[i]],
   win   |-> [j \in WinSlots |-> IF base + j < Len(p) THEN SubSeq(p, 1, base + j + 1)
                                 ELSE Garbage]]

\* restore_all fails between two layers: the rows may be written already.
RestoreBroken(m, p, base) ==
  {[m EXCEPT !.gdn = Garbage], [RestoreModel(m, p, base) EXCEPT !.gdn = Garbage, !.pos = m.pos]}

-----------------------------------------------------------------------------
\* The rewind points: rewind.rs.
RewindSlots == {"StableBoundary", "EndOfTurn"}
NoPoint     == [prefix |-> Invalid, gdn |-> Garbage, base |-> Sink,
                win |-> [j \in WinSlots |-> Garbage]]
NoPoints    == [s \in RewindSlots |-> NoPoint]

\* save_rewind_point, which refuses a prefix of another length than the
\* position, and the same with a copy that fails.
SavePoint(r, s, m, ids) ==
  IF Len(ids) = m.pos
    THEN [r EXCEPT ![s] = [prefix |-> ids, gdn |-> m.gdn, base |-> m.base, win |-> m.win]]
    ELSE r
SavePointBroken(r, s) == [r EXCEPT ![s] = NoPoint]

InvalidateAll(r) == [s \in RewindSlots |-> [r[s] EXCEPT !.prefix = Invalid]]

Valid(r, s) == r[s].prefix # Invalid

\* Mutants of InvalidateAbove: nothing is invalidated; the point at n is too.
InvalidateNone(r, n) == r
InvalidateFrom(r, n) ==
  [s \in RewindSlots |-> IF Valid(r, s) /\ Len(r[s].prefix) >= n
                         THEN [r[s] EXCEPT !.prefix = Invalid] ELSE r[s]]

InvalidateAbove(r, n) ==
  [s \in RewindSlots |-> IF Valid(r, s) /\ Len(r[s].prefix) > n
                         THEN [r[s] EXCEPT !.prefix = Invalid] ELSE r[s]]

IsStrictPrefixOf(p, ids) == Len(p) < Len(ids) /\ p = SubSeq(ids, 1, Len(p))

Matching(r, ids) == {s \in RewindSlots : Valid(r, s) /\ IsStrictPrefixOf(r[s].prefix, ids)}

\* matching_slot: the longest; max_by_key returns the later one of two equals.
MatchingSlot(r, ids) ==
  CHOOSE s \in Matching(r, ids) :
    \A o \in Matching(r, ids) :
      \/ Len(r[o].prefix) < Len(r[s].prefix)
      \/ Len(r[o].prefix) = Len(r[s].prefix) /\ (s = "EndOfTurn" \/ o = s)

\* Mutants of RewindModel: the recent window, or its base, is not set back.
RewindModelKeepingBase(m, point) ==
  [m EXCEPT !.pos = Len(point.prefix), !.gdn = point.gdn, !.win = point.win]
RewindModelKeepingWindow(m, point) ==
  [m EXCEPT !.pos = Len(point.prefix), !.gdn = point.gdn, !.base = point.base]

\* HybridCache::restore_rewind: the GDN state, the window, its base; no row else.
RewindModel(m, point) ==
  [m EXCEPT !.pos = Len(point.prefix), !.gdn = point.gdn,
            !.win = point.win, !.base = point.base]

RewindBroken(m, point) ==
  {[m EXCEPT !.gdn = Garbage],
   [RewindModel(m, point) EXCEPT !.gdn = Garbage, !.pos = m.pos]}
=============================================================================
