------------------------------ MODULE ModelLoad ------------------------------
(***************************************************************************)
(* Fitting a model into the memory of the card: clamp_ctx (registry),      *)
(* estimate_from_gguf and Budget (budget), Model::load of both families    *)
(* with every buffer it allocates, and the rewind points allocated after   *)
(* it.  The context is cut to an estimate made before anything is          *)
(* uploaded; the check that decides comes after the weights and before the *)
(* cache, the scratch, the expert cache and the rewind points.             *)
(*                                                                         *)
(* Sizes are KiB, each buffer rounded up; what a token or an element costs *)
(* is bytes.                                                               *)
(***************************************************************************)
EXTENDS ModelConfig

CONSTANTS
  Files,       \* checkpoints: header, size on disk, what its weights take
  OptionSets,  \* LoadOptions: ctx, mode, sink, window, slots
  Cards,       \* free KiB before the load
  Modules,     \* KiB the compiled kernels of a model take
  Headroom,    \* ACTIVATION_HEADROOM_BYTES
  Staging,     \* MOE_STAGING_HEADROOM_BYTES
  Margin,      \* EXPERT_CACHE_SAFETY_MARGIN_BYTES
  MaxCtx       \* usize::MAX

ASSUME LoadAssumption ==
  /\ \A f \in Files :
       /\ f.disk \in Nat /\ f.nonExpert \in Nat /\ f.weights \subseteq Nat
       /\ f.gate \in Nat /\ f.up \in Nat /\ f.down \in Nat
       /\ \A k \in DOMAIN f.header \ {"arch", "ssm_a"} : f.header[k] \in Nat
  /\ OptionSets \subseteq
       [ctx : Nat, mode : {"fp16", "f32", "q8", "q4-mixed"}, sink : Nat, window : Nat \ {0}, slots : Nat]
  /\ Cards \subseteq Nat /\ {Modules, Headroom, Staging, Margin, MaxCtx} \subseteq Nat

VARIABLES
  phase,      \* how far the load is
  file,       \* the checkpoint, with what its weights will take
  opts,       \* its options; ctx is the context still asked for
  card,       \* KiB free when nothing of ours is loaded
  free,       \* KiB free now
  suggested,  \* the context a refusal names
  retried,    \* the load was started again with that context
  rewinds     \* rewind points that have storage

vars == <<phase, file, opts, card, free, suggested, retried, rewinds>>

CeilDiv(a, b) == (a + b - 1) \div b
Larger(a, b) == IF a > b THEN a ELSE b
Smaller(a, b) == IF a < b THEN a ELSE b
Saturating(a, b) == Larger(0, a - b)

Kib(bytes) == CeilDiv(bytes, 1024)
\* n times some bytes: neither factor is multiplied out before it is in KiB.
KibOf(n, bytes) == bytes * (n \div 1024) + Kib(bytes * (n % 1024))

-----------------------------------------------------------------------------
\* The sizes the estimate, the check and the allocations start from.
Config == from_gguf(file.header)
IsMoe(c) == c.arch = "qwen35moe"
IsHybrid(c) == c.arch \in {"qwen35", "qwen35moe"}
Quantized(o) == o.mode \in {"q8", "q4-mixed"}
DenseBytes(o) == IF o.mode = "f32" THEN 4 ELSE 2

LayersOf(c, kind) == Cardinality({i \in DOMAIN c.kinds : c.kinds[i] = kind})
AttnLayers(c) == IF IsHybrid(c) THEN LayersOf(c, "attn") ELSE c.shape.blocks
GdnLayers(c) == IF IsHybrid(c) THEN LayersOf(c, "gdn") ELSE 0

\* The first and the last attention layer stay dense in every mode.
BoundaryLayers(c) == Smaller(AttnLayers(c), 2)
MixedLayers(c, o) == IF Quantized(o) THEN AttnLayers(c) - BoundaryLayers(c) ELSE 0

KvRow(c) == c.shape.kvHeads * c.shape.headDim

kv_bytes_per_token(layers, c, bytes) == 2 * layers * KvRow(c) * bytes

VCode(c, o) == IF o.mode = "q4-mixed" THEN CeilDiv(c.shape.headDim, 2) ELSE c.shape.headDim

mixed_kv_bytes_per_token(boundary, mixed, c, o) ==
  kv_bytes_per_token(boundary, c, 2)
    + mixed * c.shape.kvHeads
        * (c.shape.headDim + CeilDiv(4 * c.shape.headDim, o.window) + VCode(c, o) + 4)
SinkAndWindow(mixed, c, o) == mixed * KibOf(o.sink + o.window, 4 * KvRow(c))

GdnState(c) == 4 * (c.gdn.convDim * Saturating(c.gdn.conv, 1) + c.gdn.vHeads * c.gdn.headK * c.gdn.headV)
GdnStates(c) == IF IsHybrid(c) THEN GdnLayers(c) * Kib(GdnState(c)) ELSE 0
RewindSlots == 2
RewindPoint(c, o) ==
  GdnStates(c) + (IF IsHybrid(c) THEN MixedLayers(c, o) * KibOf(o.window, 4 * KvRow(c)) ELSE 0)
rewind_points_bytes(c, o) == RewindSlots * RewindPoint(c, o)

\* The mixed formula undercounts dense fp16: it is for the quantized modes only.
PerTokenMixed(c, o) == mixed_kv_bytes_per_token(BoundaryLayers(c), AttnLayers(c) - BoundaryLayers(c), c, o)
PerToken(c, o) ==
  IF Quantized(o)
  THEN mixed_kv_bytes_per_token(BoundaryLayers(c), MixedLayers(c, o), c, o)
  ELSE kv_bytes_per_token(AttnLayers(c), c, DenseBytes(o))
FixedOverhead(c, o) == SinkAndWindow(MixedLayers(c, o), c, o) + rewind_points_bytes(c, o)

-----------------------------------------------------------------------------
\* Budget: what is free without the weights, what a token costs, what is fixed.
Budget(kib, perToken, fixed) == [free |-> kib, perToken |-> perToken, fixed |-> fixed]

UsableAll(b) == b.free
usable(b) == Saturating(b.free, Headroom)
max_ctx(b) ==
  LET left == Saturating(usable(b), b.fixed)
  IN  IF b.perToken = 0 THEN MaxCtx
      ELSE (left \div b.perToken) * 1024 + ((left % b.perToken) * 1024) \div b.perToken
kv_kib(b, ctx) == KibOf(ctx, b.perToken) + b.fixed
fits(b, ctx) == kv_kib(b, ctx) + Headroom <= b.free

\* Routed experts stay on the host: only the other tensors are uploaded.
EstimatedWeights == IF IsMoe(Config) THEN file.nonExpert ELSE file.disk
EstimateNoRewind ==
  Budget(Saturating(free, EstimatedWeights), PerToken(Config, opts),
         SinkAndWindow(MixedLayers(Config, opts), Config, opts)
           + (IF IsMoe(Config) THEN Staging ELSE 0))
estimate_from_gguf ==
  Budget(Saturating(free, EstimatedWeights), PerToken(Config, opts),
         FixedOverhead(Config, opts) + (IF IsMoe(Config) THEN Staging ELSE 0))

clamp_ctx == Smaller(opts.ctx, Larger(1, Smaller(max_ctx(estimate_from_gguf), Config.shape.context)))

LoadedCtx == Larger(1, Smaller(opts.ctx, Config.shape.context))
LoadedBudget == Budget(free, PerToken(Config, opts), FixedOverhead(Config, opts))

HIP_GRID_YZ_MAX == 65535
validate_sink_window ==
  /\ opts.sink > 0 /\ opts.window \in 1..HIP_GRID_YZ_MAX
  /\ opts.sink + opts.window < LoadedCtx

-----------------------------------------------------------------------------
\* What the load allocates.
ChunkCap == 512
RecurTile == 128

\* A dense plane, or the eight buffers of a mixed one, for every attention layer.
DensePlane(c, o, ctx) == 2 * KibOf(ctx, KvRow(c) * DenseBytes(o))
Blocks(o, ctx) == Larger(1, CeilDiv(ctx - o.sink, o.window))
VBytes(c, o) == IF o.mode = "q4-mixed" THEN c.shape.headDim \div 2 ELSE c.shape.headDim
MixedPlane(c, o, ctx) ==
  LET blocks == Blocks(o, ctx)
      cap == blocks * o.window
  IN  2 * KibOf(o.sink, 2 * KvRow(c)) + 2 * KibOf(o.window, 2 * KvRow(c))
        + KibOf(cap, KvRow(c)) + KibOf(blocks, 4 * KvRow(c))
        + KibOf(cap, c.shape.kvHeads * VBytes(c, o)) + KibOf(cap, 4 * c.shape.kvHeads)
Cache(c, o, ctx) ==
  (AttnLayers(c) - MixedLayers(c, o)) * DensePlane(c, o, ctx)
    + MixedLayers(c, o) * MixedPlane(c, o, ctx)
    + GdnStates(c)

\* Buffers of one row (rows = 1) or of a chunk; splits partial results a head.
Rows(c, rows, splits) ==
  LET s == c.shape
  IN  KibOf(rows, 4 * (4 * s.hidden + 2 * q_dim(s) + 2 * kv_dim(s) + 2 * s.ffn))
        + Kib(4 * s.vocab)
        + KibOf(rows * splits, 4 * s.heads * (s.headDim + 2))
HybridRows(c, rows) ==
  LET g == c.gdn
  IN  KibOf(rows, 4 * (2 * g.convDim + 2 * g.valueDim + 4 * g.vHeads + c.shape.hidden))
        + KibOf(rows, 4 * 3 * q_dim(c.shape))
GdnTiles(c) ==
  KibOf(RecurTile * c.gdn.vHeads, 4 * (3 * c.gdn.headK + c.gdn.headV + 3 + 2 * RecurTile))
Products(c) ==
  LET wide == Larger(c.shape.hidden, c.shape.ffn)
  IN  KibOf(ChunkCap, wide + 8 * CeilDiv(wide, 32)) + 4 * KibOf(ChunkCap, 4 * c.shape.hidden)

Scratch(c) == Rows(c, 1, 32) + (IF IsHybrid(c) THEN HybridRows(c, 1) ELSE 0)
ChunkScratch(c) ==
  Rows(c, ChunkCap, 4) + Products(c)
    + (IF IsHybrid(c) THEN HybridRows(c, ChunkCap) + GdnTiles(c) ELSE 0)

\* What a load takes after the check that the budget does not count: the states
\* of the GDN layers, the last window of every mixed plane (its bulk is whole
\* windows), the KiB every buffer is rounded up to, the kernels and the scratch.
BulkRow(c, o) ==
  c.shape.kvHeads * (c.shape.headDim + CeilDiv(4 * c.shape.headDim, o.window) + VCode(c, o) + 4)
Uncounted(c, o) ==
  GdnStates(c)
    + MixedLayers(c, o) * (KibOf(o.window, BulkRow(c, o)) + 8)
    + 2 * (AttnLayers(c) - MixedLayers(c, o))
    + Modules + Scratch(c) + ChunkScratch(c)

\* "768 MiB sits comfortably above every measured Scratch/ChunkScratch footprint
\* on the largest model this registry serves", and the margin of the expert cache
\* is above the rewind points, which are allocated when it has taken the rest.
HeadroomIsAmple(c, o) ==
  /\ Uncounted(c, o) <= Headroom
  /\ IsMoe(c) => rewind_points_bytes(c, o) <= Margin
ASSUME HeadroomAssumption ==
  \A f \in Files, o \in OptionSets :
    from_gguf(f.header) # Unloadable => HeadroomIsAmple(from_gguf(f.header), o)

\* The three staging buffers hold the largest tensor of any expert.
MoeScratch(c) ==
  LET ff == Larger(c.moe["expert_ff_len"], c.moe["shared_ff_len"])
  IN  3 * Larger(file.gate, Larger(file.up, file.down))
        + Kib(4 * (4 * c.shape.hidden + c.moe["expert_count"]
                     + 2 * c.moe["expert_used_count"] + 2 * ff + 1))
MoeChunkScratch(c) ==
  KibOf(ChunkCap, 4 * (4 * c.shape.hidden + c.moe["expert_count"] + 2 * c.moe["expert_used_count"]
                         + 2 * c.moe["shared_ff_len"] + 2 * c.moe["expert_ff_len"] + 3))

\* Allocated with the weights, before the budget is checked.
Uploaded == file.taken + (IF IsMoe(Config) THEN MoeScratch(Config) + MoeChunkScratch(Config) ELSE 0)

SlotKib == file.gate + file.up + file.down
ExpertSlots ==
  LET total == Config.shape.blocks * Config.moe["expert_count"]
  IN  IF SlotKib = 0 \/ total = 0 THEN 0
      ELSE Smaller(opts.slots, Smaller(Saturating(free, Margin) \div SlotKib, total))

-----------------------------------------------------------------------------
Fill(f, taken) ==
  [header |-> f.header, disk |-> f.disk, nonExpert |-> f.nonExpert, taken |-> taken,
   gate |-> f.gate, up |-> f.up, down |-> f.down]

Init ==
  /\ phase = "opened" /\ retried = FALSE /\ suggested = 0 /\ rewinds = 0
  /\ file \in UNION {{Fill(f, w) : w \in f.weights} : f \in Files}
  /\ opts \in OptionSets
  /\ card \in Cards /\ free = card

\* An allocation that leaves nothing out, or an error.
Allocate(kib, next, failure) ==
  IF kib <= free THEN phase' = next /\ free' = free - kib
  ELSE phase' = failure /\ free' = free

Clamp ==
  /\ phase = "opened"
  /\ IF Config = Unloadable THEN phase' = "unloadable" /\ opts' = opts
     ELSE phase' = "clamped" /\ opts' = [opts EXCEPT !.ctx = clamp_ctx]
  /\ UNCHANGED <<file, card, free, suggested, retried, rewinds>>

Upload ==
  /\ phase = "clamped"
  /\ Allocate(Uploaded, "uploaded", "unloadable")
  /\ UNCHANGED <<file, opts, card, suggested, retried, rewinds>>

Check ==
  /\ phase = "uploaded"
  /\ IF Quantized(opts) /\ ~validate_sink_window THEN phase' = "invalid" /\ suggested' = suggested
     ELSE IF fits(LoadedBudget, LoadedCtx) THEN phase' = "checked" /\ suggested' = suggested
     ELSE phase' = "refused" /\ suggested' = max_ctx(LoadedBudget)
  /\ UNCHANGED <<file, opts, card, free, retried, rewinds>>

AllocCache ==
  /\ phase = "checked"
  /\ Allocate(Cache(Config, opts, LoadedCtx), "cached", "oom")
  /\ UNCHANGED <<file, opts, card, suggested, retried, rewinds>>

AllocScratch ==
  /\ phase = "cached"
  /\ Allocate(Modules + Scratch(Config) + ChunkScratch(Config),
              IF IsMoe(Config) THEN "scratch" ELSE "ready", "oom")
  /\ UNCHANGED <<file, opts, card, suggested, retried, rewinds>>

SizeExpertCache ==
  /\ phase = "scratch"
  /\ Allocate(ExpertSlots * SlotKib, "ready", "oom")
  /\ UNCHANGED <<file, opts, card, suggested, retried, rewinds>>

\* The first save of a slot allocates its storage; later saves reuse it.
SaveRewind ==
  /\ phase = "ready" /\ IsHybrid(Config) /\ rewinds < RewindSlots
  /\ Allocate(RewindPoint(Config, opts), "ready", "oom")
  /\ rewinds' = rewinds + (IF phase' = "ready" THEN 1 ELSE 0)
  /\ UNCHANGED <<file, opts, card, suggested, retried>>

\* The refusal tells the user to try the context it names.
Retry ==
  /\ phase = "refused" /\ ~retried
  /\ phase' = "opened" /\ retried' = TRUE
  /\ opts' = [opts EXCEPT !.ctx = suggested] /\ free' = card
  /\ UNCHANGED <<file, card, suggested, rewinds>>

Next ==
  \/ Clamp \/ Upload \/ Check \/ AllocCache \/ AllocScratch \/ SizeExpertCache
  \/ SaveRewind \/ Retry

Spec == Init /\ [][Next]_vars

-----------------------------------------------------------------------------
\* A load the budget check let through never runs out of memory afterwards:
\* not for the cache, whose bulk is rounded up to whole windows, not for the
\* scratch or the GDN states the budget does not count, and not for a rewind
\* point saved turns later, after the expert cache took what was left.
CheckedLoadSucceeds == phase # "oom"

\* "try --ctx N or smaller" keeps its word: started again with the context
\* the refusal named, the load is not refused again.  Out of it: a model no
\* layer of which grows with the context, where the named one is no limit.
SuggestionLoads ==
  retried /\ phase = "refused" => suggested = 0 \/ PerToken(Config, opts) = 0

\* The estimate counts all that the check counts: a context clamp_ctx cut is
\* refused only where the weights took more than the estimate, or not one
\* token fitted.
ClampedCtxLoads ==
  phase = "refused" /\ ~retried =>
    \/ Uploaded > EstimatedWeights + (IF IsMoe(Config) THEN Staging ELSE 0)
    \/ LoadedCtx = 1 \/ PerToken(Config, opts) = 0
=============================================================================
