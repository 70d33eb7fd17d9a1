---------------------------- MODULE KernelDispatch ----------------------------
(***************************************************************************)
(* Which kernels an operation of a forward pass launches, on what grids    *)
(* and over how much scratch: weights/linear.rs, forward/kernels_quant.rs, *)
(* kernels_quant_dispatch.rs, kernels_splitk.rs, kernels_mmq.rs and the    *)
(* callers of the launchers.  A model file is loaded, then its operations  *)
(* run at any row count and depth.                                         *)
(***************************************************************************)
EXTENDS Launchers, ModelConfig, SequencesExt

CONSTANTS
  Files,        \* pairs of a model file's header and LoadOptions::use_mmq
  DTypes,       \* the formats a tensor of a file may have
  RowCounts,    \* rows of a chunk, at most ChunkCap
  Windows,      \* LoadOptions::kv_window
  Depths,       \* positions already in the cache
  ChunkCap,     \* CHUNK_CAP
  RecurTile,    \* GDN_RECUR_TILE
  FlashMinDepth \* USE_FLASH_PREFILL_MIN_DEPTH

VARIABLES
  c,     \* the loaded model's configuration
  mmq,   \* mmq_enabled
  plan   \* what the last operation did

vars == <<c, mmq, plan>>

ASSUME DispatchAssumption ==
  /\ ChunkCap \in Nat \ {0} /\ RecurTile \in Nat \ {0} /\ RowCounts \subseteq 1..ChunkCap
  /\ Depths \subseteq Nat
  /\ \A f \in Files : \A k \in DOMAIN f[1] \ {"arch", "ssm_a"} : f[1][k] \in Nat

ASSUME DeviceAssumption ==
  /\ MaxThreads \in Nat /\ MaxThreads >= 1024 /\ MaxShared \in Nat /\ MaxShared >= 65536
  /\ MaxGridYZ \in Nat /\ MaxThreads <= MaxGridYZ
  /\ ChunkCap <= MaxGridYZ /\ RecurTile <= LdsFree

S == c.shape

-----------------------------------------------------------------------------
\* LinearWeight::load: a quantized tensor keeps its blocks if they divide the
\* reduction width, and any other becomes f16.
quant_block_elems(dtype) ==
  CASE dtype = "Q8_0" -> 32 [] dtype \in {"Q4_K", "Q5_K", "Q6_K"} -> 256 [] OTHER -> 0

Loaded(dtype, n) ==
  IF quant_block_elems(dtype) # 0 /\ n % quant_block_elems(dtype) = 0 THEN dtype ELSE "F16"

mmq_eligible_by_name(name) == name \notin {"ssm_out", "ffn_down"}

\* What an operation did: its launches, the scratch it touched, the width it
\* was to reduce over and the width its kernels do.
Plan(op, launches, uses, n, reduced) ==
  [op |-> op, launches |-> launches, uses |-> uses, n |-> n, reduced |-> reduced]
NoUses == [b \in {} |-> 0]
NoPlan == Plan("none", <<>>, NoUses, 0, 0)

gemv(m) == gemv_quant(m)
Matvec(dtype, n, m) == IF Loaded(dtype, n) = "F16" THEN gemv_f16(m) ELSE gemv(m)

-----------------------------------------------------------------------------
\* QuantKernels::gemm.
TileRows == 128
KStage == 16
NarrowTileM == 64
NarrowThresholdM == 2048
WideTileM == 128

StageBytes(rows, m) == 2 * (rows + m) * (KStage + 8) * 2

\* A plausible error: only the split, not its stages, must divide the width.
SplitsUnstaged(m, n, rows, maxM) ==
  IF m > maxM \/ n < 256 \/ CeilDiv(m, WideTileM) * CeilDiv(rows, TileRows) >= 240 THEN 1
  ELSE IF n % 4 = 0 THEN 4
  ELSE IF n % 2 = 0 THEN 2 ELSE 1
splitk_num_splits(m, n, rows, maxM) ==
  IF m > maxM \/ n < 256 \/ CeilDiv(m, WideTileM) * CeilDiv(rows, TileRows) >= 240 THEN 1
  ELSE IF n % (4 * KStage) = 0 THEN 4
  ELSE IF n % (2 * KStage) = 0 THEN 2 ELSE 1

WmmaEligible(rows, m, n) == rows >= TileRows /\ m >= NarrowTileM /\ m % 16 = 0 /\ n % 16 = 0
MicroEligible(rows, m, n) == rows >= 1 /\ m >= 64 /\ m >= n /\ m % 16 = 0 /\ n % 16 = 0

gemm_scalar(rows, m, n) ==
  Plan("scalar",
       <<Launch(<<m, CeilDiv(rows, 64), 1>>, <<32, 8, 1>>, 256 * F32,
                <<<<m, 1>>, <<rows, 64>>, OneBlock>>)>>, NoUses, n, n)

gemm_wmma_cfg(tileM, rows, m, n) ==
  Plan("wmma",
       <<Launch(<<CeilDiv(m, tileM), CeilDiv(rows, TileRows), 1>>, <<32, 16, 1>>,
                StageBytes(TileRows, tileM), <<<<m, tileM>>, <<rows, TileRows>>, OneBlock>>)>>,
       NoUses, n, (n \div KStage) * KStage)

gemm_wmma_micro_cfg(rows, m, n) ==
  Plan("micro",
       <<Launch(<<CeilDiv(m, 64), CeilDiv(rows, 16), 1>>, <<32, 4, 1>>, StageBytes(16, 64),
                <<<<m, 64>>, <<rows, 16>>, OneBlock>>)>>,
       NoUses, n, (n \div KStage) * KStage)

\* Every split reduces a share of the width into a partial result of its own.
splitk_gemm(rows, m, n, splits) ==
  Plan("splitk",
       << Launch(<<CeilDiv(m, WideTileM), CeilDiv(rows, TileRows), splits>>, <<32, 16, 1>>,
                 StageBytes(TileRows, WideTileM),
                 <<<<m, WideTileM>>, <<rows, TileRows>>, <<splits, 1>>>>),
          Elementwise(rows * m) >>,
       [b \in {"splitk_partial"} |-> splits * rows * m],
       n, splits * (((n \div splits) \div KStage) * KStage))

mmq_supports(dtype) == dtype \in {"Q8_0", "Q4_K", "Q5_K", "Q6_K"}
MmqShared(dtype) ==
  LET tiles == 128 * 32 + 64 * 32
  IN  CASE dtype = "Q8_0" -> tiles + 128 * F32 + 64 * F32
        [] dtype \in {"Q4_K", "Q5_K"} -> tiles + 128 * F32 * 2 + 64 * F32 * 2
        [] dtype = "Q6_K" -> tiles + 128 * F32 + 64 * F32 * 2
mmq_gemm(dtype, rows, m, n) ==
  LET blocks == rows * (n \div 32)
  IN  Plan("mmq",
           << Launch(<<CeilDiv(blocks, 8), 1, 1>>, <<32, 8, 1>>, 0, <<<<blocks, 8>>, OneBlock, OneBlock>>),
              Launch(<<CeilDiv(m, 64), CeilDiv(rows, 128), 1>>, <<32, 16, 1>>, MmqShared(dtype),
                     <<<<m, 64>>, <<rows, 128>>, OneBlock>>) >>,
           [b \in {"mmq_x_codes", "mmq_x_scale"} |-> IF b = "mmq_x_codes" THEN rows * n ELSE blocks],
           n, (n \div 32) * 32)

gemm(dtype, rows, m, n, eligible, allowMicro) ==
  LET wmma == WmmaEligible(rows, m, n)
      splits == IF wmma THEN splitk_num_splits(m, n, rows, S.hidden) ELSE 1
  IN  IF wmma /\ mmq /\ eligible /\ mmq_supports(dtype) THEN mmq_gemm(dtype, rows, m, n)
      ELSE IF wmma /\ splits > 1 THEN splitk_gemm(rows, m, n, splits)
      ELSE IF wmma THEN gemm_wmma_cfg(IF m < NarrowThresholdM THEN NarrowTileM ELSE WideTileM, rows, m, n)
      ELSE IF allowMicro /\ MicroEligible(rows, m, n) THEN gemm_wmma_micro_cfg(rows, m, n)
      ELSE gemm_scalar(rows, m, n)

Matmul(w, dtype, rows) ==
  IF Loaded(dtype, w.n) = "F16"
  THEN Plan("f16", <<gemm_xwt_f16(rows, w.m)>>, NoUses, w.n, w.n)
  ELSE gemm(dtype, rows, w.m, w.n, mmq_eligible_by_name(w.name), FALSE)

-----------------------------------------------------------------------------
\* The weights of the layers: output rows m, reduction width n.
W(name, m, n) == [name |-> name, m |-> m, n |-> n]

AttentionWeights(qRows) ==
  {W("attn_q", qRows, S.hidden), W("attn_k", kv_dim(S), S.hidden), W("attn_v", kv_dim(S), S.hidden),
   W("attn_output", S.hidden, q_dim(S))}
FfnWeights(names, ffn) ==
  {W(names[1], ffn, S.hidden), W(names[2], ffn, S.hidden), W(names[3], S.hidden, ffn)}
DenseFfn == FfnWeights(<<"ffn_gate", "ffn_up", "ffn_down">>, S.ffn)
SharedExpert == FfnWeights(<<"ffn_gate_shexp", "ffn_up_shexp", "ffn_down_shexp">>, c.moe["shared_ff_len"])
GdnWeights ==
  {W("attn_qkv", c.gdn.convDim, S.hidden), W("attn_gate", c.gdn.valueDim, S.hidden),
   W("ssm_beta", c.gdn.vHeads, S.hidden), W("ssm_alpha", c.gdn.vHeads, S.hidden),
   W("ssm_out", S.hidden, c.gdn.valueDim)}

Weights ==
  CASE c.arch = "qwen3" -> AttentionWeights(q_dim(S)) \union DenseFfn
    [] c.arch = "qwen35" ->
         AttentionWeights(q_dim(S)) \union AttentionWeights(2 * q_dim(S)) \union GdnWeights \union DenseFfn
    [] c.arch = "qwen35moe" ->
         AttentionWeights(q_dim(S)) \union AttentionWeights(2 * q_dim(S)) \union GdnWeights
         \union SharedExpert

\* The experts' weights stay quantized, and their group of rows may be small.
ExpertWeights == FfnWeights(<<"ffn_gate_exps", "ffn_up_exps", "ffn_down_exps">>, c.moe["expert_ff_len"])

\* Scratch and ChunkScratch: what the buffers of split results hold.
MmqDim == Larger(S.hidden, S.ffn)
Capacity ==
  [attn_partial |-> S.heads * DecodeMaxSplits * S.headDim,
   flash_partial |-> ChunkCap * S.heads * FlashMaxSplits * S.headDim,
   splitk_partial |-> 4 * ChunkCap * S.hidden,
   mmq_x_codes |-> ChunkCap * MmqDim,
   mmq_x_scale |-> ChunkCap * CeilDiv(MmqDim, 32),
   tile |-> RecurTile * RecurTile]

-----------------------------------------------------------------------------
Loads(g) == from_gguf(g) # Unloadable

Load(g, m) ==
  /\ c = Unloadable /\ Loads(g)
  /\ c' = from_gguf(g) /\ mmq' = m /\ plan' = NoPlan

matvec(w, dtype) ==
  /\ c # Unloadable /\ w \in Weights
  /\ plan' = Plan("matvec", <<Matvec(dtype, w.n, w.m)>>, NoUses, w.n, w.n)
  /\ UNCHANGED <<c, mmq>>

matmul(w, dtype, rows) ==
  /\ c # Unloadable /\ w \in Weights
  /\ plan' = Matmul(w, dtype, rows)
  /\ UNCHANGED <<c, mmq>>

\* A group of rows of one expert: gather, three products, scatter.
ExpertGroup(w, dtype, rows) ==
  /\ c # Unloadable /\ c.arch = "qwen35moe" /\ w \in ExpertWeights
  /\ Loaded(dtype, w.n) # "F16"
  /\ LET p == gemm(dtype, rows, w.m, w.n, FALSE, TRUE)
     IN  plan' = [p EXCEPT !.launches =
                    <<gather_rows(rows, S.hidden)>> \o @ \o
                    <<silu_mul(rows * c.moe["expert_ff_len"]), scatter_weighted_accum(rows, S.hidden)>>]
  /\ UNCHANGED <<c, mmq>>

\* The kernels of a plane: f32, f16 or quantized.
Planes == {"f32", "f16", "mixed"}
DecodeKernels(plane, len) ==
  CASE plane = "f32" -> attn_decode(S.heads, S.kvHeads, S.headDim, len)
    [] plane = "f16" -> attn_decode_f16(S.heads, S.kvHeads, S.headDim, len)
    [] plane = "mixed" -> attn_decode_mixed(S.heads, S.kvHeads, S.headDim, len)
FlashKernels(plane, rows, depth) ==
  CASE plane = "f32" -> attn_prefill_flash(S.heads, S.kvHeads, S.headDim, rows, depth)
    [] plane = "f16" -> attn_prefill_flash_f16(S.heads, S.kvHeads, S.headDim, rows, depth)
    [] plane = "mixed" -> attn_prefill_flash_mixed(S.heads, S.kvHeads, S.headDim, rows, depth)
PrefillKernel(plane, rows) ==
  IF plane = "f32" THEN attn_prefill(S.heads, S.kvHeads, S.headDim, rows)
  ELSE attn_prefill_f16(S.heads, S.kvHeads, S.headDim, rows)
ScatterKernel(plane, rows) ==
  IF plane = "f32" THEN scatter_kv_chunk(rows, S.kvHeads, S.headDim)
  ELSE scatter_kv_chunk_f16(rows, S.kvHeads, S.headDim)
Rotate(rows) ==
  IF c.arch = "qwen3" THEN rope(rows, S.heads, S.headDim) ELSE rope_partial(rows, S.heads, c.ropeDim)

DecodeAttention(depth, plane) ==
  /\ c # Unloadable
  /\ LET splits == attn_decode_splits(S.kvHeads, depth + 1)
     IN  plan' = Plan("decode", <<rmsnorm(S.heads), Rotate(1)>> \o DecodeKernels(plane, depth + 1),
                      [b \in {"attn_partial"} |-> S.heads * splits[1] * S.headDim],
                      depth + 1, depth + 1)
  /\ UNCHANGED <<c, mmq>>

\* Shallow prompts over an unquantized plane do without the flash kernels, which
\* refuse a group too wide for their narrow tile before any launch.
ChunkAttention(depth, rows, plane) ==
  /\ c # Unloadable
  /\ LET flash == plane = "mixed" \/ depth + rows >= FlashMinDepth
         br == attn_prefill_flash_br(S.heads \div S.kvHeads)
         splits == attn_prefill_flash_splits(S.kvHeads, rows, depth + rows, br)
     IN  plan' = IF flash /\ br = 0
                 THEN Plan("refused", <<>>, NoUses, 0, 0)
                 ELSE Plan("prefill",
                           <<rmsnorm(rows * S.heads), Rotate(rows), ScatterKernel(plane, rows)>>
                           \o (IF flash THEN FlashKernels(plane, rows, depth)
                               ELSE <<PrefillKernel(plane, rows)>>),
                           [b \in {"flash_partial"} |->
                              IF flash THEN rows * S.heads * splits[1] * S.headDim ELSE 0],
                           depth + rows, depth + rows)
  /\ UNCHANGED <<c, mmq>>

\* run_tile: the matrix-core kernels only for the shapes they were written for.
GdnTile(rows) ==
  LET h == c.gdn.vHeads
      sk == c.gdn.headK
      sv == c.gdn.headV
      by16 == sk % 16 = 0 /\ sv % 16 = 0
  IN  << prep_point(h, rows), prep_cumsum(h, rows),
         IF sk % 16 = 0 /\ sk <= LdsFree THEN ut_build_lds(h, rows) ELSE ut_build(h, rows),
         tinv(h, rows), uv_vnew(h, rows, sk, sv),
         IF by16 /\ sk <= LdsFree /\ sv <= LdsFree THEN output_lds(h, rows) ELSE output(h, rows, sv),
         IF by16 THEN state_update_wmma(h, sk, sv) ELSE state_update(h, sk, sv) >>

\* The tiles of a chunk one after the other, the last with the rows that are left.
TileOf(rows, k) == Smaller(RecurTile, rows - k * RecurTile)
GdnTiles(rows) ==
  [i \in 1..(7 * CeilDiv(rows, RecurTile)) |-> GdnTile(TileOf(rows, (i - 1) \div 7))[((i - 1) % 7) + 1]]

GdnChunk(rows) ==
  /\ c # Unloadable /\ c.arch # "qwen3"
  /\ plan' = Plan("gdn",
                  <<gdn_conv1d_chunk(c.gdn.convDim, rows), gdn_conv1d_chunk_state_update(c.gdn.convDim),
                    gdn_gate_chunk(c.gdn.vHeads, rows)>>
                  \o GdnTiles(rows),
                  [b \in {"tile"} |-> TileOf(rows, 0) * TileOf(rows, 0)], rows, rows)
  /\ UNCHANGED <<c, mmq>>

GdnToken ==
  /\ c # Unloadable /\ c.arch # "qwen3"
  /\ plan' = Plan("gdn_token",
                  <<gdn_conv1d_decode(c.gdn.convDim), gdn_gate(c.gdn.vHeads),
                    gdn_recurrence_decode(c.gdn.vHeads, c.gdn.headK, c.gdn.headV)>>, NoUses, 1, 1)
  /\ UNCHANGED <<c, mmq>>

\* The steps around the layers' products, and the feed-forward's activation.
Elementwises(rows) ==
  /\ c # Unloadable
  /\ plan' = Plan("rows",
                  <<embedding(rows), rmsnorm(rows), add_inplace(rows * S.hidden), silu_mul(rows * S.ffn),
                    gelu_mul(rows * S.ffn), cast_f32_f16(rows * kv_dim(S)),
                    extract_heads(rows, S.heads, S.headDim), sigmoid_mul(rows * q_dim(S))>>,
                  NoUses, rows, rows)
  /\ UNCHANGED <<c, mmq>>

\* The router and the shared expert's gate, of one token or of a chunk.
Route(rows) ==
  /\ c # Unloadable /\ c.arch = "qwen35moe"
  /\ plan' = Plan("route",
                  IF rows = 1
                  THEN <<gemv_f32(c.moe["expert_count"]), route_topk(1), shared_gate_write(S.hidden),
                         weighted_accum(S.hidden)>>
                  ELSE <<gemm_xwt_f32(rows, c.moe["expert_count"]), route_topk(rows),
                         shared_gate_write_chunk(rows, S.hidden)>>,
                  NoUses, rows, rows)
  /\ UNCHANGED <<c, mmq>>

\* quantize_evict: a window validate_sink_window let through.
Evict(window) ==
  /\ c # Unloadable /\ window \in 1..MaxGridYZ
  /\ plan' = Plan("evict",
                  <<quantize_evict_k(S.kvHeads, S.headDim), quantize_evict_v(S.kvHeads, window)>>,
                  NoUses, window, window)
  /\ UNCHANGED <<c, mmq>>

Init == c = Unloadable /\ mmq = FALSE /\ plan = NoPlan

Next ==
  \/ \E f \in Files : Load(f[1], f[2])
  \/ c # Unloadable /\ \E w \in Weights, d \in DTypes : matvec(w, d)
  \/ c # Unloadable /\ \E w \in Weights, d \in DTypes, rows \in RowCounts : matmul(w, d, rows)
  \/ /\ c # Unloadable /\ c.arch = "qwen35moe"
     /\ \E w \in ExpertWeights, d \in DTypes, rows \in RowCounts : ExpertGroup(w, d, rows)
  \/ \E depth \in Depths, plane \in Planes : DecodeAttention(depth, plane)
  \/ \E depth \in Depths, rows \in RowCounts, plane \in Planes : ChunkAttention(depth, rows, plane)
  \/ \E rows \in RowCounts : GdnChunk(rows)
  \/ GdnToken
  \/ \E rows \in RowCounts : Elementwises(rows) \/ Route(rows)
  \/ \E window \in Windows : Evict(window)

Spec == Init /\ [][Next]_vars

-----------------------------------------------------------------------------
(* Whatever the shape of the model, the row count and the depth, every     *)
(* launch an operation makes is one the device takes, its blocks cover all *)
(* the work and none of them is idle: no attention split is empty, no tile *)
(* of the recurrence outgrows a block's memory, and the flash kernels      *)
(* refuse a group of more than eight heads before they are launched (the   *)
(* kernel for shallow prompts leaves that to the driver).                  *)
LaunchesAreLegal ==
  (plan.op = "prefill" => S.heads \div S.kvHeads <= 8) =>
    \A i \in DOMAIN plan.launches : Accepted(plan.launches[i]) /\ Covers(plan.launches[i])

\* The shapes the kernels can run: what a block holds of a head, or has a thread
\* or a wave for, fits one block.  from_gguf checks none of it.
Launchable(cfg) ==
  /\ 32 * (cfg.shape.heads \div cfg.shape.kvHeads) <= MaxThreads
  /\ cfg.shape.headDim <= MaxThreads /\ 2 * FlashBc * cfg.shape.headDim * F32 <= MaxShared
  /\ cfg.shape.heads <= MaxGridYZ
  /\ cfg.arch # "qwen3" =>
       /\ cfg.gdn.headK \in 1..MaxThreads /\ cfg.gdn.headV <= MaxThreads
       /\ 2 * (cfg.gdn.headK + cfg.gdn.headV) * F32 <= MaxShared
ShapesAreLaunchable == \A f \in Files : Loads(f[1]) => Launchable(from_gguf(f[1]))

(* Whichever kernel the dispatch chooses, the product reduces over every   *)
(* column of the weight: no split, stage or block drops a remainder.       *)
WholeReduction == plan.reduced = plan.n

(* What an operation leaves in the shared scratch fits the buffer its      *)
(* constructor made, whatever the number of splits that was chosen.        *)
ScratchSuffices == \A b \in DOMAIN plan.uses : plan.uses[b] <= Capacity[b]

(* chunk_scratch.rs says the activation buffers of the MMQ kernels are     *)
(* sized for the largest reduction width of any chunked matmul.            *)
LargestReduction == plan.op = "mmq" => plan.n <= MmqDim

\* The condition chunk_scratch.rs:93 takes for granted, on the checkpoints: with
\* the MMQ kernels on, neither the heads' outputs together nor the shared expert
\* is wider than the wider of the hidden and the feed-forward width.
NoWiderReduction(cfg) ==
  /\ q_dim(cfg.shape) <= Larger(cfg.shape.hidden, cfg.shape.ffn)
  /\ cfg.arch = "qwen35moe" => cfg.moe["shared_ff_len"] <= Larger(cfg.shape.hidden, cfg.shape.ffn)
CheckpointsFit == \A f \in Files : f[2] /\ Loads(f[1]) => NoWiderReduction(from_gguf(f[1]))
=============================================================================
