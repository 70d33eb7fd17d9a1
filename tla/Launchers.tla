------------------------------ MODULE Launchers ------------------------------
(***************************************************************************)
(* The geometry of every kernel launch: forward/kernels*.rs and            *)
(* qwen35/forward/*kernels*.rs.  A launcher gets sizes the caller took      *)
(* from the model and makes a grid, a block and a request for shared       *)
(* memory; what a kernel does per block is in its .hip file, and here as   *)
(* the part of the work one block covers along each axis.                  *)
(***************************************************************************)
EXTENDS Integers, Sequences

CONSTANTS
  MaxThreads,   \* threads of a block the device takes: MAX_THREADS_PER_BLOCK
  MaxShared,    \* bytes of shared memory a block gets
  MaxGridYZ     \* HIP_GRID_YZ_MAX: blocks of a grid's second and third axis

CeilDiv(a, b) == (a + b - 1) \div b
Larger(a, b) == IF a > b THEN a ELSE b
Smaller(a, b) == IF a < b THEN a ELSE b
Clamp(v, low, high) == Larger(low, Smaller(v, high))
F32 == 4

\* work: for each axis of the grid, the extent and what one block covers.
Launch(grid, block, shared, work) ==
  [grid |-> grid, block |-> block, shared |-> shared, work |-> work]
OneBlock == <<1, 1>>

Threads(n) == n.block[1] * n.block[2] * n.block[3]

\* The device takes the launch, and its blocks cover the work with no block idle.
Accepted(n) ==
  /\ Threads(n) \in 1..MaxThreads /\ n.shared <= MaxShared
  /\ \A a \in 1..3 : n.grid[a] >= 1
  /\ n.grid[2] <= MaxGridYZ /\ n.grid[3] <= MaxGridYZ
Covers(n) ==
  \A a \in 1..3 :
    /\ n.grid[a] * n.work[a][2] >= n.work[a][1]
    /\ (n.grid[a] - 1) * n.work[a][2] < n.work[a][1]

-----------------------------------------------------------------------------
LinearBlock == 256
ReduceBlock == 128

Elementwise(total) ==
  Launch(<<CeilDiv(total, LinearBlock), 1, 1>>, <<LinearBlock, 1, 1>>, 0,
         <<<<total, LinearBlock>>, OneBlock, OneBlock>>)
PerRow(rows, shared) ==
  Launch(<<rows, 1, 1>>, <<ReduceBlock, 1, 1>>, shared, <<<<rows, 1>>, OneBlock, OneBlock>>)

\* kernels.rs
embedding(tokens) ==
  Launch(<<tokens, 1, 1>>, <<LinearBlock, 1, 1>>, 0, <<<<tokens, 1>>, OneBlock, OneBlock>>)
rmsnorm(rows) == PerRow(rows, ReduceBlock * F32)
gemv_f32(m) == PerRow(m, ReduceBlock * F32)
gemv_f16(m) == PerRow(m, ReduceBlock * F32)
gemm_xwt_f16(rows, m) ==
  Launch(<<CeilDiv(m, 16), CeilDiv(rows, 16), 1>>, <<16, 16, 1>>, 0,
         <<<<m, 16>>, <<rows, 16>>, OneBlock>>)
rope(tokens, heads, headDim) == Elementwise(tokens * heads * (headDim \div 2))
silu_mul(n) == Elementwise(n)
add_inplace(n) == Elementwise(n)
gelu_mul(n) == Elementwise(n)
cast_f32_f16(n) == Elementwise(n)

GemvRowsPerWg == 2
gemv_quant(m) ==
  Launch(<<CeilDiv(m, GemvRowsPerWg), 1, 1>>, <<ReduceBlock, 1, 1>>,
         ReduceBlock * GemvRowsPerWg * F32, <<<<m, GemvRowsPerWg>>, OneBlock, OneBlock>>)

-----------------------------------------------------------------------------
\* Decode attention: a block per key-value head and split, a wave per query
\* head of its group.
DecodeTile == 8
DecodeMaxSplits == 32
\* A plausible error: as many splits as the device has room for.
SplitsUncapped(kvHeads, curLen) ==
  LET byOccupancy == CeilDiv(240, Larger(kvHeads, 1))
      n == Larger(Smaller(byOccupancy, CeilDiv(curLen, 128)), 1)
  IN  <<n, CeilDiv(curLen, n)>>
attn_decode_splits(kvHeads, curLen) ==
  LET byOccupancy == CeilDiv(240, Larger(kvHeads, 1))
      n == Clamp(Smaller(byOccupancy, CeilDiv(curLen, 128)), 1, DecodeMaxSplits)
  IN  <<n, CeilDiv(curLen, n)>>

AttnPartial(kvHeads, group, headDim, curLen, splits) ==
  Launch(<<kvHeads, splits[1], 1>>, <<32, group, 1>>, 2 * DecodeTile * headDim * F32,
         <<<<kvHeads, 1>>, <<curLen, splits[2]>>, OneBlock>>)
attn_decode_reduce(heads, headDim) ==
  Launch(<<heads, 1, 1>>, <<headDim, 1, 1>>, 0, <<<<heads, 1>>, OneBlock, OneBlock>>)

attn_decode(heads, kvHeads, headDim, curLen) == <<
  AttnPartial(kvHeads, heads \div kvHeads, headDim, curLen, attn_decode_splits(kvHeads, curLen)),
  attn_decode_reduce(heads, headDim) >>
attn_decode_f16(heads, kvHeads, headDim, curLen) == attn_decode(heads, kvHeads, headDim, curLen)
attn_decode_mixed(heads, kvHeads, headDim, curLen) == attn_decode(heads, kvHeads, headDim, curLen)

PrefillRowTile == 4
attn_prefill(heads, kvHeads, headDim, rows) ==
  Launch(<<kvHeads, CeilDiv(rows, PrefillRowTile), 1>>,
         <<32, heads \div kvHeads, PrefillRowTile>>, 2 * DecodeTile * headDim * F32,
         <<<<kvHeads, 1>>, <<rows, PrefillRowTile>>, OneBlock>>)
attn_prefill_f16(heads, kvHeads, headDim, rows) == attn_prefill(heads, kvHeads, headDim, rows)

\* Flash prefill: the row tile shrinks as the group grows; 0 is its error.
attn_prefill_flash_br(group) ==
  IF 32 * group * 8 <= MaxThreads THEN 8
  ELSE IF 32 * group * 4 <= MaxThreads THEN 4 ELSE 0

FlashBc == 16
FlashMaxSplits == 4
attn_prefill_flash_splits(kvHeads, rows, deepestEnd, br) ==
  LET tiles == Larger(CeilDiv(rows, br), 1)
      byOccupancy == CeilDiv(240, Larger(kvHeads * tiles, 1))
      n == Clamp(Smaller(byOccupancy, CeilDiv(deepestEnd, 512)), 1, FlashMaxSplits)
  IN  <<n, CeilDiv(deepestEnd, n)>>

FlashReduce(rows, heads, headDim) ==
  Launch(<<rows, heads, 1>>, <<headDim, 1, 1>>, 0, <<<<rows, 1>>, <<heads, 1>>, OneBlock>>)

attn_prefill_flash(heads, kvHeads, headDim, rows, posBase) ==
  LET group == heads \div kvHeads
      br == attn_prefill_flash_br(group)
      splits == attn_prefill_flash_splits(kvHeads, rows, posBase + rows, br)
  IN  IF br = 0 THEN <<>>
      ELSE << Launch(<<kvHeads, CeilDiv(rows, br), splits[1]>>, <<32, group, br>>,
                     2 * FlashBc * headDim * F32,
                     <<<<kvHeads, 1>>, <<rows, br>>, <<posBase + rows, splits[2]>>>>),
              FlashReduce(rows, heads, headDim) >>
attn_prefill_flash_f16(heads, kvHeads, headDim, rows, posBase) ==
  attn_prefill_flash(heads, kvHeads, headDim, rows, posBase)
attn_prefill_flash_mixed(heads, kvHeads, headDim, rows, posBase) ==
  attn_prefill_flash(heads, kvHeads, headDim, rows, posBase)

-----------------------------------------------------------------------------
\* qwen35/forward/kernels.rs and chunk_kernels.rs.
rope_partial(tokens, heads, rotDim) == Elementwise(tokens * heads * (rotDim \div 2))
gdn_conv1d_decode(channels) == Elementwise(channels)
gdn_gate(n) == Elementwise(n)
gdn_recurrence_decode(vHeads, headK, headV) ==
  Launch(<<vHeads, 1, 1>>, <<Larger(headK, headV), 1, 1>>, 2 * (headK + headV) * F32,
         <<<<vHeads, 1>>, OneBlock, OneBlock>>)
sigmoid_mul(n) == Elementwise(n)
gdn_conv1d_chunk(channels, rows) ==
  Launch(<<CeilDiv(channels, LinearBlock), rows, 1>>, <<LinearBlock, 1, 1>>, 0,
         <<<<channels, LinearBlock>>, <<rows, 1>>, OneBlock>>)
gdn_conv1d_chunk_state_update(channels) == Elementwise(channels)
extract_heads(tokens, heads, headDim) == Elementwise(tokens * heads * headDim)
scatter_kv_chunk(rows, kvHeads, headDim) == Elementwise(rows * kvHeads * headDim)
scatter_kv_chunk_f16(rows, kvHeads, headDim) == Elementwise(rows * kvHeads * headDim)
gdn_gate_chunk(heads, rows) == Elementwise(heads * rows)

\* gdn_chunkwise_kernels.rs: one tile of the chunked recurrence.
prep_point(vHeads, tile) ==
  Launch(<<vHeads, tile, 1>>, <<32, 1, 1>>, 0, <<<<vHeads, 1>>, <<tile, 1>>, OneBlock>>)
prep_cumsum(vHeads, tile) ==
  Launch(<<vHeads, 1, 1>>, <<tile, 1, 1>>, tile * F32, <<<<vHeads, 1>>, OneBlock, OneBlock>>)
ut_build(vHeads, tile) ==
  Launch(<<vHeads, tile, 1>>, <<32, 8, 1>>, 0, <<<<vHeads, 1>>, <<tile, 1>>, OneBlock>>)
\* A plausible error: a padded row against bank conflicts.
TinvPadded(vHeads, tile) ==
  Launch(<<vHeads, 1, 1>>, <<tile, 1, 1>>, tile * (tile + 1) * F32,
         <<<<vHeads, 1>>, OneBlock, OneBlock>>)
tinv(vHeads, tile) ==
  Launch(<<vHeads, 1, 1>>, <<tile, 1, 1>>, tile * tile * F32, <<<<vHeads, 1>>, OneBlock, OneBlock>>)
uv_vnew(vHeads, tile, headK, headV) ==
  Launch(<<vHeads, tile, 1>>, <<Larger(headK, headV), 1, 1>>, headK * F32,
         <<<<vHeads, 1>>, <<tile, 1>>, OneBlock>>)
output(vHeads, tile, headV) ==
  Launch(<<vHeads, tile, 1>>, <<headV, 1, 1>>, 0, <<<<vHeads, 1>>, <<tile, 1>>, OneBlock>>)
state_update(vHeads, headK, headV) ==
  Launch(<<vHeads, headK, 1>>, <<headV, 1, 1>>, 0, <<<<vHeads, 1>>, <<headK, 1>>, OneBlock>>)

\* gdn_chunkwise_kernels_wmma.rs: a block of the LDS kernels holds tiles of
\* LdsFree rows, which the whole tile of the recurrence must fit.
LdsFree == 128
LdsTileBytes == LdsFree * 64 * 2
state_update_wmma(vHeads, headK, headV) ==
  Launch(<<vHeads, CeilDiv(headK, 16), CeilDiv(headV, 16)>>, <<32, 1, 1>>, 0,
         <<<<vHeads, 1>>, <<headK, 16>>, <<headV, 16>>>>)
output_lds(vHeads, tile) ==
  Launch(<<vHeads, 1, 1>>, <<32, 16, 1>>, 2 * LdsTileBytes, <<<<vHeads, 1>>, <<tile, LdsFree>>, OneBlock>>)
ut_build_lds(vHeads, tile) ==
  Launch(<<vHeads, 1, 1>>, <<32, 16, 1>>, 3 * LdsTileBytes, <<<<vHeads, 1>>, <<tile, LdsFree>>, OneBlock>>)

\* kernels_mixed.rs: a block of window rows leaves for the quantized part.
quantize_evict_k(kvHeads, headDim) ==
  Launch(<<kvHeads, 1, 1>>, <<headDim, 1, 1>>, 0, <<<<kvHeads, 1>>, OneBlock, OneBlock>>)
quantize_evict_v(kvHeads, windowLen) ==
  Launch(<<kvHeads, windowLen, 1>>, <<32, 1, 1>>, 0, <<<<kvHeads, 1>>, <<windowLen, 1>>, OneBlock>>)

\* kernels_moe.rs and kernels_moe_chunk.rs.
route_topk(rows) ==
  Launch(<<rows, 1, 1>>, <<256, 1, 1>>, 0, <<<<rows, 1>>, OneBlock, OneBlock>>)
shared_gate_write(n) == Elementwise(n)
weighted_accum(n) == Elementwise(n)
gemm_xwt_f32(rows, m) ==
  Launch(<<CeilDiv(m, 16), CeilDiv(rows, 16), 1>>, <<16, 16, 1>>, 0,
         <<<<m, 16>>, <<rows, 16>>, OneBlock>>)
gather_rows(rows, cols) == Elementwise(rows * cols)
scatter_weighted_accum(rows, cols) == Elementwise(rows * cols)
shared_gate_write_chunk(rows, cols) == Elementwise(rows * cols)
=============================================================================
