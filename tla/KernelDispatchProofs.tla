------------------------- MODULE KernelDispatchProofs -------------------------
(***************************************************************************)
(* What the dispatch of forward/kernels_quant_dispatch.rs and the split    *)
(* heuristics of forward/kernels.rs and kernels_flash.rs guarantee for any *)
(* shape of model, row count and depth, not only those of the runs.        *)
(***************************************************************************)
EXTENDS KernelDispatch, TLAPS

\* div_ceil is the least number of parts of b that make a.
LEMMA CeilDivBounds ==
  ASSUME NEW a \in Nat, NEW b \in Nat \ {0}
  PROVE  /\ CeilDiv(a, b) \in Nat
         /\ b * CeilDiv(a, b) >= a
         /\ b * CeilDiv(a, b) < a + b
BY SMTT(30) DEF CeilDiv

\* Its type alone, for the steps that need no more.
LEMMA CeilDivNatural ==
  ASSUME NEW a \in Nat, NEW b \in Nat \ {0}
  PROVE  CeilDiv(a, b) \in Nat
BY CeilDivBounds

\* As long as each part would be no shorter than the number of parts, n parts
\* of equal length, rounded up, cover a length and leave none of them empty.
LEMMA EqualParts ==
  ASSUME NEW a \in Nat \ {0}, NEW n \in Nat \ {0}, n = 1 \/ a > n * (n - 1)
  PROVE  LET len == CeilDiv(a, n)
         IN  len \in Nat /\ n * len >= a /\ (n - 1) * len < a
<1> DEFINE len == CeilDiv(a, n)
<1>1. len \in Nat /\ n * len >= a /\ n * len < a + n
  BY CeilDivBounds
<1> HIDE DEF len
<1>2. (n - 1) * len < a
  <2>1. CASE n = 1
    BY <1>1, <2>1
  <2>2. CASE a > n * (n - 1)
    <3>1. len >= n
      <4>1. SUFFICES ASSUME len <= n - 1 PROVE FALSE
        BY <1>1
      <4>2. n * len <= n * (n - 1)
        BY <1>1, <4>1, SMTT(30)
      <4> QED
        BY <1>1, <2>2, <4>2
    <3>2. (n - 1) * len = n * len - len
      BY <1>1, SMTT(30)
    <3> QED
      BY <1>1, <3>1, <3>2
  <2> QED
    BY <2>1, <2>2
<1> QED
  BY <1>1, <1>2 DEF len

(***************************************************************************)
(* attn_decode_splits: for every number of heads and every depth, at most  *)
(* the splits its scratch has room for, which cover the whole depth, and   *)
(* none of which is empty, as its comment says.                            *)
(***************************************************************************)
THEOREM DecodeSplitsCover ==
  ASSUME NEW kvHeads \in Nat, NEW curLen \in Nat \ {0}
  PROVE  LET s == attn_decode_splits(kvHeads, curLen)
         IN  /\ s[1] \in 1..DecodeMaxSplits
             /\ s[1] * s[2] >= curLen
             /\ (s[1] - 1) * s[2] < curLen
<1> DEFINE k == Larger(kvHeads, 1)
           byOccupancy == CeilDiv(240, k)
           byLength == CeilDiv(curLen, 128)
           n == Clamp(Smaller(byOccupancy, byLength), 1, DecodeMaxSplits)
<1>1. k \in Nat \ {0}
  BY DEF Larger
<1> HIDE DEF k
<1>2. byOccupancy \in Nat
  BY <1>1, CeilDivNatural
<1>3. byLength \in Nat /\ 128 * byLength < curLen + 128
  BY CeilDivBounds
<1> HIDE DEF byOccupancy, byLength
<1>4. n \in 1..32 /\ (n = 1 \/ n <= byLength)
  BY <1>2, <1>3 DEF n, Clamp, Larger, Smaller, DecodeMaxSplits
<1> HIDE DEF n
<1>5. n = 1 \/ curLen > n * (n - 1)
  <2>1. SUFFICES ASSUME n # 1 PROVE curLen > n * (n - 1)
    OBVIOUS
  <2>2. n * (n - 1) <= 32 * (n - 1)
    BY <1>4, <2>1, SMTT(30)
  <2> QED
    BY <1>3, <1>4, <2>1, <2>2
<1>6. n * CeilDiv(curLen, n) >= curLen /\ (n - 1) * CeilDiv(curLen, n) < curLen
  BY <1>4, <1>5, EqualParts
<1>7. attn_decode_splits(kvHeads, curLen) = <<n, CeilDiv(curLen, n)>>
  BY DEF attn_decode_splits, n, byOccupancy, byLength, k
<1> QED
  BY <1>4, <1>6, <1>7 DEF DecodeMaxSplits

(***************************************************************************)
(* attn_prefill_flash_splits: the same of the splits of a chunk's flash    *)
(* attention, for every chunk, row tile and depth.                         *)
(***************************************************************************)
THEOREM FlashSplitsCover ==
  ASSUME NEW kvHeads \in Nat, NEW rows \in Nat, NEW deepestEnd \in Nat \ {0}, NEW br \in Nat \ {0}
  PROVE  LET s == attn_prefill_flash_splits(kvHeads, rows, deepestEnd, br)
         IN  /\ s[1] \in 1..FlashMaxSplits
             /\ s[1] * s[2] >= deepestEnd
             /\ (s[1] - 1) * s[2] < deepestEnd
<1> DEFINE tiles == Larger(CeilDiv(rows, br), 1)
           k == Larger(kvHeads * tiles, 1)
           byOccupancy == CeilDiv(240, k)
           byLength == CeilDiv(deepestEnd, 512)
           n == Clamp(Smaller(byOccupancy, byLength), 1, FlashMaxSplits)
<1>1. tiles \in Nat
  BY CeilDivBounds DEF Larger
<1> HIDE DEF tiles
<1>2. kvHeads * tiles \in Nat
  BY <1>1, SMTT(30)
<1>3. k \in Nat \ {0}
  BY <1>2 DEF Larger
<1> HIDE DEF k
<1>4. byOccupancy \in Nat
  BY <1>3, CeilDivNatural
<1>5. byLength \in Nat /\ 512 * byLength < deepestEnd + 512
  BY CeilDivBounds
<1> HIDE DEF byOccupancy, byLength
<1>6. n \in 1..4 /\ (n = 1 \/ n <= byLength)
  BY <1>4, <1>5 DEF n, Clamp, Larger, Smaller, FlashMaxSplits
<1> HIDE DEF n
<1>7. n = 1 \/ deepestEnd > n * (n - 1)
  <2>1. SUFFICES ASSUME n # 1 PROVE deepestEnd > n * (n - 1)
    OBVIOUS
  <2>2. n * (n - 1) <= 4 * (n - 1)
    BY <1>6, <2>1, SMTT(30)
  <2> QED
    BY <1>5, <1>6, <2>1, <2>2
<1>8. n * CeilDiv(deepestEnd, n) >= deepestEnd /\ (n - 1) * CeilDiv(deepestEnd, n) < deepestEnd
  BY <1>6, <1>7, EqualParts
<1>9. attn_prefill_flash_splits(kvHeads, rows, deepestEnd, br) = <<n, CeilDiv(deepestEnd, n)>>
  BY DEF attn_prefill_flash_splits, n, byOccupancy, byLength, k, tiles
<1> QED
  BY <1>6, <1>8, <1>9 DEF FlashMaxSplits

-----------------------------------------------------------------------------
\* Every way gemm may take reduces over the whole width: the kernels of 16 or
\* 32 columns a step, and the splits of them, are chosen only for a multiple.
LEMMA GemmReducesAll ==
  ASSUME NEW dtype, NEW rows, NEW m, NEW n \in Int, NEW eligible, NEW allowMicro,
         Loaded(dtype, n) # "F16"
  PROVE  \E op, launches, uses :
           gemm(dtype, rows, m, n, eligible, allowMicro) = Plan(op, launches, uses, n, n)
<1> DEFINE p == gemm(dtype, rows, m, n, eligible, allowMicro)
           splits == splitk_num_splits(m, n, rows, S.hidden)
<1>1. CASE p = mmq_gemm(dtype, rows, m, n) /\ mmq_supports(dtype)
  <2>1. n % 32 = 0 \/ n % 256 = 0
    BY <1>1 DEF Loaded, quant_block_elems, mmq_supports
  <2>2. (n \div 32) * 32 = n
    BY <2>1, SMTT(30)
  <2> QED
    BY <1>1, <2>2 DEF mmq_gemm
<1>2. CASE p = splitk_gemm(rows, m, n, splits) /\ splits > 1
  <2>1. (splits = 4 /\ n % 64 = 0) \/ (splits = 2 /\ n % 32 = 0)
    BY <1>2 DEF splitk_num_splits, KStage
  <2>2. splits * (((n \div splits) \div 16) * 16) = n
    BY <2>1, SMTT(30)
  <2> QED
    BY <1>2, <2>2 DEF splitk_gemm, KStage
<1>3. CASE n % 16 = 0 /\ (\/ \E t \in {NarrowTileM, WideTileM} : p = gemm_wmma_cfg(t, rows, m, n)
                         \/ p = gemm_wmma_micro_cfg(rows, m, n))
  <2>1. (n \div 16) * 16 = n
    BY <1>3, SMTT(30)
  <2> QED
    BY <1>3, <2>1 DEF gemm_wmma_cfg, gemm_wmma_micro_cfg, KStage
<1>4. CASE p = gemm_scalar(rows, m, n)
  BY <1>4 DEF gemm_scalar
<1>5. \/ p = mmq_gemm(dtype, rows, m, n) /\ mmq_supports(dtype)
      \/ p = splitk_gemm(rows, m, n, splits) /\ splits > 1
      \/ n % 16 = 0 /\ (\/ \E t \in {NarrowTileM, WideTileM} : p = gemm_wmma_cfg(t, rows, m, n)
                       \/ p = gemm_wmma_micro_cfg(rows, m, n))
      \/ p = gemm_scalar(rows, m, n)
  <2> HIDE DEF splits
  <2> QED
    BY DEF gemm, splits, WmmaEligible, MicroEligible
<1> QED
  BY <1>1, <1>2, <1>3, <1>4, <1>5

-----------------------------------------------------------------------------
\* What the inductive step needs of a loaded configuration: its sizes, and the
\* widths and the rows of its weights, are integers.
Widths ==
  c # Unloadable =>
    /\ c.arch \in {"qwen3", "qwen35", "qwen35moe"}
    /\ S.hidden \in Nat /\ S.ffn \in Nat
    /\ S.heads \in Nat /\ S.kvHeads \in Nat /\ S.headDim \in Nat
    /\ q_dim(S) \in Int /\ kv_dim(S) \in Int
    /\ c.arch # "qwen3" =>
         c.gdn.valueDim \in Int /\ c.gdn.convDim \in Int /\ c.gdn.vHeads \in Int
    /\ c.arch = "qwen35moe" => c.moe["shared_ff_len"] \in Int /\ c.moe["expert_ff_len"] \in Int

DispatchInv == Widths /\ WholeReduction

LEMMA WeightWidths ==
  ASSUME Widths, c # Unloadable
  PROVE  /\ \A w \in Weights : w.n \in Int /\ w.m \in Int
         /\ c.arch = "qwen35moe" => \A w \in ExpertWeights : w.n \in Int /\ w.m \in Int
<1>1. \A q \in Int : \A w \in AttentionWeights(q) : w.n \in Int /\ w.m \in Int
  BY DEF Widths, AttentionWeights, W
<1>2. \A names : \A ffn \in Int : \A w \in FfnWeights(names, ffn) : w.n \in Int /\ w.m \in Int
  BY DEF Widths, FfnWeights, W
<1>3. c.arch # "qwen3" => \A w \in GdnWeights : w.n \in Int /\ w.m \in Int
  BY DEF Widths, GdnWeights, W
<1>4. \A w \in DenseFfn : w.n \in Int /\ w.m \in Int
  BY <1>2 DEF Widths, DenseFfn
<1>5. c.arch = "qwen35moe" =>
        \A w \in SharedExpert \union ExpertWeights : w.n \in Int /\ w.m \in Int
  BY <1>2 DEF Widths, SharedExpert, ExpertWeights
<1>6. q_dim(S) \in Int /\ 2 * q_dim(S) \in Int
  BY DEF Widths
<1> QED
  BY <1>1, <1>3, <1>4, <1>5, <1>6 DEF Widths, Weights

\* from_gguf refuses what would not give sizes.
LEMMA LoadedWidths ==
  ASSUME NEW f \in Files, Loads(f[1]), c' = from_gguf(f[1])
  PROVE  Widths'
<1> DEFINE g == f[1]
           moe == g["arch"] = "qwen35moe"
<1>1. /\ \A k \in DOMAIN g \ {"arch", "ssm_a"} : g[k] \in Nat
      /\ from_gguf(g) # Unloadable
  BY DispatchAssumption DEF Loads
<1> HIDE DEF g
<1>2. c' = from_gguf(g)
  BY DEF g
<1>3. /\ {"embedding_length", "head_count", "head_count_kv", "key_length"} \subseteq DOMAIN g =>
           /\ g["embedding_length"] \in Nat /\ g["head_count"] \in Nat
           /\ g["head_count_kv"] \in Nat /\ g["key_length"] \in Nat
      /\ "feed_forward_length" \in DOMAIN g => g["feed_forward_length"] \in Nat
      /\ {"time_step_rank", "inner_size", "group_count", "state_size"} \subseteq DOMAIN g =>
           /\ g["time_step_rank"] \in Nat /\ g["inner_size"] \in Nat
           /\ g["group_count"] \in Nat /\ g["state_size"] \in Nat
      /\ MoeKeys \subseteq DOMAIN g => \A k \in MoeKeys : g[k] \in Nat
  BY <1>1 DEF MoeKeys
<1>4. ASSUME NEW h \in Nat, NEW d \in Nat
      PROVE  h * d \in Int
  BY <1>4, SMTT(30)
<1>5. CASE g["arch"] = "qwen3"
  <2>1. /\ c' = [arch |-> "qwen3", shape |-> Shape(g, g["feed_forward_length"], g["block_count"])]
        /\ Keys("qwen3") \subseteq DOMAIN g
    BY <1>1, <1>2, <1>5 DEF from_gguf, DenseConfig
  <2>2. q_dim(c'.shape) \in Int /\ kv_dim(c'.shape) \in Int
    BY <1>3, <1>4, <2>1 DEF Keys, CommonKeys, Shape, q_dim, kv_dim
  <2> QED
    BY <1>3, <2>1, <2>2 DEF Widths, S, Keys, CommonKeys, Shape
<1>6. CASE g["arch"] \in {"qwen35", "qwen35moe"}
  <2> DEFINE ffn == IF moe THEN g["expert_ff_len"] ELSE g["feed_forward_length"]
             headV == g["inner_size"] \div g["time_step_rank"]
  <2>1. c' = HybridConfig(g) /\ HybridConfig(g) # Unloadable
    BY <1>1, <1>2, <1>6 DEF from_gguf
  <2>2. /\ Keys(g["arch"]) \subseteq DOMAIN g /\ SsmOk(g)
        /\ c' = [arch |-> g["arch"], shape |-> Shape(g, ffn, main_block_count(g)),
                 kinds |-> LayerKinds(g), gdn |-> GdnConfig(g), ropeDim |-> g["rope_dim"],
                 moe |-> IF moe THEN [k \in MoeKeys |-> g[k]] ELSE <<>>]
    BY <2>1 DEF HybridConfig
  <2>3. CommonKeys \subseteq DOMAIN g /\ SsmKeys \subseteq DOMAIN g /\ ffn \in Nat
    BY <1>3, <1>6, <2>2 DEF Keys, MoeKeys
  <2> HIDE DEF ffn
  <2>4. moe => \A k \in MoeKeys : c'.moe[k] \in Nat
    BY <1>3, <2>2 DEF Keys
  <2>5. /\ g["time_step_rank"] \in Nat /\ g["inner_size"] \in Nat /\ g["time_step_rank"] # 0
        /\ g["group_count"] \in Nat /\ g["state_size"] \in Nat
    BY <1>3, <2>2, <2>3 DEF SsmKeys, SsmOk
  <2>6. headV \in Nat
    BY <2>5, SMTT(30)
  <2> HIDE DEF headV
  <2>7. /\ c'.gdn.valueDim = g["time_step_rank"] * headV
        /\ c'.gdn.convDim = 2 * (g["group_count"] * g["state_size"]) + c'.gdn.valueDim
        /\ c'.gdn.vHeads = g["time_step_rank"]
    BY <2>2 DEF GdnConfig, headV
  <2>8. c'.gdn.valueDim \in Int /\ c'.gdn.convDim \in Int /\ c'.gdn.vHeads \in Int
    <3>1. g["time_step_rank"] * headV \in Int /\ g["group_count"] * g["state_size"] \in Int
      BY <1>4, <2>5, <2>6
    <3> QED
      BY <2>5, <2>7, <3>1
  <2>9. c'.shape = Shape(g, ffn, main_block_count(g)) /\ c'.arch = g["arch"]
    BY <2>2
  <2>10. /\ c'.shape.hidden \in Nat /\ c'.shape.ffn \in Nat
         /\ c'.shape.heads \in Nat /\ c'.shape.kvHeads \in Nat /\ c'.shape.headDim \in Nat
         /\ q_dim(c'.shape) \in Int /\ kv_dim(c'.shape) \in Int
    BY <1>3, <1>4, <2>3, <2>9 DEF CommonKeys, Shape, q_dim, kv_dim
  <2> QED
    BY <1>6, <2>4, <2>8, <2>9, <2>10 DEF Widths, S, MoeKeys
<1> QED
  BY <1>1, <1>5, <1>6 DEF from_gguf

\* A step reads the configuration it started with; only Load sets another.
LEMMA DispatchStep ==
  ASSUME DispatchInv, [Next]_vars
  PROVE  DispatchInv'
<1>1. ASSUME NEW f \in Files, Load(f[1], f[2]) PROVE DispatchInv'
  <2>1. Widths'
    BY <1>1, LoadedWidths DEF Load
  <2> QED
    BY <1>1, <2>1 DEF Load, DispatchInv, WholeReduction, NoPlan, Plan
<1>2. ASSUME c' = c, plan'.reduced = plan'.n PROVE DispatchInv'
  BY <1>2 DEF DispatchInv, Widths, WholeReduction, S
<1>3. ASSUME NEW w \in Weights, NEW d \in DTypes, matvec(w, d) PROVE DispatchInv'
  BY <1>2, <1>3 DEF matvec, Plan
<1>4. ASSUME NEW w \in Weights, NEW d \in DTypes, NEW rows \in RowCounts, matmul(w, d, rows)
      PROVE DispatchInv'
  <2>1. w.n \in Int
    BY <1>4, WeightWidths DEF matmul, DispatchInv
  <2>2. Matmul(w, d, rows).reduced = Matmul(w, d, rows).n
    <3>1. CASE Loaded(d, w.n) = "F16"
      BY <3>1 DEF Matmul, Plan
    <3>2. CASE Loaded(d, w.n) # "F16"
      <4> DEFINE named == mmq_eligible_by_name(w.name)
                 micro == FALSE
      <4>1. Matmul(w, d, rows) = gemm(d, rows, w.m, w.n, named, micro)
        BY <3>2 DEF Matmul
      <4> HIDE DEF named, micro
      <4>2. \E op, launches, uses : Matmul(w, d, rows) = Plan(op, launches, uses, w.n, w.n)
        BY <2>1, <3>2, <4>1, GemmReducesAll
      <4> QED
        BY <4>2 DEF Plan
    <3> QED
      BY <3>1, <3>2
  <2> QED
    BY <1>2, <1>4, <2>2 DEF matmul
<1>5. ASSUME NEW w \in ExpertWeights, NEW d \in DTypes, NEW rows \in RowCounts, ExpertGroup(w, d, rows)
      PROVE DispatchInv'
  <2> DEFINE byName == FALSE
             micro == TRUE
             p == gemm(d, rows, w.m, w.n, byName, micro)
  <2>1. w.n \in Int
    BY <1>5, WeightWidths DEF ExpertGroup, DispatchInv
  <2>2. PICK op, launches, uses : p = Plan(op, launches, uses, w.n, w.n)
    <3>1. Loaded(d, w.n) # "F16"
      BY <1>5 DEF ExpertGroup
    <3> HIDE DEF byName, micro
    <3> QED
      BY <2>1, <3>1, GemmReducesAll
  <2> HIDE DEF p
  <2>3. c' = c /\ \E l : plan' = [p EXCEPT !.launches = l]
    BY <1>5 DEF ExpertGroup, p
  <2>4. plan'.reduced = plan'.n
    BY <2>2, <2>3 DEF Plan
  <2> QED
    BY <1>2, <2>3, <2>4
<1>6. ASSUME NEW depth \in Depths, NEW plane \in Planes, DecodeAttention(depth, plane) PROVE DispatchInv'
  BY <1>2, <1>6 DEF DecodeAttention, Plan
<1>7. ASSUME NEW depth \in Depths, NEW rows \in RowCounts, NEW plane \in Planes,
             ChunkAttention(depth, rows, plane)
      PROVE DispatchInv'
  BY <1>2, <1>7 DEF ChunkAttention, Plan
<1>8. ASSUME NEW rows \in RowCounts, GdnChunk(rows) \/ Elementwises(rows) \/ Route(rows)
      PROVE DispatchInv'
  BY <1>2, <1>8 DEF GdnChunk, Elementwises, Route, Plan
<1>9. ASSUME GdnToken PROVE DispatchInv'
  BY <1>2, <1>9 DEF GdnToken, Plan
<1>10. ASSUME NEW window \in Windows, Evict(window) PROVE DispatchInv'
  BY <1>2, <1>10 DEF Evict, Plan
<1>11. ASSUME UNCHANGED vars PROVE DispatchInv'
  BY <1>11 DEF vars, DispatchInv, Widths, WholeReduction, S
<1> QED
  BY <1>1, <1>3, <1>4, <1>5, <1>6, <1>7, <1>8, <1>9, <1>10, <1>11 DEF Next

(***************************************************************************)
(* For every model the loader accepts, every format of its tensors and     *)
(* every row count, the product that gemm dispatches reduces over every    *)
(* column of the weight: the narrow, wide, micro, split and MMQ kernels    *)
(* are reached only where no remainder is left.                            *)
(***************************************************************************)
THEOREM ReductionIsWhole == Spec => []WholeReduction
<1>1. Init => DispatchInv
  BY DEF Init, DispatchInv, Widths, WholeReduction, NoPlan, Plan
<1>2. DispatchInv /\ [Next]_vars => DispatchInv'
  BY DispatchStep
<1>3. DispatchInv => WholeReduction
  BY DEF DispatchInv
<1> QED
  BY <1>1, <1>2, <1>3, PTL DEF Spec

-----------------------------------------------------------------------------
\* What the operations leave in the scratch, buffer by buffer.
LEMMA Product ==
  ASSUME NEW x \in Nat, NEW y \in Nat, NEW z \in Nat, x <= y
  PROVE  x * z \in Nat /\ x * z <= y * z
<1>1. x * z \in Nat /\ y * z = x * z + (y - x) * z /\ (y - x) * z >= 0
  BY SMTT(30)
<1>2. (y - x) * z \in Int
  BY SMTT(30)
<1> QED
  BY <1>1, <1>2

LEMMA GemmScratch ==
  ASSUME Widths, c # Unloadable, NEW dtype, NEW rows \in RowCounts, NEW m \in Int, NEW n \in Int,
         NEW eligible, NEW allowMicro
  PROVE  LET p == gemm(dtype, rows, m, n, eligible, allowMicro)
         IN  (p.op = "mmq" => p.n <= MmqDim) => \A b \in DOMAIN p.uses : p.uses[b] <= Capacity[b]
<1> DEFINE p == gemm(dtype, rows, m, n, eligible, allowMicro)
           splits == splitk_num_splits(m, n, rows, S.hidden)
<1>1. /\ rows \in Nat /\ rows <= ChunkCap /\ ChunkCap \in Nat
      /\ S.hidden \in Nat /\ S.ffn \in Nat /\ MmqDim \in Nat
  BY DispatchAssumption DEF Widths, MmqDim, Larger
<1>2. CASE p = mmq_gemm(dtype, rows, m, n)
  <2> DEFINE blocks == rows * (n \div 32)
             uses == [b \in {"mmq_x_codes", "mmq_x_scale"} |->
                        IF b = "mmq_x_codes" THEN rows * n ELSE blocks]
  <2>1. p.op = "mmq" /\ p.n = n /\ p.uses = uses
    BY <1>2 DEF mmq_gemm, Plan
  <2> SUFFICES ASSUME n <= MmqDim
               PROVE  rows * n <= ChunkCap * MmqDim /\ blocks <= ChunkCap * CeilDiv(MmqDim, 32)
    BY <2>1 DEF Capacity
  <2>2. ASSUME NEW x \in Int, NEW y \in Nat, x <= y
        PROVE  rows * x <= ChunkCap * y
    <3>1. rows * x <= rows * y
      BY <1>1, <2>2, SMTT(30)
    <3>2. rows * y <= ChunkCap * y
      BY <1>1, Product
    <3>3. rows * x \in Int /\ rows * y \in Int /\ ChunkCap * y \in Int
      BY <1>1, SMTT(30)
    <3> QED
      BY <3>1, <3>2, <3>3
  <2>3. n \div 32 \in Int /\ CeilDiv(MmqDim, 32) \in Nat /\ n \div 32 <= CeilDiv(MmqDim, 32)
    BY <1>1, SMTT(30) DEF CeilDiv
  <2> QED
    BY <1>1, <2>2, <2>3
<1>3. CASE p = splitk_gemm(rows, m, n, splits) /\ splits > 1 /\ m >= NarrowTileM
  <2>1. splits \in {2, 4} /\ m <= S.hidden /\ m \in Nat
    BY <1>1, <1>3 DEF splitk_num_splits, NarrowTileM
  <2> HIDE DEF splits
  <2>2. p.uses = [b \in {"splitk_partial"} |-> splits * rows * m]
    BY <1>3 DEF splitk_gemm, Plan
  <2>3. splits * rows * m <= 4 * ChunkCap * S.hidden
    <3>1. splits * rows \in Nat /\ 4 * ChunkCap \in Nat /\ splits * rows <= 4 * ChunkCap
      BY <1>1, <2>1
    <3>2. (splits * rows) * m <= (4 * ChunkCap) * m
      BY <2>1, <3>1, Product
    <3>3. m * (4 * ChunkCap) <= S.hidden * (4 * ChunkCap)
      BY <1>1, <2>1, <3>1, Product
    <3>4. /\ m * (4 * ChunkCap) = (4 * ChunkCap) * m
          /\ S.hidden * (4 * ChunkCap) = (4 * ChunkCap) * S.hidden
          /\ (splits * rows) * m \in Int /\ (4 * ChunkCap) * m \in Int
          /\ (4 * ChunkCap) * S.hidden \in Int
      BY <1>1, <2>1, <3>1, SMTT(30)
    <3> QED
      BY <3>2, <3>3, <3>4
  <2> QED
    BY <2>2, <2>3 DEF Capacity
<1>4. CASE \/ \E t \in {NarrowTileM, WideTileM} : p = gemm_wmma_cfg(t, rows, m, n)
           \/ p = gemm_wmma_micro_cfg(rows, m, n) \/ p = gemm_scalar(rows, m, n)
  <2>1. p.uses = NoUses
    BY <1>4 DEF gemm_wmma_cfg, gemm_wmma_micro_cfg, gemm_scalar, Plan
  <2> QED
    BY <2>1 DEF NoUses
<1>5. \/ p = mmq_gemm(dtype, rows, m, n)
      \/ p = splitk_gemm(rows, m, n, splits) /\ splits > 1 /\ m >= NarrowTileM
      \/ \E t \in {NarrowTileM, WideTileM} : p = gemm_wmma_cfg(t, rows, m, n)
      \/ p = gemm_wmma_micro_cfg(rows, m, n) \/ p = gemm_scalar(rows, m, n)
  <2> HIDE DEF splits
  <2> QED
    BY DEF gemm, splits, WmmaEligible
<1> QED
  BY <1>2, <1>3, <1>4, <1>5

\* A split of decode attention leaves a partial result a head.
LEMMA DecodeScratch ==
  ASSUME Widths, NEW depth \in Depths, NEW plane \in Planes, DecodeAttention(depth, plane)
  PROVE  ScratchSuffices'
<1> DEFINE splits == attn_decode_splits(S.kvHeads, depth + 1)
<1>1. c # Unloadable /\ c' = c
      /\ plan'.uses = [b \in {"attn_partial"} |-> S.heads * splits[1] * S.headDim]
  BY DEF DecodeAttention, Plan
<1>2. S.heads \in Nat /\ S.headDim \in Nat /\ S.kvHeads \in Nat /\ depth + 1 \in Nat \ {0}
  BY <1>1, DispatchAssumption DEF Widths
<1>3. splits[1] \in 1..DecodeMaxSplits
  BY <1>2, DecodeSplitsCover
<1> HIDE DEF splits
<1>4. S.heads * splits[1] * S.headDim <= S.heads * DecodeMaxSplits * S.headDim
  <2>1. splits[1] \in Nat /\ DecodeMaxSplits \in Nat /\ splits[1] <= DecodeMaxSplits
    BY <1>3 DEF DecodeMaxSplits
  <2>2. splits[1] * S.heads \in Nat /\ DecodeMaxSplits * S.heads \in Nat
        /\ splits[1] * S.heads <= DecodeMaxSplits * S.heads
    BY <1>2, <2>1, Product, SMTT(30) DEF DecodeMaxSplits
  <2>3. (splits[1] * S.heads) * S.headDim <= (DecodeMaxSplits * S.heads) * S.headDim
    BY <1>2, <2>2, Product
  <2>4. /\ S.heads * splits[1] = splits[1] * S.heads
        /\ S.heads * DecodeMaxSplits = DecodeMaxSplits * S.heads
    BY <1>2, <2>1, SMTT(30)
  <2> QED
    BY <2>3, <2>4
<1>5. Capacity["attn_partial"] = S.heads * DecodeMaxSplits * S.headDim
  BY DEF Capacity
<1>6. Capacity' = Capacity
  BY <1>1 DEF Capacity, S, MmqDim
<1> QED
  BY <1>1, <1>4, <1>5, <1>6 DEF ScratchSuffices

\* So does a split of a chunk's flash attention, a head and row.
LEMMA ChunkScratch ==
  ASSUME Widths, NEW depth \in Depths, NEW rows \in RowCounts, NEW plane \in Planes,
         ChunkAttention(depth, rows, plane)
  PROVE  ScratchSuffices'
<1> DEFINE flash == plane = "mixed" \/ depth + rows >= FlashMinDepth
           br == attn_prefill_flash_br(S.heads \div S.kvHeads)
           splits == attn_prefill_flash_splits(S.kvHeads, rows, depth + rows, br)
           used == IF flash THEN rows * S.heads * splits[1] * S.headDim ELSE 0
<1>1. c # Unloadable /\ c' = c
      /\ \/ plan'.uses = NoUses
         \/ ~ (flash /\ br = 0) /\ plan'.uses = [b \in {"flash_partial"} |-> used]
  <2> HIDE DEF br
  <2> QED
    BY DEF ChunkAttention, Plan, br
<1>2. S.heads \in Nat /\ S.headDim \in Nat /\ S.kvHeads \in Nat
  BY <1>1 DEF Widths
<1>3. rows \in Nat /\ rows <= ChunkCap /\ ChunkCap \in Nat /\ depth + rows \in Nat \ {0}
  BY DispatchAssumption
<1>4. Capacity["flash_partial"] = ChunkCap * S.heads * FlashMaxSplits * S.headDim
  BY DEF Capacity
<1>5. Capacity' = Capacity
  BY <1>1 DEF Capacity, S, MmqDim
<1>6. br \in {0, 4, 8}
  BY DEF attn_prefill_flash_br
<1> HIDE DEF br
<1>7. ASSUME flash, br # 0
      PROVE  rows * S.heads * splits[1] * S.headDim <= ChunkCap * S.heads * FlashMaxSplits * S.headDim
  <2>1. splits[1] \in 1..FlashMaxSplits
    BY <1>2, <1>3, <1>6, <1>7, FlashSplitsCover
  <2> HIDE DEF splits
  <2>2. splits[1] \in Nat /\ FlashMaxSplits \in Nat /\ splits[1] <= FlashMaxSplits
    BY <2>1 DEF FlashMaxSplits
  <2>3. rows * S.heads \in Nat /\ ChunkCap * S.heads \in Nat /\ rows * S.heads <= ChunkCap * S.heads
    BY <1>2, <1>3, Product, SMTT(30)
  <2> DEFINE r == rows * S.heads
             q == ChunkCap * S.heads
  <2>4. r \in Nat /\ q \in Nat /\ r <= q
    BY <2>3
  <2> HIDE DEF r, q
  <2>5. r * splits[1] <= q * FlashMaxSplits
    <3>1. r * splits[1] <= q * splits[1] /\ splits[1] * q <= FlashMaxSplits * q
      BY <2>2, <2>4, Product
    <3>2. q * splits[1] = splits[1] * q /\ FlashMaxSplits * q = q * FlashMaxSplits
          /\ r * splits[1] \in Int /\ q * splits[1] \in Int /\ q * FlashMaxSplits \in Int
      BY <2>2, <2>4, SMTT(30)
    <3> QED
      BY <3>1, <3>2
  <2>6. r * splits[1] \in Nat /\ q * FlashMaxSplits \in Nat
    BY <2>2, <2>4, SMTT(30)
  <2>7. (r * splits[1]) * S.headDim <= (q * FlashMaxSplits) * S.headDim
    BY <1>2, <2>5, <2>6, Product
  <2> QED
    BY <2>7 DEF r, q
<1>8. 0 <= ChunkCap * S.heads * FlashMaxSplits * S.headDim
  <2>1. ChunkCap * S.heads \in Nat /\ FlashMaxSplits \in Nat
    BY <1>2, <1>3, SMTT(30) DEF FlashMaxSplits
  <2>2. ChunkCap * S.heads * FlashMaxSplits \in Nat
    BY <2>1, SMTT(30)
  <2> QED
    BY <1>2, <2>2, Product
<1>9. ~ (flash /\ br = 0) => used <= ChunkCap * S.heads * FlashMaxSplits * S.headDim
  BY <1>7, <1>8
<1> HIDE DEF used, flash
<1> QED
  BY <1>1, <1>4, <1>5, <1>9 DEF ScratchSuffices, NoUses

\* A tile of the recurrence has at most RecurTile rows.
LEMMA TileScratch ==
  ASSUME c # Unloadable, NEW rows \in RowCounts, GdnChunk(rows)
  PROVE  ScratchSuffices'
<1> DEFINE tile == TileOf(rows, 0)
<1>1. c' = c /\ plan'.uses = [b \in {"tile"} |-> tile * tile]
  BY DEF GdnChunk, Plan
<1>2. tile \in Nat /\ tile <= RecurTile /\ RecurTile \in Nat
  BY DispatchAssumption DEF TileOf, Smaller
<1> HIDE DEF tile
<1>3. tile * tile <= RecurTile * RecurTile
  <2>1. tile * tile <= RecurTile * tile /\ tile * RecurTile <= RecurTile * RecurTile
    BY <1>2, Product
  <2>2. /\ tile * RecurTile = RecurTile * tile
        /\ tile * tile \in Int /\ RecurTile * tile \in Int /\ RecurTile * RecurTile \in Int
    BY <1>2, SMTT(30)
  <2> QED
    BY <2>1, <2>2
<1>4. Capacity'["tile"] = RecurTile * RecurTile
  BY DEF Capacity
<1> QED
  BY <1>1, <1>3, <1>4 DEF ScratchSuffices

\* Products leave what gemm leaves.
LEMMA ProductScratch ==
  ASSUME Widths, NEW d \in DTypes, NEW rows \in RowCounts,
         \/ \E w \in Weights : matmul(w, d, rows)
         \/ \E w \in ExpertWeights : ExpertGroup(w, d, rows)
  PROVE  (LargestReduction => ScratchSuffices)'
<1>1. c # Unloadable /\ c' = c
  BY DEF matmul, ExpertGroup
<1>2. MmqDim' = MmqDim /\ Capacity' = Capacity
  BY <1>1 DEF Capacity, S, MmqDim
<1>3. ASSUME NEW m \in Int, NEW n \in Int, NEW eligible, NEW allowMicro,
             plan'.op = gemm(d, rows, m, n, eligible, allowMicro).op,
             plan'.n = gemm(d, rows, m, n, eligible, allowMicro).n,
             plan'.uses = gemm(d, rows, m, n, eligible, allowMicro).uses
      PROVE  (LargestReduction => ScratchSuffices)'
  <2> DEFINE p == gemm(d, rows, m, n, eligible, allowMicro)
  <2>1. (p.op = "mmq" => p.n <= MmqDim) => \A b \in DOMAIN p.uses : p.uses[b] <= Capacity[b]
    BY <1>1, GemmScratch
  <2>2. plan'.op = p.op /\ plan'.n = p.n /\ plan'.uses = p.uses
    BY <1>3
  <2> HIDE DEF p
  <2> QED
    BY <1>2, <2>1, <2>2 DEF LargestReduction, ScratchSuffices
<1>4. ASSUME NEW w \in Weights, matmul(w, d, rows) PROVE (LargestReduction => ScratchSuffices)'
  <2>1. w.n \in Int /\ w.m \in Int
    BY <1>1, WeightWidths
  <2>2. plan' = Matmul(w, d, rows)
    BY <1>4 DEF matmul
  <2>3. CASE Loaded(d, w.n) = "F16"
    <3>1. plan'.uses = NoUses
      BY <2>2, <2>3 DEF Matmul, Plan
    <3> QED
      BY <3>1 DEF ScratchSuffices, NoUses
  <2>4. CASE Loaded(d, w.n) # "F16"
    <3> DEFINE named == mmq_eligible_by_name(w.name)
               micro == FALSE
    <3>1. plan' = gemm(d, rows, w.m, w.n, named, micro)
      BY <2>2, <2>4 DEF Matmul
    <3> HIDE DEF named, micro
    <3> QED
      BY <1>3, <2>1, <3>1
  <2> QED
    BY <2>3, <2>4
<1>5. ASSUME NEW w \in ExpertWeights, ExpertGroup(w, d, rows) PROVE (LargestReduction => ScratchSuffices)'
  <2> DEFINE byName == FALSE
             micro == TRUE
             p == gemm(d, rows, w.m, w.n, byName, micro)
  <2>1. w.n \in Int /\ w.m \in Int /\ Loaded(d, w.n) # "F16"
    BY <1>1, <1>5, WeightWidths DEF ExpertGroup
  <2>2. PICK l : plan' = [p EXCEPT !.launches = l]
    BY <1>5 DEF ExpertGroup
  <2> HIDE DEF byName, micro
  <2>3. PICK op, launches, uses : p = Plan(op, launches, uses, w.n, w.n)
    BY <2>1, GemmReducesAll
  <2>4. plan'.op = p.op /\ plan'.n = p.n /\ plan'.uses = p.uses
    <3> HIDE DEF p
    <3> QED
      BY <2>2, <2>3 DEF Plan
  <2> QED
    BY <1>3, <2>1, <2>4
<1> QED
  BY <1>4, <1>5

LEMMA ScratchStep ==
  ASSUME Widths, LargestReduction => ScratchSuffices, [Next]_vars
  PROVE  (LargestReduction => ScratchSuffices)'
<1>1. ASSUME plan'.uses = NoUses PROVE ScratchSuffices'
  BY <1>1 DEF ScratchSuffices, NoUses
<1>2. ASSUME NEW f \in Files, Load(f[1], f[2]) PROVE ScratchSuffices'
  BY <1>1, <1>2 DEF Load, NoPlan, Plan
<1>3. ASSUME NEW w \in Weights, NEW d \in DTypes, matvec(w, d) PROVE ScratchSuffices'
  BY <1>1, <1>3 DEF matvec, Plan
<1>4. ASSUME NEW rows \in RowCounts, GdnChunk(rows) \/ Elementwises(rows) \/ Route(rows)
      PROVE  ScratchSuffices'
  <2>1. CASE GdnChunk(rows)
    BY <2>1, TileScratch DEF GdnChunk
  <2>2. CASE Elementwises(rows) \/ Route(rows)
    BY <1>1, <2>2 DEF Elementwises, Route, Plan
  <2> QED
    BY <1>4, <2>1, <2>2
<1>5. ASSUME GdnToken PROVE ScratchSuffices'
  BY <1>1, <1>5 DEF GdnToken, Plan
<1>6. ASSUME NEW window \in Windows, Evict(window) PROVE ScratchSuffices'
  BY <1>1, <1>6 DEF Evict, Plan
<1>7. ASSUME UNCHANGED vars PROVE (LargestReduction => ScratchSuffices)'
  BY <1>7 DEF vars, LargestReduction, ScratchSuffices, Capacity, MmqDim, S
<1> QED
  BY <1>2, <1>3, <1>4, <1>5, <1>6, <1>7, ProductScratch, DecodeScratch, ChunkScratch DEF Next

(***************************************************************************)
(* For every model the loader accepts, every row count and every depth:    *)
(* the partial results of split attention and split products, the tiles of *)
(* the recurrence and the codes of the MMQ kernels fit the buffers their   *)
(* constructors made, if the comment of chunk_scratch.rs:93 is right that  *)
(* no such product reduces over more than mmq_dim columns.  It is not for  *)
(* the attention output of some models, which is what run mmq_scratch      *)
(* shows; every other buffer suffices without it.                          *)
(***************************************************************************)
THEOREM ScratchSufficesIfLargest == Spec => [](LargestReduction => ScratchSuffices)
<1>1. Init => Widths /\ DispatchInv /\ (LargestReduction => ScratchSuffices)
  BY DEF Init, DispatchInv, Widths, WholeReduction, ScratchSuffices, NoPlan, NoUses, Plan
<1>2. DispatchInv /\ (LargestReduction => ScratchSuffices) /\ [Next]_vars =>
        DispatchInv' /\ (LargestReduction => ScratchSuffices)'
  BY DispatchStep, ScratchStep DEF DispatchInv
<1> QED
  BY <1>1, <1>2, PTL DEF Spec

-----------------------------------------------------------------------------
\* With it in the configuration, no product over MMQ kernels is too wide.
Narrow == (mmq /\ c # Unloadable => NoWiderReduction(c)) /\ LargestReduction

\* A weight the MMQ kernels may be chosen for reduces over one of four widths.
LEMMA EligibleWidths ==
  ASSUME Widths, c # Unloadable, NoWiderReduction(c), NEW w \in Weights, mmq_eligible_by_name(w.name)
  PROVE  w.n <= MmqDim
<1>1. S.hidden <= MmqDim /\ S.ffn <= MmqDim /\ q_dim(S) <= MmqDim
  BY DEF Widths, MmqDim, Larger, NoWiderReduction, S
<1>2. c.arch = "qwen35moe" => c.moe["shared_ff_len"] <= MmqDim
  BY DEF MmqDim, NoWiderReduction, S
<1>3. \A q : \A v \in AttentionWeights(q) : v.n \in {S.hidden, q_dim(S)}
  BY DEF AttentionWeights, W
<1>4. \A names, ffn : \A v \in FfnWeights(names, ffn) : v.n \in {S.hidden, ffn}
  BY DEF FfnWeights, W
<1>5. \A v \in GdnWeights : v.n = S.hidden \/ v.name = "ssm_out"
  BY DEF GdnWeights, W
<1>6. \A v \in DenseFfn : v.n \in {S.hidden, S.ffn}
  BY <1>4 DEF DenseFfn
<1>7. \A v \in SharedExpert : v.n \in {S.hidden, c.moe["shared_ff_len"]}
  BY <1>4 DEF SharedExpert
<1>8. \/ w \in DenseFfn \/ w \in GdnWeights \/ \E q : w \in AttentionWeights(q)
      \/ c.arch = "qwen35moe" /\ w \in SharedExpert
  BY DEF Widths, Weights
<1>9. w.name # "ssm_out"
  BY DEF mmq_eligible_by_name
<1> QED
  BY <1>1, <1>2, <1>3, <1>5, <1>6, <1>7, <1>8, <1>9

LEMMA MmqOnlyIfEligible ==
  ASSUME NEW dtype, NEW rows, NEW m, NEW n, NEW eligible, NEW allowMicro,
         gemm(dtype, rows, m, n, eligible, allowMicro).op = "mmq"
  PROVE  mmq /\ eligible /\ gemm(dtype, rows, m, n, eligible, allowMicro).n = n
<1> DEFINE p == gemm(dtype, rows, m, n, eligible, allowMicro)
           splits == splitk_num_splits(m, n, rows, S.hidden)
<1>1. \/ mmq /\ eligible /\ p = mmq_gemm(dtype, rows, m, n)
      \/ p = splitk_gemm(rows, m, n, splits)
      \/ p = gemm_wmma_cfg(NarrowTileM, rows, m, n) \/ p = gemm_wmma_cfg(WideTileM, rows, m, n)
      \/ p = gemm_wmma_micro_cfg(rows, m, n) \/ p = gemm_scalar(rows, m, n)
  <2> HIDE DEF splits
  <2> QED
    BY DEF gemm, splits, WmmaEligible
<1>2. p.op = "mmq"
  OBVIOUS
<1> HIDE DEF p, splits
<1>3. \A t : gemm_wmma_cfg(t, rows, m, n).op = "wmma"
  BY DEF gemm_wmma_cfg, Plan
<1>4. /\ splitk_gemm(rows, m, n, splits).op = "splitk"
      /\ gemm_wmma_micro_cfg(rows, m, n).op = "micro" /\ gemm_scalar(rows, m, n).op = "scalar"
  BY DEF splitk_gemm, gemm_wmma_micro_cfg, gemm_scalar, Plan
<1>5. mmq /\ eligible /\ p = mmq_gemm(dtype, rows, m, n)
  BY <1>1, <1>2, <1>3, <1>4
<1>6. mmq_gemm(dtype, rows, m, n).n = n
  BY DEF mmq_gemm, Plan
<1> QED
  BY <1>5, <1>6 DEF p

LEMMA NarrowStep ==
  ASSUME CheckpointsFit, DispatchInv, Narrow, [Next]_vars
  PROVE  Narrow'
<1>1. ASSUME c' = c, mmq' = mmq, plan'.op # "mmq" PROVE Narrow'
  BY <1>1 DEF Narrow, LargestReduction
<1>2. ASSUME NEW f \in Files, Load(f[1], f[2]) PROVE Narrow'
  BY <1>2 DEF Load, CheckpointsFit, Narrow, LargestReduction, NoPlan, Plan
<1>3. ASSUME NEW w \in Weights, NEW d \in DTypes, matvec(w, d) PROVE Narrow'
  BY <1>1, <1>3 DEF matvec, Plan
<1>4. ASSUME NEW w \in Weights, NEW d \in DTypes, NEW rows \in RowCounts, matmul(w, d, rows)
      PROVE  Narrow'
  <2>1. c' = c /\ mmq' = mmq /\ c # Unloadable /\ plan' = Matmul(w, d, rows)
    BY <1>4 DEF matmul
  <2>2. CASE Loaded(d, w.n) = "F16"
    <3>1. plan'.op = "f16"
      BY <2>1, <2>2 DEF Matmul, Plan
    <3> QED
      BY <1>1, <2>1, <3>1
  <2>3. CASE Loaded(d, w.n) # "F16"
    <3> DEFINE named == mmq_eligible_by_name(w.name)
               micro == FALSE
               p == gemm(d, rows, w.m, w.n, named, micro)
    <3>1. plan' = p
      BY <2>1, <2>3 DEF Matmul
    <3>2. CASE p.op = "mmq"
      <4>1. mmq /\ named /\ p.n = w.n
        <5> HIDE DEF named, micro
        <5> QED
          BY <3>2, MmqOnlyIfEligible
      <4>2. NoWiderReduction(c)
        BY <2>1, <4>1 DEF Narrow
      <4>3. w.n <= MmqDim
        BY <2>1, <4>1, <4>2, EligibleWidths DEF DispatchInv
      <4>4. MmqDim' = MmqDim
        BY <2>1 DEF MmqDim, S
      <4> HIDE DEF p
      <4> QED
        BY <2>1, <3>1, <4>1, <4>3, <4>4 DEF Narrow, LargestReduction
    <3>3. CASE p.op # "mmq"
      <4> HIDE DEF p
      <4> QED
        BY <1>1, <2>1, <3>1, <3>3
    <3> QED
      BY <3>2, <3>3
  <2> QED
    BY <2>2, <2>3
<1>5. ASSUME NEW w \in ExpertWeights, NEW d \in DTypes, NEW rows \in RowCounts, ExpertGroup(w, d, rows)
      PROVE  Narrow'
  <2> DEFINE byName == FALSE
             micro == TRUE
             p == gemm(d, rows, w.m, w.n, byName, micro)
  <2>1. w.n \in Int /\ w.m \in Int /\ Loaded(d, w.n) # "F16" /\ c' = c /\ mmq' = mmq
    BY <1>5, WeightWidths DEF ExpertGroup, DispatchInv
  <2>2. PICK l : plan' = [p EXCEPT !.launches = l]
    BY <1>5 DEF ExpertGroup
  <2>3. ~ byName
    OBVIOUS
  <2> HIDE DEF byName, micro
  <2>4. PICK op, launches, uses : p = Plan(op, launches, uses, w.n, w.n)
    BY <2>1, GemmReducesAll
  <2>5. p.op # "mmq"
    BY <2>3, MmqOnlyIfEligible
  <2>6. plan'.op = p.op
    <3> HIDE DEF p
    <3> QED
      BY <2>2, <2>4 DEF Plan
  <2> QED
    BY <1>1, <2>1, <2>5, <2>6
<1>6. ASSUME NEW depth \in Depths, NEW plane \in Planes, DecodeAttention(depth, plane) PROVE Narrow'
  BY <1>1, <1>6 DEF DecodeAttention, Plan
<1>7. ASSUME NEW depth \in Depths, NEW rows \in RowCounts, NEW plane \in Planes,
             ChunkAttention(depth, rows, plane)
      PROVE Narrow'
  BY <1>1, <1>7 DEF ChunkAttention, Plan
<1>8. ASSUME NEW rows \in RowCounts, GdnChunk(rows) \/ Elementwises(rows) \/ Route(rows)
      PROVE Narrow'
  BY <1>1, <1>8 DEF GdnChunk, Elementwises, Route, Plan
<1>9. ASSUME GdnToken PROVE Narrow'
  BY <1>1, <1>9 DEF GdnToken, Plan
<1>10. ASSUME NEW window \in Windows, Evict(window) PROVE Narrow'
  BY <1>1, <1>10 DEF Evict, Plan
<1>11. ASSUME UNCHANGED vars PROVE Narrow'
  BY <1>11 DEF vars, Narrow, LargestReduction, MmqDim, S
<1> QED
  BY <1>2, <1>3, <1>4, <1>5, <1>6, <1>7, <1>8, <1>9, <1>10, <1>11 DEF Next

(***************************************************************************)
(* Stated of the checkpoints instead of the states: if none that is loaded *)
(* with the MMQ kernels on has an attention output or a shared expert      *)
(* wider than mmq_dim, every buffer of the scratch suffices.  The dense    *)
(* and hybrid checkpoints of run kernels are such, the mixture of experts  *)
(* is not.                                                                 *)
(***************************************************************************)
THEOREM ScratchSufficesForCheckpoints == CheckpointsFit => (Spec => []ScratchSuffices)
<1>1. Init => DispatchInv /\ Narrow /\ (LargestReduction => ScratchSuffices)
  BY DEF Init, DispatchInv, Widths, WholeReduction, Narrow, LargestReduction, ScratchSuffices,
         NoPlan, NoUses, Plan
<1>2. CheckpointsFit /\ DispatchInv /\ Narrow /\ (LargestReduction => ScratchSuffices) /\ [Next]_vars =>
        DispatchInv' /\ Narrow' /\ (LargestReduction => ScratchSuffices)'
  BY DispatchStep, ScratchStep, NarrowStep DEF DispatchInv
<1>3. Narrow /\ (LargestReduction => ScratchSuffices) => ScratchSuffices
  BY DEF Narrow
<1>4. CheckpointsFit => []CheckpointsFit
  OBVIOUS
<1> QED
  BY <1>1, <1>2, <1>3, <1>4, PTL DEF Spec

-----------------------------------------------------------------------------
\* The launches one by one.  A count is a whole number that is not zero.
Positive == Nat \ {0}
Legal(n) == Accepted(n) /\ Covers(n)
Axis(g, w) == g \in Positive /\ g * w[2] >= w[1] /\ (g - 1) * w[2] < w[1]

LEMMA PositiveProduct ==
  ASSUME NEW a \in Positive, NEW b \in Positive
  PROVE  a * b \in Positive
BY SMTT(30) DEF Positive

LEMMA AxisOne == Axis(1, OneBlock)
BY DEF Axis, OneBlock, Positive

LEMMA AxisEach ==
  ASSUME NEW x \in Positive
  PROVE  Axis(x, <<x, 1>>)
BY DEF Axis, Positive

LEMMA AxisCeil ==
  ASSUME NEW a \in Positive, NEW b \in Positive
  PROVE  Axis(CeilDiv(a, b), <<a, b>>) /\ CeilDiv(a, b) <= a
<1> DEFINE k == CeilDiv(a, b)
<1>1. k \in Nat /\ b * k >= a /\ b * k < a + b
  BY CeilDivBounds DEF Positive
<1> HIDE DEF k
<1>2. k * b = b * k /\ (k - 1) * b = b * k - b
  BY <1>1, SMTT(30) DEF Positive
<1>3. k # 0
  BY <1>1 DEF Positive
<1>4. k <= a
  <2>1. SUFFICES ASSUME k >= a + 1 PROVE FALSE
    BY <1>1 DEF Positive
  <2>2. b * (k - 1) >= k - 1
    BY <1>1, <2>1, SMTT(30) DEF Positive
  <2>3. b * (k - 1) = b * k - b
    BY <1>1, SMTT(30) DEF Positive
  <2> QED
    BY <1>1, <2>1, <2>2, <2>3 DEF Positive
<1> QED
  BY <1>1, <1>2, <1>3, <1>4 DEF Axis, Positive, k

\* The same of rows, of which there are no more than a grid's second axis takes.
LEMMA AxisRows ==
  ASSUME NEW a \in Positive, a <= MaxGridYZ, NEW b \in Positive
  PROVE  Axis(CeilDiv(a, b), <<a, b>>) /\ CeilDiv(a, b) <= MaxGridYZ
<1>1. CeilDiv(a, b) \in Nat
  BY CeilDivNatural DEF Positive
<1>2. Axis(CeilDiv(a, b), <<a, b>>) /\ CeilDiv(a, b) <= a
  BY AxisCeil
<1> QED
  BY <1>1, <1>2, DeviceAssumption DEF Positive

LEMMA LegalLaunch ==
  ASSUME NEW gx, NEW gy, NEW gz, NEW wx, NEW wy, NEW wz,
         Axis(gx, wx), Axis(gy, wy), Axis(gz, wz), gy <= MaxGridYZ, gz <= MaxGridYZ,
         NEW bx, NEW by, NEW bz, bx * by * bz \in 1..MaxThreads,
         NEW shared, shared <= MaxShared
  PROVE  Legal(Launch(<<gx, gy, gz>>, <<bx, by, bz>>, shared, <<wx, wy, wz>>))
<1> DEFINE n == Launch(<<gx, gy, gz>>, <<bx, by, bz>>, shared, <<wx, wy, wz>>)
<1>1. /\ n.grid[1] = gx /\ n.grid[2] = gy /\ n.grid[3] = gz /\ n.shared = shared
      /\ n.work[1] = wx /\ n.work[2] = wy /\ n.work[3] = wz
      /\ Threads(n) = bx * by * bz
  BY DEF Launch, Threads
<1> HIDE DEF n
<1>2. Covers(n)
  BY <1>1 DEF Covers, Axis
<1>3. Accepted(n)
  BY <1>1 DEF Accepted, Axis, Positive
<1> QED
  BY <1>2, <1>3 DEF Legal, n

LEMMA ElementwiseLegal ==
  ASSUME NEW x \in Positive
  PROVE  Legal(Elementwise(x))
<1>1. Axis(CeilDiv(x, 256), <<x, 256>>)
  BY AxisCeil DEF Positive
<1>2. 256 * 1 * 1 \in 1..MaxThreads /\ 0 <= MaxShared /\ 1 <= MaxGridYZ
  BY DeviceAssumption
<1> QED
  BY <1>1, <1>2, AxisOne, LegalLaunch DEF Elementwise, LinearBlock

LEMMA PerRowLegal ==
  ASSUME NEW x \in Positive
  PROVE  Legal(PerRow(x, ReduceBlock * F32))
<1>1. 128 * 1 * 1 \in 1..MaxThreads /\ ReduceBlock * F32 <= MaxShared /\ 1 <= MaxGridYZ
  BY DeviceAssumption DEF ReduceBlock, F32
<1> QED
  BY <1>1, AxisOne, AxisEach, LegalLaunch DEF PerRow, ReduceBlock

\* A list of launches each of which is legal.
LegalList(s) == (\E X : s \in Seq(X)) /\ \A i \in 1..Len(s) : Legal(s[i])

LEMMA LegalListDomain ==
  ASSUME NEW s, LegalList(s), NEW i \in DOMAIN s
  PROVE  Legal(s[i])
BY DEF LegalList

LEMMA LegalListAppend ==
  ASSUME NEW s, NEW t, LegalList(s), LegalList(t)
  PROVE  LegalList(s \o t)
<1>1. PICK X : s \in Seq(X)
  BY DEF LegalList
<1>2. PICK Y : t \in Seq(Y)
  BY DEF LegalList
<1>3. s \in Seq(X \union Y) /\ t \in Seq(X \union Y)
  BY <1>1, <1>2
<1>4. s \o t \in Seq(X \union Y) /\ Len(s \o t) = Len(s) + Len(t)
  BY <1>3
<1>5. ASSUME NEW i \in 1..Len(s \o t) PROVE Legal((s \o t)[i])
  <2>1. CASE i <= Len(s)
    <3>1. i \in 1..Len(s) /\ (s \o t)[i] = s[i]
      BY <1>3, <1>4, <1>5, <2>1
    <3> QED
      BY <3>1 DEF LegalList
  <2>2. CASE i > Len(s)
    <3>1. i - Len(s) \in 1..Len(t) /\ (s \o t)[i] = t[i - Len(s)]
      BY <1>3, <1>4, <1>5, <2>2
    <3> QED
      BY <3>1 DEF LegalList
  <2> QED
    BY <1>3, <1>4, <1>5, <2>1, <2>2
<1> QED
  BY <1>4, <1>5 DEF LegalList

LEMMA LegalOne ==
  ASSUME NEW a,
         Legal(a)
  PROVE  LegalList(<<a>>)
<1> DEFINE s == <<a>>
<1>1. s \in Seq({a}) /\ Len(s) = 1
  OBVIOUS
<1>2. s[1] = a
  OBVIOUS
<1> HIDE DEF s
<1>3. \A i \in 1..1 : i \in {1}
  OBVIOUS
<1>4. LegalList(s)
  BY <1>1, <1>2, <1>3 DEF LegalList
<1> QED
  BY <1>4 DEF s

LEMMA LegalTwo ==
  ASSUME NEW a, NEW b,
         Legal(a), Legal(b)
  PROVE  LegalList(<<a, b>>)
<1> DEFINE s == <<a, b>>
<1>1. s \in Seq({a, b}) /\ Len(s) = 2
  OBVIOUS
<1>2. s[1] = a /\ s[2] = b
  OBVIOUS
<1> HIDE DEF s
<1>3. \A i \in 1..2 : i \in {1, 2}
  OBVIOUS
<1>4. LegalList(s)
  BY <1>1, <1>2, <1>3 DEF LegalList
<1> QED
  BY <1>4 DEF s

LEMMA LegalThree ==
  ASSUME NEW a, NEW b, NEW d,
         Legal(a), Legal(b), Legal(d)
  PROVE  LegalList(<<a, b, d>>)
<1> DEFINE s == <<a, b, d>>
<1>1. s \in Seq({a, b, d}) /\ Len(s) = 3
  OBVIOUS
<1>2. s[1] = a /\ s[2] = b /\ s[3] = d
  OBVIOUS
<1> HIDE DEF s
<1>3. \A i \in 1..3 : i \in {1, 2, 3}
  OBVIOUS
<1>4. LegalList(s)
  BY <1>1, <1>2, <1>3 DEF LegalList
<1> QED
  BY <1>4 DEF s

LEMMA LegalFour ==
  ASSUME NEW a, NEW b, NEW d, NEW e,
         Legal(a), Legal(b), Legal(d), Legal(e)
  PROVE  LegalList(<<a, b, d, e>>)
<1> DEFINE s == <<a, b, d, e>>
<1>1. s \in Seq({a, b, d, e}) /\ Len(s) = 4
  OBVIOUS
<1>2. s[1] = a /\ s[2] = b /\ s[3] = d /\ s[4] = e
  OBVIOUS
<1> HIDE DEF s
<1>3. \A i \in 1..4 : i \in {1, 2, 3, 4}
  OBVIOUS
<1>4. LegalList(s)
  BY <1>1, <1>2, <1>3 DEF LegalList
<1> QED
  BY <1>4 DEF s

LEMMA LegalSeven ==
  ASSUME NEW a, NEW b, NEW d, NEW e, NEW f, NEW g, NEW h,
         Legal(a), Legal(b), Legal(d), Legal(e), Legal(f), Legal(g), Legal(h)
  PROVE  LegalList(<<a, b, d, e, f, g, h>>)
<1> DEFINE s == <<a, b, d, e, f, g, h>>
<1>1. s \in Seq({a, b, d, e, f, g, h}) /\ Len(s) = 7
  OBVIOUS
<1>2. s[1] = a /\ s[2] = b /\ s[3] = d /\ s[4] = e /\ s[5] = f /\ s[6] = g /\ s[7] = h
  OBVIOUS
<1> HIDE DEF s
<1>3. \A i \in 1..7 : i \in {1, 2, 3, 4, 5, 6, 7}
  OBVIOUS
<1>4. LegalList(s)
  BY <1>1, <1>2, <1>3 DEF LegalList
<1> QED
  BY <1>4 DEF s

LEMMA LegalEight ==
  ASSUME NEW a, NEW b, NEW d, NEW e, NEW f, NEW g, NEW h, NEW k,
         Legal(a), Legal(b), Legal(d), Legal(e), Legal(f), Legal(g), Legal(h), Legal(k)
  PROVE  LegalList(<<a, b, d, e, f, g, h, k>>)
<1> DEFINE s == <<a, b, d, e, f, g, h, k>>
<1>1. s \in Seq({a, b, d, e, f, g, h, k}) /\ Len(s) = 8
  OBVIOUS
<1>2. s[1] = a /\ s[2] = b /\ s[3] = d /\ s[4] = e /\ s[5] = f /\ s[6] = g /\ s[7] = h /\ s[8] = k
  OBVIOUS
<1> HIDE DEF s
<1>3. \A i \in 1..8 : i \in {1, 2, 3, 4, 5, 6, 7, 8}
  OBVIOUS
<1>4. LegalList(s)
  BY <1>1, <1>2, <1>3 DEF LegalList
<1> QED
  BY <1>4 DEF s

-----------------------------------------------------------------------------
\* The products: each kernel gemm may choose.
LEMMA StagesFit ==
  /\ StageBytes(TileRows, NarrowTileM) <= MaxShared /\ StageBytes(TileRows, WideTileM) <= MaxShared
  /\ StageBytes(16, 64) <= MaxShared
BY DeviceAssumption DEF StageBytes, TileRows, NarrowTileM, WideTileM, KStage

LEMMA ScalarLegal ==
  ASSUME NEW rows \in Positive, rows <= MaxGridYZ, NEW m \in Positive, NEW n
  PROVE  LegalList(gemm_scalar(rows, m, n).launches)
<1> DEFINE one == Launch(<<m, CeilDiv(rows, 64), 1>>, <<32, 8, 1>>, 256 * F32,
                         <<<<m, 1>>, <<rows, 64>>, OneBlock>>)
<1>1. Axis(CeilDiv(rows, 64), <<rows, 64>>) /\ CeilDiv(rows, 64) <= MaxGridYZ
  <2>1. 64 \in Positive
    BY DEF Positive
  <2> QED
    BY <2>1, AxisRows
<1>2. 32 * 8 * 1 \in 1..MaxThreads /\ 256 * F32 <= MaxShared /\ 1 <= MaxGridYZ
  BY DeviceAssumption DEF F32
<1>3. Legal(one)
  BY <1>1, <1>2, AxisOne, AxisEach, LegalLaunch
<1>4. gemm_scalar(rows, m, n).launches = <<one>>
  BY DEF gemm_scalar, Plan
<1> HIDE DEF one
<1> QED
  BY <1>3, <1>4, LegalOne

LEMMA WmmaLegal ==
  ASSUME NEW t \in {NarrowTileM, WideTileM},
         NEW rows \in Positive, rows <= MaxGridYZ, NEW m \in Positive, NEW n
  PROVE  LegalList(gemm_wmma_cfg(t, rows, m, n).launches)
<1> DEFINE one == Launch(<<CeilDiv(m, t), CeilDiv(rows, TileRows), 1>>, <<32, 16, 1>>,
                         StageBytes(TileRows, t), <<<<m, t>>, <<rows, TileRows>>, OneBlock>>)
<1>1. t \in Positive /\ TileRows \in Positive
  BY DEF Positive, NarrowTileM, WideTileM, TileRows
<1>2. CeilDiv(rows, TileRows) \in Nat
  BY <1>1, CeilDivNatural DEF Positive
<1>3. /\ Axis(CeilDiv(m, t), <<m, t>>) /\ Axis(CeilDiv(rows, TileRows), <<rows, TileRows>>)
      /\ CeilDiv(rows, TileRows) <= rows
  BY <1>1, AxisCeil
<1>4. CeilDiv(rows, TileRows) <= MaxGridYZ
  BY <1>2, <1>3, DeviceAssumption DEF Positive
<1>5. 32 * 16 * 1 \in 1..MaxThreads /\ StageBytes(TileRows, t) <= MaxShared /\ 1 <= MaxGridYZ
  BY DeviceAssumption, StagesFit
<1>6. Legal(one)
  BY <1>3, <1>4, <1>5, AxisOne, LegalLaunch
<1>7. gemm_wmma_cfg(t, rows, m, n).launches = <<one>>
  BY DEF gemm_wmma_cfg, Plan
<1> HIDE DEF one
<1> QED
  BY <1>6, <1>7, LegalOne

LEMMA MicroLegal ==
  ASSUME NEW rows \in Positive, rows <= MaxGridYZ, NEW m \in Positive, NEW n
  PROVE  LegalList(gemm_wmma_micro_cfg(rows, m, n).launches)
<1> DEFINE one == Launch(<<CeilDiv(m, 64), CeilDiv(rows, 16), 1>>, <<32, 4, 1>>, StageBytes(16, 64),
                         <<<<m, 64>>, <<rows, 16>>, OneBlock>>)
<1>1. Axis(CeilDiv(m, 64), <<m, 64>>)
  BY AxisCeil DEF Positive
<1>2. Axis(CeilDiv(rows, 16), <<rows, 16>>) /\ CeilDiv(rows, 16) <= MaxGridYZ
  <2>1. 16 \in Positive
    BY DEF Positive
  <2> QED
    BY <2>1, AxisRows
<1>3. 32 * 4 * 1 \in 1..MaxThreads /\ 1 <= MaxGridYZ
  BY DeviceAssumption
<1>4. Legal(one)
  BY <1>1, <1>2, <1>3, AxisOne, StagesFit, LegalLaunch
<1>5. gemm_wmma_micro_cfg(rows, m, n).launches = <<one>>
  BY DEF gemm_wmma_micro_cfg, Plan
<1> HIDE DEF one
<1> QED
  BY <1>4, <1>5, LegalOne

LEMMA SplitkLegal ==
  ASSUME NEW rows \in Positive, rows <= MaxGridYZ, NEW m \in Positive, NEW n, NEW splits \in {2, 4}
  PROVE  LegalList(splitk_gemm(rows, m, n, splits).launches)
<1> DEFINE one == Launch(<<CeilDiv(m, WideTileM), CeilDiv(rows, TileRows), splits>>, <<32, 16, 1>>,
                         StageBytes(TileRows, WideTileM),
                         <<<<m, WideTileM>>, <<rows, TileRows>>, <<splits, 1>>>>)
           two == Elementwise(rows * m)
<1>1. WideTileM \in Positive /\ TileRows \in Positive /\ splits \in Positive
  BY DEF Positive, WideTileM, TileRows
<1>2. CeilDiv(rows, TileRows) \in Nat
  BY <1>1, CeilDivNatural DEF Positive
<1>3. /\ Axis(CeilDiv(m, WideTileM), <<m, WideTileM>>) /\ Axis(splits, <<splits, 1>>)
      /\ Axis(CeilDiv(rows, TileRows), <<rows, TileRows>>) /\ CeilDiv(rows, TileRows) <= rows
  BY <1>1, AxisCeil, AxisEach
<1>4. CeilDiv(rows, TileRows) <= MaxGridYZ /\ splits <= MaxGridYZ
  BY <1>2, <1>3, DeviceAssumption DEF Positive
<1>5. 32 * 16 * 1 \in 1..MaxThreads
  BY DeviceAssumption
<1>6. Legal(one)
  BY <1>3, <1>4, <1>5, StagesFit, LegalLaunch
<1>7. Legal(two)
  BY PositiveProduct, ElementwiseLegal
<1>8. splitk_gemm(rows, m, n, splits).launches = <<one, two>>
  BY DEF splitk_gemm, Plan
<1> HIDE DEF one, two
<1> QED
  BY <1>6, <1>7, <1>8, LegalTwo

LEMMA MmqLegal ==
  ASSUME NEW dtype, mmq_supports(dtype),
         NEW rows \in Positive, rows <= MaxGridYZ, NEW m \in Positive, NEW n \in Positive, n >= 32
  PROVE  LegalList(mmq_gemm(dtype, rows, m, n).launches)
<1> DEFINE blocks == rows * (n \div 32)
           one == Launch(<<CeilDiv(blocks, 8), 1, 1>>, <<32, 8, 1>>, 0,
                         <<<<blocks, 8>>, OneBlock, OneBlock>>)
           two == Launch(<<CeilDiv(m, 64), CeilDiv(rows, 128), 1>>, <<32, 16, 1>>, MmqShared(dtype),
                         <<<<m, 64>>, <<rows, 128>>, OneBlock>>)
<1>1. blocks \in Positive
  <2>1. n \div 32 \in Positive
    BY DEF Positive
  <2> QED
    BY <2>1, PositiveProduct
<1>2. mmq_gemm(dtype, rows, m, n).launches = <<one, two>>
  BY DEF mmq_gemm, Plan
<1> HIDE DEF blocks
<1>3. Axis(CeilDiv(blocks, 8), <<blocks, 8>>) /\ Axis(CeilDiv(m, 64), <<m, 64>>)
  BY <1>1, AxisCeil DEF Positive
<1>4. Axis(CeilDiv(rows, 128), <<rows, 128>>) /\ CeilDiv(rows, 128) <= MaxGridYZ
  <2>1. 128 \in Positive
    BY DEF Positive
  <2> QED
    BY <2>1, AxisRows
<1>5. MmqShared(dtype) <= MaxShared
  BY DeviceAssumption DEF MmqShared, mmq_supports, F32
<1>6. 32 * 8 * 1 \in 1..MaxThreads /\ 32 * 16 * 1 \in 1..MaxThreads /\ 0 <= MaxShared /\ 1 <= MaxGridYZ
  BY DeviceAssumption
<1>7. Legal(one)
  BY <1>3, <1>6, AxisOne, LegalLaunch
<1>8. Legal(two)
  BY <1>3, <1>4, <1>5, <1>6, AxisOne, LegalLaunch
<1> HIDE DEF one, two
<1> QED
  BY <1>2, <1>7, <1>8, LegalTwo

LEMMA GemmLegal ==
  ASSUME NEW dtype, NEW rows \in Positive, rows <= MaxGridYZ,
         NEW m \in Positive, NEW n \in Positive, NEW eligible, NEW allowMicro,
         Loaded(dtype, n) # "F16"
  PROVE  LegalList(gemm(dtype, rows, m, n, eligible, allowMicro).launches)
<1> DEFINE p == gemm(dtype, rows, m, n, eligible, allowMicro)
           splits == splitk_num_splits(m, n, rows, S.hidden)
<1>1. \/ p = mmq_gemm(dtype, rows, m, n) /\ mmq_supports(dtype)
      \/ p = splitk_gemm(rows, m, n, splits) /\ splits > 1
      \/ \E t \in {NarrowTileM, WideTileM} : p = gemm_wmma_cfg(t, rows, m, n)
      \/ p = gemm_wmma_micro_cfg(rows, m, n) \/ p = gemm_scalar(rows, m, n)
  <2> HIDE DEF splits
  <2> QED
    BY DEF gemm, splits
<1>2. splits > 1 => splits \in {2, 4}
  BY DEF splitk_num_splits
<1>3. mmq_supports(dtype) => n >= 32
  <2>1. mmq_supports(dtype) => n % 32 = 0 \/ n % 256 = 0
    BY DEF Loaded, quant_block_elems, mmq_supports
  <2> QED
    BY <2>1 DEF Positive
<1> HIDE DEF p, splits
<1>4. LegalList(p.launches)
  BY <1>1, <1>2, <1>3, MmqLegal, SplitkLegal, WmmaLegal, MicroLegal, ScalarLegal
<1> QED
  BY <1>4 DEF p

LEMMA MatvecLegal ==
  ASSUME NEW dtype, NEW n, NEW m \in Positive
  PROVE  Legal(Matvec(dtype, n, m))
<1>1. Axis(CeilDiv(m, 2), <<m, 2>>)
  BY AxisCeil DEF Positive
<1>2. 128 * 1 * 1 \in 1..MaxThreads /\ ReduceBlock * GemvRowsPerWg * F32 <= MaxShared /\ 1 <= MaxGridYZ
  BY DeviceAssumption DEF ReduceBlock, GemvRowsPerWg, F32
<1>3. Legal(gemv_quant(m))
  BY <1>1, <1>2, AxisOne, LegalLaunch DEF gemv_quant, GemvRowsPerWg, ReduceBlock
<1> QED
  BY <1>3, PerRowLegal DEF Matvec, gemv, gemv_f16

\* The products of sixteen rows and columns a block.
LEMMA SixteenLegal ==
  ASSUME NEW rows \in Positive, rows <= MaxGridYZ, NEW m \in Positive
  PROVE  Legal(gemm_xwt_f16(rows, m)) /\ Legal(gemm_xwt_f32(rows, m))
<1>1. Axis(CeilDiv(m, 16), <<m, 16>>)
  BY AxisCeil DEF Positive
<1>2. Axis(CeilDiv(rows, 16), <<rows, 16>>) /\ CeilDiv(rows, 16) <= MaxGridYZ
  <2>1. 16 \in Positive
    BY DEF Positive
  <2> QED
    BY <2>1, AxisRows
<1>3. 16 * 16 * 1 \in 1..MaxThreads /\ 0 <= MaxShared /\ 1 <= MaxGridYZ
  BY DeviceAssumption
<1> QED
  BY <1>1, <1>2, <1>3, AxisOne, LegalLaunch DEF gemm_xwt_f16, gemm_xwt_f32

-----------------------------------------------------------------------------
\* What from_gguf makes sure of: no size a grid is made from is zero.
Sizes ==
  c # Unloadable =>
    /\ c.arch \in {"qwen3", "qwen35", "qwen35moe"}
    /\ S.hidden \in Positive /\ S.ffn \in Positive
    /\ S.heads \in Positive /\ S.kvHeads \in Positive /\ S.headDim \in Positive
    /\ S.heads \div S.kvHeads \in Positive
    /\ c.arch = "qwen3" => S.headDim \div 2 \in Positive
    /\ c.arch # "qwen3" =>
         /\ c.ropeDim \div 2 \in Positive /\ c.gdn.vHeads \in Positive /\ c.gdn.headV \in Positive
         /\ c.gdn.valueDim \in Positive /\ c.gdn.convDim \in Positive /\ c.gdn.headK \in Positive
    /\ c.arch = "qwen35moe" =>
         /\ c.moe["shared_ff_len"] \in Positive /\ c.moe["expert_ff_len"] \in Positive
         /\ c.moe["expert_count"] \in Positive
    /\ Launchable(c)

LEMMA ExactQuotient ==
  ASSUME NEW a \in Positive, NEW b \in Positive, a % b = 0
  PROVE  a \div b \in Positive
<1>1. a \div b \in Nat /\ a = b * (a \div b)
  BY SMTT(30) DEF Positive
<1> DEFINE k == a \div b
<1>2. k # 0
  BY <1>1, SMTT(30) DEF Positive
<1> QED
  BY <1>1, <1>2 DEF Positive

LEMMA LoadedSizes ==
  ASSUME ShapesAreLaunchable, NEW f \in Files, Loads(f[1]), c' = from_gguf(f[1])
  PROVE  Sizes'
<1> DEFINE g == f[1]
           moe == g["arch"] = "qwen35moe"
<1>1. /\ \A k \in DOMAIN g \ {"arch", "ssm_a"} : g[k] \in Nat
      /\ from_gguf(g) # Unloadable
  BY DispatchAssumption DEF Loads
<1>2. Launchable(c')
  BY DEF ShapesAreLaunchable
<1> HIDE DEF g
<1>3. c' = from_gguf(g)
  BY DEF g
<1>4. /\ \A k \in CommonKeys \ {"arch"} : k \in DOMAIN g => g[k] \in Nat
      /\ "feed_forward_length" \in DOMAIN g => g["feed_forward_length"] \in Nat
      /\ \A k \in SsmKeys \union MoeKeys : k \in DOMAIN g => g[k] \in Nat
  BY <1>1 DEF MoeKeys, SsmKeys, CommonKeys
<1>5. ASSUME CommonKeys \subseteq DOMAIN g, AttentionOk(g)
      PROVE  /\ g["embedding_length"] \in Positive /\ g["head_count"] \in Positive
             /\ g["head_count_kv"] \in Positive /\ g["key_length"] \in Positive
             /\ g["head_count"] \div g["head_count_kv"] \in Positive
  <2>1. /\ g["embedding_length"] \in Positive /\ g["head_count"] \in Positive
        /\ g["head_count_kv"] \in Positive /\ g["key_length"] \in Positive
        /\ g["head_count"] % g["head_count_kv"] = 0
    BY <1>4, <1>5 DEF CommonKeys, AttentionOk, Positive
  <2> QED
    BY <2>1, ExactQuotient
<1>6. CASE g["arch"] = "qwen3"
  <2>1. /\ c' = [arch |-> "qwen3", shape |-> Shape(g, g["feed_forward_length"], g["block_count"])]
        /\ Keys("qwen3") \subseteq DOMAIN g /\ AttentionOk(g)
        /\ g["feed_forward_length"] # 0 /\ g["key_length"] % 2 = 0
    BY <1>1, <1>3, <1>6 DEF from_gguf, DenseConfig
  <2>2. CommonKeys \subseteq DOMAIN g /\ g["feed_forward_length"] \in Positive
    BY <1>4, <2>1 DEF Keys, Positive
  <2>3. g["key_length"] \div 2 \in Positive
    BY <1>5, <2>1, <2>2 DEF Positive
  <2>4. c'.arch = "qwen3" /\ c'.shape = Shape(g, g["feed_forward_length"], g["block_count"])
    BY <2>1
  <2> QED
    BY <1>2, <1>5, <2>1, <2>2, <2>3, <2>4 DEF Sizes, S, Shape
<1>7. CASE g["arch"] \in {"qwen35", "qwen35moe"}
  <2> DEFINE ffn == IF moe THEN g["expert_ff_len"] ELSE g["feed_forward_length"]
             headV == g["inner_size"] \div g["time_step_rank"]
             keyDim == g["group_count"] * g["state_size"]
  <2>1. c' = HybridConfig(g) /\ HybridConfig(g) # Unloadable
    BY <1>1, <1>3, <1>7 DEF from_gguf
  <2>2. /\ Keys(g["arch"]) \subseteq DOMAIN g /\ SsmOk(g) /\ AttentionOk(g) /\ ffn # 0
        /\ moe => MoeOk(g)
        /\ g["rope_dim"] \in 1..g["key_length"] /\ g["rope_dim"] % 2 = 0
        /\ c' = [arch |-> g["arch"], shape |-> Shape(g, ffn, main_block_count(g)),
                 kinds |-> LayerKinds(g), gdn |-> GdnConfig(g), ropeDim |-> g["rope_dim"],
                 moe |-> IF moe THEN [k \in MoeKeys |-> g[k]] ELSE <<>>]
    BY <2>1 DEF HybridConfig
  <2>3. CommonKeys \subseteq DOMAIN g /\ SsmKeys \subseteq DOMAIN g /\ ffn \in Positive
    BY <1>4, <1>7, <2>2 DEF Keys, MoeKeys, Positive
  <2> HIDE DEF ffn
  <2>4. moe => /\ c'.moe["shared_ff_len"] \in Positive /\ c'.moe["expert_ff_len"] \in Positive
               /\ c'.moe["expert_count"] \in Positive
    BY <1>4, <2>2 DEF Keys, MoeOk, MoeKeys, Positive
  <2>5. /\ g["time_step_rank"] \in Positive /\ g["inner_size"] \in Positive
        /\ g["inner_size"] % g["time_step_rank"] = 0
        /\ g["group_count"] \in Nat /\ g["state_size"] \in Nat /\ g["rope_dim"] \in Nat
    BY <1>4, <2>2, <2>3 DEF SsmKeys, SsmOk, Positive
  <2>6. headV \in Positive
    BY <2>5, ExactQuotient
  <2>7. g["time_step_rank"] * headV \in Positive /\ keyDim \in Nat
    BY <2>5, <2>6, PositiveProduct, SMTT(30) DEF Positive
  <2>8. g["rope_dim"] \div 2 \in Positive
    BY <2>2, <2>5 DEF Positive
  <2>9. /\ c'.arch = g["arch"] /\ c'.shape = Shape(g, ffn, main_block_count(g))
        /\ c'.gdn = GdnConfig(g) /\ c'.ropeDim = g["rope_dim"]
    BY <2>2
  <2>10. /\ GdnConfig(g).vHeads = g["time_step_rank"] /\ GdnConfig(g).headV = headV
         /\ GdnConfig(g).headK = g["state_size"]
         /\ GdnConfig(g).valueDim = g["time_step_rank"] * headV
         /\ GdnConfig(g).convDim = 2 * keyDim + g["time_step_rank"] * headV
    BY DEF GdnConfig
  <2> DEFINE value == g["time_step_rank"] * headV
  <2>11. value \in Positive /\ GdnConfig(g).valueDim = value /\ GdnConfig(g).convDim = 2 * keyDim + value
    BY <2>7, <2>10
  <2> HIDE DEF value, keyDim, headV
  <2>12. /\ c'.gdn.vHeads \in Positive /\ c'.gdn.headV \in Positive
         /\ c'.gdn.valueDim \in Positive /\ c'.gdn.convDim \in Positive
    BY <2>5, <2>6, <2>7, <2>9, <2>10, <2>11 DEF Positive
  <2>13. c'.gdn.headK \in Positive
    <3>1. c'.arch # "qwen3"
      BY <1>7, <2>9
    <3>2. c'.gdn.headK \in Nat /\ c'.gdn.headK >= 1
      BY <1>2, <2>5, <2>9, <2>10, <3>1 DEF Launchable
    <3> QED
      BY <3>2 DEF Positive
  <2>14. /\ c'.shape.hidden \in Positive /\ c'.shape.ffn \in Positive
         /\ c'.shape.heads \in Positive /\ c'.shape.kvHeads \in Positive /\ c'.shape.headDim \in Positive
         /\ c'.shape.heads \div c'.shape.kvHeads \in Positive
    BY <1>5, <2>2, <2>3, <2>9 DEF Shape
  <2>15. moe <=> c'.arch = "qwen35moe"
    BY <2>9
  <2> QED
    BY <1>2, <1>7, <2>4, <2>8, <2>9, <2>12, <2>13, <2>14, <2>15 DEF Sizes, S
<1> QED
  BY <1>1, <1>6, <1>7 DEF from_gguf

LEMMA WeightSizes ==
  ASSUME Sizes, c # Unloadable
  PROVE  /\ \A w \in Weights : w.n \in Positive /\ w.m \in Positive
         /\ c.arch = "qwen35moe" => \A w \in ExpertWeights : w.n \in Positive /\ w.m \in Positive
<1>1. q_dim(S) \in Positive /\ 2 * q_dim(S) \in Positive /\ kv_dim(S) \in Positive
  <2>1. 2 \in Positive /\ S.heads \in Positive /\ S.kvHeads \in Positive /\ S.headDim \in Positive
    BY DEF Sizes, Positive
  <2>2. q_dim(S) \in Positive /\ kv_dim(S) \in Positive
    BY <2>1, PositiveProduct DEF q_dim, kv_dim
  <2> QED
    BY <2>1, <2>2, PositiveProduct
<1>2. \A q \in Positive : \A w \in AttentionWeights(q) : w.n \in Positive /\ w.m \in Positive
  BY <1>1 DEF Sizes, AttentionWeights, W
<1>3. \A names : \A ffn \in Positive : \A w \in FfnWeights(names, ffn) : w.n \in Positive /\ w.m \in Positive
  BY DEF Sizes, FfnWeights, W
<1>4. c.arch # "qwen3" => \A w \in GdnWeights : w.n \in Positive /\ w.m \in Positive
  BY DEF Sizes, GdnWeights, W
<1>5. \A w \in DenseFfn : w.n \in Positive /\ w.m \in Positive
  BY <1>3 DEF Sizes, DenseFfn
<1>6. c.arch = "qwen35moe" =>
        \A w \in SharedExpert \union ExpertWeights : w.n \in Positive /\ w.m \in Positive
  BY <1>3 DEF Sizes, SharedExpert, ExpertWeights
<1> QED
  BY <1>1, <1>2, <1>4, <1>5, <1>6 DEF Sizes, Weights

-----------------------------------------------------------------------------
\* Attention, of a token and of a chunk.
LEMMA RotateLegal ==
  ASSUME Sizes, c # Unloadable, NEW rows \in Positive
  PROVE  Legal(Rotate(rows))
<1>1. rows * S.heads \in Positive
  BY PositiveProduct DEF Sizes
<1>2. CASE c.arch = "qwen3"
  <2>1. rows * S.heads * (S.headDim \div 2) \in Positive
    BY <1>1, <1>2, PositiveProduct DEF Sizes
  <2> QED
    BY <1>2, <2>1, ElementwiseLegal DEF Rotate, rope
<1>3. CASE c.arch # "qwen3"
  <2>1. rows * S.heads * (c.ropeDim \div 2) \in Positive
    BY <1>1, <1>3, PositiveProduct DEF Sizes
  <2> QED
    BY <1>3, <2>1, ElementwiseLegal DEF Rotate, rope_partial
<1> QED
  BY <1>2, <1>3

LEMMA DecodeKernelsLegal ==
  ASSUME Sizes, c # Unloadable, NEW len \in Positive, NEW plane \in Planes
  PROVE  LegalList(DecodeKernels(plane, len))
<1> DEFINE group == S.heads \div S.kvHeads
           splits == attn_decode_splits(S.kvHeads, len)
           one == AttnPartial(S.kvHeads, group, S.headDim, len, splits)
           two == attn_decode_reduce(S.heads, S.headDim)
<1>1. DecodeKernels(plane, len) = <<one, two>>
  BY DEF DecodeKernels, Planes, attn_decode, attn_decode_f16, attn_decode_mixed
<1>2. /\ S.heads \in Positive /\ S.kvHeads \in Positive /\ S.headDim \in Positive /\ group \in Positive
      /\ 32 * group <= MaxThreads /\ S.headDim <= MaxThreads /\ 2 * 16 * S.headDim * 4 <= MaxShared
  BY DEF Sizes, Launchable, S, FlashBc, F32
<1>3. splits[1] \in 1..32 /\ splits[1] * splits[2] >= len /\ (splits[1] - 1) * splits[2] < len
  BY <1>2, DecodeSplitsCover DEF Positive, DecodeMaxSplits
<1> HIDE DEF group, splits
<1>4. Axis(splits[1], <<len, splits[2]>>) /\ splits[1] <= MaxGridYZ
  BY <1>3, DeviceAssumption DEF Axis, Positive
<1>5. /\ 32 * group * 1 \in 1..MaxThreads /\ S.headDim * 1 * 1 \in 1..MaxThreads
      /\ 2 * DecodeTile * S.headDim * F32 <= MaxShared /\ 0 <= MaxShared /\ 1 <= MaxGridYZ
  BY <1>2, DeviceAssumption DEF Positive, DecodeTile, F32
<1>6. Legal(one)
  BY <1>2, <1>4, <1>5, AxisOne, AxisEach, LegalLaunch DEF AttnPartial
<1>7. Legal(two)
  BY <1>2, <1>5, AxisOne, AxisEach, LegalLaunch DEF attn_decode_reduce
<1> HIDE DEF one, two
<1> QED
  BY <1>1, <1>6, <1>7, LegalTwo

LEMMA FlashKernelsLegal ==
  ASSUME Sizes, c # Unloadable, NEW rows \in Positive, rows <= MaxGridYZ, NEW depth \in Nat,
         NEW plane \in Planes, attn_prefill_flash_br(S.heads \div S.kvHeads) # 0
  PROVE  LegalList(FlashKernels(plane, rows, depth))
<1> DEFINE group == S.heads \div S.kvHeads
           br == attn_prefill_flash_br(group)
           splits == attn_prefill_flash_splits(S.kvHeads, rows, depth + rows, br)
           one == Launch(<<S.kvHeads, CeilDiv(rows, br), splits[1]>>, <<32, group, br>>,
                         2 * FlashBc * S.headDim * F32,
                         <<<<S.kvHeads, 1>>, <<rows, br>>, <<depth + rows, splits[2]>>>>)
           two == FlashReduce(rows, S.heads, S.headDim)
<1>1. FlashKernels(plane, rows, depth) = <<one, two>>
  BY DEF FlashKernels, Planes, attn_prefill_flash, attn_prefill_flash_f16, attn_prefill_flash_mixed
<1>2. /\ S.heads \in Positive /\ S.kvHeads \in Positive /\ S.headDim \in Positive /\ group \in Positive
      /\ S.headDim <= MaxThreads /\ 2 * FlashBc * S.headDim * F32 <= MaxShared /\ S.heads <= MaxGridYZ
  BY DEF Sizes, Launchable, S
<1>3. br \in {4, 8} /\ 32 * group * br <= MaxThreads
  BY DEF attn_prefill_flash_br
<1>4. br \in Positive /\ depth + rows \in Positive
  BY <1>3 DEF Positive
<1> HIDE DEF group, br
<1>5. /\ splits[1] \in 1..4
      /\ splits[1] * splits[2] >= depth + rows /\ (splits[1] - 1) * splits[2] < depth + rows
  <2>1. S.kvHeads \in Nat /\ rows \in Nat /\ depth + rows \in Nat \ {0} /\ br \in Nat \ {0}
    BY <1>2, <1>4 DEF Positive
  <2> QED
    BY <2>1, FlashSplitsCover DEF FlashMaxSplits
<1> HIDE DEF splits
<1>6. Axis(splits[1], <<depth + rows, splits[2]>>) /\ splits[1] <= MaxGridYZ
  BY <1>5, DeviceAssumption DEF Axis, Positive
<1>7. 32 * group * br \in 1..MaxThreads
  <2>1. CASE br = 4
    BY <1>2, <1>3, <2>1, DeviceAssumption DEF Positive
  <2>2. CASE br = 8
    BY <1>2, <1>3, <2>2, DeviceAssumption DEF Positive
  <2> QED
    BY <1>3, <2>1, <2>2
<1>8. S.headDim * 1 * 1 \in 1..MaxThreads /\ 0 <= MaxShared /\ 1 <= MaxGridYZ
  BY <1>2, DeviceAssumption DEF Positive
<1>9. Axis(CeilDiv(rows, br), <<rows, br>>) /\ CeilDiv(rows, br) <= MaxGridYZ
  BY <1>4, AxisRows
<1>10. Legal(one)
  BY <1>2, <1>6, <1>7, <1>9, AxisEach, LegalLaunch
<1>11. Legal(two)
  BY <1>2, <1>8, AxisOne, AxisEach, LegalLaunch DEF FlashReduce
<1> HIDE DEF one, two
<1> QED
  BY <1>1, <1>10, <1>11, LegalTwo

LEMMA PrefillKernelLegal ==
  ASSUME Sizes, c # Unloadable, NEW rows \in Positive, rows <= MaxGridYZ, NEW plane,
         S.heads \div S.kvHeads <= 8
  PROVE  Legal(PrefillKernel(plane, rows))
<1> DEFINE group == S.heads \div S.kvHeads
           one == Launch(<<S.kvHeads, CeilDiv(rows, PrefillRowTile), 1>>, <<32, group, PrefillRowTile>>,
                         2 * DecodeTile * S.headDim * F32,
                         <<<<S.kvHeads, 1>>, <<rows, PrefillRowTile>>, OneBlock>>)
<1>1. PrefillKernel(plane, rows) = one
  BY DEF PrefillKernel, attn_prefill, attn_prefill_f16
<1>2. /\ S.kvHeads \in Positive /\ S.headDim \in Positive /\ group \in Positive /\ group <= 8
      /\ 2 * 16 * S.headDim * 4 <= MaxShared
  BY DEF Sizes, Launchable, S, FlashBc, F32
<1> HIDE DEF group
<1>3. PrefillRowTile \in Positive
  BY DEF PrefillRowTile, Positive
<1>4. Axis(CeilDiv(rows, PrefillRowTile), <<rows, PrefillRowTile>>)
      /\ CeilDiv(rows, PrefillRowTile) <= MaxGridYZ
  BY <1>3, AxisRows
<1>5. /\ 32 * group * PrefillRowTile \in 1..MaxThreads
      /\ 2 * DecodeTile * S.headDim * F32 <= MaxShared /\ 1 <= MaxGridYZ
  BY <1>2, DeviceAssumption DEF Positive, DecodeTile, F32, PrefillRowTile
<1> QED
  BY <1>1, <1>2, <1>4, <1>5, AxisOne, AxisEach, LegalLaunch

LEMMA ScatterKernelLegal ==
  ASSUME Sizes, c # Unloadable, NEW rows \in Positive, NEW plane
  PROVE  Legal(ScatterKernel(plane, rows))
<1>1. rows * S.kvHeads \in Positive
  BY PositiveProduct DEF Sizes
<1>2. rows * S.kvHeads * S.headDim \in Positive
  BY <1>1, PositiveProduct DEF Sizes
<1> QED
  BY <1>2, ElementwiseLegal DEF ScatterKernel, scatter_kv_chunk, scatter_kv_chunk_f16

LEMMA RmsnormLegal ==
  ASSUME NEW rows \in Positive
  PROVE  Legal(rmsnorm(rows))
BY PerRowLegal DEF rmsnorm

\* The property's step: what the operation launches if its group is not too wide.
PlanLegal == (plan.op = "prefill" => S.heads \div S.kvHeads <= 8) => LegalList(plan.launches)

LEMMA EmptyLegal == LegalList(<<>>)
<1>1. <<>> \in Seq({}) /\ Len(<<>>) = 0
  OBVIOUS
<1> QED
  BY <1>1 DEF LegalList

LEMMA DecodeLegal ==
  ASSUME Sizes, NEW depth \in Depths, NEW plane \in Planes, DecodeAttention(depth, plane)
  PROVE  PlanLegal'
<1>1. /\ c # Unloadable
      /\ plan'.launches = <<rmsnorm(S.heads), Rotate(1)>> \o DecodeKernels(plane, depth + 1)
  BY DEF DecodeAttention, Plan
<1>2. S.heads \in Positive /\ 1 \in Positive /\ depth + 1 \in Positive
  BY <1>1, DispatchAssumption DEF Sizes, Positive
<1>3. Legal(rmsnorm(S.heads)) /\ Legal(Rotate(1))
  BY <1>1, <1>2, RmsnormLegal, RotateLegal
<1>4. LegalList(<<rmsnorm(S.heads), Rotate(1)>>)
  BY <1>3, LegalTwo
<1>5. LegalList(DecodeKernels(plane, depth + 1))
  BY <1>1, <1>2, DecodeKernelsLegal
<1> QED
  BY <1>1, <1>4, <1>5, LegalListAppend DEF PlanLegal

LEMMA ChunkLegal ==
  ASSUME Sizes, NEW depth \in Depths, NEW rows \in RowCounts, NEW plane \in Planes,
         ChunkAttention(depth, rows, plane)
  PROVE  PlanLegal'
<1> DEFINE group == S.heads \div S.kvHeads
           flash == plane = "mixed" \/ depth + rows >= FlashMinDepth
           br == attn_prefill_flash_br(group)
           before == <<rmsnorm(rows * S.heads), Rotate(rows), ScatterKernel(plane, rows)>>
           after == IF flash THEN FlashKernels(plane, rows, depth) ELSE <<PrefillKernel(plane, rows)>>
<1>1. c # Unloadable /\ c' = c
  BY DEF ChunkAttention
<1>2. rows \in Positive /\ rows <= MaxGridYZ /\ depth \in Nat /\ S.heads \in Positive
  BY <1>1, DispatchAssumption, DeviceAssumption DEF Positive, Sizes
<1>3. CASE flash /\ br = 0
  <2>1. plan'.launches = <<>>
    BY <1>3 DEF ChunkAttention, Plan
  <2> QED
    BY <2>1, EmptyLegal DEF PlanLegal
<1>4. CASE ~ (flash /\ br = 0)
  <2>1. plan'.launches = before \o after /\ plan'.op = "prefill"
    BY <1>4 DEF ChunkAttention, Plan
  <2>2. LegalList(before)
    <3>1. rows * S.heads \in Positive
      BY <1>2, PositiveProduct
    <3> QED
      BY <1>1, <1>2, <3>1, RmsnormLegal, RotateLegal, ScatterKernelLegal, LegalThree
  <2>3. group <= 8 => LegalList(after)
    <3>1. CASE flash
      BY <1>1, <1>2, <1>4, <3>1, FlashKernelsLegal
    <3>2. CASE ~ flash
      <4>1. group <= 8 => Legal(PrefillKernel(plane, rows))
        BY <1>1, <1>2, PrefillKernelLegal
      <4>2. after = <<PrefillKernel(plane, rows)>>
        BY <3>2
      <4> QED
        BY <4>1, <4>2, LegalOne
    <3> QED
      BY <3>1, <3>2
  <2> HIDE DEF before, after
  <2> QED
    BY <1>1, <2>1, <2>2, <2>3, LegalListAppend DEF PlanLegal, S
<1> QED
  BY <1>3, <1>4

-----------------------------------------------------------------------------
\* The recurrence: of a tile, of a chunk, of a token.
LEMMA TileSize ==
  ASSUME NEW rows \in Positive, NEW k \in Nat, k < CeilDiv(rows, RecurTile)
  PROVE  TileOf(rows, k) \in Positive /\ TileOf(rows, k) <= 128
<1>1. RecurTile \in Positive /\ RecurTile <= 128
  BY DispatchAssumption, DeviceAssumption DEF Positive, LdsFree
<1> DEFINE n == CeilDiv(rows, RecurTile)
<1>2. n \in Nat /\ (n - 1) * RecurTile < rows
  BY <1>1, AxisCeil DEF Axis, Positive
<1> HIDE DEF n
<1>3. k <= n - 1
  BY <1>2 DEF n
<1>4. k * RecurTile <= (n - 1) * RecurTile
  <2>1. n - 1 \in Nat
    BY <1>2, <1>3
  <2> HIDE DEF n
  <2>2. RecurTile * k <= RecurTile * (n - 1)
    BY <1>1, <1>3, <2>1, Product DEF Positive
  <2> QED
    BY <1>1, <2>1, <2>2, SMTT(30) DEF Positive
<1>5. k * RecurTile \in Nat /\ (n - 1) * RecurTile \in Int
  BY <1>1, <1>2, SMTT(30) DEF Positive
<1> DEFINE q == k * RecurTile
<1>6. q \in Nat /\ q < rows
  BY <1>2, <1>4, <1>5 DEF Positive
<1>7. TileOf(rows, k) = Smaller(RecurTile, rows - q)
  BY DEF TileOf
<1> HIDE DEF q
<1> QED
  BY <1>1, <1>6, <1>7 DEF Smaller, Positive

LEMMA TileLaunches ==
  ASSUME Sizes, c # Unloadable, c.arch # "qwen3", NEW t \in Positive, t <= 128
  PROVE  LegalList(GdnTile(t)) /\ Len(GdnTile(t)) = 7
<1> DEFINE h == c.gdn.vHeads
           sk == c.gdn.headK
           sv == c.gdn.headV
<1>1. /\ h \in Positive /\ sk \in Positive /\ sv \in Positive
      /\ sk <= MaxThreads /\ sk <= MaxGridYZ
      /\ sv <= MaxThreads /\ sv <= MaxGridYZ /\ 2 * (sk + sv) * 4 <= MaxShared
  <2>1. /\ h \in Positive /\ sk \in Positive /\ sv \in Positive
        /\ sk \in 1..MaxThreads /\ sv <= MaxThreads /\ 2 * (sk + sv) * 4 <= MaxShared
    BY DEF Sizes, Launchable, F32
  <2> HIDE DEF h, sk, sv
  <2> QED
    BY <2>1, DeviceAssumption DEF Positive
<1> DEFINE build == IF sk % 16 = 0 /\ sk <= LdsFree THEN ut_build_lds(h, t) ELSE ut_build(h, t)
           out == IF sk % 16 = 0 /\ sv % 16 = 0 /\ sk <= LdsFree /\ sv <= LdsFree
                  THEN output_lds(h, t) ELSE output(h, t, sv)
           update == IF sk % 16 = 0 /\ sv % 16 = 0 THEN state_update_wmma(h, sk, sv)
                     ELSE state_update(h, sk, sv)
<1>2. GdnTile(t) = <<prep_point(h, t), prep_cumsum(h, t), build, tinv(h, t),
                     uv_vnew(h, t, sk, sv), out, update>>
  BY DEF GdnTile
<1> HIDE DEF h, sk, sv
<1>3. /\ Axis(h, <<h, 1>>) /\ Axis(t, <<t, 1>>) /\ Axis(sk, <<sk, 1>>)
      /\ t <= MaxGridYZ /\ 1 <= MaxGridYZ /\ 0 <= MaxShared
  BY <1>1, AxisEach, DeviceAssumption DEF Positive
<1>4. t * 1 * 1 \in 1..MaxThreads /\ t * F32 <= MaxShared
  BY DeviceAssumption DEF Positive, F32
<1>5. 32 * 1 * 1 \in 1..MaxThreads /\ 32 * 8 * 1 \in 1..MaxThreads /\ 32 * 16 * 1 \in 1..MaxThreads
  BY DeviceAssumption
<1>6. /\ sv * 1 * 1 \in 1..MaxThreads /\ Larger(sk, sv) * 1 * 1 \in 1..MaxThreads
      /\ sk * F32 <= MaxShared
  BY <1>1, DeviceAssumption DEF Positive, F32, Larger
<1>7. t * t * F32 <= MaxShared
  <2>1. t * t <= 128 * 128
    BY Product, SMTT(30) DEF Positive
  <2>2. t * t \in Int
    BY SMTT(30) DEF Positive
  <2> DEFINE q == t * t
  <2> HIDE DEF q
  <2>3. q \in Int /\ q <= 128 * 128
    BY <2>1, <2>2 DEF q
  <2>4. q * F32 <= MaxShared
    BY <2>3, DeviceAssumption DEF F32
  <2> QED
    BY <2>4 DEF q
<1>8. Axis(1, <<t, LdsFree>>) /\ 2 * LdsTileBytes <= MaxShared /\ 3 * LdsTileBytes <= MaxShared
  BY DeviceAssumption DEF Axis, Positive, LdsFree, LdsTileBytes
<1>9. Legal(prep_point(h, t)) /\ Legal(prep_cumsum(h, t))
  BY <1>3, <1>4, <1>5, AxisOne, LegalLaunch DEF prep_point, prep_cumsum
<1>10. Legal(build)
  <2>1. Legal(ut_build(h, t))
    BY <1>3, <1>5, AxisOne, LegalLaunch DEF ut_build
  <2>2. Legal(ut_build_lds(h, t))
    BY <1>3, <1>5, <1>8, AxisOne, LegalLaunch DEF ut_build_lds
  <2> QED
    BY <2>1, <2>2
<1>11. Legal(tinv(h, t))
  BY <1>3, <1>4, <1>7, AxisOne, LegalLaunch DEF tinv
<1>12. Legal(uv_vnew(h, t, sk, sv))
  BY <1>3, <1>6, AxisOne, LegalLaunch DEF uv_vnew
<1>13. Legal(out)
  <2>1. Legal(output(h, t, sv))
    BY <1>3, <1>6, AxisOne, LegalLaunch DEF output
  <2>2. Legal(output_lds(h, t))
    BY <1>3, <1>5, <1>8, AxisOne, LegalLaunch DEF output_lds
  <2> QED
    BY <2>1, <2>2
<1>14. Legal(update)
  <2>1. Legal(state_update(h, sk, sv))
    BY <1>1, <1>3, <1>6, AxisOne, LegalLaunch DEF state_update
  <2>2. CASE sk % 16 = 0 /\ sv % 16 = 0
    <3>1. 16 \in Positive
      BY DEF Positive
    <3>2. /\ Axis(CeilDiv(sk, 16), <<sk, 16>>) /\ CeilDiv(sk, 16) <= MaxGridYZ
          /\ Axis(CeilDiv(sv, 16), <<sv, 16>>) /\ CeilDiv(sv, 16) <= MaxGridYZ
      BY <1>1, <3>1, AxisRows
    <3>3. Legal(state_update_wmma(h, sk, sv))
      BY <1>3, <1>5, <3>2, LegalLaunch DEF state_update_wmma
    <3> QED
      BY <2>2, <3>3
  <2> QED
    BY <2>1, <2>2
<1> HIDE DEF build, out, update
<1>15. LegalList(<<prep_point(h, t), prep_cumsum(h, t), build, tinv(h, t),
                   uv_vnew(h, t, sk, sv), out, update>>)
  BY <1>9, <1>10, <1>11, <1>12, <1>13, <1>14, LegalSeven
<1>16. Len(GdnTile(t)) = 7
  BY <1>2
<1> QED
  BY <1>2, <1>15, <1>16

LEMMA TilesLegal ==
  ASSUME Sizes, c # Unloadable, c.arch # "qwen3", NEW rows \in Positive
  PROVE  LegalList(GdnTiles(rows))
<1> DEFINE n == CeilDiv(rows, RecurTile)
           X == {GdnTile(TileOf(rows, (i - 1) \div 7))[((i - 1) % 7) + 1] : i \in 1..(7 * n)}
<1>1. n \in Nat
  BY CeilDivNatural, DispatchAssumption DEF Positive
<1>2. ASSUME NEW i \in 1..(7 * n) PROVE Legal(GdnTile(TileOf(rows, (i - 1) \div 7))[((i - 1) % 7) + 1])
  <2> DEFINE k == (i - 1) \div 7
             j == ((i - 1) % 7) + 1
             t == TileOf(rows, k)
  <2>1. k \in Nat /\ k < n /\ j \in 1..7
    <3> HIDE DEF n
    <3> QED
      BY <1>1, <1>2
  <2>2. t \in Positive /\ t <= 128
    BY <2>1, TileSize
  <2> HIDE DEF k, j, t
  <2>3. LegalList(GdnTile(t)) /\ Len(GdnTile(t)) = 7
    BY <2>2, TileLaunches
  <2>4. Legal(GdnTile(t)[j])
    BY <2>1, <2>3 DEF LegalList
  <2> QED
    BY <2>4 DEF k, j, t
<1>3. GdnTiles(rows) =
        [i \in 1..(7 * n) |-> GdnTile(TileOf(rows, (i - 1) \div 7))[((i - 1) % 7) + 1]]
  BY DEF GdnTiles
<1>4. GdnTiles(rows) \in [1..(7 * n) -> X]
  BY <1>3
<1> HIDE DEF n, X
<1>5. 7 * n \in Nat
  BY <1>1
<1>6. GdnTiles(rows) \in Seq(X) /\ Len(GdnTiles(rows)) = 7 * n
  BY <1>4, <1>5
<1> QED
  BY <1>2, <1>3, <1>6 DEF LegalList

LEMMA GdnLegal ==
  ASSUME Sizes, NEW rows \in RowCounts, GdnChunk(rows)
  PROVE  PlanLegal'
<1> DEFINE first == gdn_conv1d_chunk(c.gdn.convDim, rows)
           second == gdn_conv1d_chunk_state_update(c.gdn.convDim)
           third == gdn_gate_chunk(c.gdn.vHeads, rows)
<1>1. c # Unloadable /\ c.arch # "qwen3" /\ plan'.launches = <<first, second, third>> \o GdnTiles(rows)
  BY DEF GdnChunk, Plan
<1>2. rows \in Positive /\ rows <= MaxGridYZ
  BY DispatchAssumption, DeviceAssumption DEF Positive
<1>3. c.gdn.convDim \in Positive /\ c.gdn.vHeads \in Positive
  BY <1>1 DEF Sizes
<1>4. Legal(first)
  <2>1. Axis(CeilDiv(c.gdn.convDim, LinearBlock), <<c.gdn.convDim, LinearBlock>>)
    BY <1>3, AxisCeil DEF Positive, LinearBlock
  <2>2. LinearBlock * 1 * 1 \in 1..MaxThreads /\ 0 <= MaxShared /\ 1 <= MaxGridYZ
    BY DeviceAssumption DEF LinearBlock
  <2> QED
    BY <1>2, <2>1, <2>2, AxisOne, AxisEach, LegalLaunch DEF gdn_conv1d_chunk
<1>5. Legal(second) /\ Legal(third)
  BY <1>2, <1>3, PositiveProduct, ElementwiseLegal DEF gdn_conv1d_chunk_state_update, gdn_gate_chunk
<1> HIDE DEF first, second, third
<1>6. LegalList(<<first, second, third>>) /\ LegalList(GdnTiles(rows))
  BY <1>1, <1>2, <1>4, <1>5, LegalThree, TilesLegal
<1> QED
  BY <1>1, <1>6, LegalListAppend DEF PlanLegal

LEMMA TokenLegal ==
  ASSUME Sizes, GdnToken
  PROVE  PlanLegal'
<1> DEFINE first == gdn_conv1d_decode(c.gdn.convDim)
           second == gdn_gate(c.gdn.vHeads)
           sk == c.gdn.headK
           sv == c.gdn.headV
           third == gdn_recurrence_decode(c.gdn.vHeads, sk, sv)
<1>1. c # Unloadable /\ c.arch # "qwen3" /\ plan'.launches = <<first, second, third>>
  BY DEF GdnToken, Plan
<1>2. c.gdn.convDim \in Positive /\ c.gdn.vHeads \in Positive /\ sk \in Positive /\ sv \in Positive
  BY <1>1 DEF Sizes
<1>3. sk \in 1..MaxThreads /\ sv <= MaxThreads /\ 2 * (sk + sv) * F32 <= MaxShared
  BY <1>1 DEF Sizes, Launchable
<1>4. Legal(first) /\ Legal(second)
  BY <1>2, ElementwiseLegal DEF gdn_conv1d_decode, gdn_gate
<1> HIDE DEF sk, sv
<1>5. Larger(sk, sv) * 1 * 1 \in 1..MaxThreads /\ 1 <= MaxGridYZ
  BY <1>2, <1>3, DeviceAssumption DEF Larger, Positive
<1>6. Legal(third)
  BY <1>2, <1>3, <1>5, AxisOne, AxisEach, LegalLaunch DEF gdn_recurrence_decode
<1> HIDE DEF first, second, third
<1> QED
  BY <1>1, <1>4, <1>6, LegalThree DEF PlanLegal

-----------------------------------------------------------------------------
\* The products as operations, and the steps around them.
LEMMA MatvecStepLegal ==
  ASSUME Sizes, NEW w \in Weights, NEW d, matvec(w, d)
  PROVE  PlanLegal'
<1>1. w.m \in Positive
  BY WeightSizes DEF matvec
<1>2. plan'.launches = <<Matvec(d, w.n, w.m)>>
  BY DEF matvec, Plan
<1> QED
  BY <1>1, <1>2, MatvecLegal, LegalOne DEF PlanLegal

LEMMA ProductLegal ==
  ASSUME Sizes, NEW d \in DTypes, NEW rows \in RowCounts,
         \/ \E w \in Weights : matmul(w, d, rows)
         \/ \E w \in ExpertWeights : ExpertGroup(w, d, rows)
  PROVE  PlanLegal'
<1>1. c # Unloadable /\ rows \in Positive /\ rows <= MaxGridYZ
  <2>1. rows \in Positive /\ rows <= MaxGridYZ
    BY DispatchAssumption, DeviceAssumption DEF Positive
  <2> QED
    BY <2>1 DEF matmul, ExpertGroup
<1>2. ASSUME NEW w \in Weights, matmul(w, d, rows) PROVE PlanLegal'
  <2>1. w.m \in Positive /\ w.n \in Positive /\ plan' = Matmul(w, d, rows)
    BY <1>1, <1>2, WeightSizes DEF matmul
  <2>2. CASE Loaded(d, w.n) = "F16"
    <3>1. plan'.launches = <<gemm_xwt_f16(rows, w.m)>>
      BY <2>1, <2>2 DEF Matmul, Plan
    <3> QED
      BY <1>1, <2>1, <3>1, SixteenLegal, LegalOne DEF PlanLegal
  <2>3. CASE Loaded(d, w.n) # "F16"
    <3> DEFINE named == mmq_eligible_by_name(w.name)
               micro == FALSE
    <3>1. plan' = gemm(d, rows, w.m, w.n, named, micro)
      BY <2>1, <2>3 DEF Matmul
    <3> HIDE DEF named, micro
    <3>2. LegalList(plan'.launches)
      BY <1>1, <2>1, <2>3, <3>1, GemmLegal
    <3> QED
      BY <3>2 DEF PlanLegal
  <2> QED
    BY <2>2, <2>3
<1>3. ASSUME NEW w \in ExpertWeights, ExpertGroup(w, d, rows) PROVE PlanLegal'
  <2> DEFINE byName == FALSE
             micro == TRUE
             p == gemm(d, rows, w.m, w.n, byName, micro)
             before == gather_rows(rows, S.hidden)
             act == silu_mul(rows * c.moe["expert_ff_len"])
             after == scatter_weighted_accum(rows, S.hidden)
  <2>1. /\ w.n \in Positive /\ w.m \in Positive /\ Loaded(d, w.n) # "F16"
        /\ S.hidden \in Positive /\ c.moe["expert_ff_len"] \in Positive
    BY <1>1, <1>3, WeightSizes DEF ExpertGroup, Sizes
  <2>2. plan' = [p EXCEPT !.launches = <<before>> \o @ \o <<act, after>>]
    BY <1>3 DEF ExpertGroup
  <2>3. Legal(before) /\ Legal(act) /\ Legal(after)
    BY <1>1, <2>1, PositiveProduct, ElementwiseLegal DEF gather_rows, silu_mul, scatter_weighted_accum
  <2> HIDE DEF byName, micro, before, act, after
  <2>4. LegalList(p.launches)
    BY <1>1, <2>1, GemmLegal
  <2>5. PICK op, launches, uses : p = Plan(op, launches, uses, w.n, w.n)
    BY <2>1, GemmReducesAll DEF Positive
  <2> HIDE DEF p
  <2>6. plan'.launches = <<before>> \o p.launches \o <<act, after>>
    BY <2>2, <2>5 DEF Plan
  <2>7. LegalList(<<before>>) /\ LegalList(<<act, after>>)
    BY <2>3, LegalOne, LegalTwo
  <2>8. LegalList(<<before>> \o p.launches)
    BY <2>4, <2>7, LegalListAppend
  <2> QED
    BY <2>6, <2>7, <2>8, LegalListAppend DEF PlanLegal
<1> QED
  BY <1>2, <1>3

LEMMA RowsLegal ==
  ASSUME Sizes, NEW rows \in RowCounts, Elementwises(rows)
  PROVE  PlanLegal'
<1>1. /\ c # Unloadable
      /\ plan'.launches =
           <<embedding(rows), rmsnorm(rows), add_inplace(rows * S.hidden), silu_mul(rows * S.ffn),
             gelu_mul(rows * S.ffn), cast_f32_f16(rows * kv_dim(S)),
             extract_heads(rows, S.heads, S.headDim), sigmoid_mul(rows * q_dim(S))>>
  BY DEF Elementwises, Plan
<1>2. rows \in Positive
  BY DispatchAssumption DEF Positive
<1>3. kv_dim(S) \in Positive /\ q_dim(S) \in Positive /\ rows * S.heads \in Positive
  BY <1>1, <1>2, PositiveProduct DEF Sizes, kv_dim, q_dim
<1>4. /\ rows * S.hidden \in Positive /\ rows * S.ffn \in Positive /\ rows * kv_dim(S) \in Positive
      /\ rows * S.heads * S.headDim \in Positive /\ rows * q_dim(S) \in Positive
  BY <1>1, <1>2, <1>3, PositiveProduct DEF Sizes
<1>5. Legal(embedding(rows))
  <2>1. LinearBlock * 1 * 1 \in 1..MaxThreads /\ 0 <= MaxShared /\ 1 <= MaxGridYZ
    BY DeviceAssumption DEF LinearBlock
  <2> QED
    BY <1>2, <2>1, AxisOne, AxisEach, LegalLaunch DEF embedding
<1>6. Legal(rmsnorm(rows))
  BY <1>2, RmsnormLegal
<1>7. /\ Legal(add_inplace(rows * S.hidden)) /\ Legal(silu_mul(rows * S.ffn))
      /\ Legal(gelu_mul(rows * S.ffn)) /\ Legal(cast_f32_f16(rows * kv_dim(S)))
      /\ Legal(extract_heads(rows, S.heads, S.headDim)) /\ Legal(sigmoid_mul(rows * q_dim(S)))
  BY <1>4, ElementwiseLegal DEF add_inplace, silu_mul, gelu_mul, cast_f32_f16, extract_heads, sigmoid_mul
<1>8. LegalList(<<embedding(rows), rmsnorm(rows), add_inplace(rows * S.hidden), silu_mul(rows * S.ffn),
                  gelu_mul(rows * S.ffn), cast_f32_f16(rows * kv_dim(S)),
                  extract_heads(rows, S.heads, S.headDim), sigmoid_mul(rows * q_dim(S))>>)
  BY <1>5, <1>6, <1>7, LegalEight
<1> QED
  BY <1>1, <1>8 DEF PlanLegal

LEMMA RouteLegal ==
  ASSUME Sizes, NEW rows \in RowCounts, Route(rows)
  PROVE  PlanLegal'
<1> DEFINE experts == c.moe["expert_count"]
<1>1. c # Unloadable /\ c.arch = "qwen35moe"
  BY DEF Route
<1>2. /\ rows \in Positive /\ rows <= MaxGridYZ /\ 1 \in Positive
      /\ experts \in Positive /\ S.hidden \in Positive
  BY <1>1, DispatchAssumption, DeviceAssumption DEF Positive, Sizes
<1>3. ASSUME NEW n \in Positive PROVE Legal(route_topk(n))
  <2>1. 256 * 1 * 1 \in 1..MaxThreads /\ 0 <= MaxShared /\ 1 <= MaxGridYZ
    BY DeviceAssumption
  <2> QED
    BY <1>3, <2>1, AxisOne, AxisEach, LegalLaunch DEF route_topk
<1> HIDE DEF experts
<1>4. CASE rows = 1
  <2>1. plan'.launches = <<gemv_f32(experts), route_topk(1), shared_gate_write(S.hidden),
                           weighted_accum(S.hidden)>>
    BY <1>4 DEF Route, Plan, experts
  <2>2. Legal(gemv_f32(experts)) /\ Legal(shared_gate_write(S.hidden)) /\ Legal(weighted_accum(S.hidden))
    BY <1>2, PerRowLegal, ElementwiseLegal DEF gemv_f32, shared_gate_write, weighted_accum
  <2> QED
    BY <1>2, <1>3, <2>1, <2>2, LegalFour DEF PlanLegal
<1>5. CASE rows # 1
  <2>1. plan'.launches = <<gemm_xwt_f32(rows, experts), route_topk(rows),
                           shared_gate_write_chunk(rows, S.hidden)>>
    BY <1>5 DEF Route, Plan, experts
  <2>2. Legal(shared_gate_write_chunk(rows, S.hidden))
    BY <1>2, PositiveProduct, ElementwiseLegal DEF shared_gate_write_chunk
  <2>3. Legal(gemm_xwt_f32(rows, experts))
    BY <1>2, SixteenLegal
  <2> QED
    BY <1>2, <1>3, <2>1, <2>2, <2>3, LegalThree DEF PlanLegal
<1> QED
  BY <1>4, <1>5

LEMMA EvictLegal ==
  ASSUME Sizes, NEW window \in Windows, Evict(window)
  PROVE  PlanLegal'
<1>1. /\ c # Unloadable /\ window \in 1..MaxGridYZ
      /\ plan'.launches = <<quantize_evict_k(S.kvHeads, S.headDim), quantize_evict_v(S.kvHeads, window)>>
  BY DEF Evict, Plan
<1>2. /\ S.kvHeads \in Positive /\ S.headDim \in Positive /\ S.headDim <= MaxThreads
  BY <1>1 DEF Sizes, Launchable, S
<1>3. window \in Positive /\ window <= MaxGridYZ
  BY <1>1, DeviceAssumption DEF Positive
<1>4. /\ S.headDim * 1 * 1 \in 1..MaxThreads /\ 32 * 1 * 1 \in 1..MaxThreads
      /\ 0 <= MaxShared /\ 1 <= MaxGridYZ
  BY <1>2, DeviceAssumption DEF Positive
<1>5. Legal(quantize_evict_k(S.kvHeads, S.headDim))
  BY <1>2, <1>4, AxisOne, AxisEach, LegalLaunch DEF quantize_evict_k
<1>6. Legal(quantize_evict_v(S.kvHeads, window))
  BY <1>2, <1>3, <1>4, AxisOne, AxisEach, LegalLaunch DEF quantize_evict_v
<1> QED
  BY <1>1, <1>5, <1>6, LegalTwo DEF PlanLegal

LEMMA LegalStep ==
  ASSUME ShapesAreLaunchable, Sizes, PlanLegal, [Next]_vars
  PROVE  Sizes' /\ PlanLegal'
<1>1. ASSUME NEW f \in Files, Load(f[1], f[2]) PROVE Sizes' /\ PlanLegal'
  <2>1. Sizes'
    BY <1>1, LoadedSizes DEF Load
  <2>2. plan'.launches = <<>>
    BY <1>1 DEF Load, NoPlan, Plan
  <2> QED
    BY <2>1, <2>2, EmptyLegal DEF PlanLegal
<1>2. ASSUME c' = c PROVE Sizes'
  BY <1>2 DEF Sizes, S
<1>3. ASSUME NEW w \in Weights, NEW d \in DTypes, matvec(w, d) PROVE Sizes' /\ PlanLegal'
  BY <1>2, <1>3, MatvecStepLegal DEF matvec
<1>4. ASSUME NEW w \in Weights, NEW d \in DTypes, NEW rows \in RowCounts, matmul(w, d, rows)
      PROVE  Sizes' /\ PlanLegal'
  BY <1>2, <1>4, ProductLegal DEF matmul
<1>5. ASSUME NEW w \in ExpertWeights, NEW d \in DTypes, NEW rows \in RowCounts, ExpertGroup(w, d, rows)
      PROVE  Sizes' /\ PlanLegal'
  BY <1>2, <1>5, ProductLegal DEF ExpertGroup
<1>6. ASSUME NEW depth \in Depths, NEW plane \in Planes, DecodeAttention(depth, plane)
      PROVE  Sizes' /\ PlanLegal'
  BY <1>2, <1>6, DecodeLegal DEF DecodeAttention
<1>7. ASSUME NEW depth \in Depths, NEW rows \in RowCounts, NEW plane \in Planes,
             ChunkAttention(depth, rows, plane)
      PROVE  Sizes' /\ PlanLegal'
  BY <1>2, <1>7, ChunkLegal DEF ChunkAttention
<1>8. ASSUME NEW rows \in RowCounts, GdnChunk(rows) PROVE Sizes' /\ PlanLegal'
  BY <1>2, <1>8, GdnLegal DEF GdnChunk
<1>9. ASSUME NEW rows \in RowCounts, Elementwises(rows) PROVE Sizes' /\ PlanLegal'
  BY <1>2, <1>9, RowsLegal DEF Elementwises
<1>10. ASSUME NEW rows \in RowCounts, Route(rows) PROVE Sizes' /\ PlanLegal'
  BY <1>2, <1>10, RouteLegal DEF Route
<1>11. ASSUME GdnToken PROVE Sizes' /\ PlanLegal'
  BY <1>2, <1>11, TokenLegal DEF GdnToken
<1>12. ASSUME NEW window \in Windows, Evict(window) PROVE Sizes' /\ PlanLegal'
  BY <1>2, <1>12, EvictLegal DEF Evict
<1>13. ASSUME UNCHANGED vars PROVE Sizes' /\ PlanLegal'
  BY <1>2, <1>13 DEF vars, PlanLegal, S
<1> QED
  BY <1>1, <1>3, <1>4, <1>5, <1>6, <1>7, <1>8, <1>9, <1>10, <1>11, <1>12, <1>13 DEF Next

(***************************************************************************)
(* For every model whose heads fit a block of the device, every format of  *)
(* its tensors, every chunk, depth and window: whatever kernels the        *)
(* dispatch picks, each launch is one the device takes, its blocks cover   *)
(* the work and none is idle.  No grid is empty, because from_gguf refuses *)
(* the sizes that would make one.                                          *)
(***************************************************************************)
THEOREM LaunchesLegal == ShapesAreLaunchable => (Spec => []LaunchesAreLegal)
<1>1. Init => Sizes /\ PlanLegal
  BY EmptyLegal DEF Init, Sizes, PlanLegal, NoPlan, Plan
<1>2. ShapesAreLaunchable /\ Sizes /\ PlanLegal /\ [Next]_vars => Sizes' /\ PlanLegal'
  BY LegalStep
<1>3. PlanLegal => LaunchesAreLegal
  <2>1. SUFFICES ASSUME PlanLegal, plan.op = "prefill" => S.heads \div S.kvHeads <= 8,
                        NEW i \in DOMAIN plan.launches
                 PROVE  Accepted(plan.launches[i]) /\ Covers(plan.launches[i])
    BY DEF LaunchesAreLegal
  <2> QED
    BY <2>1, LegalListDomain DEF PlanLegal, Legal
<1>4. ShapesAreLaunchable => []ShapesAreLaunchable
  OBVIOUS
<1> QED
  BY <1>1, <1>2, <1>3, <1>4, PTL DEF Spec
=============================================================================
