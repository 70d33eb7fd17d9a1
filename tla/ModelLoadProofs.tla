--------------------------- MODULE ModelLoadProofs ---------------------------
(***************************************************************************)
(* What the budget promises about contexts, for every checkpoint, every    *)
(* option and every card: the inverse it computes (max_ctx) and the check  *)
(* it makes (fits) are written separately and agree.                       *)
(***************************************************************************)
EXTENDS ModelLoad, FiniteSetTheorems, TLAPS

-----------------------------------------------------------------------------
\* What from_gguf gives of any accepted header is made of natural numbers, whatever
\* keys the header has besides those required.
ShapeTypes(s) ==
  /\ s.hidden \in Nat /\ s.ffn \in Nat /\ s.heads \in Nat /\ s.kvHeads \in Nat
  /\ s.headDim \in Nat /\ s.vocab \in Nat /\ s.context \in Nat /\ s.blocks \in Nat

GdnTypes(g) ==
  /\ g.conv \in Nat /\ g.vHeads \in Nat /\ g.headK \in Nat /\ g.headV \in Nat
  /\ g.valueDim \in Nat /\ g.convDim \in Nat

Numbers(g) == \A k \in DOMAIN g \ {"arch", "ssm_a"} : g[k] \in Nat

LEMMA ShapeIsTyped ==
  ASSUME NEW g, Numbers(g), CommonKeys \subseteq DOMAIN g, NEW ffn \in Nat, NEW blocks \in Nat
  PROVE  ShapeTypes(Shape(g, ffn, blocks))
BY DEF Numbers, CommonKeys, ShapeTypes, Shape

LEMMA GdnIsTyped ==
  ASSUME NEW g, Numbers(g), SsmKeys \subseteq DOMAIN g, SsmOk(g)
  PROVE  GdnTypes(GdnConfig(g))
<1>1. \A k \in {"conv_kernel", "group_count", "time_step_rank", "inner_size", "state_size"} : g[k] \in Nat
  BY DEF Numbers, SsmKeys
<1> DEFINE headV == g["inner_size"] \div g["time_step_rank"]
           keyDim == g["group_count"] * g["state_size"]
           valueDim == g["time_step_rank"] * headV
<1>2. headV \in Nat
  BY <1>1, SMTT(30) DEF SsmOk
<1>3. keyDim \in Nat
  BY <1>1, SMTT(30)
<1> HIDE DEF headV, keyDim
<1>4. valueDim \in Nat
  BY <1>1, <1>2, SMTT(30)
<1> HIDE DEF valueDim
<1>5. GdnConfig(g) =
        [conv |-> g["conv_kernel"], kHeads |-> g["group_count"], vHeads |-> g["time_step_rank"],
         headK |-> g["state_size"], headV |-> headV, keyDim |-> keyDim, valueDim |-> valueDim,
         convDim |-> 2 * keyDim + valueDim]
  BY DEF GdnConfig, headV, keyDim, valueDim
<1> QED
  BY <1>1, <1>2, <1>3, <1>4, <1>5 DEF GdnTypes

LEMMA BlocksAreTyped ==
  ASSUME NEW g, Numbers(g), "block_count" \in DOMAIN g
  PROVE  main_block_count(g) \in Nat
<1>1. NextN(g) \in Nat /\ g["block_count"] \in Nat
  BY DEF Numbers, NextN
<1> QED
  BY <1>1 DEF main_block_count

LEMMA ConfigIsTyped ==
  ASSUME NEW g, Numbers(g), from_gguf(g) # Unloadable
  PROVE  LET c == from_gguf(g)
         IN  /\ c.arch \in {"qwen3", "qwen35", "qwen35moe"}
             /\ ShapeTypes(c.shape)
             /\ c.arch # "qwen3" =>
                  /\ GdnTypes(c.gdn)
                  /\ \E n \in Nat : DOMAIN c.kinds = 1..n
             /\ c.arch = "qwen35moe" => c.moe \in [MoeKeys -> Nat]
<1> DEFINE c == from_gguf(g)
<1>1. CASE g["arch"] = "qwen3"
  <2>1. c = DenseConfig(g)
    BY <1>1 DEF from_gguf
  <2>2. c = [arch |-> "qwen3", shape |-> Shape(g, g["feed_forward_length"], g["block_count"])]
        /\ Keys("qwen3") \subseteq DOMAIN g
    BY <2>1 DEF DenseConfig
  <2>3. CommonKeys \subseteq DOMAIN g /\ g["feed_forward_length"] \in Nat /\ g["block_count"] \in Nat
    BY <2>2 DEF Keys, CommonKeys, Numbers
  <2> QED
    BY <2>2, <2>3, ShapeIsTyped
<1>2. CASE g["arch"] \in {"qwen35", "qwen35moe"}
  <2> DEFINE moe == g["arch"] = "qwen35moe"
             ffn == IF moe THEN g["expert_ff_len"] ELSE g["feed_forward_length"]
             blocks == main_block_count(g)
  <2>1. c = HybridConfig(g)
    BY <1>2 DEF from_gguf
  <2>2. /\ Keys(g["arch"]) \subseteq DOMAIN g /\ SsmOk(g)
        /\ c = [arch |-> g["arch"], shape |-> Shape(g, ffn, blocks),
                kinds |-> LayerKinds(g), gdn |-> GdnConfig(g), ropeDim |-> g["rope_dim"],
                moe |-> IF moe THEN [k \in MoeKeys |-> g[k]] ELSE <<>>]
    BY <2>1 DEF HybridConfig
  <2>3. CommonKeys \subseteq DOMAIN g /\ SsmKeys \subseteq DOMAIN g
    BY <1>2, <2>2 DEF Keys
  <2>4. moe => \A k \in MoeKeys : g[k] \in Nat
    BY <2>2 DEF Keys, MoeKeys, Numbers
  <2>5. ffn \in Nat
    BY <1>2, <2>2, <2>4 DEF Keys, MoeKeys, Numbers
  <2>6. blocks \in Nat
    BY <2>3, BlocksAreTyped DEF CommonKeys
  <2> HIDE DEF ffn
  <2>7. DOMAIN LayerKinds(g) = 1..blocks
    BY DEF LayerKinds
  <2> HIDE DEF blocks
  <2>8. ShapeTypes(Shape(g, ffn, blocks)) /\ GdnTypes(GdnConfig(g))
    BY <2>2, <2>3, <2>5, <2>6, ShapeIsTyped, GdnIsTyped
  <2>9. moe => c.moe \in [MoeKeys -> Nat]
    BY <2>2, <2>4
  <2> QED
    BY <1>2, <2>2, <2>6, <2>7, <2>8, <2>9
<1> QED
  BY <1>1, <1>2 DEF from_gguf

-----------------------------------------------------------------------------
\* Arithmetic of buffers counted in KiB.
LEMMA CeilDivNat ==
  ASSUME NEW a \in Nat, NEW b \in Nat \ {0}
  PROVE  CeilDiv(a, b) \in Nat
BY SMTT(30) DEF CeilDiv

LEMMA KibOfBound ==
  ASSUME NEW n \in Nat, NEW p \in Nat
  PROVE  /\ KibOf(n, p) \in Nat
         /\ 1024 * KibOf(n, p) < p * n + 1024
<1> DEFINE q == n \div 1024
           r == n % 1024
<1>1. q \in Nat /\ r \in Nat /\ n = 1024 * q + r
  BY SMTT(30)
<1> HIDE DEF q, r
<1>2. p * r \in Nat /\ p * q \in Nat /\ p * n = 1024 * (p * q) + p * r
  BY <1>1, SMTT(30)
<1>3. Kib(p * r) \in Nat /\ 1024 * Kib(p * r) < p * r + 1024
  <2> DEFINE x == p * r
  <2>1. x \in Nat
    BY <1>2
  <2> HIDE DEF x
  <2>2. Kib(x) \in Nat /\ 1024 * Kib(x) < x + 1024
    BY <2>1, SMTT(30) DEF Kib, CeilDiv
  <2> QED
    BY <2>2 DEF x
<1>4. KibOf(n, p) = p * q + Kib(p * r)
  BY DEF KibOf, q, r
<1> QED
  BY <1>2, <1>3, <1>4

LEMMA KibOfNat ==
  ASSUME NEW n \in Nat, NEW p \in Nat
  PROVE  KibOf(n, p) \in Nat
BY KibOfBound

\* The context max_ctx computes costs no more than what is left.
LEMMA InverseFits ==
  ASSUME NEW left \in Nat, NEW p \in Nat \ {0}, NEW n \in Nat,
         n <= (left \div p) * 1024 + ((left % p) * 1024) \div p
  PROVE  p * n <= 1024 * left
<1> DEFINE q == left \div p
           r == left % p
           s == (r * 1024) \div p
<1>1. q \in Nat /\ r \in Nat /\ left = p * q + r
  BY SMTT(30)
<1>2. s \in Nat /\ p * s <= r * 1024
  <2> HIDE DEF r
  <2> QED
    BY <1>1, SMTT(30)
<1> HIDE DEF q, r, s
<1>3. n <= q * 1024 + s
  BY DEF q, r, s
<1>4. p * n <= p * (q * 1024 + s)
  BY <1>1, <1>2, <1>3, SMTT(30)
<1>5. p * (q * 1024 + s) = 1024 * (p * q) + p * s
  BY <1>1, <1>2, SMTT(30)
<1>6. p * q \in Nat /\ p * s \in Nat
  BY <1>1, <1>2, SMTT(30)
<1>7. p * n \in Nat /\ p * (q * 1024 + s) \in Nat
  BY <1>1, <1>2, SMTT(30)
<1> QED
  BY <1>1, <1>2, <1>4, <1>5, <1>6, <1>7

BudgetTypes(b) == b.free \in Int /\ b.perToken \in Nat /\ b.fixed \in Nat

\* Every context up to max_ctx passes the check; so max_ctx is a number.
LEMMA MaxCtxFits ==
  ASSUME NEW b, BudgetTypes(b), b.perToken # 0, NEW n \in Nat \ {0}, n <= max_ctx(b)
  PROVE  /\ fits(b, n)
         /\ KibOf(n, b.perToken) + b.fixed + Headroom <= b.free
<1> DEFINE left == Saturating(usable(b), b.fixed)
           p == b.perToken
<1>0. Headroom \in Nat
  BY LoadAssumption
<1>1. left \in Nat /\ (left # 0 => left + b.fixed + Headroom = b.free)
  BY <1>0 DEF BudgetTypes, usable, Saturating, Larger
<1> HIDE DEF left
<1>2. p \in Nat \ {0} /\ n <= (left \div p) * 1024 + ((left % p) * 1024) \div p
  BY DEF BudgetTypes, max_ctx, left
<1> HIDE DEF p
<1>3. p * n <= 1024 * left
  BY <1>1, <1>2, InverseFits
<1>4. p * n \in Nat /\ p * n # 0
  BY <1>2, SMTT(30)
<1>5. KibOf(n, p) \in Nat /\ 1024 * KibOf(n, p) < p * n + 1024
  BY <1>2, KibOfBound
<1>6. KibOf(n, p) <= left /\ left # 0
  BY <1>1, <1>3, <1>4, <1>5
<1>7. KibOf(n, p) + b.fixed + Headroom <= b.free
  BY <1>0, <1>1, <1>5, <1>6 DEF BudgetTypes
<1> QED
  BY <1>7 DEF fits, kv_kib, p

LEMMA MaxCtxIsNat ==
  ASSUME NEW b, BudgetTypes(b)
  PROVE  max_ctx(b) \in Nat
<1> DEFINE left == Saturating(usable(b), b.fixed)
           p == b.perToken
<1>1. Headroom \in Nat /\ MaxCtx \in Nat
  BY LoadAssumption
<1>2. left \in Nat
  BY <1>1 DEF BudgetTypes, usable, Saturating, Larger
<1> HIDE DEF left
<1>3. ASSUME p # 0 PROVE (left \div p) * 1024 + ((left % p) * 1024) \div p \in Nat
  <2>1. p \in Nat \ {0}
    BY <1>3 DEF BudgetTypes
  <2> HIDE DEF p
  <2>2. left \div p \in Nat /\ left % p \in Nat
    BY <1>2, <2>1, SMTT(30)
  <2>3. ((left % p) * 1024) \div p \in Nat
    BY <2>1, <2>2, SMTT(30)
  <2> QED
    BY <2>2, <2>3
<1> QED
  BY <1>1, <1>3 DEF max_ctx, left

-----------------------------------------------------------------------------
\* What the budget is made of is a number for every configuration.
ConfigTypes(c) ==
  /\ ShapeTypes(c.shape)
  /\ c.arch # "qwen3" => GdnTypes(c.gdn) /\ \E n \in Nat : DOMAIN c.kinds = 1..n
  /\ c.arch = "qwen35moe" => c.moe \in [MoeKeys -> Nat]
OptionTypes(o) ==
  o \in [ctx : Nat, mode : {"fp16", "f32", "q8", "q4-mixed"}, sink : Nat, window : Nat \ {0}, slots : Nat]

LEMMA LayerCounts ==
  ASSUME NEW c, ConfigTypes(c), NEW o
  PROVE  /\ AttnLayers(c) \in Nat /\ GdnLayers(c) \in Nat
         /\ BoundaryLayers(c) \in Nat /\ MixedLayers(c, o) \in Nat
<1>1. ASSUME IsHybrid(c), NEW kind PROVE LayersOf(c, kind) \in Nat
  <2> DEFINE those == {i \in DOMAIN c.kinds : c.kinds[i] = kind}
  <2>1. PICK n \in Nat : DOMAIN c.kinds = 1..n
    BY <1>1 DEF IsHybrid, ConfigTypes
  <2>2. IsFiniteSet(1..n)
    BY <2>1, FS_Interval
  <2>3. IsFiniteSet(those)
    BY <2>1, <2>2, FS_Subset
  <2> QED
    BY <2>3, FS_CardinalityType DEF LayersOf
<1>2. AttnLayers(c) \in Nat /\ GdnLayers(c) \in Nat
  BY <1>1 DEF AttnLayers, GdnLayers, ConfigTypes, ShapeTypes
<1> QED
  BY <1>2 DEF BoundaryLayers, MixedLayers, Smaller

LEMMA PerTokenIsNat ==
  ASSUME NEW c, ConfigTypes(c), NEW o, OptionTypes(o)
  PROVE  PerToken(c, o) \in Nat
<1>1. KvRow(c) \in Nat
  BY SMTT(30) DEF ConfigTypes, ShapeTypes, KvRow
<1>2. ASSUME NEW layers \in Nat, NEW bytes \in {2, 4} PROVE kv_bytes_per_token(layers, c, bytes) \in Nat
  <2>1. layers * KvRow(c) \in Nat
    BY <1>1, SMTT(30)
  <2> QED
    BY <1>1, <2>1, SMTT(30) DEF kv_bytes_per_token
<1>3. c.shape.headDim \in Nat /\ c.shape.kvHeads \in Nat /\ o.window \in Nat \ {0}
  BY DEF ConfigTypes, ShapeTypes, OptionTypes
<1>4. VCode(c, o) \in Nat /\ CeilDiv(4 * c.shape.headDim, o.window) \in Nat
  BY <1>3, CeilDivNat DEF VCode
<1>5. ASSUME NEW layers \in Nat
      PROVE  layers * c.shape.kvHeads
               * (c.shape.headDim + CeilDiv(4 * c.shape.headDim, o.window) + VCode(c, o) + 4) \in Nat
  <2> DEFINE x == c.shape.headDim + CeilDiv(4 * c.shape.headDim, o.window) + VCode(c, o) + 4
             y == layers * c.shape.kvHeads
  <2>1. x \in Nat /\ y \in Nat
    BY <1>3, <1>4, SMTT(30)
  <2> HIDE DEF x, y
  <2>2. y * x \in Nat
    BY <2>1, SMTT(30)
  <2> QED
    BY <2>2 DEF x, y
<1>6. AttnLayers(c) \in Nat /\ BoundaryLayers(c) \in Nat /\ MixedLayers(c, o) \in Nat
  BY LayerCounts
<1>7. mixed_kv_bytes_per_token(BoundaryLayers(c), MixedLayers(c, o), c, o) \in Nat
  BY <1>2, <1>5, <1>6 DEF mixed_kv_bytes_per_token
<1>8. kv_bytes_per_token(AttnLayers(c), c, DenseBytes(o)) \in Nat
  BY <1>2, <1>6 DEF DenseBytes
<1> QED
  BY <1>7, <1>8 DEF PerToken

LEMMA FixedIsNat ==
  ASSUME NEW c, ConfigTypes(c), NEW o, OptionTypes(o)
  PROVE  /\ FixedOverhead(c, o) \in Nat /\ RewindPoint(c, o) \in Nat
         /\ SinkAndWindow(MixedLayers(c, o), c, o) \in Nat
<1>1. 4 * KvRow(c) \in Nat
  BY SMTT(30) DEF ConfigTypes, ShapeTypes, KvRow
<1>2. o.window \in Nat /\ o.sink \in Nat
  BY DEF OptionTypes
<1>3. MixedLayers(c, o) \in Nat /\ GdnLayers(c) \in Nat
  BY LayerCounts
<1>4. KibOf(o.sink + o.window, 4 * KvRow(c)) \in Nat /\ KibOf(o.window, 4 * KvRow(c)) \in Nat
  <2> DEFINE k == 4 * KvRow(c)
             most == o.sink + o.window
             win == o.window
  <2>1. k \in Nat /\ most \in Nat /\ win \in Nat
    BY <1>1, <1>2
  <2> HIDE DEF k, most, win
  <2>2. KibOf(most, k) \in Nat /\ KibOf(win, k) \in Nat
    BY <2>1, KibOfNat
  <2> QED
    BY <2>2 DEF k, most, win
<1>5. \A m, n \in Nat : m * n \in Nat
  BY SMTT(30)
<1>6. SinkAndWindow(MixedLayers(c, o), c, o) \in Nat
  BY <1>3, <1>4, <1>5 DEF SinkAndWindow
<1>7. ASSUME IsHybrid(c) PROVE Kib(GdnState(c)) \in Nat
  <2>1. /\ c.gdn.convDim \in Nat /\ c.gdn.vHeads \in Nat /\ c.gdn.headK \in Nat /\ c.gdn.headV \in Nat
        /\ Saturating(c.gdn.conv, 1) \in Nat
    BY <1>7 DEF ConfigTypes, GdnTypes, IsHybrid, Saturating, Larger
  <2>2. c.gdn.convDim * Saturating(c.gdn.conv, 1) \in Nat
    BY <2>1, <1>5
  <2>3. c.gdn.vHeads * c.gdn.headK * c.gdn.headV \in Nat
    BY <2>1, <1>5
  <2>4. GdnState(c) \in Nat
    BY <2>2, <2>3 DEF GdnState
  <2> QED
    BY <2>4, CeilDivNat DEF Kib
<1>8. RewindPoint(c, o) \in Nat
  BY <1>3, <1>4, <1>5, <1>7 DEF RewindPoint, GdnStates
<1> QED
  BY <1>6, <1>8 DEF FixedOverhead, rewind_points_bytes, RewindSlots

-----------------------------------------------------------------------------
(***************************************************************************)
(* What the check leaves out: the cache takes no more than the budget      *)
(* counts for it and the uncounted bytes the headroom is there for.        *)
(***************************************************************************)
LEMMA Products2 == \A m, n \in Nat : m * n \in Nat
BY SMTT(30)

LEMMA TimesMonotone ==
  ASSUME NEW m \in Nat, NEW a \in Nat, NEW b \in Nat, a <= b
  PROVE  m * a <= m * b
<1>1. PICK d \in Nat : b = a + d
  <2>1. b - a \in Nat /\ b = a + (b - a)
    OBVIOUS
  <2> QED
    BY <2>1
<1>2. m * b = m * a + m * d /\ m * a \in Nat /\ m * d \in Nat
  BY <1>1, SMTT(30)
<1> QED
  BY <1>2

\* A buffer in KiB covers its bytes.
LEMMA KibOfCovers ==
  ASSUME NEW n \in Nat, NEW p \in Nat
  PROVE  p * n \in Nat /\ p * n <= 1024 * KibOf(n, p)
<1> DEFINE q == n \div 1024
           r == n % 1024
<1>1. q \in Nat /\ r \in Nat /\ n = 1024 * q + r
  BY SMTT(30)
<1> HIDE DEF q, r
<1>2. p * r \in Nat /\ p * q \in Nat /\ p * n = 1024 * (p * q) + p * r
  BY <1>1, SMTT(30)
<1>3. Kib(p * r) \in Nat /\ p * r <= 1024 * Kib(p * r)
  <2> DEFINE x == p * r
  <2>1. x \in Nat
    BY <1>2
  <2> HIDE DEF x
  <2>2. Kib(x) \in Nat /\ x <= 1024 * Kib(x)
    BY <2>1, SMTT(30) DEF Kib, CeilDiv
  <2> QED
    BY <2>2 DEF x
<1>4. KibOf(n, p) = p * q + Kib(p * r)
  BY DEF KibOf, q, r
<1> QED
  BY <1>2, <1>3, <1>4

Tight(n, p) ==
  /\ KibOf(n, p) \in Nat /\ p * n \in Nat
  /\ p * n <= 1024 * KibOf(n, p) /\ 1024 * KibOf(n, p) < p * n + 1024

LEMMA KibOfTight == \A n, p \in Nat : Tight(n, p)
BY KibOfBound, KibOfCovers DEF Tight

\* Whole blocks of w cover a and exceed it by less than one.
LEMMA CeilDivCovers ==
  ASSUME NEW a \in Nat, NEW w \in Nat \ {0}
  PROVE  /\ CeilDiv(a, w) \in Nat /\ CeilDiv(a, w) * w \in Nat
         /\ a <= CeilDiv(a, w) * w /\ CeilDiv(a, w) * w < a + w
         /\ a > 0 => CeilDiv(a, w) >= 1
<1> DEFINE x == a + w - 1
           q == x \div w
           r == x % w
<1>1. x \in Nat
  OBVIOUS
<1> HIDE DEF x
<1>2. q \in Nat /\ r \in Nat /\ r < w /\ x = q * w + r
  BY <1>1, SMTT(30)
<1> HIDE DEF q, r
<1>3. q * w \in Nat
  BY <1>2, Products2
<1>4. CeilDiv(a, w) = q
  BY DEF CeilDiv, q, x
<1>5. x = a + w - 1
  BY DEF x
<1>6. q = 0 => q * w = 0
  BY <1>2
<1> HIDE DEF x
<1>7. a <= q * w /\ q * w < a + w /\ (a > 0 => q >= 1)
  <2> DEFINE y == q * w
  <2>1. y \in Nat /\ x = y + r /\ (q = 0 => y = 0)
    BY <1>2, <1>3, <1>6
  <2> HIDE DEF y
  <2>2. a <= y /\ y < a + w /\ (a > 0 => q >= 1)
    BY <1>2, <1>5, <2>1
  <2> QED
    BY <2>2 DEF y
<1> QED
  BY <1>2, <1>3, <1>4, <1>7

\* A mixed plane against what the budget counts of it: its bulk row a position,
\* sink and window, one window more and eight roundings.
LEMMA MixedPlaneFits ==
  ASSUME NEW c, ConfigTypes(c), NEW o, OptionTypes(o), NEW n \in Nat, o.sink + o.window < n
  PROVE  /\ MixedPlane(c, o, n) \in Nat /\ BulkRow(c, o) \in Nat
         /\ 1024 * MixedPlane(c, o, n)
              <= 1024 * KibOf(o.sink + o.window, 4 * KvRow(c)) + BulkRow(c, o) * n
                   + 1024 * KibOf(o.window, BulkRow(c, o)) + 8192
<1> DEFINE hd == c.shape.headDim
           h == c.shape.kvHeads
           R == KvRow(c)
           s == o.sink
           w == o.window
           vb == VBytes(c, o)
           vc == VCode(c, o)
           cd == CeilDiv(4 * hd, w)
           blocks == Blocks(o, n)
           cap == blocks * w
           T == BulkRow(c, o)
<1>1. hd \in Nat /\ h \in Nat /\ s \in Nat /\ w \in Nat \ {0}
  BY DEF ConfigTypes, ShapeTypes, OptionTypes
<1>2. vb \in Nat /\ vc \in Nat /\ vb <= vc
  <2> HIDE DEF hd
  <2>1. hd \div 2 \in Nat /\ CeilDiv(hd, 2) \in Nat /\ hd \div 2 <= CeilDiv(hd, 2)
    BY <1>1, SMTT(30) DEF CeilDiv
  <2> QED
    BY <1>1, <2>1 DEF VBytes, VCode, hd
<1>3. R = h * hd /\ R \in Nat
  BY <1>1, Products2 DEF KvRow
<1>4. cd \in Nat /\ cd * w \in Nat /\ 4 * hd <= cd * w
  <2> DEFINE z == 4 * hd
  <2>1. z \in Nat
    BY <1>1
  <2> HIDE DEF z, hd, w
  <2>2. CeilDiv(z, w) \in Nat /\ CeilDiv(z, w) * w \in Nat /\ z <= CeilDiv(z, w) * w
    BY <1>1, <2>1, CeilDivCovers
  <2> QED
    BY <2>2 DEF z
<1>5. blocks \in Nat /\ cap \in Nat /\ cap <= n + w
  <2> DEFINE a == n - s
  <2>1. a \in Nat /\ a > 0 /\ a <= n
    BY <1>1
  <2> HIDE DEF a, w
  <2>2. /\ CeilDiv(a, w) \in Nat /\ CeilDiv(a, w) * w \in Nat
        /\ CeilDiv(a, w) * w < a + w /\ CeilDiv(a, w) >= 1
    BY <1>1, <2>1, CeilDivCovers
  <2>3. blocks = CeilDiv(a, w)
    BY <2>2 DEF Blocks, Larger, a, w
  <2>4. cap = CeilDiv(a, w) * w
    BY <2>3
  <2> HIDE DEF blocks, cap
  <2> DEFINE y == CeilDiv(a, w) * w
  <2>5. y \in Nat /\ y < a + w /\ cap = y
    BY <2>2, <2>4
  <2> HIDE DEF y
  <2>6. cap \in Nat /\ cap <= n + w
    BY <1>1, <2>1, <2>5
  <2> QED
    BY <2>2, <2>3, <2>6
<1>6. T = h * (hd + cd + vc + 4) /\ T \in Nat
  BY <1>1, <1>2, <1>4, Products2 DEF BulkRow
<1>7. MixedPlane(c, o, n) =
        2 * KibOf(s, 2 * R) + 2 * KibOf(w, 2 * R) + KibOf(cap, R) + KibOf(blocks, 4 * R)
          + KibOf(cap, h * vb) + KibOf(cap, 4 * h)
  BY DEF MixedPlane
<1> HIDE DEF hd, h, R, s, w, vb, vc, cd, blocks, cap, T
<1>8. h * vb \in Nat /\ h * vc \in Nat /\ h * vb <= h * vc
  BY <1>1, <1>2, Products2, TimesMonotone
<1>9. h * cd \in Nat
  BY <1>1, <1>4, Products2
\* Bytes of the bulk: keys, their scales, values, theirs.
<1>10. 4 * R * blocks <= (h * cd) * cap
  <2>1. cap = w * blocks
    BY <1>1, <1>5 DEF cap
  <2>2. (h * cd) * cap = (h * blocks) * (cd * w)
    BY <1>1, <1>4, <1>5, <2>1, SMTT(30)
  <2>3. 4 * R * blocks = (h * blocks) * (4 * hd)
    BY <1>1, <1>3, <1>5, SMTT(30)
  <2>4. h * blocks \in Nat /\ 4 * hd \in Nat
    BY <1>1, <1>5, Products2
  <2> DEFINE x == h * blocks
             y == cd * w
             z == 4 * hd
  <2>5. x \in Nat /\ y \in Nat /\ z \in Nat /\ z <= y
    BY <1>4, <2>4
  <2> HIDE DEF x, y, z
  <2>6. x * z <= x * y
    BY <2>5, TimesMonotone
  <2> QED
    BY <2>2, <2>3, <2>6 DEF x, y, z
<1>11. T * cap = R * cap + (h * cd) * cap + (h * vc) * cap + (4 * h) * cap
  BY <1>1, <1>2, <1>3, <1>4, <1>5, <1>6, SMTT(30)
<1>12. (h * vb) * cap <= (h * vc) * cap
  <2> DEFINE x == h * vb
             y == h * vc
  <2>1. x \in Nat /\ y \in Nat /\ x <= y
    BY <1>8
  <2> HIDE DEF x, y
  <2>2. cap * x <= cap * y
    BY <1>5, <2>1, TimesMonotone
  <2>3. x * cap <= y * cap
    BY <1>5, <2>1, <2>2, SMTT(30)
  <2> QED
    BY <2>3 DEF x, y
<1>13. T * cap <= T * n + T * w
  <2>1. n + w \in Nat
    BY <1>1
  <2>2. T * cap <= T * (n + w)
    BY <1>5, <1>6, <2>1, TimesMonotone
  <2>3. T * (n + w) = T * n + T * w
    BY <1>1, <1>6, SMTT(30)
  <2> QED
    BY <2>2, <2>3
<1> DEFINE k1 == KibOf(s, 2 * R)
           k2 == KibOf(w, 2 * R)
           k3 == KibOf(cap, R)
           k4 == KibOf(blocks, 4 * R)
           k5 == KibOf(cap, h * vb)
           k6 == KibOf(cap, 4 * h)
           k7 == KibOf(s + w, 4 * R)
           k8 == KibOf(w, T)
<1>14. 2 * R \in Nat /\ 4 * R \in Nat /\ 4 * h \in Nat /\ s + w \in Nat
  BY <1>1, <1>3
<1>15. /\ Tight(s, 2 * R) /\ Tight(w, 2 * R) /\ Tight(cap, R) /\ Tight(blocks, 4 * R)
       /\ Tight(cap, h * vb) /\ Tight(cap, 4 * h) /\ Tight(s + w, 4 * R) /\ Tight(w, T)
  <2>1. w \in Nat
    BY <1>1
  <2> QED
    BY <1>1, <1>3, <1>5, <1>6, <1>8, <1>14, <2>1, KibOfTight, Zenon
<1>16. k1 \in Nat /\ k2 \in Nat /\ 1024 * k1 < (2 * R) * s + 1024 /\ 1024 * k2 < (2 * R) * w + 1024
  BY <1>15 DEF Tight
<1>17. k3 \in Nat /\ k4 \in Nat /\ 1024 * k3 < R * cap + 1024 /\ 1024 * k4 < (4 * R) * blocks + 1024
  BY <1>15 DEF Tight
<1>18. k5 \in Nat /\ 1024 * k5 < (h * vb) * cap + 1024
  BY <1>15 DEF Tight
<1>19. k6 \in Nat /\ 1024 * k6 < (4 * h) * cap + 1024
  BY <1>15 DEF Tight
<1>20. k7 \in Nat /\ (4 * R) * (s + w) <= 1024 * k7
  BY <1>15 DEF Tight
<1>21. k8 \in Nat /\ T * w <= 1024 * k8
  BY <1>15 DEF Tight
<1> HIDE DEF k1, k2, k3, k4, k5, k6, k7, k8
<1>22. (4 * R) * (s + w) = 2 * ((2 * R) * s) + 2 * ((2 * R) * w)
  BY <1>1, <1>3, SMTT(30)
<1>23. MixedPlane(c, o, n) = 2 * k1 + 2 * k2 + k3 + k4 + k5 + k6
  BY <1>7 DEF k1, k2, k3, k4, k5, k6
<1>24. 1024 * (2 * k1 + 2 * k2 + k3 + k4 + k5 + k6) <= 1024 * k7 + T * n + 1024 * k8 + 8192
  <2> DEFINE a1 == (2 * R) * s
             a2 == (2 * R) * w
             a3 == R * cap
             a4 == 4 * R * blocks
             a5 == (h * vb) * cap
             a6 == (4 * h) * cap
             b4 == (h * cd) * cap
             b5 == (h * vc) * cap
             tn == T * n
             tw == T * w
             sw == (4 * R) * (s + w)
             tc == T * cap
  <2>1. a1 \in Nat /\ a2 \in Nat /\ a3 \in Nat /\ a4 \in Nat /\ a5 \in Nat /\ a6 \in Nat
    BY <1>1, <1>3, <1>5, <1>8, SMTT(30)
  <2>2. b4 \in Nat /\ b5 \in Nat /\ tn \in Nat /\ tw \in Nat /\ tc \in Nat
    BY <1>1, <1>5, <1>6, <1>8, <1>9, SMTT(30)
  <2>3. a4 <= b4 /\ a5 <= b5 /\ tc = a3 + b4 + b5 + a6 /\ tc <= tn + tw
    BY <1>10, <1>11, <1>12, <1>13
  <2>4. sw = 2 * a1 + 2 * a2 /\ sw <= 1024 * k7 /\ tw <= 1024 * k8
    BY <1>20, <1>21, <1>22
  <2>5. /\ 1024 * k1 < a1 + 1024 /\ 1024 * k2 < a2 + 1024 /\ 1024 * k3 < a3 + 1024
        /\ 1024 * k4 < a4 + 1024 /\ 1024 * k5 < a5 + 1024 /\ 1024 * k6 < a6 + 1024
    BY <1>16, <1>17, <1>18, <1>19
  <2> HIDE DEF a1, a2, a3, a4, a5, a6, b4, b5, tn, tw, sw, tc
  <2>6. 1024 * (2 * k1 + 2 * k2 + k3 + k4 + k5 + k6) <= 1024 * k7 + tn + 1024 * k8 + 8192
    BY <1>16, <1>17, <1>18, <1>19, <1>20, <1>21, <2>1, <2>2, <2>3, <2>4, <2>5
  <2> QED
    BY <2>6 DEF tn
<1>25. MixedPlane(c, o, n) \in Nat
  BY <1>16, <1>17, <1>18, <1>19, <1>23
<1> QED
  BY <1>6, <1>23, <1>24, <1>25 DEF k7, k8, T, R, s, w

\* The cache of a load that passed the check, whatever the mode.
CacheSlack(c, o) ==
  GdnStates(c) + MixedLayers(c, o) * (KibOf(o.window, BulkRow(c, o)) + 8)
    + 2 * (AttnLayers(c) - MixedLayers(c, o))

LEMMA GdnStatesNat ==
  ASSUME NEW c, ConfigTypes(c)
  PROVE  GdnStates(c) \in Nat
<1>1. ASSUME IsHybrid(c) PROVE Kib(GdnState(c)) \in Nat
  <2>1. /\ c.gdn.convDim \in Nat /\ c.gdn.vHeads \in Nat /\ c.gdn.headK \in Nat /\ c.gdn.headV \in Nat
        /\ Saturating(c.gdn.conv, 1) \in Nat
    BY <1>1 DEF ConfigTypes, GdnTypes, IsHybrid, Saturating, Larger
  <2>2. c.gdn.convDim * Saturating(c.gdn.conv, 1) \in Nat
    BY <2>1, Products2
  <2>3. c.gdn.vHeads * c.gdn.headK * c.gdn.headV \in Nat
    BY <2>1, Products2
  <2>4. GdnState(c) \in Nat
    BY <2>2, <2>3 DEF GdnState
  <2> QED
    BY <2>4, CeilDivNat DEF Kib
<1> QED
  BY <1>1, LayerCounts, Products2 DEF GdnStates

LEMMA MixedPlaneNat ==
  ASSUME NEW c, ConfigTypes(c), NEW o, OptionTypes(o), NEW n \in Nat
  PROVE  MixedPlane(c, o, n) \in Nat
<1> DEFINE R == KvRow(c)
           cap == Blocks(o, n) * o.window
           values == c.shape.kvHeads * VBytes(c, o)
<1>1. o.sink \in Nat /\ o.window \in Nat \ {0} /\ o.window \in Nat
  BY DEF OptionTypes
<1>2. Blocks(o, n) \in Nat
  <2> DEFINE x == n - o.sink + o.window - 1
  <2>1. x \in Int
    BY <1>1
  <2> HIDE DEF x
  <2>2. x \div o.window \in Int
    BY <1>1, <2>1, SMTT(30)
  <2> QED
    BY <2>2 DEF Blocks, Larger, CeilDiv, x
<1>3. cap \in Nat
  BY <1>1, <1>2, Products2
<1>4. c.shape.headDim \in Nat /\ c.shape.kvHeads \in Nat
  BY DEF ConfigTypes, ShapeTypes
<1>5. VBytes(c, o) \in Nat
  <2>1. \A d \in Nat : d \div 2 \in Nat
    BY SMTT(30)
  <2> QED
    BY <1>4, <2>1 DEF VBytes
<1>6. R \in Nat /\ values \in Nat
  BY <1>4, <1>5, Products2 DEF KvRow
<1>7. 4 * c.shape.kvHeads \in Nat /\ 2 * R \in Nat /\ 4 * R \in Nat
  BY <1>4, <1>6
<1>8. MixedPlane(c, o, n) =
        2 * KibOf(o.sink, 2 * R) + 2 * KibOf(o.window, 2 * R) + KibOf(cap, R)
          + KibOf(Blocks(o, n), 4 * R) + KibOf(cap, values) + KibOf(cap, 4 * c.shape.kvHeads)
  BY DEF MixedPlane
<1> HIDE DEF R, cap, values
<1>9. \A m, p \in Nat : KibOf(m, p) \in Nat
  BY KibOfNat
<1>10. /\ KibOf(o.sink, 2 * R) \in Nat /\ KibOf(o.window, 2 * R) \in Nat /\ KibOf(cap, R) \in Nat
       /\ KibOf(Blocks(o, n), 4 * R) \in Nat /\ KibOf(cap, values) \in Nat
       /\ KibOf(cap, 4 * c.shape.kvHeads) \in Nat
  BY <1>1, <1>2, <1>3, <1>6, <1>7, <1>9, Zenon
<1> QED
  BY <1>8, <1>10

LEMMA CacheIsNat ==
  ASSUME NEW c, ConfigTypes(c), NEW o, OptionTypes(o), NEW n \in Nat
  PROVE  Cache(c, o, n) \in Nat
<1> DEFINE A == AttnLayers(c)
           M == MixedLayers(c, o)
           dense == KibOf(n, KvRow(c) * DenseBytes(o))
           mixed == MixedPlane(c, o, n)
<1>1. A - M \in Nat /\ M \in Nat
  BY LayerCounts DEF MixedLayers, BoundaryLayers, Smaller
<1>2. dense \in Nat
  <2>1. KvRow(c) \in Nat
    BY Products2 DEF KvRow, ConfigTypes, ShapeTypes
  <2>2. KvRow(c) * DenseBytes(o) \in Nat
    BY <2>1 DEF DenseBytes
  <2> QED
    BY <2>2, KibOfNat
<1>3. mixed \in Nat /\ GdnStates(c) \in Nat
  BY MixedPlaneNat, GdnStatesNat
<1>4. Cache(c, o, n) = (A - M) * (2 * dense) + M * mixed + GdnStates(c)
  BY DEF Cache, DensePlane
<1> HIDE DEF A, M, dense, mixed
<1>5. 2 * dense \in Nat
  BY <1>2
<1>6. (A - M) * (2 * dense) \in Nat /\ M * mixed \in Nat
  BY <1>1, <1>3, <1>5, Products2
<1> QED
  BY <1>3, <1>4, <1>6

\* Layers of one kind, their planes counted together and one by one.
LEMMA LayersTogether ==
  ASSUME NEW m \in Nat, NEW plane \in Nat, NEW a \in Nat, NEW t \in Nat, NEW b \in Nat, NEW n \in Nat,
         1024 * plane <= 1024 * a + t * n + 1024 * b + 8192
  PROVE  /\ m * plane \in Nat /\ m * a \in Nat /\ m * (b + 8) \in Nat /\ (m * t) * n \in Nat
         /\ 1024 * (m * plane) <= 1024 * (m * a) + (m * t) * n + 1024 * (m * (b + 8))
<1>1. t * n \in Nat
  BY Products2
<1> DEFINE x == 1024 * plane
           y == 1024 * a + t * n + 1024 * b + 8192
<1>2. x \in Nat /\ y \in Nat /\ x <= y
  BY <1>1
<1> HIDE DEF x, y
<1>3. m * x <= m * y
  BY <1>2, TimesMonotone
<1>4. m * x = 1024 * (m * plane)
  BY SMTT(30) DEF x
<1>5. m * y = 1024 * (m * a) + (m * t) * n + 1024 * (m * (b + 8))
  <2>1. (m * t) * n = m * (t * n)
    BY SMTT(30)
  <2> DEFINE tn == t * n
  <2>2. tn \in Nat
    BY <1>1
  <2> HIDE DEF tn
  <2>3. m * (1024 * a + tn + 1024 * b + 8192) = 1024 * (m * a) + m * tn + 1024 * (m * (b + 8))
    BY <2>2, SMTT(30)
  <2> QED
    BY <2>1, <2>3 DEF y, tn
<1>6. m * plane \in Nat /\ m * a \in Nat /\ m * (b + 8) \in Nat /\ (m * t) * n \in Nat
  BY Products2, <1>1
<1> QED
  BY <1>3, <1>4, <1>5, <1>6

LEMMA BulkRowNat ==
  ASSUME NEW c, ConfigTypes(c), NEW o, OptionTypes(o)
  PROVE  BulkRow(c, o) \in Nat /\ VCode(c, o) \in Nat
<1>1. c.shape.headDim \in Nat /\ c.shape.kvHeads \in Nat /\ 4 * c.shape.headDim \in Nat
  BY DEF ConfigTypes, ShapeTypes
<1>2. VCode(c, o) \in Nat /\ CeilDiv(4 * c.shape.headDim, o.window) \in Nat
  BY <1>1, CeilDivNat DEF VCode, OptionTypes
<1> QED
  BY <1>1, <1>2, Products2 DEF BulkRow

LEMMA CacheFits ==
  ASSUME NEW c, ConfigTypes(c), NEW o, OptionTypes(o), NEW n \in Nat,
         Quantized(o) => o.sink + o.window < n
  PROVE  /\ Cache(c, o, n) \in Nat /\ CacheSlack(c, o) \in Nat
         /\ Cache(c, o, n)
              <= KibOf(n, PerToken(c, o)) + SinkAndWindow(MixedLayers(c, o), c, o) + CacheSlack(c, o)
<1> DEFINE A == AttnLayers(c)
           M == MixedLayers(c, o)
           B == A - M
           R == KvRow(c)
           db == DenseBytes(o)
           T == BulkRow(c, o)
           P == PerToken(c, o)
           dense == KibOf(n, R * db)
           mixed == MixedPlane(c, o, n)
           sw == KibOf(o.sink + o.window, 4 * R)
           bulk == KibOf(o.window, T)
           kp == KibOf(n, P)
           G == GdnStates(c)
<1>1. A \in Nat /\ M \in Nat /\ B \in Nat /\ R \in Nat /\ db \in {2, 4} /\ G \in Nat
  <2>1. R \in Nat
    BY Products2 DEF KvRow, ConfigTypes, ShapeTypes
  <2>2. AttnLayers(c) \in Nat /\ BoundaryLayers(c) \in Nat /\ MixedLayers(c, o) \in Nat
    BY LayerCounts
  <2> QED
    BY <2>1, <2>2, GdnStatesNat DEF MixedLayers, BoundaryLayers, Smaller, DenseBytes
<1>2. o.sink \in Nat /\ o.window \in Nat \ {0} /\ o.sink + o.window \in Nat
  BY DEF OptionTypes
<1>3. T \in Nat /\ VCode(c, o) \in Nat
  BY BulkRowNat
<1>4. P \in Nat
  BY PerTokenIsNat
<1>5. R * db \in Nat /\ 4 * R \in Nat
  BY <1>1
<1>6. Tight(n, R * db) /\ Tight(n, P) /\ Tight(o.sink + o.window, 4 * R) /\ Tight(o.window, T)
  <2>1. o.window \in Nat
    BY <1>2
  <2> QED
    BY <1>2, <1>3, <1>4, <1>5, <2>1, KibOfTight, Zenon
<1>7. dense \in Nat /\ kp \in Nat /\ sw \in Nat /\ bulk \in Nat
  BY <1>6 DEF Tight
<1>8. 1024 * dense < (R * db) * n + 1024 /\ P * n <= 1024 * kp /\ P * n \in Nat /\ (R * db) * n \in Nat
  BY <1>6 DEF Tight
<1>9. Cache(c, o, n) = B * (2 * dense) + M * mixed + G
  BY DEF Cache, DensePlane
<1>10. SinkAndWindow(M, c, o) = M * sw /\ CacheSlack(c, o) = G + M * (bulk + 8) + 2 * B
  BY DEF SinkAndWindow, CacheSlack
\* The dense planes.
<1>11. /\ B * (2 * dense) \in Nat /\ (2 * B * R * db) * n \in Nat
       /\ 1024 * (B * (2 * dense)) <= (2 * B * R * db) * n + 1024 * (2 * B)
  <2> DEFINE rn == (R * db) * n
             x == 1024 * dense
             y == rn + 1024
  <2>1. x \in Nat /\ y \in Nat /\ x <= y /\ rn \in Nat
    BY <1>7, <1>8
  <2>2. (2 * B * R * db) * n = (2 * B) * rn
    BY <1>1, SMTT(30)
  <2> HIDE DEF B, rn
  <2>3. 2 * B \in Nat
    BY <1>1
  <2>4. (2 * B) * x <= (2 * B) * y
    <3> HIDE DEF x, y
    <3> DEFINE b2 == 2 * B
    <3>1. b2 \in Nat
      BY <2>3
    <3> HIDE DEF b2
    <3>2. b2 * x <= b2 * y
      BY <2>1, <3>1, TimesMonotone
    <3> QED
      BY <3>2 DEF b2
  <2> HIDE DEF dense
  <2>5. (2 * B) * x = 1024 * (B * (2 * dense))
    BY <1>1, <1>7, SMTT(30)
  <2>6. (2 * B) * y = (2 * B) * rn + 1024 * (2 * B)
    BY <1>1, <2>1, SMTT(30)
  <2>7. B * (2 * dense) \in Nat /\ (2 * B) * rn \in Nat
    BY <1>1, <1>7, <2>1, SMTT(30)
  <2> QED
    BY <2>2, <2>4, <2>5, <2>6, <2>7
<1>12. CASE ~ Quantized(o)
  <2>1. M = 0 /\ B = A
    BY <1>1, <1>12 DEF MixedLayers
  <2>2. P = 2 * A * R * db
    BY <1>12 DEF PerToken, kv_bytes_per_token
  <2>3. mixed \in Nat
    BY MixedPlaneNat
  <2> HIDE DEF A, M, B, R, db, P, dense, mixed, sw, bulk, kp, G
  <2>4. M * mixed = 0 /\ M * sw = 0 /\ M * (bulk + 8) = 0
    BY <1>7, <2>1, <2>3
  <2>5. (2 * B * R * db) * n = P * n
    BY <2>1, <2>2
  <2> DEFINE pn == P * n
             bd == B * (2 * dense)
  <2>6. pn \in Nat /\ bd \in Nat /\ pn <= 1024 * kp /\ 1024 * bd <= pn + 1024 * (2 * B)
    BY <1>8, <1>11, <2>5
  <2> HIDE DEF pn, bd
  <2>7. bd <= kp + 2 * B
    BY <1>1, <1>7, <2>6
  <2>8. Cache(c, o, n) = bd + G /\ CacheSlack(c, o) = G + 2 * B /\ SinkAndWindow(M, c, o) = 0
    BY <1>1, <1>9, <1>10, <2>4, <2>6 DEF bd
  <2>9. /\ Cache(c, o, n) \in Nat /\ CacheSlack(c, o) \in Nat
        /\ Cache(c, o, n) <= kp + SinkAndWindow(M, c, o) + CacheSlack(c, o)
    BY <1>1, <1>7, <2>6, <2>7, <2>8
  <2> QED
    BY <2>9 DEF kp, P, M
<1>13. CASE Quantized(o)
  <2>1. /\ mixed \in Nat
        /\ 1024 * mixed <= 1024 * sw + T * n + 1024 * bulk + 8192
    BY <1>13, MixedPlaneFits
  <2>2. db = 2
    BY <1>13 DEF Quantized, DenseBytes
  <2>3. B = BoundaryLayers(c)
    BY <1>13, LayerCounts DEF MixedLayers
  <2>4. P = 2 * B * R * 2 + M * T
    <3> DEFINE h == c.shape.kvHeads
               X == c.shape.headDim + CeilDiv(4 * c.shape.headDim, o.window) + VCode(c, o) + 4
    <3>1. P = 2 * B * R * 2 + M * h * X
      BY <1>13, <2>3 DEF PerToken, mixed_kv_bytes_per_token, kv_bytes_per_token
    <3>2. h \in Nat /\ X \in Nat
      <4>1. c.shape.headDim \in Nat /\ h \in Nat /\ 4 * c.shape.headDim \in Nat
        BY DEF ConfigTypes, ShapeTypes
      <4>2. CeilDiv(4 * c.shape.headDim, o.window) \in Nat
        BY <1>2, <4>1, CeilDivNat
      <4> QED
        BY <1>3, <4>1, <4>2
    <3>3. T = h * X
      BY DEF BulkRow
    <3> HIDE DEF h, X, M, T
    <3>4. M * h * X = M * (h * X)
      BY <1>1, <3>2, SMTT(30)
    <3> QED
      BY <3>1, <3>3, <3>4
  <2> HIDE DEF A, M, B, R, db, P, T, dense, mixed, sw, bulk, kp, G
  <2>5. /\ M * mixed \in Nat /\ M * sw \in Nat /\ M * (bulk + 8) \in Nat /\ (M * T) * n \in Nat
        /\ 1024 * (M * mixed) <= 1024 * (M * sw) + (M * T) * n + 1024 * (M * (bulk + 8))
    BY <1>1, <1>3, <1>7, <2>1, LayersTogether
  <2>6. P * n = (2 * B * R * db) * n + (M * T) * n
    <3> DEFINE x == 2 * B * R * 2
               y == M * T
    <3>1. x \in Nat /\ y \in Nat
      BY <1>1, <1>3, Products2, SMTT(30)
    <3>2. P = x + y
      BY <2>4
    <3> HIDE DEF x, y
    <3>3. (x + y) * n = x * n + y * n
      BY <3>1, SMTT(30)
    <3> QED
      BY <2>2, <3>2, <3>3 DEF x, y
  <2> DEFINE pn == P * n
             bd == B * (2 * dense)
             dn == (2 * B * R * db) * n
             mt == (M * T) * n
             mm == M * mixed
             ms == M * sw
             mb == M * (bulk + 8)
  <2>7. /\ pn \in Nat /\ bd \in Nat /\ dn \in Nat /\ mt \in Nat /\ mm \in Nat /\ ms \in Nat /\ mb \in Nat
        /\ pn <= 1024 * kp /\ pn = dn + mt
        /\ 1024 * bd <= dn + 1024 * (2 * B)
        /\ 1024 * mm <= 1024 * ms + mt + 1024 * mb
    BY <1>8, <1>11, <2>5, <2>6
  <2>8. Cache(c, o, n) = bd + mm + G /\ CacheSlack(c, o) = G + mb + 2 * B /\ SinkAndWindow(M, c, o) = ms
    BY <1>9, <1>10
  <2> HIDE DEF pn, bd, dn, mt, mm, ms, mb
  <2>9. bd + mm <= kp + ms + mb + 2 * B
    BY <1>1, <1>7, <2>7
  <2>10. /\ Cache(c, o, n) \in Nat /\ CacheSlack(c, o) \in Nat
         /\ Cache(c, o, n) <= kp + SinkAndWindow(M, c, o) + CacheSlack(c, o)
    BY <1>1, <1>7, <2>7, <2>8, <2>9
  <2> QED
    BY <2>10 DEF kp, P, M
<1> QED
  BY <1>12, <1>13

-----------------------------------------------------------------------------
FileTypes(f) ==
  /\ Numbers(f.header) /\ f.disk \in Nat /\ f.nonExpert \in Nat /\ f.taken \in Nat
  /\ f.gate \in Nat /\ f.up \in Nat /\ f.down \in Nat

\* The budget of the check, and the estimate, from the card alone.
CheckBudget == Budget(card - Uploaded, PerToken(Config, opts), FixedOverhead(Config, opts))
StagingOf(c) == IF IsMoe(c) THEN Staging ELSE 0
FirstEstimate ==
  Budget(Saturating(card, EstimatedWeights), PerToken(Config, opts),
         FixedOverhead(Config, opts) + StagingOf(Config))

LoadTypes ==
  /\ FileTypes(file) /\ OptionTypes(opts)
  /\ card \in Nat /\ suggested \in Nat /\ retried \in BOOLEAN

\* Where the free memory comes from at each step, and what bounds the context.
LoadInv ==
  /\ LoadTypes
  /\ phase \in {"opened", "clamped"} => free = card
  /\ phase \notin {"opened", "unloadable"} => Config # Unloadable
  /\ phase \in {"uploaded", "refused"} => free = card - Uploaded /\ free \in Nat
  /\ phase = "refused" => suggested = max_ctx(CheckBudget)
  /\ retried => suggested = max_ctx(CheckBudget) /\ opts.ctx <= suggested
  /\ phase \in {"clamped", "uploaded"} => opts.ctx <= Larger(1, max_ctx(FirstEstimate))

LEMMA ConfigOk ==
  ASSUME FileTypes(file), Config # Unloadable
  PROVE  ConfigTypes(Config)
BY ConfigIsTyped DEF FileTypes, Config, ConfigTypes

LEMMA UploadedIsNat ==
  ASSUME FileTypes(file), Config # Unloadable
  PROVE  Uploaded \in Nat /\ EstimatedWeights \in Nat
<1>1. ConfigTypes(Config)
  BY ConfigOk
<1>2. ASSUME IsMoe(Config)
      PROVE  MoeScratch(Config) \in Nat /\ MoeChunkScratch(Config) \in Nat
  <2> DEFINE m == Config.moe
             hidden == Config.shape.hidden
             ff == Larger(m["expert_ff_len"], m["shared_ff_len"])
             row == 4 * (4 * hidden + m["expert_count"] + 2 * m["expert_used_count"] + 2 * ff + 1)
             chunk == 4 * (4 * hidden + m["expert_count"] + 2 * m["expert_used_count"]
                             + 2 * m["shared_ff_len"] + 2 * m["expert_ff_len"] + 3)
             largest == Larger(file.gate, Larger(file.up, file.down))
  <2>1. hidden \in Nat /\ \A k \in MoeKeys : m[k] \in Nat
    BY <1>1, <1>2 DEF ConfigTypes, ShapeTypes, IsMoe
  <2> HIDE DEF m, hidden
  <2>2. row \in Nat /\ chunk \in Nat
    BY <2>1 DEF MoeKeys, Larger
  <2>3. largest \in Nat
    BY DEF FileTypes, Larger
  <2> HIDE DEF row, chunk, largest
  <2>4. Kib(row) \in Nat /\ KibOf(ChunkCap, chunk) \in Nat
    <3>1. ChunkCap \in Nat
      BY DEF ChunkCap
    <3>2. KibOf(ChunkCap, chunk) \in Nat
      BY <2>2, <3>1, KibOfNat
    <3>3. Kib(row) \in Nat
      BY <2>2, CeilDivNat DEF Kib
    <3> QED
      BY <3>2, <3>3
  <2>5. MoeScratch(Config) = 3 * largest + Kib(row) /\ MoeChunkScratch(Config) = KibOf(ChunkCap, chunk)
    BY DEF MoeScratch, MoeChunkScratch, largest, row, chunk, m, hidden
  <2> QED
    BY <2>3, <2>4, <2>5
<1> QED
  BY <1>2 DEF Uploaded, EstimatedWeights, FileTypes

\* The budgets of a loadable file are made of numbers.
LEMMA BudgetsAreTyped ==
  ASSUME LoadTypes, Config # Unloadable
  PROVE  BudgetTypes(CheckBudget) /\ BudgetTypes(FirstEstimate)
<1>1. PerToken(Config, opts) \in Nat /\ FixedOverhead(Config, opts) \in Nat
  BY ConfigOk, PerTokenIsNat, FixedIsNat DEF LoadTypes
<1>2. Uploaded \in Nat /\ EstimatedWeights \in Nat
  BY UploadedIsNat DEF LoadTypes
<1>3. StagingOf(Config) \in Nat
  BY LoadAssumption DEF StagingOf
<1> QED
  BY <1>1, <1>2, <1>3 DEF BudgetTypes, CheckBudget, FirstEstimate, Budget, LoadTypes, Saturating, Larger

\* Another context changes no cost of the options.
LEMMA SameCosts ==
  ASSUME OptionTypes(opts), file' = file, card' = card,
         opts' = opts \/ \E n \in Nat : opts' = [opts EXCEPT !.ctx = n]
  PROVE  /\ OptionTypes(opts)' /\ Config' = Config /\ Uploaded' = Uploaded
         /\ EstimatedWeights' = EstimatedWeights
         /\ PerToken(Config, opts)' = PerToken(Config, opts)
         /\ FixedOverhead(Config, opts)' = FixedOverhead(Config, opts)
         /\ CheckBudget' = CheckBudget /\ FirstEstimate' = FirstEstimate
<1>1. Config' = Config
  BY DEF Config
<1>2. Uploaded' = Uploaded /\ EstimatedWeights' = EstimatedWeights
  BY <1>1 DEF Uploaded, EstimatedWeights, MoeScratch
<1>3. OptionTypes(opts)' /\ opts'.mode = opts.mode /\ opts'.sink = opts.sink /\ opts'.window = opts.window
  BY DEF OptionTypes
<1>4. MixedLayers(Config, opts)' = MixedLayers(Config, opts)
  BY <1>1, <1>3 DEF MixedLayers, Quantized
<1>5. PerToken(Config, opts)' = PerToken(Config, opts)
  BY <1>1, <1>3, <1>4 DEF PerToken, Quantized, DenseBytes, mixed_kv_bytes_per_token, VCode
<1>6. FixedOverhead(Config, opts)' = FixedOverhead(Config, opts)
  BY <1>1, <1>3, <1>4 DEF FixedOverhead, SinkAndWindow, rewind_points_bytes, RewindPoint
<1> QED
  BY <1>1, <1>2, <1>3, <1>5, <1>6 DEF CheckBudget, FirstEstimate

-----------------------------------------------------------------------------
Promises == SuggestionLoads /\ ClampedCtxLoads

LEMMA InitHolds == Init => LoadInv /\ Promises
<1> SUFFICES ASSUME Init PROVE LoadInv /\ Promises
  OBVIOUS
<1>1. PICK f \in Files : \E w \in f.weights : file = Fill(f, w)
  BY DEF Init
<1>2. FileTypes(file)
  BY <1>1, LoadAssumption DEF FileTypes, Fill, Numbers
<1>3. OptionTypes(opts) /\ card \in Nat
  BY LoadAssumption DEF Init, OptionTypes
<1> QED
  BY <1>2, <1>3 DEF Init, LoadInv, LoadTypes, Promises, SuggestionLoads, ClampedCtxLoads

LEMMA ClampHolds == ASSUME LoadInv, Clamp PROVE LoadInv' /\ Promises'
<1>1. CASE Config = Unloadable
  <2>1. opts' = opts /\ phase' = "unloadable" /\ UNCHANGED <<file, card, free, suggested, retried>>
    BY <1>1 DEF Clamp
  <2> QED
    BY <2>1, SameCosts DEF LoadInv, LoadTypes, Promises, SuggestionLoads, ClampedCtxLoads
<1>2. CASE Config # Unloadable
  <2> DEFINE n == clamp_ctx
  <2>1. /\ phase = "opened" /\ phase' = "clamped" /\ opts' = [opts EXCEPT !.ctx = n]
        /\ UNCHANGED <<file, card, free, suggested, retried>>
    BY <1>2 DEF Clamp
  <2>2. estimate_from_gguf = FirstEstimate
    BY <2>1 DEF LoadInv, estimate_from_gguf, FirstEstimate, StagingOf
  <2>3. max_ctx(FirstEstimate) \in Nat
    BY <1>2, BudgetsAreTyped, MaxCtxIsNat DEF LoadInv
  <2>4. opts.ctx \in Nat /\ Config.shape.context \in Nat
    BY <1>2, ConfigOk DEF LoadInv, LoadTypes, OptionTypes, ConfigTypes, ShapeTypes
  <2>5. n \in Nat /\ n <= opts.ctx /\ n <= Larger(1, max_ctx(FirstEstimate))
    BY <2>2, <2>3, <2>4 DEF clamp_ctx, Smaller, Larger
  <2> HIDE DEF n
  <2>6. opts'.ctx = n
    BY <2>1 DEF LoadInv, LoadTypes, OptionTypes
  <2>7. /\ OptionTypes(opts)' /\ Config' = Config
        /\ CheckBudget' = CheckBudget /\ FirstEstimate' = FirstEstimate
    BY <2>1, <2>5, SameCosts DEF LoadInv, LoadTypes
  <2>8. retried' => suggested' = max_ctx(CheckBudget') /\ opts'.ctx <= suggested'
    BY <2>1, <2>4, <2>5, <2>6, <2>7 DEF LoadInv, LoadTypes
  <2> QED
    BY <1>2, <2>1, <2>5, <2>6, <2>7, <2>8
    DEF LoadInv, LoadTypes, Promises, SuggestionLoads, ClampedCtxLoads
<1> QED
  BY <1>1, <1>2

LEMMA UploadHolds == ASSUME LoadInv, Upload PROVE LoadInv' /\ Promises'
<1>1. /\ Config # Unloadable /\ Uploaded \in Nat /\ free = card
  BY UploadedIsNat DEF LoadInv, LoadTypes, Upload
<1>2. \/ phase' = "uploaded" /\ free' = card - Uploaded /\ Uploaded <= card
      \/ phase' = "unloadable" /\ free' = free
  BY <1>1 DEF Upload, Allocate
<1>3. UNCHANGED <<file, opts, card, suggested, retried>> /\ phase = "clamped"
  BY DEF Upload
<1>4. /\ OptionTypes(opts)' /\ Config' = Config /\ Uploaded' = Uploaded
      /\ CheckBudget' = CheckBudget /\ FirstEstimate' = FirstEstimate
  BY <1>3, SameCosts DEF LoadInv, LoadTypes
<1>5. free' \in Nat
  BY <1>1, <1>2 DEF LoadInv, LoadTypes
<1> QED
  BY <1>1, <1>2, <1>3, <1>4, <1>5 DEF LoadInv, LoadTypes, Promises, SuggestionLoads, ClampedCtxLoads

\* The second time round the check passes; the first time it refuses only what
\* the estimate could not know.
LEMMA CheckHolds == ASSUME LoadInv, Check PROVE LoadInv' /\ Promises'
<1>1. /\ phase = "uploaded" /\ Config # Unloadable /\ free = card - Uploaded
      /\ UNCHANGED <<file, opts, card, free, retried>>
  BY DEF LoadInv, Check
<1>2. LoadedBudget = CheckBudget
  BY <1>1 DEF LoadedBudget, CheckBudget
<1>3. /\ OptionTypes(opts)' /\ Config' = Config /\ Uploaded' = Uploaded
      /\ EstimatedWeights' = EstimatedWeights
      /\ PerToken(Config, opts)' = PerToken(Config, opts)
      /\ CheckBudget' = CheckBudget /\ FirstEstimate' = FirstEstimate
  BY <1>1, SameCosts DEF LoadInv, LoadTypes
<1>4. LoadedCtx' = LoadedCtx
  BY <1>1, <1>3 DEF LoadedCtx
<1>5. BudgetTypes(CheckBudget) /\ BudgetTypes(FirstEstimate)
  BY <1>1, BudgetsAreTyped DEF LoadInv
<1>6. max_ctx(CheckBudget) \in Nat /\ max_ctx(FirstEstimate) \in Nat
  BY <1>5, MaxCtxIsNat
<1>7. opts.ctx \in Nat /\ LoadedCtx \in Nat \ {0} /\ LoadedCtx <= Larger(1, opts.ctx)
  BY <1>1, ConfigOk DEF LoadInv, LoadTypes, OptionTypes, ConfigTypes, ShapeTypes, LoadedCtx, Smaller, Larger
<1>8. \/ phase' \in {"invalid", "checked"} /\ suggested' = suggested
      \/ phase' = "refused" /\ suggested' = max_ctx(CheckBudget) /\ ~ fits(CheckBudget, LoadedCtx)
  BY <1>2 DEF Check
<1>9. LoadInv'
  BY <1>1, <1>3, <1>6, <1>8 DEF LoadInv, LoadTypes
<1>10. ASSUME phase' = "refused", PerToken(Config, opts) # 0 PROVE ~(LoadedCtx <= max_ctx(CheckBudget))
  BY <1>5, <1>7, <1>8, <1>10, MaxCtxFits DEF CheckBudget, Budget
<1>11. SuggestionLoads'
  <2>1. ASSUME retried, phase' = "refused", PerToken(Config, opts) # 0, suggested # 0 PROVE FALSE
    BY <1>6, <1>7, <1>10, <2>1 DEF LoadInv, LoadTypes, Larger
  <2> QED
    BY <1>1, <1>3, <1>8, <2>1 DEF SuggestionLoads, LoadInv
<1>12. ClampedCtxLoads'
  <2>1. ASSUME phase' = "refused", PerToken(Config, opts) # 0, LoadedCtx # 1,
               Uploaded <= EstimatedWeights + StagingOf(Config)
        PROVE  FALSE
    <3> DEFINE kib == KibOf(LoadedCtx, PerToken(Config, opts))
               fixed == FixedOverhead(Config, opts)
    <3>1. LoadedCtx <= max_ctx(FirstEstimate)
      BY <1>1, <1>6, <1>7, <2>1 DEF LoadInv, Larger
    <3>2. kib + (fixed + StagingOf(Config)) + Headroom <= Saturating(card, EstimatedWeights)
      BY <1>5, <1>7, <2>1, <3>1, MaxCtxFits DEF FirstEstimate, Budget
    <3>3. kib \in Nat /\ fixed \in Nat
      BY <1>5, <1>7, KibOfNat DEF BudgetTypes, CheckBudget, Budget
    <3>4. Uploaded \in Nat /\ EstimatedWeights \in Nat /\ StagingOf(Config) \in Nat /\ Headroom \in Nat
      BY <1>1, UploadedIsNat, LoadAssumption DEF LoadInv, LoadTypes, StagingOf
    <3>5. kib + fixed + Headroom <= card - Uploaded
      <4> HIDE DEF kib, fixed
      <4>1. card \in Nat /\ card - Uploaded >= 0
        BY <1>1 DEF LoadInv, LoadTypes
      <4> QED
        BY <2>1, <3>2, <3>3, <3>4, <4>1 DEF Saturating, Larger
    <3>6. fits(CheckBudget, LoadedCtx)
      BY <3>5 DEF fits, kv_kib, CheckBudget, Budget
    <3> QED
      BY <1>8, <2>1, <3>6
  <2>2. Uploaded \in Nat /\ EstimatedWeights + StagingOf(Config) \in Nat
    BY <1>1, UploadedIsNat, LoadAssumption DEF LoadInv, LoadTypes, StagingOf
  <2> QED
    BY <1>1, <1>3, <1>4, <2>1, <2>2 DEF ClampedCtxLoads, StagingOf
<1> QED
  BY <1>9, <1>11, <1>12 DEF Promises

LEMMA RetryHolds == ASSUME LoadInv, Retry PROVE LoadInv' /\ Promises'
<1>1. /\ phase' = "opened" /\ opts' = [opts EXCEPT !.ctx = suggested] /\ free' = card /\ retried' = TRUE
      /\ suggested = max_ctx(CheckBudget) /\ suggested \in Nat
      /\ UNCHANGED <<file, card, suggested>>
  BY DEF Retry, LoadInv, LoadTypes
<1>2. opts'.ctx = suggested
  BY <1>1 DEF LoadInv, LoadTypes, OptionTypes
<1>3. OptionTypes(opts)' /\ CheckBudget' = CheckBudget
  BY <1>1, SameCosts DEF LoadInv, LoadTypes
<1> QED
  BY <1>1, <1>2, <1>3 DEF LoadInv, LoadTypes, Promises, SuggestionLoads, ClampedCtxLoads

\* The other steps only spend what is left.
LEMMA SpendHolds ==
  ASSUME LoadInv, UNCHANGED <<file, opts, card, suggested, retried>>,
         phase' \notin {"opened", "clamped", "uploaded", "refused", "unloadable"},
         phase \notin {"opened", "unloadable"}
  PROVE  LoadInv' /\ Promises'
<1>1. OptionTypes(opts)' /\ Config' = Config /\ CheckBudget' = CheckBudget
  BY SameCosts DEF LoadInv, LoadTypes
<1> QED
  BY <1>1 DEF LoadInv, LoadTypes, Promises, SuggestionLoads, ClampedCtxLoads

LEMMA LoadStep == ASSUME LoadInv, Promises, [Next]_vars PROVE LoadInv' /\ Promises'
<1>1. CASE AllocCache
  BY <1>1, SpendHolds DEF AllocCache, Allocate
<1>2. CASE AllocScratch
  BY <1>2, SpendHolds DEF AllocScratch, Allocate
<1>3. CASE SizeExpertCache
  BY <1>3, SpendHolds DEF SizeExpertCache, Allocate
<1>4. CASE SaveRewind
  BY <1>4, SpendHolds DEF SaveRewind, Allocate
<1>5. CASE UNCHANGED vars
  <2>1. OptionTypes(opts)' /\ Config' = Config /\ CheckBudget' = CheckBudget /\ FirstEstimate' = FirstEstimate
        /\ Uploaded' = Uploaded /\ EstimatedWeights' = EstimatedWeights
        /\ PerToken(Config, opts)' = PerToken(Config, opts)
    BY <1>5, SameCosts DEF vars, LoadInv, LoadTypes
  <2>2. LoadedCtx' = LoadedCtx
    BY <1>5, <2>1 DEF vars, LoadedCtx
  <2> QED
    BY <1>5, <2>1, <2>2 DEF vars, LoadInv, LoadTypes, Promises, SuggestionLoads, ClampedCtxLoads
<1> QED
  BY <1>1, <1>2, <1>3, <1>4, <1>5, ClampHolds, UploadHolds, CheckHolds, RetryHolds DEF Next

LEMMA LoadInvariant == Spec => [](LoadInv /\ Promises)
<1>1. Init => LoadInv /\ Promises
  BY InitHolds
<1>2. LoadInv /\ Promises /\ [Next]_vars => LoadInv' /\ Promises'
  BY LoadStep
<1> QED
  BY <1>1, <1>2, PTL DEF Spec

(***************************************************************************)
(* The refusal's "try --ctx N or smaller": for every checkpoint, every     *)
(* cache mode, sink and window and every card, the load started again with *)
(* the context the refusal named is not refused by the budget again.       *)
(***************************************************************************)
THEOREM SuggestionKeepsItsWord == Spec => []SuggestionLoads
<1>1. LoadInv /\ Promises => SuggestionLoads
  BY DEF Promises
<1> QED
  BY <1>1, LoadInvariant, PTL

(***************************************************************************)
(* clamp_ctx counts all that the check counts: for every checkpoint and    *)
(* every card, a context it let through is refused only if the weights     *)
(* took more than the estimate, if not one token fits, or if no layer      *)
(* grows with the context.                                                 *)
(***************************************************************************)
THEOREM ClampedContextLoads == Spec => []ClampedCtxLoads
<1>1. LoadInv /\ Promises => ClampedCtxLoads
  BY DEF Promises
<1> QED
  BY <1>1, LoadInvariant, PTL

-----------------------------------------------------------------------------
\* Scratch sizes are numbers.
LEMMA KibNat == \A x \in Nat : Kib(x) \in Nat
BY CeilDivNat DEF Kib

LEMMA ScratchIsNat ==
  ASSUME NEW c, ConfigTypes(c)
  PROVE  Scratch(c) \in Nat /\ ChunkScratch(c) \in Nat
<1> DEFINE s == c.shape
           qd == q_dim(s)
           kd == kv_dim(s)
<1>1. /\ s.hidden \in Nat /\ s.ffn \in Nat /\ s.heads \in Nat /\ s.kvHeads \in Nat /\ s.headDim \in Nat
      /\ s.vocab \in Nat
  BY DEF ConfigTypes, ShapeTypes
<1>2. qd \in Nat /\ kd \in Nat
  BY <1>1, Products2 DEF q_dim, kv_dim
<1>3. \A n, p \in Nat : KibOf(n, p) \in Nat
  BY KibOfNat
<1>4. ASSUME NEW rows \in Nat, NEW splits \in Nat PROVE Rows(c, rows, splits) \in Nat
  <2> DEFINE wide == 4 * (4 * s.hidden + 2 * qd + 2 * kd + 2 * s.ffn)
             logits == 4 * s.vocab
             h4 == 4 * s.heads
             d2 == s.headDim + 2
             part == h4 * d2
             many == rows * splits
  <2>1. Rows(c, rows, splits) = KibOf(rows, wide) + Kib(logits) + KibOf(many, part)
    BY DEF Rows
  <2>2. h4 \in Nat /\ d2 \in Nat /\ logits \in Nat
    BY <1>1
  <2> HIDE DEF qd, kd
  <2>3. wide \in Nat
    BY <1>1, <1>2
  <2> HIDE DEF h4, d2
  <2>4. part \in Nat /\ many \in Nat
    BY <2>2, Products2
  <2> HIDE DEF wide, logits, part, many
  <2>5. KibOf(rows, wide) \in Nat /\ Kib(logits) \in Nat /\ KibOf(many, part) \in Nat
    BY <1>3, <2>2, <2>3, <2>4, KibNat
  <2> QED
    BY <2>1, <2>5
<1>5. ASSUME IsHybrid(c), NEW rows \in Nat PROVE HybridRows(c, rows) \in Nat
  <2> DEFINE g == c.gdn
             wide == 4 * (2 * g.convDim + 2 * g.valueDim + 4 * g.vHeads + s.hidden)
             q12 == 4 * 3 * qd
  <2>1. HybridRows(c, rows) = KibOf(rows, wide) + KibOf(rows, q12)
    BY DEF HybridRows
  <2>0. g.convDim \in Nat /\ g.valueDim \in Nat /\ g.vHeads \in Nat
    BY <1>5 DEF ConfigTypes, GdnTypes, IsHybrid
  <2>2. wide \in Nat
    <3> HIDE DEF g
    <3> QED
      BY <1>1, <2>0
  <2> HIDE DEF qd
  <2>3. q12 \in Nat
    BY <1>2
  <2> HIDE DEF wide, q12
  <2>4. KibOf(rows, wide) \in Nat /\ KibOf(rows, q12) \in Nat
    BY <1>3, <2>2, <2>3
  <2> QED
    BY <2>1, <2>4
<1>6. ASSUME IsHybrid(c) PROVE GdnTiles(c) \in Nat
  <2> DEFINE g == c.gdn
             tiles == 128 * g.vHeads
             tile == 4 * (3 * g.headK + g.headV + 3 + 2 * 128)
  <2>1. GdnTiles(c) = KibOf(tiles, tile)
    BY DEF GdnTiles, RecurTile
  <2>0. g.headK \in Nat /\ g.headV \in Nat /\ g.vHeads \in Nat
    BY <1>6 DEF ConfigTypes, GdnTypes, IsHybrid
  <2>2. tiles \in Nat /\ tile \in Nat
    <3> HIDE DEF g
    <3> QED
      BY <2>0
  <2> HIDE DEF tiles, tile
  <2>3. KibOf(tiles, tile) \in Nat
    BY <1>3, <2>2
  <2> QED
    BY <2>1, <2>3
<1>7. Products(c) \in Nat
  <2> DEFINE wide == Larger(s.hidden, s.ffn)
             row == wide + 8 * CeilDiv(wide, 32)
             out == 4 * s.hidden
  <2>1. Products(c) = KibOf(ChunkCap, row) + 4 * KibOf(ChunkCap, out) /\ ChunkCap \in Nat
    BY DEF Products, ChunkCap
  <2>2. wide \in Nat /\ out \in Nat
    BY <1>1 DEF Larger
  <2> HIDE DEF wide, out
  <2>3. CeilDiv(wide, 32) \in Nat
    BY <2>2, CeilDivNat
  <2>4. row \in Nat
    BY <2>2, <2>3
  <2> HIDE DEF row
  <2>5. KibOf(ChunkCap, row) \in Nat /\ KibOf(ChunkCap, out) \in Nat
    BY <2>1, <2>2, <2>4, <1>3
  <2> QED
    BY <2>1, <2>5
<1>8. Rows(c, 1, 32) \in Nat /\ Rows(c, ChunkCap, 4) \in Nat
  <2> DEFINE few == 1
             fewSplits == 4
             manySplits == 32
  <2>1. few \in Nat /\ fewSplits \in Nat /\ manySplits \in Nat /\ ChunkCap \in Nat
    BY DEF ChunkCap
  <2> HIDE DEF few, fewSplits, manySplits
  <2>2. Rows(c, few, manySplits) \in Nat /\ Rows(c, ChunkCap, fewSplits) \in Nat
    BY <1>4, <2>1
  <2> QED
    BY <2>2 DEF few, fewSplits, manySplits
<1>9. IsHybrid(c) => HybridRows(c, 1) \in Nat /\ HybridRows(c, ChunkCap) \in Nat
  BY <1>5 DEF ChunkCap
<1> QED
  BY <1>6, <1>7, <1>8, <1>9 DEF Scratch, ChunkScratch

-----------------------------------------------------------------------------
\* What has still to be taken is free, step by step; what a rewind point takes
\* is kept for each that has no storage yet.
KernelsAndScratch(c) == Modules + Scratch(c) + ChunkScratch(c)
RoomInv ==
  /\ Config # Unloadable => HeadroomIsAmple(Config, opts)
  /\ phase # "ready" => rewinds = 0
  /\ phase = "checked" =>
       Cache(Config, opts, LoadedCtx) + KernelsAndScratch(Config) + rewind_points_bytes(Config, opts) <= free
  /\ phase = "cached" => KernelsAndScratch(Config) + rewind_points_bytes(Config, opts) <= free
  /\ phase = "scratch" => IsMoe(Config) /\ rewind_points_bytes(Config, opts) <= free
  /\ phase = "ready" =>
       rewinds \in 0..RewindSlots /\ (RewindSlots - rewinds) * RewindPoint(Config, opts) <= free
  /\ phase \in {"checked", "cached", "scratch", "ready"} => Config # Unloadable /\ free \in Nat
  /\ phase # "oom"

LEMMA CostsAreNat ==
  ASSUME FileTypes(file), OptionTypes(opts), Config # Unloadable
  PROVE  /\ RewindPoint(Config, opts) \in Nat /\ rewind_points_bytes(Config, opts) \in Nat
         /\ SinkAndWindow(MixedLayers(Config, opts), Config, opts) \in Nat
         /\ KernelsAndScratch(Config) \in Nat /\ Headroom \in Nat /\ Margin \in Nat
         /\ SlotKib \in Nat
<1>1. ConfigTypes(Config)
  BY ConfigOk
<1>2. /\ RewindPoint(Config, opts) \in Nat
      /\ SinkAndWindow(MixedLayers(Config, opts), Config, opts) \in Nat
  BY <1>1, FixedIsNat
<1>3. KernelsAndScratch(Config) \in Nat
  BY <1>1, ScratchIsNat, LoadAssumption DEF KernelsAndScratch
<1> QED
  BY <1>2, <1>3, LoadAssumption DEF FileTypes, SlotKib, rewind_points_bytes, RewindSlots

\* Another context leaves the headroom ample.
LEMMA SameRoom ==
  ASSUME OptionTypes(opts), file' = file,
         opts' = opts \/ \E n \in Nat : opts' = [opts EXCEPT !.ctx = n],
         Config # Unloadable => HeadroomIsAmple(Config, opts)
  PROVE  Config' = Config /\ (Config' # Unloadable => HeadroomIsAmple(Config', opts'))
<1>1. Config' = Config
  BY DEF Config
<1>2. opts'.mode = opts.mode /\ opts'.sink = opts.sink /\ opts'.window = opts.window
  BY DEF OptionTypes
<1>3. MixedLayers(Config, opts') = MixedLayers(Config, opts)
  BY <1>2 DEF MixedLayers, Quantized
<1>4. BulkRow(Config, opts') = BulkRow(Config, opts)
  BY <1>2 DEF BulkRow, VCode
<1>5. Uncounted(Config, opts') = Uncounted(Config, opts)
  BY <1>2, <1>3, <1>4 DEF Uncounted
<1>6. rewind_points_bytes(Config, opts') = rewind_points_bytes(Config, opts)
  BY <1>2, <1>3 DEF rewind_points_bytes, RewindPoint
<1> QED
  BY <1>1, <1>5, <1>6 DEF HeadroomIsAmple

LEMMA RoomInit == Init => RoomInv
<1> SUFFICES ASSUME Init PROVE RoomInv
  OBVIOUS
<1>1. PICK f \in Files : \E w \in f.weights : file = Fill(f, w)
  BY DEF Init
<1>2. file.header = f.header /\ opts \in OptionSets
  BY <1>1 DEF Fill, Init
<1>3. Config # Unloadable => HeadroomIsAmple(Config, opts)
  BY <1>2, HeadroomAssumption DEF Config
<1> QED
  BY <1>3 DEF Init, RoomInv

\* The check leaves room for all that follows.
LEMMA CheckLeavesRoom == ASSUME LoadInv, RoomInv, Check PROVE RoomInv'
<1>1. /\ phase = "uploaded" /\ Config # Unloadable /\ free \in Nat
      /\ UNCHANGED <<file, opts, card, free, retried, rewinds>>
      /\ FileTypes(file) /\ OptionTypes(opts) /\ rewinds = 0
  BY DEF LoadInv, LoadTypes, RoomInv, Check
<1>2. Config' = Config /\ HeadroomIsAmple(Config, opts)
  BY <1>1 DEF Config, RoomInv
<1>3. LoadedCtx' = LoadedCtx
  BY <1>1, <1>2 DEF LoadedCtx
<1>4. CASE phase' # "checked"
  BY <1>1, <1>2, <1>4 DEF Check, RoomInv
<1>5. CASE phase' = "checked"
  <2> DEFINE n == LoadedCtx
             kp == KibOf(n, PerToken(Config, opts))
             sw == SinkAndWindow(MixedLayers(Config, opts), Config, opts)
             rp == rewind_points_bytes(Config, opts)
             ks == KernelsAndScratch(Config)
             slack == CacheSlack(Config, opts)
             cache == Cache(Config, opts, n)
  <2>1. fits(LoadedBudget, n) /\ (Quantized(opts) => validate_sink_window)
    BY <1>5 DEF Check
  <2>2. ConfigTypes(Config)
    BY <1>1, ConfigOk
  <2>3. n \in Nat
    BY <1>1, <2>2 DEF OptionTypes, ConfigTypes, ShapeTypes, LoadedCtx, Smaller, Larger
  <2>4. kp + (sw + rp) + Headroom <= free
    BY <2>1 DEF fits, kv_kib, LoadedBudget, Budget, FixedOverhead
  <2>5. ASSUME Quantized(opts) PROVE opts.sink + opts.window < n
    <3>1. validate_sink_window
      BY <2>1, <2>5
    <3> QED
      BY <3>1, SMT DEF validate_sink_window
  <2>6. kp \in Nat
    BY <1>1, <2>2, <2>3, PerTokenIsNat, KibOfNat
  <2>7. sw \in Nat /\ rp \in Nat /\ ks \in Nat /\ Headroom \in Nat
    BY <1>1, CostsAreNat
  <2>8. cache \in Nat /\ slack \in Nat /\ cache <= kp + sw + slack
    <3> HIDE DEF n
    <3> QED
      BY <1>1, <2>2, <2>3, <2>5, CacheFits
  <2>9. Uncounted(Config, opts) = slack + ks
    <3>1. /\ GdnStates(Config) \in Nat /\ Modules \in Nat
          /\ Scratch(Config) \in Nat /\ ChunkScratch(Config) \in Nat
      BY <2>2, GdnStatesNat, ScratchIsNat, LoadAssumption
    <3> DEFINE a == MixedLayers(Config, opts) * (KibOf(opts.window, BulkRow(Config, opts)) + 8)
               b == 2 * (AttnLayers(Config) - MixedLayers(Config, opts))
    <3>2. a \in Nat /\ b \in Int
      <4>1. AttnLayers(Config) \in Nat /\ MixedLayers(Config, opts) \in Nat
        BY <2>2, LayerCounts
      <4>2. KibOf(opts.window, BulkRow(Config, opts)) \in Nat
        BY <1>1, <2>2, BulkRowNat, KibOfNat DEF OptionTypes
      <4> QED
        BY <4>1, <4>2, Products2
    <3> HIDE DEF a, b
    <3>3. Uncounted(Config, opts) = GdnStates(Config) + a + b + Modules + Scratch(Config) + ChunkScratch(Config)
      BY DEF Uncounted, a, b
    <3>4. slack = GdnStates(Config) + a + b
      BY DEF CacheSlack, a, b
    <3> QED
      BY <3>1, <3>2, <3>3, <3>4 DEF KernelsAndScratch
  <2>10. slack + ks <= Headroom
    BY <1>2, <2>9 DEF HeadroomIsAmple
  <2> HIDE DEF n, kp, sw, rp, ks, slack, cache
  <2>11. cache + ks + rp <= free
    BY <1>1, <2>4, <2>6, <2>7, <2>8, <2>10
  <2>12. Cache(Config, opts, LoadedCtx) + KernelsAndScratch(Config) + rewind_points_bytes(Config, opts) <= free
    BY <2>11 DEF n, rp, ks, cache
  <2> QED
    BY <1>1, <1>2, <1>3, <1>5, <2>12 DEF RoomInv
<1> QED
  BY <1>4, <1>5

LEMMA AllocCacheFits == ASSUME LoadInv, RoomInv, AllocCache PROVE RoomInv'
<1>1. /\ phase = "checked" /\ Config # Unloadable /\ free \in Nat /\ rewinds = 0
      /\ UNCHANGED <<file, opts, card, suggested, retried, rewinds>>
      /\ FileTypes(file) /\ OptionTypes(opts)
  BY DEF LoadInv, LoadTypes, RoomInv, AllocCache
<1>2. Config' = Config /\ HeadroomIsAmple(Config, opts)
  BY <1>1 DEF Config, RoomInv
<1> DEFINE rp == rewind_points_bytes(Config, opts)
           ks == KernelsAndScratch(Config)
           cache == Cache(Config, opts, LoadedCtx)
<1>3. rp \in Nat /\ ks \in Nat
  BY <1>1, CostsAreNat
<1>4. cache + ks + rp <= free /\ cache \in Nat
  <2>1. LoadedCtx \in Nat /\ ConfigTypes(Config)
    BY <1>1, ConfigOk DEF OptionTypes, ConfigTypes, ShapeTypes, LoadedCtx, Smaller, Larger
  <2>2. cache \in Nat
    BY <1>1, <2>1, CacheIsNat
  <2> QED
    BY <1>1, <2>2 DEF RoomInv
<1>5. Allocate(cache, "cached", "oom")
  BY DEF AllocCache
<1> HIDE DEF cache, rp, ks
<1>6. phase' = "cached" /\ free' = free - cache /\ free' \in Nat /\ ks + rp <= free'
  BY <1>1, <1>3, <1>4, <1>5 DEF Allocate
<1> QED
  BY <1>1, <1>2, <1>6 DEF RoomInv, rp, ks

LEMMA AllocScratchFits == ASSUME LoadInv, RoomInv, AllocScratch PROVE RoomInv'
<1>1. /\ phase = "cached" /\ Config # Unloadable /\ free \in Nat /\ rewinds = 0
      /\ UNCHANGED <<file, opts, card, suggested, retried, rewinds>>
      /\ FileTypes(file) /\ OptionTypes(opts)
  BY DEF LoadInv, LoadTypes, RoomInv, AllocScratch
<1>2. Config' = Config /\ HeadroomIsAmple(Config, opts)
  BY <1>1 DEF Config, RoomInv
<1> DEFINE rp == rewind_points_bytes(Config, opts)
           ks == KernelsAndScratch(Config)
           next == IF IsMoe(Config) THEN "scratch" ELSE "ready"
<1>3. rp \in Nat /\ ks \in Nat /\ ks + rp <= free
  BY <1>1, CostsAreNat DEF RoomInv
<1>4. Allocate(ks, next, "oom")
  BY DEF AllocScratch, KernelsAndScratch
<1>5. rp = (RewindSlots - 0) * RewindPoint(Config, opts)
  BY <1>1, CostsAreNat DEF rewind_points_bytes, RewindSlots
<1> HIDE DEF rp, ks, next
<1>6. phase' = next /\ free' = free - ks /\ free' \in Nat /\ rp <= free'
  BY <1>1, <1>3, <1>4 DEF Allocate
<1>7. rewinds' = 0 /\ rewinds' \in 0..RewindSlots
  BY <1>1 DEF RewindSlots
<1>8. CASE IsMoe(Config)
  BY <1>1, <1>2, <1>6, <1>7, <1>8 DEF RoomInv, rp, next
<1>9. CASE ~ IsMoe(Config)
  BY <1>1, <1>2, <1>5, <1>6, <1>7, <1>9 DEF RoomInv, next
<1> QED
  BY <1>8, <1>9

\* The expert cache leaves the margin, or takes nothing.
LEMMA SizeExpertCacheFits == ASSUME LoadInv, RoomInv, SizeExpertCache PROVE RoomInv'
<1>1. /\ phase = "scratch" /\ Config # Unloadable /\ free \in Nat /\ rewinds = 0 /\ IsMoe(Config)
      /\ UNCHANGED <<file, opts, card, suggested, retried, rewinds>>
      /\ FileTypes(file) /\ OptionTypes(opts)
  BY DEF LoadInv, LoadTypes, RoomInv, SizeExpertCache
<1>2. Config' = Config /\ HeadroomIsAmple(Config, opts)
  BY <1>1 DEF Config, RoomInv
<1> DEFINE rp == rewind_points_bytes(Config, opts)
           left == Saturating(free, Margin)
           slots == ExpertSlots
           slot == SlotKib
           spent == slots * slot
<1>3. rp \in Nat /\ Margin \in Nat /\ slot \in Nat /\ rp <= free /\ rp <= Margin
  BY <1>1, <1>2, CostsAreNat DEF RoomInv, HeadroomIsAmple
<1>4. left \in Nat /\ (left = 0 \/ left + Margin = free)
  BY <1>1, <1>3 DEF Saturating, Larger
<1>5. slots \in Nat /\ spent \in Nat /\ spent <= left
  <2> DEFINE total == Config.shape.blocks * Config.moe["expert_count"]
             most == left \div slot
  <2>1. total \in Nat /\ opts.slots \in Nat
    <3>1. Config.shape.blocks \in Nat /\ Config.moe["expert_count"] \in Nat
      BY <1>1, ConfigOk DEF ConfigTypes, ShapeTypes, IsMoe, MoeKeys
    <3> QED
      BY <1>1, <3>1, Products2 DEF OptionTypes
  <2>2. ExpertSlots = IF slot = 0 \/ total = 0 THEN 0 ELSE Smaller(opts.slots, Smaller(most, total))
    BY DEF ExpertSlots
  <2> HIDE DEF left, slot, total
  <2>3. CASE slot = 0 \/ total = 0
    BY <1>3, <1>4, <2>2, <2>3
  <2>4. CASE slot # 0 /\ total # 0
    <3>1. slot \in Nat \ {0}
      BY <1>3, <2>4
    <3>2. most \in Nat /\ most * slot \in Nat /\ most * slot <= left
      BY <1>4, <3>1, SMTT(30)
    <3> HIDE DEF most
    <3>3. slots \in Nat /\ slots <= most
      BY <2>1, <2>2, <2>4, <3>2 DEF Smaller
    <3> HIDE DEF slots
    <3>4. slot * slots <= slot * most
      BY <1>3, <3>2, <3>3, TimesMonotone
    <3>5. slot * slots = slots * slot /\ slot * most = most * slot /\ slots * slot \in Nat
      BY <1>3, <3>2, <3>3, SMTT(30)
    <3> QED
      BY <3>2, <3>3, <3>4, <3>5, <1>4
  <2> QED
    BY <2>3, <2>4
<1>6. Allocate(spent, "ready", "oom")
  BY DEF SizeExpertCache
<1>7. rp = (RewindSlots - 0) * RewindPoint(Config, opts)
  BY <1>1, CostsAreNat DEF rewind_points_bytes, RewindSlots
<1> HIDE DEF rp, left, slots, slot, spent
<1>8. phase' = "ready" /\ free' \in Nat /\ rp <= free'
  BY <1>1, <1>3, <1>4, <1>5, <1>6 DEF Allocate
<1>9. rewinds' = 0 /\ rewinds' \in 0..RewindSlots
  BY <1>1 DEF RewindSlots
<1> QED
  BY <1>1, <1>2, <1>7, <1>8, <1>9 DEF RoomInv

LEMMA SaveRewindFits == ASSUME LoadInv, RoomInv, SaveRewind PROVE RoomInv'
<1>1. /\ phase = "ready" /\ Config # Unloadable /\ free \in Nat /\ rewinds \in 0..2 /\ rewinds < 2
      /\ UNCHANGED <<file, opts, card, suggested, retried>>
      /\ FileTypes(file) /\ OptionTypes(opts)
  BY DEF LoadInv, LoadTypes, RoomInv, SaveRewind, RewindSlots
<1>2. Config' = Config /\ HeadroomIsAmple(Config, opts)
  BY <1>1 DEF Config, RoomInv
<1> DEFINE rp == RewindPoint(Config, opts)
<1>3. rp \in Nat /\ (2 - rewinds) * rp <= free
  BY <1>1, CostsAreNat DEF RoomInv, RewindSlots
<1>4. Allocate(rp, "ready", "oom") /\ rewinds' = rewinds + (IF phase' = "ready" THEN 1 ELSE 0)
  BY DEF SaveRewind
<1> HIDE DEF rp
<1>5. \/ rewinds = 0 /\ 2 * rp <= free
      \/ rewinds = 1 /\ rp <= free
  <2>1. CASE rewinds = 0
    BY <1>3, <2>1
  <2>2. CASE rewinds = 1
    BY <1>3, <2>2
  <2> QED
    BY <1>1, <2>1, <2>2
<1>6. phase' = "ready" /\ free' = free - rp /\ free' \in Nat
  BY <1>1, <1>3, <1>4, <1>5 DEF Allocate
<1>7. \/ rewinds' = 1 /\ rp <= free'
      \/ rewinds' = 2
  BY <1>1, <1>3, <1>4, <1>5, <1>6
<1>8. rewinds' \in 0..RewindSlots /\ (RewindSlots - rewinds') * rp <= free'
  BY <1>3, <1>6, <1>7 DEF RewindSlots
<1> QED
  BY <1>1, <1>2, <1>6, <1>8 DEF RoomInv, rp

LEMMA RoomStep == ASSUME LoadInv, RoomInv, [Next]_vars PROVE RoomInv'
<1>1. CASE Clamp
  <2>1. /\ file' = file /\ rewinds' = rewinds /\ phase = "opened" /\ OptionTypes(opts)
        /\ phase' \in {"unloadable", "clamped"}
    BY <1>1 DEF Clamp, LoadInv, LoadTypes
  <2>2. opts' = opts \/ \E n \in Nat : opts' = [opts EXCEPT !.ctx = n]
    <3>1. CASE Config = Unloadable
      BY <1>1, <3>1 DEF Clamp
    <3>2. CASE Config # Unloadable
      <4>1. estimate_from_gguf = FirstEstimate
        BY <2>1 DEF LoadInv, estimate_from_gguf, FirstEstimate, StagingOf
      <4>2. max_ctx(FirstEstimate) \in Nat
        BY <3>2, BudgetsAreTyped, MaxCtxIsNat DEF LoadInv
      <4>3. opts.ctx \in Nat /\ Config.shape.context \in Nat
        BY <3>2, ConfigOk DEF LoadInv, LoadTypes, OptionTypes, ConfigTypes, ShapeTypes
      <4>4. clamp_ctx \in Nat
        BY <4>1, <4>2, <4>3 DEF clamp_ctx, Smaller, Larger
      <4> QED
        BY <1>1, <3>2, <4>4 DEF Clamp
    <3> QED
      BY <3>1, <3>2
  <2>3. Config' # Unloadable => HeadroomIsAmple(Config', opts')
    BY <2>1, <2>2, SameRoom DEF RoomInv
  <2> QED
    BY <2>1, <2>3 DEF RoomInv
<1>2. CASE Upload
  <2>1. /\ UNCHANGED <<file, opts, rewinds>> /\ phase = "clamped" /\ phase' \in {"uploaded", "unloadable"}
    BY <1>2 DEF Upload, Allocate
  <2>2. Config' = Config
    BY <2>1 DEF Config
  <2> QED
    BY <2>1, <2>2 DEF RoomInv
<1>3. CASE Retry
  <2>1. /\ file' = file /\ rewinds' = rewinds /\ phase = "refused" /\ phase' = "opened"
        /\ OptionTypes(opts) /\ suggested \in Nat /\ opts' = [opts EXCEPT !.ctx = suggested]
    BY <1>3 DEF Retry, LoadInv, LoadTypes
  <2>2. Config' # Unloadable => HeadroomIsAmple(Config', opts')
    BY <2>1, SameRoom DEF RoomInv
  <2> QED
    BY <2>1, <2>2 DEF RoomInv
<1>4. CASE UNCHANGED vars
  <2>1. Config' = Config /\ LoadedCtx' = LoadedCtx
    BY <1>4 DEF vars, Config, LoadedCtx
  <2> QED
    BY <1>4, <2>1 DEF vars, RoomInv
<1> QED
  BY <1>1, <1>2, <1>3, <1>4, CheckLeavesRoom, AllocCacheFits, AllocScratchFits, SizeExpertCacheFits,
     SaveRewindFits DEF Next

(***************************************************************************)
(* A load the budget check let through takes all it still has to take: for *)
(* every checkpoint, cache mode, sink, window and card for which the       *)
(* headroom covers what the budget does not count.  The cache, rounded up  *)
(* to whole windows, the kernels and the scratch, the expert cache and     *)
(* both rewind points, saved turns later, all find their memory.           *)
(***************************************************************************)
THEOREM CheckedLoadIsSafe == Spec => []CheckedLoadSucceeds
<1>1. Init => LoadInv /\ Promises /\ RoomInv
  BY InitHolds, RoomInit
<1>2. LoadInv /\ Promises /\ RoomInv /\ [Next]_vars => LoadInv' /\ Promises' /\ RoomInv'
  BY LoadStep, RoomStep
<1>3. RoomInv => CheckedLoadSucceeds
  BY DEF RoomInv, CheckedLoadSucceeds
<1> QED
  BY <1>1, <1>2, <1>3, PTL DEF Spec
=============================================================================
