----------------------------- MODULE ModelConfig -----------------------------
(***************************************************************************)
(* ModelConfig::from_gguf (config.rs) and Qwen35Config::from_gguf          *)
(* (qwen35/config.rs): the header of a model file becomes the sizes every  *)
(* buffer and launch is made from, or an error.  A header is a function    *)
(* whose domain is the keys and tensors the file has; the "qwen3." or      *)
(* "qwen35." in front of a key is left out.                                *)
(***************************************************************************)
EXTENDS Integers, Sequences, FiniteSets

Unloadable == [arch |-> "error"]

CommonKeys == {"arch", "block_count", "embedding_length", "head_count", "head_count_kv",
               "key_length", "context_length", "vocab"}
SsmKeys == {"rope_dim", "conv_kernel", "group_count", "time_step_rank", "inner_size", "state_size"}
MoeKeys == {"expert_count", "expert_used_count", "expert_ff_len", "shared_ff_len"}

Keys(arch) ==
  CommonKeys \union
  CASE arch = "qwen3" -> {"feed_forward_length"}
    [] arch = "qwen35" -> SsmKeys \union {"feed_forward_length"}
    [] arch = "qwen35moe" -> SsmKeys \union MoeKeys

\* What both families require of the attention and of the vocabulary.
AttentionOk(g) ==
  /\ g["embedding_length"] # 0 /\ g["vocab"] # 0
  /\ g["head_count"] # 0 /\ g["head_count_kv"] # 0 /\ g["key_length"] # 0
  /\ g["head_count"] % g["head_count_kv"] = 0

Shape(g, ffn, blocks) ==
  [hidden |-> g["embedding_length"], ffn |-> ffn, heads |-> g["head_count"],
   kvHeads |-> g["head_count_kv"], headDim |-> g["key_length"], vocab |-> g["vocab"],
   context |-> g["context_length"], blocks |-> blocks]

q_dim(c) == c.heads * c.headDim
kv_dim(c) == c.kvHeads * c.headDim

DenseConfig(g) ==
  IF /\ Keys("qwen3") \subseteq DOMAIN g
     /\ g["block_count"] # 0 /\ g["feed_forward_length"] # 0
     /\ AttentionOk(g) /\ g["key_length"] % 2 = 0
  THEN [arch |-> "qwen3", shape |-> Shape(g, g["feed_forward_length"], g["block_count"])]
  ELSE Unloadable

-----------------------------------------------------------------------------
\* The trailing draft blocks are not layers of the forward pass.
NextN(g) == IF "nextn" \in DOMAIN g THEN g["nextn"] ELSE 0
main_block_count(g) ==
  IF g["block_count"] > NextN(g) THEN g["block_count"] - NextN(g) ELSE 0

\* A block with an ssm_a tensor is a Gated Delta Net layer.
LayerKinds(g) ==
  [i \in 1..main_block_count(g) |-> IF i - 1 \in g["ssm_a"] THEN "gdn" ELSE "attn"]

MoeOk(g) ==
  /\ g["expert_count"] # 0 /\ g["expert_ff_len"] # 0 /\ g["shared_ff_len"] # 0
  /\ g["expert_used_count"] \in 1..g["expert_count"]

SsmOk(g) ==
  /\ g["group_count"] # 0 /\ g["time_step_rank"] # 0 /\ g["inner_size"] # 0
  /\ g["inner_size"] % g["time_step_rank"] = 0
  /\ g["time_step_rank"] % g["group_count"] = 0

GdnConfig(g) ==
  LET headV == g["inner_size"] \div g["time_step_rank"]
      keyDim == g["group_count"] * g["state_size"]
      valueDim == g["time_step_rank"] * headV
  IN  [conv |-> g["conv_kernel"], kHeads |-> g["group_count"], vHeads |-> g["time_step_rank"],
       headK |-> g["state_size"], headV |-> headV, keyDim |-> keyDim, valueDim |-> valueDim,
       convDim |-> 2 * keyDim + valueDim]

HybridConfig(g) ==
  LET moe == g["arch"] = "qwen35moe"
      ffn == IF moe THEN g["expert_ff_len"] ELSE g["feed_forward_length"]
      blocks == main_block_count(g)
  IN  IF /\ Keys(g["arch"]) \subseteq DOMAIN g
         /\ blocks > 0
         /\ moe => MoeOk(g)
         /\ SsmOk(g) /\ ffn # 0 /\ AttentionOk(g)
         /\ g["rope_dim"] \in 1..g["key_length"] /\ g["rope_dim"] % 2 = 0
         /\ \E i \in 1..blocks : LayerKinds(g)[i] = "gdn"
      THEN [arch |-> g["arch"], shape |-> Shape(g, ffn, blocks),
            kinds |-> LayerKinds(g), gdn |-> GdnConfig(g), ropeDim |-> g["rope_dim"],
            moe |-> IF moe THEN [k \in MoeKeys |-> g[k]] ELSE <<>>]
      ELSE Unloadable

\* AnyModel::load: the architecture names the loader, and no other is known.
from_gguf(g) ==
  CASE g["arch"] = "qwen3" -> DenseConfig(g)
    [] g["arch"] \in {"qwen35", "qwen35moe"} -> HybridConfig(g)
    [] OTHER -> Unloadable
=============================================================================
