--------------------------- MODULE MCKernelDispatch ---------------------------
(* Instance of KernelDispatch: shapes the registry's checkpoints have, one *)
(* no kernel was tuned for, and headers the loader refuses.                *)
EXTENDS KernelDispatch

H(arch, hidden, heads, kvHeads, headDim) ==
  [arch |-> arch, block_count |-> 4, embedding_length |-> hidden, head_count |-> heads,
   head_count_kv |-> kvHeads, key_length |-> headDim, context_length |-> 4096, vocab |-> 1000]
Ffn(n) == [feed_forward_length |-> n]
Ssm(kHeads, vHeads, inner, state, ropeDim) ==
  [conv_kernel |-> 4, group_count |-> kHeads, time_step_rank |-> vHeads, inner_size |-> inner,
   state_size |-> state, rope_dim |-> ropeDim, ssm_a |-> {0, 1, 2}, nextn |-> 0]
Moe(count, used, ff, shared) ==
  [expert_count |-> count, expert_used_count |-> used, expert_ff_len |-> ff, shared_ff_len |-> shared]

Dense06B == H("qwen3", 1024, 16, 8, 128) @@ Ffn(3072)
Ornith9B == H("qwen35", 4096, 16, 4, 256) @@ Ffn(12288) @@ Ssm(16, 32, 4096, 128, 64)
Ornith35B == H("qwen35moe", 2048, 16, 2, 256) @@ Moe(256, 8, 512, 512) @@ Ssm(16, 32, 4096, 128, 64)
OddDense == H("qwen3", 288, 10, 1, 48) @@ Ffn(800)
OddHybrid == H("qwen35", 320, 4, 2, 80) @@ Ffn(864) @@ Ssm(2, 6, 432, 160, 40)
\* Refused: heads not in groups, a draft block for every block, no GDN layer.
Refused ==
  {H("qwen3", 288, 10, 3, 48) @@ Ffn(800), H("gemma", 288, 10, 2, 48) @@ Ffn(800),
   [Ornith9B EXCEPT !["nextn"] = 4], [Ornith9B EXCEPT !["ssm_a"] = {}],
   [Ornith35B EXCEPT !["expert_used_count"] = 300], [Ornith9B EXCEPT !["time_step_rank"] = 24]}

MCFiles ==
  ({Dense06B, Ornith9B, OddDense, OddHybrid} \X BOOLEAN)
  \union (({Ornith35B} \union Refused) \X {FALSE})
MCMoeFiles == {<<Ornith35B, TRUE>>}

\* What the theorems about launches and scratch assume of the files holds of these;
\* the second one not of MCMoeFiles, which is what run mmq_scratch is about.
ASSUME LaunchableAssumption == ShapesAreLaunchable
ASSUME NarrowAssumption == Files = MCFiles => CheckpointsFit

MCRows == {1, 3, 16, 127, 128, 257, 512}
MCDepths == {0, 127, 128, 511, 2047, 3968, 40000}
=============================================================================
