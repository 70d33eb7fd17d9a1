----------------------------- MODULE MCModelLoad -----------------------------
(* Instance of ModelLoad: the registry's checkpoints and two edge shapes,  *)
(* on cards from too small to ample.                                       *)
EXTENDS ModelLoad, TLC

Mib == 1024
H(arch, blocks, hidden, heads, kvHeads, headDim, context) ==
  [arch |-> arch, block_count |-> blocks, embedding_length |-> hidden, head_count |-> heads,
   head_count_kv |-> kvHeads, key_length |-> headDim, context_length |-> context, vocab |-> 151936]
Ssm(attn, blocks) ==
  [conv_kernel |-> 4, group_count |-> 16, time_step_rank |-> 32, inner_size |-> 4096,
   state_size |-> 128, rope_dim |-> 64, ssm_a |-> (0..blocks - 1) \ attn]
Ffn(n) == [feed_forward_length |-> n]
Every4th(n) == {i \in 0..n - 1 : i % 4 = 3}

File(header, disk, nonExpert, weights, expert) ==
  [header |-> header, disk |-> disk, nonExpert |-> nonExpert, weights |-> weights,
   gate |-> expert[1], up |-> expert[2], down |-> expert[3]]
None == <<0, 0, 0>>

\* Weights take what the file says, less, or more (a quantized embedding).
Dense06B ==
  File(H("qwen3", 28, 1024, 16, 8, 128, 40960) @@ Ffn(3072), 610 * Mib, 0, {610 * Mib, 760 * Mib}, None)
Ornith9B ==
  File(H("qwen35", 32, 4096, 16, 4, 256, 262144) @@ Ffn(12288) @@ Ssm(Every4th(32), 32),
       7014 * Mib, 0, {6900 * Mib, 7014 * Mib, 8663 * Mib}, None)
Ornith35B ==
  File(H("qwen35moe", 40, 2048, 16, 2, 256, 262144) @@ Ssm(Every4th(40), 40) @@
         [expert_count |-> 256, expert_used_count |-> 8, expert_ff_len |-> 512, shared_ff_len |-> 512],
       20 * 1024 * Mib, 1900 * Mib, {1860 * Mib, 1900 * Mib, 2300 * Mib}, <<576, 576, 840>>)
\* No attention layer at all, and one that is both boundaries.
PureGdn ==
  File(H("qwen35", 2, 1024, 8, 2, 128, 8192) @@ Ffn(2048) @@ Ssm({}, 2), 500 * Mib, 0, {500 * Mib}, None)
OneAttn ==
  File(H("qwen35", 4, 1024, 8, 2, 128, 8192) @@ Ffn(2048) @@ Ssm({3}, 4), 500 * Mib, 0, {500 * Mib}, None)
NoGdn ==
  File(H("qwen35", 1, 1024, 8, 2, 128, 8192) @@ Ffn(2048) @@ Ssm({0}, 1), 500 * Mib, 0, {500 * Mib}, None)

MCFiles == {Dense06B, Ornith9B, Ornith35B, PureGdn, OneAttn, NoGdn}
MCOptions ==
  [ctx : {0, 1, 160, 161, 4096, 1000000}, mode : {"fp16", "f32"}, sink : {32}, window : {128},
   slots : {0, 1000000}]
  \union
  [ctx : {0, 160, 161, 4096, 1000000}, mode : {"q8", "q4-mixed"}, sink : {0, 32}, window : {128, 1000},
   slots : {1000000}]
MCCards == {n * Mib : n \in {512, 1300, 1500, 2900, 4000, 7900, 9000, 12000, 16000, 24000}}
=============================================================================
