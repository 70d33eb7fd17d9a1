---------------------------- MODULE DenseForward ----------------------------
(***************************************************************************)
(* The launches of the dense architecture (rocml/src/forward): one decoded *)
(* token (attention.rs, ffn.rs) and one prefill chunk of n rows            *)
(* (attention_chunk.rs, ffn_chunk.rs).  The residual stream x and the norm *)
(* output xn are shared by every block of every layer, and the activation  *)
(* overwrites the gate it reads.                                           *)
(***************************************************************************)
EXTENDS Launches

CONSTANT FlashMinDepth    \* USE_FLASH_PREFILL_MIN_DEPTH

\* Scratch and ChunkScratch.  The MMQ and split-K scratch live inside one
\* launch (KernelLaunch).
DenseBuffers ==
  {"x", "xn", "token_id", "logits", "q", "k", "v",
   "attn_partial", "attn_concat", "attn_out", "gate", "up", "ffn_out"}

DenseChunkBuffers ==
  {"c_x", "c_xn", "c_token_ids", "c_logits", "c_attn_q", "c_attn_k", "c_attn_v",
   "c_attn_partial", "c_attn_concat", "c_attn_out", "c_ffn_gate", "c_ffn_up", "c_ffn_out"}

Embed(ids, x) == L("embedding", "token_embd", <<ids>>, <<x>>)

\* attention_step: norm, projections, per-head norms and rope in place.
DenseQkv == <<
  L("rmsnorm", "attn_norm",   <<"x">>,  <<"xn">>),
  L("linear",  "attn_q",      <<"xn">>, <<"q">>),
  L("linear",  "attn_k",      <<"xn">>, <<"k">>),
  L("linear",  "attn_v",      <<"xn">>, <<"v">>),
  L("rmsnorm", "attn_q_norm", <<"q">>,  <<"q">>),
  L("rmsnorm", "attn_k_norm", <<"k">>,  <<"k">>),
  L("rope",    "",            <<"q">>,  <<"q">>),
  L("rope",    "",            <<"k">>,  <<"k">>) >>

\* Both arms append before they attend; both attend in split-K partials.
DenseAttend == <<
  L("append",       "", <<"k", "v">>,        <<>>),
  L("attn_partial", "", <<"q">>,             <<"attn_partial">>),
  L("attn_reduce",  "", <<"attn_partial">>,  <<"attn_concat">>) >>

DenseAttnOut == <<
  L("linear",      "attn_output", <<"attn_concat">>,   <<"attn_out">>),
  L("add_inplace", "",            <<"x", "attn_out">>, <<"x">>) >>

\* ffn_step, either activation.
DenseFfn == <<
  L("rmsnorm",     "ffn_norm", <<"x">>,            <<"xn">>),
  L("linear",      "ffn_gate", <<"xn">>,           <<"gate">>),
  L("linear",      "ffn_up",   <<"xn">>,           <<"up">>),
  L("silu_mul",    "",         <<"gate", "up">>,   <<"gate">>),
  L("linear",      "ffn_down", <<"gate">>,         <<"ffn_out">>),
  L("add_inplace", "",         <<"x", "ffn_out">>, <<"x">>) >>

\* forward_token_profiled after the layers.
LmHead == <<
  L("rmsnorm", "output_norm", <<"x">>,  <<"xn">>),
  L("linear",  "output",      <<"xn">>, <<"logits">>) >>

\* attention_chunk_step: the same over n rows.
DenseChunkQkv == <<
  L("rmsnorm", "attn_norm",   <<"c_x">>,      <<"c_xn">>),
  L("linear",  "attn_q",      <<"c_xn">>,     <<"c_attn_q">>),
  L("linear",  "attn_k",      <<"c_xn">>,     <<"c_attn_k">>),
  L("linear",  "attn_v",      <<"c_xn">>,     <<"c_attn_v">>),
  L("rmsnorm", "attn_q_norm", <<"c_attn_q">>, <<"c_attn_q">>),
  L("rmsnorm", "attn_k_norm", <<"c_attn_k">>, <<"c_attn_k">>),
  L("rope",    "",            <<"c_attn_q">>, <<"c_attn_q">>),
  L("rope",    "",            <<"c_attn_k">>, <<"c_attn_k">>) >>

\* One pass below the flash threshold, split-K partials from there on; a
\* mixed plane always takes the latter.
ChunkScatter == L("append", "", <<"c_attn_k", "c_attn_v">>, <<>>)
ChunkFlash == <<
  L("attn_partial", "", <<"c_attn_q">>,       <<"c_attn_partial">>),
  L("attn_reduce",  "", <<"c_attn_partial">>, <<"c_attn_concat">>) >>

DenseChunkAttend(pos, n, mixed) ==
  <<ChunkScatter>> \o
  (IF mixed \/ pos + n >= FlashMinDepth THEN ChunkFlash
   ELSE <<L("attn", "", <<"c_attn_q">>, <<"c_attn_concat">>)>>)

DenseChunkAttnOut == <<
  L("linear",      "attn_output", <<"c_attn_concat">>,     <<"c_attn_out">>),
  L("add_inplace", "",            <<"c_x", "c_attn_out">>, <<"c_x">>) >>

\* ffn_chunk_step, of both architectures.
ChunkFfn == <<
  L("rmsnorm",     "ffn_norm", <<"c_x">>,                    <<"c_xn">>),
  L("linear",      "ffn_gate", <<"c_xn">>,                   <<"c_ffn_gate">>),
  L("linear",      "ffn_up",   <<"c_xn">>,                   <<"c_ffn_up">>),
  L("silu_mul",    "",         <<"c_ffn_gate", "c_ffn_up">>, <<"c_ffn_gate">>),
  L("linear",      "ffn_down", <<"c_ffn_gate">>,             <<"c_ffn_out">>),
  L("add_inplace", "",         <<"c_x", "c_ffn_out">>,       <<"c_x">>) >>

\* forward_chunk after the layers: the last row only.
ChunkHead(n) == <<
  Shifted(n - 1, {"c_x"}, L("rmsnorm", "output_norm", <<"c_x">>, <<"c_xn">>)),
  L("linear", "output", <<"c_xn">>, <<"c_logits">>) >>

AllRows(n, launches) == [k \in 1..Len(launches) |-> OnRows(n, launches[k])]

DenseDecodeLayer == DenseQkv \o DenseAttend \o DenseAttnOut \o DenseFfn

DenseChunkLayer(pos, n, mixed) ==
  AllRows(n, DenseChunkQkv \o DenseChunkAttend(pos, n, mixed) \o DenseChunkAttnOut \o ChunkFfn)
=============================================================================
