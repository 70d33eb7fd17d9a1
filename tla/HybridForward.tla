---------------------------- MODULE HybridForward ----------------------------
(***************************************************************************)
(* The launches of the hybrid architecture (rocml/src/qwen35/forward): the *)
(* gated attention layers and the Gated Delta Net layers, decoded token by *)
(* token or in chunks of n rows, the recurrence of a chunk in tiles.       *)
(***************************************************************************)
EXTENDS DenseForward

CONSTANT RecurTile    \* GDN_RECUR_TILE

HybridBuffers ==
  DenseBuffers \cup
  {"q_raw", "q_gate", "gdn_qkv", "gdn_z", "gdn_a_raw", "gdn_b_raw", "gdn_beta", "gdn_g",
   "conv_q", "conv_k", "conv_v", "gdn_y", "gdn_out"}

HybridChunkBuffers ==
  DenseChunkBuffers \cup
  {"c_q_raw", "c_q_gate", "c_gdn_qkv", "c_gdn_z", "c_gdn_a_raw", "c_gdn_b_raw",
   "c_gdn_beta", "c_gdn_g", "c_conv_q", "c_conv_k", "c_conv_v", "c_gdn_y", "c_gdn_out",
   "cw_q_norm", "cw_k_norm", "cw_k_beta", "cw_g_cum", "cw_decay", "cw_state_decay",
   "cw_kb", "cw_kq", "cw_v_new"}

\* attention_step of a layer with an output gate: the projection holds query
\* and gate head by head, and the two are split before the norm.
GatedQkv == <<
  L("rmsnorm", "attn_norm",   <<"x">>,     <<"xn">>),
  L("linear",  "attn_q_gate", <<"xn">>,    <<"q_raw">>),
  L("linear",  "attn_k",      <<"xn">>,    <<"k">>),
  L("linear",  "attn_v",      <<"xn">>,    <<"v">>),
  L("extract", "query",       <<"q_raw">>, <<"q">>),
  L("extract", "gate",        <<"q_raw">>, <<"q_gate">>),
  L("rmsnorm", "attn_q_norm", <<"q">>,     <<"q">>),
  L("rmsnorm", "attn_k_norm", <<"k">>,     <<"k">>),
  L("rope",    "",            <<"q">>,     <<"q">>),
  L("rope",    "",            <<"k">>,     <<"k">>) >>

GatedOut == <<
  L("sigmoid_mul", "",                  <<"attn_concat", "q_gate">>, <<"attn_concat">>),
  L("linear",      "attn_output_gated", <<"attn_concat">>,           <<"attn_out">>),
  L("add_inplace", "",                  <<"x", "attn_out">>,         <<"x">>) >>

GatedChunkQkv == <<
  L("rmsnorm", "attn_norm",   <<"c_x">>,      <<"c_xn">>),
  L("linear",  "attn_q_gate", <<"c_xn">>,     <<"c_q_raw">>),
  L("linear",  "attn_k",      <<"c_xn">>,     <<"c_attn_k">>),
  L("linear",  "attn_v",      <<"c_xn">>,     <<"c_attn_v">>),
  L("extract", "query",       <<"c_q_raw">>,  <<"c_attn_q">>),
  L("extract", "gate",        <<"c_q_raw">>,  <<"c_q_gate">>),
  L("rmsnorm", "attn_q_norm", <<"c_attn_q">>, <<"c_attn_q">>),
  L("rmsnorm", "attn_k_norm", <<"c_attn_k">>, <<"c_attn_k">>),
  L("rope",    "",            <<"c_attn_q">>, <<"c_attn_q">>),
  L("rope",    "",            <<"c_attn_k">>, <<"c_attn_k">>) >>

GatedChunkOut == <<
  L("sigmoid_mul", "",                  <<"c_attn_concat", "c_q_gate">>, <<"c_attn_concat">>),
  L("linear",      "attn_output_gated", <<"c_attn_concat">>,             <<"c_attn_out">>),
  L("add_inplace", "",                  <<"c_x", "c_attn_out">>,         <<"c_x">>) >>

\* attention_chunk_step_mixed: the planes are read as they are stored, always
\* in split-K partials.
GatedChunkMixed == GatedChunkQkv \o <<ChunkScatter>> \o ChunkFlash \o GatedChunkOut

-----------------------------------------------------------------------------
\* gdn_layer_step: the convolution and the recurrence advance their state.
GdnConv == <<
  L("rmsnorm",  "attn_norm", <<"x">>,  <<"xn">>),
  L("linear",   "attn_qkv",  <<"xn">>, <<"gdn_qkv">>),
  L("linear",   "attn_gate", <<"xn">>, <<"gdn_z">>),
  L("linear",   "ssm_alpha", <<"xn">>, <<"gdn_a_raw">>),
  L("linear",   "ssm_beta",  <<"xn">>, <<"gdn_b_raw">>),
  Updating("conv", L("conv1d", "ssm_conv1d", <<"gdn_qkv">>, <<"conv_q", "conv_k", "conv_v">>)),
  L("gdn_gate", "ssm_a", <<"gdn_a_raw", "gdn_b_raw">>, <<"gdn_beta", "gdn_g">>) >>

GdnRecur == <<
  L("rmsnorm", "l2_alpha_q", <<"conv_q">>, <<"conv_q">>),
  L("rmsnorm", "l2_alpha_k", <<"conv_k">>, <<"conv_k">>),
  Updating("ssm", L("recurrence", "", <<"conv_q", "conv_k", "conv_v", "gdn_beta", "gdn_g">>,
                    <<"gdn_y">>)) >>

GdnOut == <<
  L("rmsnorm",     "ssm_norm", <<"gdn_y">>,          <<"gdn_y">>),
  L("silu_mul",    "",         <<"gdn_z", "gdn_y">>, <<"gdn_y">>),
  L("linear",      "ssm_out",  <<"gdn_y">>,          <<"gdn_out">>),
  L("add_inplace", "",         <<"x", "gdn_out">>,   <<"x">>) >>

\* Mutant of GdnChunkConv: the convolution state moves on before it is read.
GdnChunkConvStateFirst == <<
  L("rmsnorm",  "attn_norm", <<"c_x">>,  <<"c_xn">>),
  L("linear",   "attn_qkv",  <<"c_xn">>, <<"c_gdn_qkv">>),
  L("linear",   "attn_gate", <<"c_xn">>, <<"c_gdn_z">>),
  L("linear",   "ssm_alpha", <<"c_xn">>, <<"c_gdn_a_raw">>),
  L("linear",   "ssm_beta",  <<"c_xn">>, <<"c_gdn_b_raw">>),
  Updating("conv", L("conv_state", "", <<"c_gdn_qkv">>, <<>>)),
  Reading("conv", L("conv1d", "ssm_conv1d", <<"c_gdn_qkv">>,
                    <<"c_conv_q", "c_conv_k", "c_conv_v">>)),
  L("gdn_gate", "ssm_a", <<"c_gdn_a_raw", "c_gdn_b_raw">>, <<"c_gdn_beta", "c_gdn_g">>) >>

\* gdn_chunk_step: the rows are convolved from the state before the chunk,
\* and a launch of its own moves the state past it.
GdnChunkConv == <<
  L("rmsnorm",  "attn_norm", <<"c_x">>,  <<"c_xn">>),
  L("linear",   "attn_qkv",  <<"c_xn">>, <<"c_gdn_qkv">>),
  L("linear",   "attn_gate", <<"c_xn">>, <<"c_gdn_z">>),
  L("linear",   "ssm_alpha", <<"c_xn">>, <<"c_gdn_a_raw">>),
  L("linear",   "ssm_beta",  <<"c_xn">>, <<"c_gdn_b_raw">>),
  Reading("conv", L("conv1d", "ssm_conv1d", <<"c_gdn_qkv">>,
                    <<"c_conv_q", "c_conv_k", "c_conv_v">>)),
  Updating("conv", L("conv_state", "", <<"c_gdn_qkv">>, <<>>)),
  L("gdn_gate", "ssm_a", <<"c_gdn_a_raw", "c_gdn_b_raw">>, <<"c_gdn_beta", "c_gdn_g">>) >>

GdnChunkOut == <<
  L("rmsnorm",     "ssm_norm", <<"c_gdn_y">>,            <<"c_gdn_y">>),
  L("silu_mul",    "",         <<"c_gdn_z", "c_gdn_y">>, <<"c_gdn_y">>),
  L("linear",      "ssm_out",  <<"c_gdn_y">>,            <<"c_gdn_out">>),
  L("add_inplace", "",         <<"c_x", "c_gdn_out">>,   <<"c_x">>) >>

\* run_tile: kb becomes its inverse in place; v_new and the output read the
\* state the last tile left, and only then does this tile update it.
TileSteps == <<
  L("prep_point",  "", <<"c_conv_q", "c_conv_k", "c_gdn_beta">>,
    <<"cw_q_norm", "cw_k_norm", "cw_k_beta">>),
  L("prep_cumsum", "", <<"c_gdn_g">>, <<"cw_g_cum", "cw_decay", "cw_state_decay">>),
  L("ut_build",    "", <<"cw_q_norm", "cw_k_norm", "cw_k_beta", "cw_g_cum">>,
    <<"cw_kb", "cw_kq">>),
  L("tinv",        "", <<"cw_kb">>, <<"cw_kb">>),
  Reading("ssm", L("uv_vnew", "", <<"cw_kb", "c_conv_v", "c_gdn_beta", "cw_k_beta", "cw_decay">>,
                   <<"cw_v_new">>)),
  Reading("ssm", L("tile_output", "", <<"cw_q_norm", "cw_decay", "cw_kq", "cw_v_new">>,
                   <<"c_gdn_y">>)),
  Updating("ssm", L("tile_state", "", <<"cw_k_norm", "cw_decay", "cw_state_decay", "cw_v_new">>,
                    <<>>)) >>

\* The buffers of the whole chunk a tile works on at its own offset.
TileViews == {"c_conv_q", "c_conv_k", "c_conv_v", "c_gdn_beta", "c_gdn_g", "c_gdn_y"}

Tile(start, rows) ==
  [k \in 1..Len(TileSteps) |-> OnRows(rows, Shifted(start, TileViews, TileSteps[k]))]

\* gdn_chunkwise_step.
NumTiles(n) == (n + RecurTile - 1) \div RecurTile
TileRows(n, t) == IF n - t * RecurTile < RecurTile THEN n - t * RecurTile ELSE RecurTile
Tiles(n) ==
  FlattenSeq([t \in 1..NumTiles(n) |-> Tile((t - 1) * RecurTile, TileRows(n, t - 1))])

HybridDecodeMix(kind) ==
  IF kind = "gdn" THEN GdnConv \o GdnRecur \o GdnOut
  ELSE GatedQkv \o DenseAttend \o GatedOut

HybridChunkMix(kind, pos, n, mixed) ==
  CASE kind = "gdn" -> AllRows(n, GdnChunkConv) \o Tiles(n) \o AllRows(n, GdnChunkOut)
    [] kind = "attn" /\ mixed  -> AllRows(n, GatedChunkMixed)
    [] kind = "attn" /\ ~mixed ->
         AllRows(n, GatedChunkQkv \o DenseChunkAttend(pos, n, FALSE) \o GatedChunkOut)
=============================================================================
