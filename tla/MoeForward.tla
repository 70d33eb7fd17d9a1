----------------------------- MODULE MoeForward -----------------------------
(***************************************************************************)
(* The mixture-of-experts feed-forward block: row by row (moe.rs, decode   *)
(* and captured chunks) and grouped by expert over a chunk (moe_chunk.rs). *)
(* The host reads the router's choice back, so what is launched depends on *)
(* what an earlier launch computed.  An expert's weights are found in      *)
(* env.stage, copied there before its launches; ExpertCache has the cache  *)
(* that replaces the staging buffers.                                      *)
(***************************************************************************)
EXTENDS HybridForward

MoeBuffers ==
  {"m_xn", "m_router_logits", "m_topk", "m_shared_gate_logit", "m_ffn_a", "m_ffn_b",
   "m_expert_out", "m_accum"}

MoeChunkBuffers ==
  {"mc_router_logits", "mc_topk", "mc_shared_gate_logit", "mc_shared_a", "mc_shared_b",
   "mc_shared_out", "mc_accum", "mc_group_x", "mc_group_gate", "mc_group_up", "mc_group_down"}

Experts == UNION {{Routing[t][k] : k \in DOMAIN Routing[t]} : t \in DOMAIN Routing}

\* moe_ffn_step up to the shared expert, for row r of buffer x.
MoeRowShared(x, r) == <<
  Shifted(r, {x}, L("rmsnorm", "ffn_norm", <<x>>, <<"m_xn">>)),
  L("linear",       "router",       <<"m_xn">>,               <<"m_router_logits">>),
  L("route_topk",   "",             <<"m_router_logits">>,    <<"m_topk">>),
  L("linear",       "shared_gate",  <<"m_xn">>,               <<"m_ffn_a">>),
  L("linear",       "shared_up",    <<"m_xn">>,               <<"m_ffn_b">>),
  L("silu_mul",     "",             <<"m_ffn_a", "m_ffn_b">>, <<"m_ffn_a">>),
  L("linear",       "shared_down",  <<"m_ffn_a">>,            <<"m_expert_out">>),
  L("linear",       "shared_logit", <<"m_xn">>,               <<"m_shared_gate_logit">>),
  L("shared_write", "",             <<"m_expert_out", "m_shared_gate_logit">>, <<"m_accum">>) >>

MoeRowAdd(x, r) == <<Shifted(r, {x}, L("add_inplace", "", <<x, "m_accum">>, <<x>>))>>

\* moe_ffn_chunk_step up to the shared expert.
MoeChunkShared == <<
  L("rmsnorm",      "ffn_norm",     <<"c_x">>,                        <<"c_xn">>),
  L("linear",       "router",       <<"c_xn">>,                       <<"mc_router_logits">>),
  L("route_topk",   "",             <<"mc_router_logits">>,           <<"mc_topk">>),
  L("linear",       "shared_gate",  <<"c_xn">>,                       <<"mc_shared_a">>),
  L("linear",       "shared_up",    <<"c_xn">>,                       <<"mc_shared_b">>),
  L("silu_mul",     "",             <<"mc_shared_a", "mc_shared_b">>, <<"mc_shared_a">>),
  L("linear",       "shared_down",  <<"mc_shared_a">>,                <<"mc_shared_out">>),
  L("linear",       "shared_logit", <<"c_xn">>,                       <<"mc_shared_gate_logit">>),
  L("shared_write", "", <<"mc_shared_out", "mc_shared_gate_logit">>,  <<"mc_accum">>) >>

MoeChunkAdd == <<L("add_inplace", "", <<"c_x", "mc_accum">>, <<"c_x">>)>>

-----------------------------------------------------------------------------
\* The experts the host reads for a row, <<>> when the buffer is not the
\* router's choice for anything.
ChosenIn(v) == IF v.what = "topk" THEN Routing[Last(v.hist)] ELSE <<>>

\* The launches of one routed expert over rows 0..n-1 of in, with what is
\* staged: gate and up, activation in place, down.
ExpertRow(env, l, v, e) ==
  IF v.what = "xn_ffn" /\ v.layer = l
  THEN [v EXCEPT !.what = "expert", !.parts = {<<e, env.stage>>}]
  ELSE Garbage

RunExpert(env, l, in, gate, up, down, rows, e) ==
  LET result(r) == ExpertRow(env, l, env.buf[in][r], e)
      half(r, what) == IF result(r) = Garbage THEN Garbage ELSE [result(r) EXCEPT !.what = what]
  IN  [env EXCEPT !.buf = [@ EXCEPT
         ![gate] = [r \in BufferRows |-> IF r < rows THEN half(r, "e_act") ELSE @[r]],
         ![up]   = [r \in BufferRows |-> IF r < rows THEN half(r, "e_up") ELSE @[r]],
         ![down] = [r \in BufferRows |-> IF r < rows THEN result(r) ELSE @[r]]]]

\* weighted_accum: the expert whose weights were used, with the weight the
\* router gave expert w.
Accumulated(acc, v, w) ==
  IF /\ acc.what = "moe" /\ v.what = "expert" /\ acc.hist = v.hist /\ acc.layer = v.layer
     /\ \A p \in v.parts : p[1] = p[2] /\ <<p[1], w>> \notin acc.parts
  THEN [acc EXCEPT !.parts = @ \cup {<<p[1], w>> : p \in v.parts}]
  ELSE Garbage

Stage(env, e) == [env EXCEPT !.stage = e]

\* The serial loop of moe_ffn_step over the row's experts.
MoeRowExperts(env, l) ==
  LET chosen == ChosenIn(env.buf["m_topk"][0])
      Step(v, e) ==
        LET ran == RunExpert(Stage(v, e), l, "m_xn", "m_ffn_a", "m_ffn_b", "m_expert_out", 1, e)
        IN  [ran EXCEPT !.buf["m_accum"][0] =
               Accumulated(@, ran.buf["m_expert_out"][0], e)]
  IN  FoldLeft(Step, env, chosen)

\* The buckets of moe_ffn_chunk_step: the rows of each expert, in row order.
Bucket(env, n, e) ==
  SetToSortSeq({r \in 0..(n - 1) : e \in Range(ChosenIn(env.buf["mc_topk"][r]))},
               LAMBDA a, b : a < b)

\* Mutant of Scatter: the rows of the group are taken for rows of the chunk.
ScatterInPlace(env, rows, e) ==
  [env EXCEPT !.buf["mc_accum"] = [r \in BufferRows |->
     IF r < Len(rows) THEN Accumulated(@[r], env.buf["mc_group_down"][r], e) ELSE @[r]]]

\* scatter_weighted_accum through group_row_idx.
Scatter(env, rows, e) ==
  [env EXCEPT !.buf["mc_accum"] = [r \in BufferRows |->
     IF r \in Range(rows)
     THEN Accumulated(@[r], env.buf["mc_group_down"][(CHOOSE i \in DOMAIN rows : rows[i] = r) - 1], e)
     ELSE @[r]]]

\* gather_rows through group_row_idx.
Gather(env, rows) ==
  [env EXCEPT !.buf["mc_group_x"] = [i \in BufferRows |->
     IF i < Len(rows) THEN env.buf["c_xn"][rows[i + 1]] ELSE @[i]]]

\* One pass over the experts in index order; an empty bucket loads nothing.
MoeChunkExperts(env, l, n) ==
  LET Step(v, e) ==
        LET rows == Bucket(v, n, e) IN
        IF rows = <<>> THEN v
        ELSE Scatter(RunExpert(Stage(Gather(v, rows), e), l, "mc_group_x", "mc_group_gate",
                               "mc_group_up", "mc_group_down", Len(rows), e), rows, e)
  IN  FoldLeft(Step, env, SetToSortSeq(Experts, LAMBDA a, b : a < b))

-----------------------------------------------------------------------------
\* LayerCapture::record: the rows of a chunk, in place of what the dump had.
Record(env, n, l) ==
  [env EXCEPT !.dump[l] = [i \in 1..n.rows |-> env.buf[n.in[1]][i - 1]]]

\* record_row: the tensor is made if the dump has none under its key.
RecordRow(env, n, l) ==
  LET old == IF env.dump[l] = <<>> THEN [i \in 1..n.rows |-> Garbage] ELSE env.dump[l]
  IN  [env EXCEPT !.dump[l] = [old EXCEPT ![n.base + 1] = env.buf[n.in[1]][0]]]

\* ffn_dispatch and ffn_chunk_dispatch: a layer's block, one launch a step.
\* "routed_row" and "routed_chunk" stand for the loops over the experts.  Of
\* the tensors a capture records, the input of the block stands for all.
HybridFfn == DenseFfn

RowFfn(moe, x, r) ==
  IF moe THEN MoeRowShared(x, r) \o <<L("routed_row", "", <<>>, <<>>)>> \o MoeRowAdd(x, r)
  ELSE HybridFfn

CapturedRow(r, n) ==
  LET block == RowFfn(TRUE, "c_x", r)
  IN  <<Head(block), OnRows(n, Shifted(r, {}, L("record_row", "", <<"m_xn">>, <<>>)))>> \o Tail(block)

RecordChunk == L("record", "", <<"c_xn">>, <<>>)
CapturedChunkFfn == <<Head(ChunkFfn), RecordChunk>> \o Tail(ChunkFfn)

HybridChunkFfn(moe, n, captured) ==
  CASE ~moe /\ ~captured -> AllRows(n, ChunkFfn)
    [] ~moe /\ captured  -> AllRows(n, CapturedChunkFfn)
    [] moe /\ captured   -> FlattenSeq([r \in 1..n |-> CapturedRow(r - 1, n)])
    [] moe /\ ~captured  -> AllRows(n, MoeChunkShared)
                             \o <<OnRows(n, L("routed_chunk", "", <<>>, <<>>))>>
                             \o AllRows(n, MoeChunkAdd)

Exec(env, n, l, pos) ==
  CASE n.op = "append"       -> AppendKv(env, n, l, pos)
    [] n.op = "record"       -> Record(env, n, l)
    [] n.op = "record_row"   -> RecordRow(env, n, l)
    [] n.op = "routed_row"   -> MoeRowExperts(env, l)
    [] n.op = "routed_chunk" -> MoeChunkExperts(env, l, n.rows)
    [] n.op = "readback"     -> env
    [] OTHER                 -> Run(env, n, l, pos)
=============================================================================
