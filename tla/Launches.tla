------------------------------ MODULE Launches ------------------------------
(***************************************************************************)
(* What one kernel launch of a forward pass does to the buffers it is      *)
(* given.  A buffer holds rows, a row holds a value, and a value is what   *)
(* the transformer calls it, at which layer, for which tokens: the numbers *)
(* are left out, and a kernel fed with anything but the operands of its    *)
(* equation leaves Garbage.                                                *)
(***************************************************************************)
EXTENDS Integers, Sequences, FiniteSets, SequencesExt

CONSTANTS
  Cap,        \* rows of a chunk buffer: CHUNK_CAP
  Routing     \* the experts the router picks for a token, best first

\* hist: the tokens up to and with the one the row stands for.  parts: for the
\* accumulator of the experts, <<expert, expert whose weight it was given>>.
Val(what, layer, hist) == [what |-> what, layer |-> layer, hist |-> hist, parts |-> {}]
Garbage == Val("garbage", 0, <<>>)

BufferRows == 0..(Cap - 1)
BlankBuffer == [r \in BufferRows |-> Garbage]

\* A launch: the rows it covers, its weight, what it reads and writes.  Buffers
\* in "shifted" are passed with an offset of "base" rows (forward::offset).
\* "state": which GDN state it reads.  "update": whether it writes it back.
L(op, w, in, out) ==
  [op |-> op, w |-> w, in |-> in, out |-> out,
   rows |-> 1, base |-> 0, shifted |-> {}, state |-> "none", update |-> FALSE]

OnRows(n, l) == [l EXCEPT !.rows = n]
Shifted(base, buffers, l) == [l EXCEPT !.base = base, !.shifted = buffers]
Reading(state, l) == [l EXCEPT !.state = state]
Updating(state, l) == [l EXCEPT !.state = state, !.update = TRUE]

(***************************************************************************)
(* The equations of the two architectures: kernel, weight and operands on  *)
(* the left, what they compute on the right.                               *)
(***************************************************************************)
Eq(op, w, in, is) == [of |-> <<op, w, in>>, is |-> is]

Equations == {
  Eq("embedding",   "token_embd",  <<"token">>,              <<"x">>),
  Eq("rmsnorm",     "attn_norm",   <<"x">>,                  <<"xn_mix">>),
  \* attention
  Eq("linear",      "attn_q",      <<"xn_mix">>,             <<"q_raw">>),
  Eq("linear",      "attn_k",      <<"xn_mix">>,             <<"k_raw">>),
  Eq("linear",      "attn_v",      <<"xn_mix">>,             <<"v">>),
  Eq("rmsnorm",     "attn_q_norm", <<"q_raw">>,              <<"q_n">>),
  Eq("extract",     "query",       <<"q_gated">>,            <<"q_raw">>),
  Eq("extract",     "gate",        <<"q_gated">>,            <<"q_gate">>),
  Eq("linear",      "attn_q_gate", <<"xn_mix">>,             <<"q_gated">>),
  Eq("rmsnorm",     "attn_k_norm", <<"k_raw">>,              <<"k_n">>),
  Eq("rope",        "",            <<"q_n">>,                <<"q">>),
  Eq("rope",        "",            <<"k_n">>,                <<"k">>),
  Eq("attn",        "",            <<"q">>,                  <<"ctx">>),
  Eq("attn_partial","",            <<"q">>,                  <<"ctx_splits">>),
  Eq("attn_reduce", "",            <<"ctx_splits">>,         <<"ctx">>),
  Eq("linear",      "attn_output", <<"ctx">>,                <<"mix">>),
  Eq("sigmoid_mul", "",            <<"ctx", "q_gate">>,      <<"ctx_gated">>),
  Eq("linear",      "attn_output_gated", <<"ctx_gated">>,    <<"mix">>),
  \* Gated Delta Net, token by token
  Eq("linear",      "attn_qkv",    <<"xn_mix">>,             <<"qkv">>),
  Eq("linear",      "attn_gate",   <<"xn_mix">>,             <<"z">>),
  Eq("linear",      "ssm_alpha",   <<"xn_mix">>,             <<"a_raw">>),
  Eq("linear",      "ssm_beta",    <<"xn_mix">>,             <<"b_raw">>),
  Eq("conv1d",      "ssm_conv1d",  <<"qkv">>,                <<"cq", "ck", "cv">>),
  Eq("conv_state",  "",            <<"qkv">>,                <<>>),
  Eq("gdn_gate",    "ssm_a",       <<"a_raw", "b_raw">>,     <<"beta", "g">>),
  Eq("rmsnorm",     "l2_alpha_q",  <<"cq">>,                 <<"qn">>),
  Eq("rmsnorm",     "l2_alpha_k",  <<"ck">>,                 <<"kn">>),
  Eq("recurrence",  "",            <<"qn", "kn", "cv", "beta", "g">>, <<"y">>),
  \* the same a tile at a time
  Eq("prep_point",  "",            <<"cq", "ck", "beta">>,   <<"qn", "kn", "k_beta">>),
  Eq("prep_cumsum", "",            <<"g">>,                  <<"g_cum", "decay", "state_decay">>),
  Eq("ut_build",    "",            <<"qn", "kn", "k_beta", "g_cum">>, <<"kb", "kq">>),
  Eq("tinv",        "",            <<"kb">>,                 <<"tinv">>),
  Eq("uv_vnew",     "",            <<"tinv", "cv", "beta", "k_beta", "decay">>, <<"v_new">>),
  Eq("tile_output", "",            <<"qn", "decay", "kq", "v_new">>, <<"y">>),
  Eq("tile_state",  "",            <<"kn", "decay", "state_decay", "v_new">>, <<>>),
  Eq("rmsnorm",     "ssm_norm",    <<"y">>,                  <<"y_n">>),
  Eq("silu_mul",    "",            <<"z", "y_n">>,           <<"y_gated">>),
  Eq("linear",      "ssm_out",     <<"y_gated">>,            <<"mix">>),
  Eq("add_inplace", "",            <<"x", "mix">>,           <<"x_mid">>),
  \* feed-forward
  Eq("rmsnorm",     "ffn_norm",    <<"x_mid">>,              <<"xn_ffn">>),
  Eq("linear",      "ffn_gate",    <<"xn_ffn">>,             <<"gate">>),
  Eq("linear",      "ffn_up",      <<"xn_ffn">>,             <<"up">>),
  Eq("silu_mul",    "",            <<"gate", "up">>,         <<"act">>),
  Eq("linear",      "ffn_down",    <<"act">>,                <<"ffn">>),
  Eq("add_inplace", "",            <<"x_mid", "ffn">>,       <<"x">>),
  \* mixture of experts: the router, the shared expert, and its gate
  Eq("linear",      "router",      <<"xn_ffn">>,             <<"router">>),
  Eq("route_topk",  "",            <<"router">>,             <<"topk">>),
  Eq("linear",      "shared_gate", <<"xn_ffn">>,             <<"sh_gate">>),
  Eq("linear",      "shared_up",   <<"xn_ffn">>,             <<"sh_up">>),
  Eq("silu_mul",    "",            <<"sh_gate", "sh_up">>,   <<"sh_act">>),
  Eq("linear",      "shared_down", <<"sh_act">>,             <<"sh_out">>),
  Eq("linear",      "shared_logit",<<"xn_ffn">>,             <<"sh_logit">>),
  Eq("shared_write","",            <<"sh_out", "sh_logit">>, <<"moe">>),
  Eq("silu_mul",    "",            <<"e_gate", "e_up">>,     <<"e_act">>),
  Eq("add_inplace", "",            <<"x_mid", "moe">>,       <<"x">>),
  \* head
  Eq("rmsnorm",     "output_norm", <<"x">>,                  <<"xn_out">>),
  Eq("linear",      "output",      <<"xn_out">>,             <<"logits">>) }

Solution == [of \in {e.of : e \in Equations} |-> (CHOOSE e \in Equations : e.of = of).is]

-----------------------------------------------------------------------------
(* The environment of a launch: env.buf, env.kv[layer][position] and        *)
(* env.gdn[layer], for layer l with the sequence at position pos.           *)

RowOf(n, b, i) == i + (IF b \in n.shifted THEN n.base ELSE 0)
Operand(env, n, i, k) == env.buf[n.in[k]][RowOf(n, n.in[k], i)]

\* The state before the first row of the launch.
StateFits(env, n, l, i, hist) ==
  \/ n.state = "none"
  \/ env.gdn[l][n.state] = Val(n.state, l, SubSeq(hist, 1, Len(hist) - (i + 1)))

\* Every position up to the row's own holds that position's key and value.
KeysFit(env, n, l, i, pos, hist) ==
  n.op \in {"attn", "attn_partial"} =>
    /\ Len(hist) = pos + i + 1
    /\ \A j \in 1..Len(hist) :
         env.kv[l][j] = <<Val("k", l, SubSeq(hist, 1, j)), Val("v", l, SubSeq(hist, 1, j))>>

\* The residual add of a layer's last block hands x to the next layer.
LayerAfter(n, v, l) == IF n.op = "add_inplace" /\ v = "x" THEN l + 1 ELSE l

\* The sum over the experts counts as "moe" once each was added with its weight.
Complete(v) ==
  v.what = "moe" =>
    v.parts = {<<e, e>> : e \in {Routing[Last(v.hist)][k] : k \in DOMAIN Routing[Last(v.hist)]}}

RowResult(env, n, l, i, pos) ==
  LET ins == [k \in 1..Len(n.in) |-> Operand(env, n, i, k)]
      hist == ins[1].hist
      whats == [k \in 1..Len(n.in) |-> ins[k].what]
      eq == <<n.op, n.w, whats>>
      ok == /\ eq \in DOMAIN Solution
            /\ \A k \in 1..Len(n.in) : ins[k].hist = hist /\ ins[k].layer = l
            /\ StateFits(env, n, l, i, hist)
            /\ KeysFit(env, n, l, i, pos, hist)
            /\ n.op = "add_inplace" => \A k \in 1..Len(n.in) : Complete(ins[k])
  IN  [ok   |-> ok,
       hist |-> hist,
       out  |-> [k \in 1..Len(n.out) |->
                   IF ok THEN Val(Solution[eq][k], LayerAfter(n, Solution[eq][k], l), hist)
                   ELSE Garbage]]

\* All rows are computed from the buffers as they were at the launch.  (TLC
\* evaluates a function again at each application; comparing it does it once.)
Run(env, n, l, pos) ==
  LET res == [i \in 0..(n.rows - 1) |-> RowResult(env, n, l, i, pos)]
      Row(b, r) == r - (IF b \in n.shifted THEN n.base ELSE 0)
      Column(b) == CHOOSE k \in 1..Len(n.out) : n.out[k] = b
      written == [b \in Range(n.out) |->
                    [r \in BufferRows |-> IF Row(b, r) \in 0..(n.rows - 1)
                                          THEN res[Row(b, r)].out[Column(b)]
                                          ELSE env.buf[b][r]]]
      fresh == \A i \in 0..(n.rows - 1) : res[i].ok
      state == IF fresh THEN Val(n.state, l, res[n.rows - 1].hist) ELSE Garbage
  IN  IF res = res /\ written = written
      THEN [env EXCEPT !.buf = written @@ @,
                       !.gdn = IF n.update THEN [@ EXCEPT ![l][n.state] = state] ELSE @]
      ELSE env

\* Appending keys and values at the rows' positions: AttnPlane::append,
\* scatter_kv_chunk, and the mixed planes of MixedLayout.
AppendKv(env, n, l, pos) ==
  [env EXCEPT !.kv[l] = [j \in DOMAIN @ |->
     IF j - 1 - pos \in 0..(n.rows - 1)
     THEN <<env.buf[n.in[1]][j - 1 - pos], env.buf[n.in[2]][j - 1 - pos]>>
     ELSE @[j]]]
=============================================================================
