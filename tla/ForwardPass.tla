------------------------------ MODULE ForwardPass ------------------------------
(***************************************************************************)
(* Model::forward_token and forward_chunk of both architectures: a token   *)
(* or a chunk goes through the launches of every layer over scratch        *)
(* buffers that are never cleared, a cache that grows by position, and     *)
(* Gated Delta Net states updated in place.  Any launch may fail, and the  *)
(* caller may go on after the error.  One action is one call: a model is   *)
(* driven by one thread.                                                   *)
(***************************************************************************)
EXTENDS MoeForward

CONSTANTS
  Tokens,        \* token ids
  Sampled,       \* the tokens that are decoded
  Prompts,       \* the prompts prefilled
  MaxSeq,        \* positions of the cache
  Mixed,         \* the planes are quantized (KvMode::Mixed)
  Layers,        \* layer_kinds of a hybrid model, "gdn" or "attn"
  PrefillChunk,  \* PREFILL_CHUNK_SIZE
  FailingOps,    \* bound: the kernels whose launches may fail
  MaxFailures,   \* bound: failing launches in a behaviour
  MaxResets      \* bound: resets in a behaviour

VARIABLES
  arch,     \* "dense", "hybrid" or "moe"
  tokens,   \* the tokens of the sequence; pos is their number
  env,      \* buffers, cache and states
  call,     \* the prompt being prefilled: tokens left, whether it is captured,
            \* rows of the chunk that finished it
  out,      \* logits of the last call
  torn,     \* a failed pass moved a state and not the position
  failures, resets

vars == <<arch, tokens, env, call, out, torn, failures, resets>>

ASSUME ForwardAssumption ==
  /\ Cap \in Nat \ {0} /\ PrefillChunk \in Nat \ {0} /\ RecurTile \in Nat \ {0}
  /\ MaxSeq \in Nat /\ Sampled \subseteq Tokens
  /\ \A p \in Prompts : p \in Seq(Tokens) /\ p # <<>>
  /\ \A t \in Tokens : \A i, j \in DOMAIN Routing[t] : Routing[t][i] = Routing[t][j] => i = j

NumLayers == Len(Layers)
LayerIds == 0..(NumLayers - 1)
Kind(l) == IF arch = "dense" THEN "attn" ELSE Layers[l + 1]
NoLogits == Val("none", 0, <<>>)
NoCall == [left |-> <<>>, captured |-> FALSE, last |-> 0]

-----------------------------------------------------------------------------
\* Programs: the launches of a call, each with its layer.
At(l, launches) == [k \in 1..Len(launches) |-> [l |-> l, n |-> launches[k]]]

DecodeLayer(l) ==
  IF arch = "dense" THEN DenseDecodeLayer
  ELSE HybridDecodeMix(Kind(l)) \o RowFfn(arch = "moe", "x", 0)

ChunkLayer(l, n, captured) ==
  IF arch = "dense" THEN DenseChunkLayer(Len(tokens), n, Mixed)
  ELSE HybridChunkMix(Kind(l), Len(tokens), n, Mixed) \o HybridChunkFfn(arch = "moe", n, captured)

\* copy_to_host of the logits.
Readback(logits) == L("readback", "", <<logits>>, <<>>)

DecodeProgram ==
  At(0, <<Embed("token_id", "x")>>)
  \o FlattenSeq([k \in 1..NumLayers |-> At(k - 1, DecodeLayer(k - 1))])
  \o At(NumLayers, LmHead \o <<Readback("logits")>>)

ChunkBody(n, captured) ==
  At(0, <<OnRows(n, Embed("c_token_ids", "c_x"))>>)
  \o FlattenSeq([k \in 1..NumLayers |-> At(k - 1, ChunkLayer(k - 1, n, captured))])

\* The first k launches of a program.
Executed(program, k, start) ==
  LET after[j \in 0..k] ==
        IF j = 0 THEN start
        ELSE LET e == after[j - 1]
                 s == program[j]
             IN  IF e.stage = e.stage THEN Exec(e, s.n, s.l, Len(tokens)) ELSE e
  IN  after[k]

\* copy_from_host of the token ids, one row a token.
Uploaded(buffer, ids) ==
  [env EXCEPT !.buf[buffer] = [r \in BufferRows |->
     IF r < Len(ids) THEN Val("token", 0, tokens \o SubSeq(ids, 1, r + 1)) ELSE @[r]]]

-----------------------------------------------------------------------------
\* The dense scratch, the hybrid one, and the MoE scratch beside the latter.
Buffers ==
  CASE arch = "dense"  -> DenseBuffers \cup DenseChunkBuffers
    [] arch = "hybrid" -> HybridBuffers \cup HybridChunkBuffers
    [] arch = "moe"    -> HybridBuffers \cup HybridChunkBuffers \cup MoeBuffers \cup MoeChunkBuffers

GdnZero(l) == [conv |-> Val("conv", l, <<>>), ssm |-> Val("ssm", l, <<>>)]

Init ==
  /\ arch \in {"dense", "hybrid", "moe"}
  /\ tokens = <<>>
  /\ env = [buf   |-> [b \in Buffers |-> BlankBuffer],
            kv    |-> [l \in LayerIds |-> [j \in 1..MaxSeq |-> <<Garbage, Garbage>>]],
            gdn   |-> [l \in LayerIds |-> GdnZero(l)],
            stage |-> 0,
            dump  |-> [l \in LayerIds |-> <<>>]]
  /\ call = NoCall /\ out = NoLogits /\ torn = FALSE /\ failures = 0 /\ resets = 0

\* How a call leaves the model: the position moves only when "done".
Settle(e, ids, done) ==
  /\ env' = e
  /\ tokens' = IF done THEN tokens \o ids ELSE tokens
  /\ torn' = (torn \/ (~done /\ e.gdn # env.gdn))

\* forward_token: the position moves after the logits were read back.  On the
\* overflow guard the call returns with nothing changed.
Decode(t, k) ==
  LET program == DecodeProgram
      e == Executed(program, k, Uploaded("token_id", <<t>>))
      fails == k < Len(program)
  IN  /\ call.left = <<>>
      /\ Len(tokens) < MaxSeq
      /\ fails => failures < MaxFailures /\ program[k + 1].n.op \in FailingOps
      /\ Settle(e, <<t>>, ~fails)
      /\ out' = IF fails THEN NoLogits ELSE e.buf["logits"][0]
      /\ failures' = failures + (IF fails THEN 1 ELSE 0)
      /\ call' = NoCall
      /\ UNCHANGED <<arch, resets>>

DecodeToken(t) == Decode(t, Len(DecodeProgram))
DecodeFails(t) == \E k \in 0..(Len(DecodeProgram) - 1) : Decode(t, k)

\* forward_prompt_chunked(_captured): the caller brings a fresh capture.
StartPrompt(p, captured) ==
  /\ call.left = <<>>
  /\ captured => arch # "dense"
  /\ call' = [NoCall EXCEPT !.left = p, !.captured = captured]
  /\ env' = [env EXCEPT !.dump = [l \in LayerIds |-> <<>>]]
  /\ out' = NoLogits
  /\ UNCHANGED <<arch, tokens, torn, failures, resets>>

ChunkSize == IF PrefillChunk < Cap THEN PrefillChunk ELSE Cap
NextIds == SubSeq(call.left, 1, IF Len(call.left) < ChunkSize THEN Len(call.left) ELSE ChunkSize)
IsLastChunk == Len(NextIds) = Len(call.left)

\* forward_chunk within the loop, k launches of it: the position moves once
\* the layers are through, before the logits of the last chunk.
Chunk(k) ==
  LET ids == NextIds
      n == Len(ids)
      body == ChunkBody(n, call.captured)
      program == body \o (IF IsLastChunk THEN At(NumLayers, ChunkHead(n) \o <<Readback("c_logits")>>) ELSE <<>>)
      e == Executed(program, k, Uploaded("c_token_ids", ids))
      fails == k < Len(program)
  IN  /\ call.left # <<>>
      /\ Len(tokens) + n <= MaxSeq
      /\ k \in 0..Len(program)
      /\ fails => failures < MaxFailures /\ program[k + 1].n.op \in FailingOps
      /\ Settle(e, ids, k >= Len(body))
      /\ out' = IF fails \/ ~IsLastChunk THEN NoLogits ELSE e.buf["c_logits"][0]
      /\ call' = [call EXCEPT !.left = IF fails THEN <<>> ELSE SubSeq(@, n + 1, Len(@)),
                              !.last = IF ~fails /\ IsLastChunk THEN n ELSE 0]
      /\ failures' = failures + (IF fails THEN 1 ELSE 0)
      /\ UNCHANGED <<arch, resets>>

ChunkLength == Len(ChunkBody(Len(NextIds), call.captured)) + (IF IsLastChunk THEN 3 ELSE 0)
PrefillStep == call.left # <<>> /\ Chunk(ChunkLength)
ChunkFails == call.left # <<>> /\ \E k \in 0..(ChunkLength - 1) : Chunk(k)

\* A chunk that does not fit ends the prompt; what was prefilled stays.
Refused ==
  /\ call.left # <<>>
  /\ Len(tokens) + Len(NextIds) > MaxSeq
  /\ call' = NoCall
  /\ UNCHANGED <<arch, tokens, env, out, torn, failures, resets>>

\* Model::reset: the states are zeroed, rows and scratch stay.
Reset ==
  /\ call.left = <<>>
  /\ resets < MaxResets
  /\ tokens # <<>> \/ torn
  /\ resets' = resets + 1
  /\ tokens' = <<>> /\ torn' = FALSE /\ out' = NoLogits /\ call' = NoCall
  /\ env' = [env EXCEPT !.gdn = [l \in LayerIds |-> GdnZero(l)]]
  /\ UNCHANGED <<arch, failures>>

Next ==
  \/ \E t \in Sampled : DecodeToken(t) \/ DecodeFails(t)
  \/ \E p \in Prompts, captured \in BOOLEAN : StartPrompt(p, captured)
  \/ PrefillStep
  \/ ChunkFails
  \/ Refused
  \/ Reset

Spec == Init /\ [][Next]_vars

-----------------------------------------------------------------------------
\* Whatever mix of decoded tokens, chunks of any length, failed passes and
\* resets led to a sequence, the logits a call returns are the transformer's
\* for exactly that sequence: no launch reads scratch another step or another
\* layer left behind (forward_token_profiled, forward_chunk and all they launch).
\* Nor do the rows a captured prompt recorded of its final chunk.
LogitsFollowHistory ==
  ~torn =>
    /\ out # NoLogits => out = Val("logits", NumLayers, tokens)
    /\ call.captured /\ call.last > 0 =>
         \A l \in LayerIds, i \in 1..call.last :
           env.dump[l][i] = Val("xn_ffn", l, SubSeq(tokens, 1, Len(tokens) - call.last + i))

\* The cache is what the next call will read: the keys and values of every
\* position before pos, and the states after exactly the tokens before pos.  A
\* dense model has both after any failure; a hybrid one until a pass fails
\* between a state's update and the position's.
CacheFollowsHistory ==
  (arch = "dense" \/ ~torn) =>
    \A l \in LayerIds :
      IF Kind(l) = "attn"
      THEN \A j \in 1..Len(tokens) :
             env.kv[l][j] = <<Val("k", l, SubSeq(tokens, 1, j)), Val("v", l, SubSeq(tokens, 1, j))>>
      ELSE env.gdn[l] = [conv |-> Val("conv", l, tokens), ssm |-> Val("ssm", l, tokens)]
=============================================================================
