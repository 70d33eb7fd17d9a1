# Verification of rocml

rocml is an LLM inference engine for AMD GPUs: a GGUF reader and tokenizer
(`rocml-core`), HIP bindings and kernels (`rocml-hip`, `rocml-kernels`), the
engine (`rocml`), a command line (`rocml-cli`) and an OpenAI-compatible server
(`rocml-serve`). This directory holds TLA+ modules translated from its source,
TLC configurations that check them on small instances, and proofs, checked by
TLAPS, of what matters most for every instance.

Paths below are relative to `src/`. `PROJECT.json` maps every definition to the
lines it stands for, and lists the runs, the hazards, the theorems, and, for each
property, a mutation of the code that breaks it.

## 1. The system

### Components

| Component | State | Operations | Interacts with |
|---|---|---|---|
| Snapshot store, RAM tier (`rocml/src/snapshot/ram.rs`, `mod.rs`, `hash.rs`) | entries by (stamp, position, chain hash), LRU order, `used_bytes`, the pin | `insert`, `insert_pinned`, `find_best`, `would_keep*` | called by turns; promoted into from disk |
| Snapshot store, disk tier (`snapshot/disk.rs`, `codec.rs`) | snapshot files, `index.json`, the index in memory | `open`, `insert`, `find_best`, `evict_to_budget`, `save_index` | outlives the process |
| Turn (`snapshot/turn.rs`, `generate/resumed.rs`, `qwen35/forward/rewind.rs`) | the request's tokens, what is already cached, the stable boundary | reuse a prefix, prefill, capture, decode, end of turn | model, rewind points, both tiers |
| Hybrid model state (`qwen35/cache`, `qwen35/forward`) | position, recurrent state, attention rows, two GPU rewind points | forward, rewind, capture, restore, reset | turns, the KV plane |
| Mixed KV plane (`kv_quant/layout`, `qwen35/cache_mixed`) | sink, recent window, bulk region, `window_base` | append one or a chunk, evict, save and restore the window, capture, restore, reset | hybrid model |
| MoE expert cache (`qwen35/forward/expert_lru.rs`, `moe_cache`, `moe_decode_overlap.rs`) | LRU of slots, two GPU streams, two events | `get_or_insert`, blocking load, reserve and copy one ahead | decode |
| Stream scanner and parser (`rocml/src/chat/scanner.rs`, `parser.rs`) | mode, buffered text | `feed`, `finish` / `parse_assistant` | drains of the server, `chat` |
| Server (`rocml-serve/src/routes.rs`, `worker.rs`, `sse.rs`) | job channel, one event channel per job, worker thread, drains | admit, queue, run, stream, reply, disconnect | turn, scanner |
| Forward pass (`rocml/src/forward`, `qwen35/forward`) | scratch buffers shared by layers and calls, cache rows, GDN states, position | decode a token, prefill chunks (captured or not), reset; dense, hybrid, MoE | calls launchers; driven by turns |
| Weights, dispatch, launchers (`weights/linear.rs`, `forward/kernels*.rs`, `qwen35/forward/*kernels*.rs`) | formats of the loaded tensors, scratch capacities | choose a kernel for a product, split it, make its grid | called by the forward pass |
| Model configuration and load (`config.rs`, `qwen35/config.rs`, `model.rs`) | sizes, layer kinds | read a header or refuse it; allocate | budget |
| VRAM budget (`budget`, `load_opts.rs`, `clamp_ctx` of the registry) | free memory measured, cost of a token | estimate, clamp, check, suggest | load, expert cache, rewind points |
| Chat renderer (`chat/render.rs`) | none | messages → prompt and boundary | handlers; parser's inverse |
| Tokenizer, GGUF reader, sampling, registry's names, quantization policy | none (pure), or set once at load | — | see "Not modelled" |

### How they interact

An HTTP handler renders and tokenizes the request, checks it against the context
length, and sends a job with a fresh event channel to the one worker thread that
owns the model. The worker runs `run_turn`: it looks for the longest usable
prefix of the prompt, on the GPU (a rewind point) or in the stores, RAM before
disk; brings the model's state there; prefills the rest, capturing state at the
4096-token grid and at the *stable boundary* (the prefix the next turn's
rendering will share); decodes, pushing text to the job's channel; and saves a
rewind point at the end. Prefill and decode are programs of kernel launches over
scratch that is allocated once, when the model is loaded, under a budget that also
has to leave room for what is allocated later. The handler's task (one reply) or a spawned
task (a stream) drains the channel through a scanner that splits off thinking and tool
calls; the client sends the answer back with its next question, and the template
makes the next prompt of it.

### What is hard

* *Reuse of state.* The live cache, rewind points and snapshots are shared by
  all conversations, one after the other. A stale row, window, base or prefix
  gives fluent but wrong output, which no assertion notices.
* *Failure in the middle.* Any GPU call may fail between two layers; a panic is
  caught and the same model used on; a process may die between two file writes.
* *Two GPU streams.* A slot may be overwritten by a copy before its last reader,
  enqueued long ago, has run.
* *Concurrency in the server.* Handlers, drains, the worker and clients that
  leave; an answer for everyone whatever fails.
* *Cuts anywhere.* A tag may be cut between two chunks of text at any place, a
  prompt into chunks at any place relative to an eviction.
* *Scratch that is never cleared.* Every layer and every call leave rows behind
  that the next must not read, and a chunk of one length follows one of another.
* *Sizes written twice.* The scratch of a split is allocated in one file and the
  number of splits chosen in another; the budget counts what other files allocate.
* *Text that makes a round trip.* An answer is scanned, sent to a client, returned
  in one of several forms and rendered again; the cache is reused only if the
  tokens agree.

The full list, with lines and the properties that cover each, is under `hazards`
in `PROJECT.json`; the few that no property covers say why.

## 2. The modules

```
Snapshots ── RamStore
    │  └──── DiskStore ────── DiskStoreProofs
    │            └─ (INSTANCE) PrefixStore
    └─ HybridModel
          └─ SnapshotTurn  (EXTENDS HybridModel, RamStore)
                └─ SnapshotTurnProofs  (of RamStore too)
MixedLayout ── MixedLayoutProofs        ExpertCache ── ExpertCacheProofs
Launches ── DenseForward ── HybridForward ── MoeForward ── ForwardPass
ModelConfig
    ├─ KernelDispatch  (EXTENDS Launchers) ── KernelDispatchProofs
    └─ ModelLoad ── ModelLoadProofs
StreamScanner ── Conversation ── ConversationProofs
Serve ── (INSTANCE) JobQueue
  └─ ServeProofs
```

Each `MC*` module fixes an instance for TLC and defines nothing else.

**Snapshots**: token sequences, the chain hash (any function: collisions are
the constant's choice), keys, sizes in bytes by position.

**RamStore** (`snapshot/ram.rs`, `mod.rs`). One record `ram`: live entries,
`used`, recency, the pin; operators `RamInsert`, `RamInsertPinned`,
`RamFindBest`, each the whole method with its early returns. Recency is a
relation (which entries are older), not the `HashMap`'s counters. Keys collide
when the hash does.

**DiskStore** (`snapshot/disk.rs`). One action per durable write: truncating the
snapshot file, completing it, changing the index (with the deletes of
`evict_to_budget`), truncating `index.json`, completing it. A `Crash` may come
between any two, and the next process may have another budget; `WriteFileFails`,
`SaveFails`, a kept file in `Delete`, and `Rot` are the failures the code logs or
ignores. A file is *absent*, *unreadable*, or the snapshot of a prefix. A lookup
lists its candidates once, when it begins (`left`), and tries them longest first; a
broken file leaves that list, the index and the directory in one step, or stays in the
directory when it cannot be deleted.

**PrefixStore**: the abstract promise of a tier's `find_best`: a set of prefixes, each
under a stamp, that grows by what is kept and may lose anything at any time; an answer
is one of them, and an exact strict prefix of the request. `DiskStore` implements it
(`IsAPrefixStore`): what is kept is what the readable files hold, so completing a file is
the one step that keeps, and a lookup that serves is the one that answers.

**HybridModel** (`qwen35/cache*`, `qwen35/forward`). Operators on the model's
record. Numbers are abstracted by *provenance*: a recurrent state or a row is the
token sequence it is the result of, or `Garbage` as soon as anything it was
computed from was not exactly that sequence's state. So "equal to recomputing
from scratch" is one equality. Operators that fail return the *set* of states the
failure may leave (some layers done, some not).

**SnapshotTurn** (`snapshot/turn.rs`, `generate/resumed.rs`). `pc` follows
`run_turn`: `idle → reuse → prefill ⇄ boundary → decode → finish → idle`; each
fallible call has an action that succeeds and one that fails. The RAM tier is
RamStore's own operators; the disk tier is no more than PrefixStore's promise (an exact
strict prefix inserted at some time, or a miss), so a lookup may find any of them.

**MixedLayout** (`kv_quant/layout`, `qwen35/cache_mixed`). Regions, eviction of
the full window in one batch, window rewind, capture of the filled blocks only. A
chunk is appended segment by segment, as `plan_chunk` cuts it, one action each: the
rows of the chunk are known from its start, `pos` says how many are in the plane,
and a query attends between chunks (`Settled`). A row is (sequence label, position).

**ExpertCache** (`expert_lru.rs`, `moe_cache`, `moe_decode_overlap.rs`). The host
thread enqueues; the streams start and finish their commands on their own. An
event is the number of commands of its stream still to finish; a wait keeps the
number it saw, which is what `hipStreamWaitEvent` does. A read and a copy have a
start and an end, so that overlap is visible.

**Launches, DenseForward, HybridForward, MoeForward** (`forward`,
`qwen35/forward`). A launch says which rows of which buffer it reads and writes. A
value is what the transformer calls it, at which layer, for which tokens: a kernel
given the operands of its equation writes the value of the equation, and any other
operands make `Garbage`. The programs of a layer (attention, FFN, GDN by tiles, MoE
row by row or grouped by expert) are sequences of launches in the order of the code.
A launch over
n rows takes the operands of each row from that row, at its buffer's offset.

**ForwardPass** (`forward_token`, `forward_prompt_chunked`, `reset`). One action
runs a call's program over buffers that keep what the last call left; a failing
launch stops it anywhere, with the position where the code leaves it. A prompt is
cut into chunks; a captured prompt records rows of its last chunk.

**ModelConfig** (`config.rs`, `qwen35/config.rs`). The keys of a file's header to
sizes and layer kinds, or an error, with the checks in the order of the code.

**Launchers** (`kernels*.rs`). Grid, block and shared memory of every launcher, and
the part of the work one block covers along each axis, taken from the kernel.

**KernelDispatch** (`weights/linear.rs`, `kernels_quant_dispatch.rs`,
`kernels_splitk.rs`, `kernels_mmq.rs`, callers of the launchers). A file is loaded;
then each action is one operation at some row count and depth, whose *plan* is the
launches it makes, the columns its reduction covers, and how far it writes into the
shared scratch buffers.

**ModelLoad** (`budget`, `load_opts.rs`, `model.rs`, `qwen35/model.rs`). `phase`
follows a load: `opened → clamped → uploaded → checked → cached → scratch → ready`,
or `refused`, `invalid`, `unloadable`, `oom`. Sizes are KiB, and every buffer is rounded up on
its own; what a token costs is in bytes, as in the code. The expert cache takes what
is left, and rewind points are allocated only then. A refused load is started again
with the context the refusal named.

**StreamScanner** (`chat/scanner.rs`, `parser.rs`). A text and a nondeterministic
cut of it into chunks; `Feed` is `process` run to its fixed point, `Finish` the
end. The parser of whole text is defined separately, from its own source, to
compare, and so is reading a text in one piece, which is what cuts may not change. Tags are
short but keep the prefixes they share.

**Conversation** (`chat/render.rs`, message mapping of `routes.rs`). Composes the
scanner with the template: a prompt is rendered, an answer is scanned as it comes,
the client returns it (as fields, without the reasoning, or as one raw text) or hangs
up, adds questions or tool results, and the next prompt is rendered. The conversions on the
way lose what they lose in the code: contents and reasoning are trimmed (`trim`), a call is
what is behind its function tag, trimmed and with its JSON spelled as `tojson` spells it
(`parse_one_tool_call_block`), and `render_tool_calls` writes the tag and that anew. White
space is the character `" "` where the template would write none; `"j"` and `"J"` are one
JSON argument, as a model may spell it (`{"a":1}`) and as `tojson` does (`{"a": 1}`).

**Serve** (`routes.rs`, `worker.rs`, `sse.rs`). Handlers, worker and drains as
concurrent actions on one job queue and one channel per request. The scanner is
any operator that tells some prefix of what it has and holds the rest.

**JobQueue**: the abstract promise of the worker's module comment: jobs are
answered once each, in the order they were sent, and lost only when the worker
dies. `Serve` implements it (`WorkerIsAQueue`).

## 3. What is checked

Every property of a passing run has a mutant in `PROJECT.json`: a plausible bug
in a mapped definition which makes TLC report that very property.

| Run | Instance and bounds | What it shows |
|---|---|---|
| `ram_store` | 2 stamps, prefixes of ≤ 3 of 2 tokens, a hash that sees only the last token, sizes = positions, budgets 0, 3, 4 | Bytes are counted exactly and bounded over replacement, eviction and the pin (`ExactWithinBudget`); entries, recency and the pin name the same keys (`IndexConsistent`); lookup returns the longest live exact strict prefix though hashes collide; the pin survives any other insert (`PinProtects`); eviction takes the oldest first. |
| `disk_store` | 3 captured prefixes, 3 requests, budgets for 2–3 files, one death, one fault, a restart with either budget | The directory implements `PrefixStore`: nothing is served but an exact strict prefix that was written whole for that stamp and is there; an insertion brings the index under the budget of this process; without faults a restart loses nothing and forgets no file; a hit is the longest readable; `BrokenAreForgotten`: whatever a lookup has passed over as broken is out of the index from then on, so one lookup pays for it and no later one, even when the file could not be deleted. |
| `snapshot_turn` | 3 turns over prompts `ab`, `abba`, `aab`, sink 1, window 2, context 5, one failed call, panic or restart | `CacheIsExact`: whichever tier a turn resumes from and whatever failed before, the live cache is exactly the state of the tokens so far. `PointsAreExact`: a matchable rewind point stays exact under later turns of any conversation. `CapturesAreExact`: what is stored is a whole state under its own tokens. `BoundaryStaysMatchable`: the next request of the conversation can be rewound to the boundary. |
| `mixed_layout` | sink 2, window 2, context 8, chunks ≤ 5, three sequences | Each position's row is where the layout reads it; a chunk leaves exactly the plane that single appends would; a saved window is restorable while its prefix is; the captured blocks are all that is needed. |
| `expert_cache` | 4 experts, 3 per token, 2 slots, one failed call | No slot has two owners; an expert about to be read keeps its slot until its kernels are enqueued; a kernel never reads a slot during a copy or with another expert's bytes (before the first failure). |
| `forward` | a dense, a hybrid and a MoE model; a GDN and an attention layer; 2 tokens, context 4, prompts of 3 and 4 in chunks of 2, tiles of 1, flash from depth 3, two of three experts a token, one failed launch, one reset | `LogitsFollowHistory`: whatever mix of decoded tokens, chunks, failures and resets came before, the logits are those of exactly the tokens before the position, and a captured prompt's rows are its last chunk's. `CacheFollowsHistory`: so are rows and states. |
| `kernels` | the 0.6B, 9B and 35B shapes of the registry, two that fit no kernel well, six refused headers; rows 1–512 and depths to 40000 around the thresholds; with and without `--mmq` (the 35B without) | `LaunchesAreLegal`: every launch is one the device takes and its blocks cover the work, none idle. `WholeReduction`: no kernel choice drops a column. `ScratchSuffices`: no number of splits outgrows its buffer. |
| `load` | six files (registry shapes, and hybrid models with no, one or only attention layers), four cache modes, ten cards of 512 MiB to 24 GiB, contexts from 0 to 10^6 | `CheckedLoadSucceeds`: what the check lets through never runs out of memory, not even for a rewind point saved turns later. `SuggestionLoads`: the context a refusal names is accepted. `ClampedCtxLoads`: a clamped context is refused only where the weights outgrew the estimate. |
| `conversation` | one question and every answer of ≤ 4 pieces (tags, broken tags, bodies), seven histories and every answer of ≤ 2; 72 answers in the shape the prompt asks for, with and without white space around reasoning, content and calls, text before the function tag, and JSON of either spelling; every cut; a question, a tool result or both added | The events so far and those `finish` would add are at every moment those of reading what was fed in one piece, and nothing but the start of a tag or a call is held back (`ChunksDontMatter`); they agree with the whole-text parser. `BoundaryRerenders`: the next prompt keeps this one up to its boundary, whatever was answered and however it came back. `TurnsBalanced`: turns open and close in turn however tool messages run together. `EndOfTurnRerenders`: an answer in the shape asked for that comes back with its reasoning is rendered as it was generated if it was laid out as the template lays it out, and never otherwise. |
| `serve` | 2 requests of 4 shapes, 2 faults, clients that leave | A turn generates no more than was asked and never holds more than the context (`ContextHolds`); streams are well formed however a turn ends; each client is told its own text in order and whole; the worker refines `JobQueue`; every request is answered. |

Two runs state what a comment of the repository says, and TLC refutes it
(`findings`):

| Run | The statement | What happens |
|---|---|---|
| `expert_one_slot` | the copy's wait is "always a sufficient barrier" (`moe_cache/overlap.rs:87-90`) | with `--moe-cache-slots 1` the slot copied into belongs to the expert about to be read |
| `mmq_scratch` | `mmq_dim` is "the largest `n` any chunked-prefill `LinearWeight::matmul` call uses" (`chunk_scratch.rs:93-94`) | in a MoE model the attention output projection reduces over more columns than both `hidden` and the experts' width |

Met while reading, and not run:

* `rewind.rs:11-13` says that the next prompt reproduces an answer "byte-for-byte". Only one
  laid out as the template lays it out: white space is trimmed (`render.rs:152`, `166`) and
  an argument `{"a":1}` comes back as `{"a": 1}` (`parser.rs:118`, `render.rs:284-335`), and
  then the end-of-turn point is saved and never matched. The turn falls back to the boundary,
  so it costs time, not correctness. `EndOfTurnRerenders` says exactly which answers these are.
* A process that dies between a snapshot file and the index (`disk.rs:166`, `184`)
  leaves a file nothing counts or deletes, in a directory called size-budgeted
  (`disk.rs:2-4`).
* `KvConfigStamp` (`types.rs:33-40`) does not name sink and window lengths; a
  snapshot of another shape is found and cannot be restored
  (`cache_mixed/snapshot.rs:163`).
* A chunk after an eviction reads rows already quantized, though
  `attention_chunk_mixed.rs:189-195` calls its own reads bit-identical.
* An expert whose copy failed stays resident (`moe_cache/mod.rs:119-132`).
* Rows of a captured MoE chunk of fewer rows than an earlier one keep the earlier
  length (`layer_capture.rs:11`, `210`, `223`); `forward` captures into a fresh one.
* A client that returns `reasoning_content` beside a `<think>` block left in `content`
  has that block rendered as content (`routes.rs:80-85`).
* The estimate leaves out the MoE chunk scratch, and the comment on the headroom
  names less than the chunk scratch takes; `CheckedLoadSucceeds` holds because the
  headroom itself is ample.
* A clamped context not above sink and window ends in a configuration error rather
  than a refusal; `--kv-window 0` with a quantized cache divides by zero in the
  estimate (`budget/mixed.rs:93`) before `validate_sink_window` is reached. A
  `conv_kernel` of 0 is not refused (`qwen35/cache/mod.rs:43` subtracts one, the
  budget saturates).

### Why the bounds are enough

* Two tokens are enough for two prefixes of one length to differ; three positions
  for a prefix, a longer one and a request past both.
* A window of two is full, evicted and refilled within the five positions of
  `snapshot_turn`, so a rewind can cross an eviction in both directions; the
  eight of `mixed_layout` have three evictions, and one chunk spans two.
* Three turns are: save, disturb, reuse. One failure may hit any of them.
* Two slots and four experts make nearly every access an eviction, and three
  experts a token let the host run two copies ahead.
* Two requests: one waits or arrives while the other runs. Two faults: a failed
  turn and then the death of the worker.
* Two layers, one of each kind, are a layer before and after each kind of block;
  a prompt of three is a whole chunk and a short one, one of four two whole ones, and a
  context of four leaves room for decoded tokens before and after, and depths on both sides of the flash threshold.
* `kernels` and `load` have real shapes rather than small ones: the properties are
  about arithmetic at the sizes the code was tuned for, and just off them.
* Four pieces are a tag, its body, its end and one thing before or after. Two
  requests are the one whose boundary is saved and the one that is to match it.
* `MaxTurns`, `MaxFailures`, `MaxResets`, `MaxCrashes`, `MaxErrors`, `MaxFaults`,
  `MaxRequests`, `MaxLabels`, `FailingOps` and `MaxPieces` appear only as such
  bounds. They stop a run, which is why most configurations do not check deadlock;
  in `ram_store`, `disk_store`, `expert_cache` and `kernels`, which need not stop,
  deadlock is checked.

### Fairness

* `Serve`: `WF(WorkerStep)` and `WF(DrainStep(r))`. The worker is an OS thread
  blocked on nothing but its channel, the drains are tokio tasks woken by theirs.
  A turn may sample as long as it is asked to, but `max_new_tokens` bounds it, so
  weak fairness of the worker suffices. That a GPU call returns is assumed.
  Clients, failures and panics are not fair.

### Limits of single properties

* `AgreesWithParser` and `ChunksDontMatter` are about texts whose tool calls parse.
  For one that does not, `feed` returns an error its callers drop, and what is lost
  depends on the cut.
* `BoundaryRerenders` excludes a prompt that ended in tool results to which, after the
  client had hung up, more were added: they join a turn that was closed.
* `TurnsBalanced` excludes conversations that begin with a tool message, for which
  the template closes a turn it never opened.
* `AgreesWithParser` is up to the white space around content and reasoning, which the
  parser of whole text trims (`parser.rs:29`, `46`) and the scanner does not.
* `EndOfTurnRerenders` is about answers in the shape the prompt asks for, returned as
  they were told, with their reasoning kept or without any.
* `CacheFollowsHistory` and `LogitsFollowHistory` do not hold for a hybrid model
  after a pass failed between a state's update and the position's; the turn resets or
  restores such a model, which is `CacheIsExact`.
* `LaunchesAreLegal` exempts the prefill kernel for shallow prompts on models with
  more than eight heads a group: only the driver refuses those.
* `SuggestionLoads` and `ClampedCtxLoads` exempt models no layer of which grows with
  the context: there the context the refusal names is no limit.
* `CheckedLoadSucceeds` takes the card to be used by this process only.
* `IsAPrefixStore` takes captured prefixes of one length to have different hashes:
  a file is not compared with the index entry that names it.
* `BoundaryStaysMatchable` excludes turns restored from the store exactly at
  their boundary, which save neither the rewind point nor the pin again.
* `ServesRightExpert` holds up to the first failed call.

## 4. What is proved

All proofs are for every value of the constants that satisfies the module's
`ASSUME`, and use no other assumption except where named.

**SnapshotTurnProofs, the RAM tier.** From `SnapshotAssumption` and `RamAssumption`: sizes depend
on the position and are bounded; tokens, stamps, budgets and the hash are arbitrary,
infinitely many and colliding included. The inductive invariant `RamInv` is: the
record has its type; finitely many entries are live; `used` is the number of byte
cells of the live entries and at most the budget; the pin is live or none; each
entry sits under its own key; recency is a strict total order over the live
entries. Recency is needed although only the eviction order mentions it: the oldest
survivor bounds what its predecessors freed, so without it making room need not
succeed. Lemmas about `Without`, `Touch`, `Store` and `MakeRoomAndStore` (it frees
enough, and never the pin) and about the lookup feed one lemma per operation.
Theorems: `RamStoreInvariant`, `RamTypeCorrect`, `RamWithinBudget`,
`RamIndexConsistent`, `RamLookupCorrect`, `RamPinProtects`, and `RamEvictsOldestFirst`, for
which the lemma about making room also says that what it dropped are the oldest and
that with the last of them the new entry would not have fitted. `RamTypeCorrect` is a
type invariant no run lists.

**DiskStoreProofs.** From `SnapshotAssumption` and `DiskAssumption` (which says that
the two kinds of files that cannot be read, and a torn `index.json`, are none of those
that can); any number of deaths and failures, any hash. It begins with what the library
has no theorem for: the recursive functions behind `Others` and `TotalBytes` exist
(`IterationExists`, by the least-number principle), what they keep and count, and that
evicting to a budget leaves the end of the list, which fits. The inductive invariant
`DiskOK` has two parts. `DiskInv`, whatever dies or fails: the index, in memory and in
`index.json` when that can be read, names no file twice; a file that can be read holds a
captured prefix that has the file's name; a call in progress has the data of its step.
`WholeInv`, until the first death in a call or failure: the directory is the files of the
entries, each with its entry's prefix, and between the truncation of a file and its entry
that file too. A file that is overwritten is why the second part has to except the one
name: the entry of a prefix inserted again stands while its file is torn. The first part
gives `DiskServesLongest`, since a name holds the length, and `DiskIndexWithinBudget`;
`DiskIsAPrefixStore`, the step simulation of `PrefixStore`, needs `NoCollisions` too (two
captured prefixes of one length do not have one chain hash), as the code compares the
request with the entry and never the entry with the file; and `Truncated`: a file is
unreadable from its truncation to its completion, so completing it loses no other prefix.
With the second part a lookup finds no file it has to drop, which
gives `DiskRestartLosesNothing`. `Ahead`, proved beside `DiskOK`, ties a lookup's list to the
index it was made from: what is left to try is what the index still names, which gives
`DiskForgetsBroken`. Theorems: these five and `DiskInvariant`.

**ExpertCacheProofs.** From `ExpertAssumption`, and `Capacity >= 2` for the loop.
The inductive invariant `CacheInv` is: slots in use are exactly those handed out
and injective; recency is a strict order whose minimum exists when the cache is
full; and, along the host's loop, the current expert is resident in the slot the
loop remembers and the newest until the lookahead, which is then the newest. "The
newest is not the one evicted" is where two slots are needed; `expert_one_slot` is
what happens with one. `StreamInv` adds, until the first failure, the two streams:
what a resident's slot will hold, once the queued copies have run, is its own expert
(`ResidentsArrive`); every queued read gets it and keeps it, however the streams go on
(`ReadsAreSafe`); every queued copy is waited for on the default stream, or the host is
about to (`CopiesAwaited`); and what the host may rely on at each step of its loop
(`HostOrder`). An event is a count that drops as its stream goes on, so each clause is about
places in two queues.
Theorems: `ExpertCacheInvariant`, `ExpertSlotsDistinct`, `ExpertSlotHeld`,
`ExpertReadsRight`.

**KernelDispatchProofs.** From `DispatchAssumption` (row counts are positive, header
values are natural numbers, whatever they are). `DecodeSplitsCover` and
`FlashSplitsCover`: for any depth, heads and rows, the chosen splits are between one
and the maximum the scratch is made for, none is empty, and together they cover the
positions. `ReductionIsWhole`: whichever kernel a product takes, it reduces over
every column. The invariant is the property with `Widths`: a loaded model has the
sizes `from_gguf` makes and the widths its layers' tensors have. The argument goes through the dispatch case by case: each
fast path's guard makes its stage divide the part of the columns a split gets, and
the scalar path has no stage. What `LinearWeight::load` makes of a format is needed:
a quantized tensor keeps its blocks only if they divide the columns.
`ScratchSufficesIfLargest` bounds what each operation leaves in a shared buffer by what
the buffer's constructor asked for: the splits of attention by the lemmas above, those of
a product by the columns they share, the recurrence by its tile, and the codes of the MMQ
kernels by `mmq_dim` where the comment about it holds (`LargestReduction`). The
hypothesis is the statement `mmq_scratch` refutes for a MoE model with `--mmq`; the other
buffers do not need it. `ScratchSufficesForCheckpoints` replaces it by a condition on the
files alone, `CheckpointsFit` (of those run with `--mmq`, none has heads or a shared
expert wider than the wider of hidden and feed-forward width), which TLC evaluates in
`kernels`. `LaunchesLegal` takes two things that are not about the dispatch: the device is at least
one the kernels were written for (`DeviceAssumption`), and the shapes are ones a block can
hold (`ShapesAreLaunchable`: 32 threads a head of a group, a head's dimension, the states
of the recurrence). `from_gguf` checks none of the second, so the theorem is an
implication, and `MCKernelDispatch` has TLC evaluate that its left side holds. Every launcher
used has a lemma saying under which counts the device takes it and its blocks cover the
work with none idle (`Legal`), every operation one that its rows, splits and tiles are
such counts.

**ModelLoadProofs.** From `LoadAssumption` (sizes, contexts and cards are any natural
numbers, a window is at least one) and, for `CheckedLoadIsSafe`, `HeadroomAssumption`. It begins with the sizes: every accepted header, of
either family, with or without experts and recurrent layers, gives natural numbers.
The invariant `LoadInv /\ Promises` says, phase
by phase, which budget the numbers in hand come from: after the clamp the context is
at most what the estimate's inverse gives; at the check the free memory is the card
less the modules and the weights; a suggestion is the inverse of that same check. The
lemma `InverseFits` is the heart: the inverse (`max_ctx`) and the check
(`fits`), which the code writes separately, agree, and rounding the free memory to
KiB does not part them. `SuggestionKeepsItsWord` follows as the retry measures the
same memory, `ClampedContextLoads` as the estimate leaves no more than the check has
unless the weights outgrew it. `CheckedLoadIsSafe` needs that the headroom is ample:
`HeadroomAssumption` is the comment of `budget/mod.rs:26-37` as a formula, that what the budget
leaves out (the recurrent states, the window of a mixed plane's last block, the rounding of
every buffer, modules and scratch) is at most the headroom and, for a MoE model, two rewind
points at most the expert cache's margin. TLC evaluates it for the run's files. The invariant
`RoomInv` then says, phase by phase, how much is free and what is still to come
out of it; the lemma behind it is that the planes of any context the check lets
through take no more than the budget's price per token times the context, and the rows of one
window. Theorems: these three.

**SnapshotTurnProofs, turns.** From `SnapshotAssumption`, `ModelAssumption` (any sink, any
window of at least one, any context length), `RamAssumption` and `TurnAssumption`.
It begins with the lemmas about the model's operators: a forward pass takes the exact
state of `q` to that of `q` and a token more (`ForwardExact`, with and without an
eviction); a restore gives the state of its prefix (`RestoreOK`); neither a pass nor
one that fails changes a row below both the position and the window base
(`ForwardOK`, `ForwardBrokenOK`). The inductive invariant `TurnInv` has, beside types
and the RAM tier's own invariant, above:

* `PcInv`: where the position is at each step of a turn, so that a forward has room
  and a cut is inside the prompt;
* `LiveInv`: while a turn runs, its model is exact, its window base is *shaped*
  (the sink, or less than the position and at most a window below it), and no
  matchable point is in front of it in length or in base;
* `PointsInv`: each matchable point, restored over the rows as they are, gives the
  exact state of its prefix and is shaped; and of two such points the shorter has
  no higher base.

Exactness of the points is stated about *any* live state, exact or broken, which
is what carries it over failures: an aborted turn leaves a model nobody may read,
but its points are still good. It lasts because whatever a pass writes is at or
past the position, or in the block from the window base up; points that are behind
both cannot notice. After a rewind the longer points are invalidated; that those
left are behind the model again needs the order of the two points' bases, and that
order at a save needs the model to be ahead of every point. Each action has a
lemma `...Step`. Two more invariants rest on it. `GridInv`: the window base, and that
of every point, is the sink plus a number of whole windows, so that two models at
one position have one base, and what is captured can be put back
(`TurnCapturesExact`). `BoundaryInv`: from the moment a turn without failures is past
its boundary some valid point has the boundary's prefix, saved on the way or rewound
to, for only a save at a boundary replaces it; the longest match of a request that
goes on from there is then no shorter (`TurnKeepsBoundary`). Theorems: these two,
`TurnInvariant`, `TurnTypeCorrect`, `TurnCacheExact`, `TurnPointsExact`.

**MixedLayoutProofs.** From `LayoutAssumption`: any sink, window, context and chunk
size. `LayoutInv` is about the plane in the middle of a chunk as well as between
calls: the base is on the grid of whole windows, at most a window behind the rows in
the plane; every row appended is where the layout looks for it (`Placed`); a saved
point's rows in the sink and below its base are still its own; and the same holds of a
capture. An eviction lands where its positions will be looked for because the base is
on the grid; a point survives because nothing is written to the sink below the
position or to the bulk below the base. That chunks leave the base of single appends
(`LayoutLikeSerial`) is that a base on the grid and less than the position, at most a
window away, is unique. Theorems: `LayoutInvariant`, `LayoutFindsRows`,
`LayoutLikeSerial`, `LayoutPointsRestorable`, `LayoutCaptureComplete`.

**ServeProofs.** From `ServeAssumption`: any number of requests of any shapes, any
context, any number of failures. It begins with what the library has no theorem for:
`FlattenSeq` of a sequence with one more at its end or its head, from the uniqueness of
the function it folds with, by the least-number principle. `ServeInv` is, for the whole server: the jobs sent and
not answered, in order, are distinct and are exactly those whose outcome is
`waiting`; and for each request: a sender is held for it exactly while it waits; an
event that is not text is the last of its channel and tells the outcome; a drain that
is open still has its receiver, and finds `Done` in its channel if the turn was done; what was told,
held and is on the way make what was generated; and what was streamed is a role and
deltas, with one whole ending once it closed. Each clause is needed for another: that a drain
told everything needs the answer to be the last event, which needs that no text is sent after it, which needs
the job to have left the queue. Theorems: `ServeInvariant`, `TurnsFitContext`,
`ClientsToldInOrder`, `StreamsEndWhole`, and `WorkerQueues`, the step simulation of `JobQueue`:
initial states map to initial states and every step to a step or a stutter, which is
all of `WorkerIsAQueue` but its fairness.

**ConversationProofs.** From `TextsAssumption`: any texts, any cut. `ChunksDontMatter`
compares the scanner with `Reading`, which reads a text from left to right in one piece;
it is a recursive function, and its being defined at all (`ReadingDefined`) is the
least-number principle on the length of the text. Four rules say how reading goes on (at
the end, a call, a character, a tag). The fact about the tags that makes the
scanner right is that "<" begins each and is nowhere else in one (`TagShape`): no tag overlaps
another (`NoOverlap`), so the earliest in the buffer stays the earliest whatever is fed
behind it (`PassReads`); and what is flushed holds no beginning of a tag that the next
chunk could complete (`BegunTag`, `FlushReads`). The inductive invariant `ScannerInv` says that *for
every text that may still come*, the events so far and the reading of the buffer with that
text are the reading of all that was fed with that text: the property itself, for what was fed and no more,
is not inductive. `Turned` is the same for one turn of `feed`, which also shortens the buffer, so
that the loop ends within as many turns as the buffer has characters (`FedReads`). Theorem:
`ChunksNeverMatter`, of the whole conversation, hang-ups included.

The whole-text parser is the second reader of an answer: `extract_tool_calls` recurs behind
each block, in its own way. `CallsBy` is the rule of that recursion for one block, and no
two results obey it, by induction on the length of the text (`CallsAre`). The accumulator's fold over
`Reading` obeys the same rule as long as no call spoils it (`DeltaIsSound`, `CallIsSound`), so
the two agree where the parser accepts; and `ScannerInv` has a clause that a feed fails only
on a call that does not parse. From it follows `StreamAgreesWithParser`.

The template is proved about from `SessionsAssumption` and `AddedAssumption` too, which only
give the messages their types. `FlattenSeq` of rendered messages exists, is unique and grows
at its end (`FlattenStep`); what a message renders to depends on its neighbours, so
`HistoryGrows` is the heart: every message of a front renders as it does in the whole
(`SameTurns`), unless two tool messages join across the cut. The accumulator is a fold over the events
(`FoldSteps`), whatever comes of an answer has the type of a message (`ReplyType`), and
`ConversationInv` says that every prompt was made of messages the client still has in front of
all it has now. From it follow `BoundaryAlwaysRerenders` and, with a walk over the marks of a
rendered history that says which come next (`HistoryWalks`), `TurnsAlwaysBalanced`. The latter has a
hypothesis, `NoMarksInMessages`: the template copies contents as they are, and one that holds
`<|im_end|>` closes the turn it is in.

`AnswersRerender` puts the three together. A text in the shape the prompt asks for is its
content and its calls put together (`Tight`, `Rebuilt`, by length); with `StreamAgreesWithParser`
so are the fields the client was told (`ShapedText`). What the template makes of those fields
goes behind the history (`FieldsRendered`, `NextTurn`), but it is another text: content and
reasoning trimmed (`TrimIs`), each call its function tag and what it parsed to (`ParsedCall`).
No part of it is longer than the part it came from, so the two are equal only if every part is
(`PartsMatch`, `CallsMatch`, `RefieldsMatch`), and that is `AsTemplateWrites`. A shorter one is
followed by `<|im_end|>`, which is in no answer, so the next prompt cannot have the longer one in
its place (`PrefixMeets`). Hence the equivalence. `ToldInv` says that an answer behind the first
prompt was told to its end. That needs a hypothesis too, `AnswersAreTold`: after a hang-up a
client could send an answer it made up, which is no answer to the first prompt.

Only model-checked:

* `LogitsFollowHistory` and `CacheFollowsHistory`: a call's program is a fold over
  sequences of launches built layer by layer, so the invariant would be about what a
  recursive definition computes for every input.
* Liveness under fairness (`EveryRequestAnswered`, the fairness half of
  `WorkerIsAQueue`) and `ENABLED`, which are out of the prover's reach.

## 5. Not modelled

| Part | Why |
|---|---|
| GPU numerics: what attention, GDN, FFN and MoE kernels compute, dequantization, KV rotation | floating point; the repository compares them with CPU references. What they read and write, and their grids, are modelled. |
| HIP bindings | a thin FFI; the guarantees of streams, events and copies are in ExpertCache, the limits of a launch are constants of Launchers. |
| Which expert's bytes a launch of MoeForward gets | copied into staging before its launches there; the cache that replaces staging is ExpertCache. |
| Byte format of snapshots (`codec.rs`) | in DiskStore a file is readable or not. |
| Sampling | softmax, filters and a draw: any token may come out, as in SnapshotTurn and ForwardPass. |
| Uploading tensors, kernel arguments | sequential copies and argument lists; the formats that result are in KernelDispatch. |
| Text of prompts: the white space the template writes, the values of arguments, escapes | pieces in Conversation; what is trimmed and what is spelled anew is modelled. |
| GGUF reader, tokenizer, quantization policy, name resolution of the registry | pure functions of bytes and names, with unit tests; planned, below. |
| Command line, evaluation, profiler, server start-up, wire types | sequential drivers over `run_turn`, printing, configuration. |

## 6. Plan

Order: what makes output wrong first, then what makes a server hang, then what
refuses or mis-sizes, then pure functions.

Done: `Snapshots`, `RamStore` and its proofs; `ExpertCache` and its proofs;
`DiskStore` and its proofs; `HybridModel` and `SnapshotTurn` and their proofs; `MixedLayout` and its
proofs; `StreamScanner`, `Conversation` and the proofs about both; `Serve`, `JobQueue` and their proofs; the
forward passes; `ModelConfig`, `KernelDispatch` and `ModelLoad` and their proofs.

Next:

1. *Proofs.* `ForwardPass`: `CacheFollowsHistory` for one layer's program.
2. *The abstract store.* `RamStore` as a `PrefixStore` too, and both tiers together, with
   `SnapshotStore::find_best`'s promotion.
3. *Experts in the forward pass.* `MoeForward` over `ExpertCache` rather than staging.
4. *Pure functions* against reference definitions: sampling filters on integer
   weights, registry resolution, first-match quantization rules, BPE merging and
   special-token splitting, bounds of the GGUF reader, tool-call argument parsing.
