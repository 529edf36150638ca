# A verification project for vllm-vulkan

vllm-vulkan runs large language models on Vulkan GPUs in two ways: as a
platform plugin of vLLM, which moves attention and linear layers of vLLM's CPU
model to the GPU one call at a time, and as a standalone server with a model of
its own in Rust. This directory holds TLA+ models of both, the TLC
configurations that check them, and TLAPS proofs about them.

Paths below are relative to the repository: `vllm_vulkan/` is Python, `src/`
holds the Rust sources.

## 1. The system

| Part | State it keeps | Operations | Talks to |
|---|---|---|---|
| Attention backend (`vllm_vulkan/attention.py`) | per layer: a GPU mirror of vLLM's paged KV cache, a bitmap of written slots, a bounded LRU memory of verified block-table prefixes | `forward()`: CPU cache write, merged write+decode, separate mirror write, decode, CPU attention | KV operators; vLLM's scheduler through block tables and slot mappings |
| KV operators (`kv_ops.py`) and layout (`kv_layout.py`) | none | build the dispatch lists and byte offsets of a KV write, a decode, both in one submission | `VulkanContext.execute_batch` |
| Linear and MLP dispatch (`model_runner.py`, `vulkan_ops.py`) | weight buffers, float16 decisions and float32 shadow copies, all keyed by the id of a tensor's storage; the set of shaders | wrapped `forward` of Linear and SwiGLU MLP modules, weight pre-upload, fallbacks to the module's own forward | the context, or the bridge |
| Subprocess bridge (`vulkan_bridge.py`) | child process, pipe, the child's table of tensors | creation with fallback, `upload_tensor`, `execute_batch`, shutdown | a real context in the child |
| Compute engine (`src/compute.rs`, context methods in `src/lib.rs`) | one command buffer, one fence, a growing supply of descriptor sets with a cursor, a pool with a bucket of idle buffers for each size | `execute_batch`, `upload`, `download`, activations | the GPU queue |
| Standalone model (`src/lib.rs`, `src/model.rs`) | uploaded weights, 33 persistent activation buffers, KV caches per layer | `forward`, `forward_and_sample`, `reset_kv_cache`; three tiers of GPU use in every layer | the compute engine |
| Server (`vllm_vulkan/server.py`) | the one shared model | `chat_completions`, `generate` on executor threads | the standalone model |
| Devices and pipelines (`src/device.rs`, `src/pipeline.rs`) | one instance for the process, a logical device per context, the table of compiled shader variants | construction and destruction of a context | the driver; Python drops contexts and tensors in any order |
| Sampler (`src/model.rs`, `server.py`) | none | greedy, temperature, top-k, top-p | the server |
| Slot mapping (`patches.py`) | none | the slots of a step's tokens from the block tables | vLLM's attention metadata |
| Batch context, worker, other patches, platform plugin, configuration | small or none | start-up, or unused by the package | |

What is hard about it:

* **Stale bookkeeping.** vLLM hands a KV block from one request to another
  without telling the mirror; Python hands the id of one storage object to
  another; persistent buffers are used again within a layer, between layers and
  between tokens. In each case something remembers a fact about a name whose
  owner has changed.
* **Partial failure.** Every GPU call may fail before or after its effect on the
  device. Each layer of the system has its own fallback, and a fallback may only
  run over state that the failed attempt left consistent. Uploads of single
  weights may fail when a model is loaded.
* **The GPU's order.** Dispatches between two barriers run in any order; the host
  must not reuse a descriptor set, a buffer or the command buffer early.
* **Interleaving.** The server's requests run on several threads over one model
  whose calls are atomic and whose sequences of calls are not.
* **Ranks.** In a tensor-parallel group each worker falls back for itself, and the
  only thing that keeps them together is that each issues the same collectives.
* **Ownership.** Constructors create Vulkan objects one by one and return at the
  first failure; Python decides when contexts and tensors go.
* **Limits.** The pool's limit, the verified-prefix limit, the context length,
  slots sized once for layers of different widths.

What makes each part correct:

* Attention: a decode on the mirror reads exactly what CPU attention would have
  read; the bookkeeping never vouches for a slot nobody wrote; every `forward()`
  returns.
* Engine: every call is answered with the outputs its operations define in
  program order, or refused; one buffer has one owner; nothing the GPU still
  uses is touched.
* Layout: the write shader, the decode shader and the byte offsets of the layout
  agree on where a scalar lies, and no two scalars share a place.
* Life cycle: every Vulkan object has at most one owner, so nothing is destroyed
  twice; what can be used exists in full.
* Linear dispatch: every product is of the weights of the module that was
  called, in the width its shader reads.
* Tensor parallelism: whatever fails on which rank, all ranks meet in the same
  collectives and go on with whole sums that have each bias once.
* Sampler: a token comes from the nucleus that top-k and top-p define, in
  proportion to its weight.
* Standalone model: every tier computes what the CPU model computes, without
  races, within its buffers, and without a panic where a slower tier exists.
* Server: an answer is sampled from the request's own tokens at their own
  positions; a request that fits is answered; every request ends.

## 2. Modules

    GpuPrograms <- ComputeEngine <- ComputeEngineProofs,   MCComputeEngine
                        | implements
                   BatchService
    EngineLifecycle <- EngineLifecycleProofs
    EngineLifecycle, MemoryTypes   <- MCEngineLifecycle
    AttentionMirror <- AttentionMirrorProofs
    KVLayout <- KVLayoutProofs
    KVLayout <- SlotMapping
    AttentionMirror, SlotMapping   <- MCAttentionMirror
    DecodeServer    <- DecodeServerProofs
    DecodeServer, Sampler          <- MCDecodeServer
    LinearDispatch  <- LinearDispatchProofs,   MCLinearDispatch
    TensorParallel  <- TensorParallelProofs,   MCTensorParallel
    ForwardPass     <- ForwardPassProofs,      MCForwardPass

An arrow reads "is extended by". `MC...` modules instantiate a model for TLC,
`...Proofs` modules hold its theorems. Definitions marked `Mutant:` are
plausible bugs: each varies the definition after it and is used only to show
that a property notices it.

### AttentionMirror

One decoder attention layer. Every layer has its own entry, so one layer is
enough.

| In the model | In the code |
|---|---|
| `free`, `table`, `len` | vLLM's block pool and block tables (external) |
| `cpu` | vLLM's KV cache tensor |
| `gpu`, `written`, `verified` | `entry.cache`, `entry.written_slots`, `entry.verified_prefix_by_blocks` |
| `pc`, `scan`, `order`, `new`, `sdpa`, `used` | the running `forward()`: the next call, `req_idx`, the batch, `use_sdpa_prefill`, `_last_vulkan_decode_used` |
| `Allocate`, `SharePrefix`, `Release` | the scheduler gives, shares and takes back blocks |
| `Forward` | entry of `forward()` up to the CPU cache write |
| `CheckPrior`, `WriteAndDecode`, `Reverify`, `MergedFails...` | `_try_write_and_decode_vulkan` and its except clause |
| `Mirror`, `MirrorFails...` | `_try_write_tokens_to_vulkan_cache` |
| `CheckAll`, `Decode`, `DecodeFails` | `_try_vulkan_decode` |
| `CpuAttention`, `Return` | `cpu_attention_with_kv_cache`, the end of `forward()` |

Keys and values are opaque (`Val`); a slot is a block and an offset. The
check of one request is one step, so a failure can fall between two requests of
a batch. A GPU call fails "before" (nothing reached the device) or "after" (the
device did the work, the wait or the read-back failed).

### GpuPrograms, ComputeEngine, BatchService

`GpuPrograms` has the dispatch lists that the Python operators build: which
bindings are fresh bytes, resident tensors or references to an earlier
operation's output, which operation stores to a tensor, and where the barriers
are, and of what sizes the buffers are that the call provides. `ComputeEngine`
runs them as `execute_batch` does: bind all operations, begin, record each one
(taking a descriptor set at `cursor`), submit, wait, reset, read. A buffer holds
a symbolic value that says which operation of the current call computed it from
which inputs, so a stale, reordered or misdirected read shows as `Wrong`. The
GPU (`Dispatch`, `Complete`) runs any dispatch whose preceding barriers are
satisfied, following the descriptor set *as it is when it runs*. Errors return
at once and drop the call's buffers, as the `?` operators of the code do. An
operation list is not empty; a copy (`upload`) is a list of its own whose
staging buffer is allocated outside the pool and dropped. A buffer keeps its
size for life (`SizeOf`). The pool has a bucket for each size, as `BufferPool`
has: a call draws buffers of exactly the sizes it asks for from the ends of
their buckets and allocates the rest, `put` stops at `POOL_MAX` buffers of one
size, and no bucket is ever emptied. `BatchService` is what a caller relies on:
one answer per call, the right one, or an error if the driver may fail;
`ComputeEngine` is checked and proved to implement it under a refinement mapping
of its phase and answer.

`execute_batch` asks something of its callers that it does not check: a chain
reference names an output that exists, and a barrier lies between operations that
depend on each other. `IsSynchronized` states it of an operation list. `Suffices`
says of a process that its memory and its descriptor sets are enough for each
call. Both are hypotheses of theorems and not guards of the model, so the
runs and the other theorems cover callers that break them.

### EngineLifecycle, MemoryTypes

The Vulkan objects of a process: the instance that the first query or context
creates for good (`VK_STATE`), a logical device per context, and everything that
is made on it. A constructor is a sequence of actions, one per driver call, each
of which may fail; what is already inside a value with a `Drop` is destroyed
then (`owns`), a bare handle is forgotten (`lost`). `loose` are the handles that
the running constructor has and no value owns. `Compile` fails before its first
object, or after one or two; its error ends the shader, not the constructor.
Buffers are allocated, freed, returned to the pool and taken from it, also after
their context is gone. `MemoryTypes` has `find_memory_type` and
`total_device_memory` as operators.

### KVLayout, SlotMapping

Where a scalar of a key or value lies, computed three times by the code:
`SlotOffset` in bytes (`kv_layout.py`), `StoreIndex` as the write shader does from
a slot, `ScanIndex` as the decode shaders do from a block table, the latter two
in elements, from push constants, modulo the width `Word` of the shaders'
integers. `SlotMapping` is `_pure_python_compute_slot_mapping` of `patches.py`,
which tells `AttentionMirror`'s slots.

### LinearDispatch

The hooks `vk_forward` and `vk_mlp_forward`, the three caches keyed by storage
id with their weak-reference callbacks, pre-upload, the float16 decision, the
context (none, direct, bridged) and the child process. One action is one call of
a hook with one outcome: the GPU, the float32 CPU path, or the module's own
forward (`orig`), which for an MLP calls its two Linear hooks (`unfused`).
vLLM's emptying and refilling of weights, with ids that are used again, is the
environment. A product is named after the weights it was computed of, `Junk` if
a shader misread its operand.

### TensorParallel

A group of ranks that run the Linear modules of a model one after another, with
the hooks of `model_runner.py`. At each Linear each rank falls back, computes,
runs an MLP fused or not, or fails after the product (in the cast), as it
likes. Collectives have no names: the n-th of a rank meets the n-th of every
other, and completes when all have called one. What a rank holds is described by
the shards and the biases in it. The module's own forward (`Orig`) is vLLM's:
product, collective, and for a row-parallel Linear the bias after it, as the
comment at `model_runner.py:325` describes it.

### DecodeServer

`chat_completions`/`generate` over the KV caches of the standalone model. A
model call is one action, since it holds the GIL; a request is a sequence of
them. A cached row records whose it is, its position, its token and its head
width. A call may panic, because a cache is full or a GPU call failed, after any
prefix of the layers has appended its row.

### Sampler

`sample_with_temperature` and `argmax` of `src/model.rs` and `temperature_sample`
of `server.py` as operators on positive integer weights in the place of the
exponentials, with exact sums. `InNucleus` and `Proportional` say what a sampler
promises.

### ForwardPass

One forward pass of the standalone model inside the engine: which tier each
layer takes, what each tier writes to and reads from the persistent activation
buffers, and the command buffers it records. Each submission is a sequence of
segments separated by barriers and the GPU executes a segment in any order. A
value is the symbolic term that computes it, so that "equal to the reference"
means the same operations on the same operands; a layer's output is renamed
`Leaf("hidden", t, l)` when it is the reference's term, to keep terms small.
Only the rounding of float16 weights is outside the comparison.

## 3. What TLC checks

Run one with `tlc -config <cfg> <module>`. The distinct states are those TLC
reports for the complete state space of the passing runs.

| Run | Configuration | Distinct states | Shows |
|---|---|---|---|
| `attn_reliable` | `AttentionMirrorReliable.cfg` | 62,035 (with symmetry) | GPU calls that succeed and blocks that are freed, shared and handed out again: a decode never differs from CPU attention |
| `attn_failing` | `AttentionMirrorFailing.cfg` | 27,940 | GPU calls that fail before or after their effect at every point, blocks never handed out twice: decodes stay right and every `forward()` returns |
| `attn_stale` | `AttentionMirrorStale.cfg` | violation | see finding 1 |
| `engine_calls` | `ComputeEngine.cfg` | 107,580 | operation lists under a driver that works and one that fails at any call: answers are right or refused, buffers and sets are reused soundly, resources stay bounded, the service is implemented |
| `lifecycle` | `EngineLifecycle.cfg` | 899,609 (with symmetry) | two contexts and two tensors constructed, failed and dropped in any order: one owner per object, nothing leaks but what the code forgets |
| `server_turns` | `DecodeServerTurns.cfg` | 133,641 | clients that take turns get answers from their own tokens, after any panic; requests that fit do not overflow; all end |
| `server_shared` | `DecodeServerShared.cfg` | violation | see finding 2 |
| `linear_apart` | `LinearDispatchApart.cfg` | 74,660 | with the fused MLP or the bridge, not both, every product is of the right weights in the right width |
| `linear_fused_bridge` | `LinearDispatchBoth.cfg` | violation | see finding 3 |
| `tensor_parallel` | `TensorParallel.cfg` | 4,824 | three ranks that fall back, fuse and fail for themselves stay in step, hold whole sums and finish |
| `forward_tiers` | `ForwardPassTiers.cfg` | 406,249 | every mix of tiers and every order of the GPU computes what the CPU model computes, without races, within the slots, without a panic |
| `forward_lost_weight` | `ForwardPassLost.cfg` | violation | see finding 4 |

### The properties

*Attention.* `DecodeReadsWhatCpuHolds`: a `forward()` that used the mirror read,
at every position of every request, what the CPU cache holds. `MirrorCoherent`:
a slot marked written holds what the CPU holds, between forwards.
`VerifiedPrefixesAreWritten`: a remembered prefix covers only marked slots.
`ReverifyPasses`: the re-check whose result the code drops cannot fail.
`CheckedTokensAreThere`: what the docstring of the check promises.
`ForwardReturns`: liveness.

*Engine.* `AnswersAreRight`, `OneOwner` (the pool, the running call and the
activations share no buffer), `InFlightBuffersOwned` and `InFlightSetsUntouched`
(nothing the GPU still uses changes hands or is rewritten), `SetsBounded` (no
growth of descriptor sets over a sequence of calls; it says nothing of a driver
that fails, under which the supply does grow), `LiveBounded` (of each size, the
buffers alive are at most what the call that needs most of that size takes, the
activations of the size and one staging buffer, whatever fails),
`ImplementsService`. There is no bound over all sizes to state: a prefill or a
block table of a length that does not come again leaves its buffers in their
buckets for the life of the context. `synced` remembers whether a wait for the
fence ever failed; `ResetIdleWhileSynced` and the two `InFlight...` properties
are guarantees up to then. After it the model goes on as the code does,
resetting a command buffer the GPU may still run, and the service promises an
answer and no longer the right one.

*Life cycle.* `OwnedOnce` (owners are disjoint and own only what exists),
`NothingElseLeaks` (what exists is owned, or is the instance, a device, or
something a failing call forgot), `UsableIsWhole` (a context, a pipeline in the
table and a tensor have all their parts, and their device, also when their
context is gone).

*Tensor parallelism.* `InStep` (all ranks have the same collectives before them),
`SumsAreWhole`, `EveryRankFinishes`.

*Pure algorithms*, checked as assumptions by the runs whose modules extend them.
`CacheIsTiled`, `InferredLayersAligned`, `ShadersFollowLayout`,
`SlotsFollowBlockTables` (`MCAttentionMirror`): the scalars of all layers tile the
cache, shaders and layout agree, the slots of a step differ and lead the decode
to each token. `MemoryIsFound`, `MemoryIsCounted` (`MCEngineLifecycle`): a memory
type is found exactly if one serves, and a preferred one if there is one.
`SamplerKeepsToNucleus`, `SamplerIsProportional`, `SamplerIsGreedy`
(`MCDecodeServer`), for both samplers.

*Linear dispatch.* `AnswersUseOwnWeights`, `CachesFollowWeights` (a cached buffer
is of the weight living under its id and of the width the cached decision
names), `UploadedOnce`, `UnfusedReturns`.

*Server.* `AnswersFromOwnTokens` (every call of an answered request attended, on
every layer, to exactly the rows of its own tokens in the window),
`CachesLevel`, `OverflowsOnlyPastTheEnd`, `ShortAnswersStopped`,
`EveryRequestEnds`; `RowsAtTheirPositions` is what `forward(token, pos)` says.

*Forward pass.* `FollowsReference` (hidden states, cached rows and logits),
`NoRace` (no two dispatches of a segment touch a slot one of them writes),
`FitsSlots`, `NeverPanics` (over failed uploads and a failing `init_act_bufs`; the
`unwrap` of `gpu_matmul_or_cpu`'s temporary buffers is outside, see the hazards).

Every property of a passing run is shown to be able to fail: `PROJECT.json`
names, for each, a mutated definition under which TLC finds it violated.

### The bounds, and why they are enough

* `AttentionMirror`: two requests over two blocks of two slots, rows of two
  blocks. That is enough for a block to change its owner, for two requests to
  share a prefix block, for a sequence to cross a block boundary, for a batch
  with one request that passes a check and one that fails it. `MaxNew = 2` makes
  prefill and decode steps mix. `MaxVerified = 2` with two requests and
  one- and two-block keys makes the memory evict. Two data values tell old
  content from new; `attn_failing` uses one, since without reuse the content that
  matters is "written or not". Permuting requests, blocks and data is sound
  because they are compared for equality only; the run that checks liveness uses
  no symmetry. `attn_failing` turns deadlock checking off: with no block handed
  out twice the scheduler runs out of them.
* `ComputeEngine`: the programs contain every shape the operators build (several
  sequences behind a barrier, two chain references, a lone dispatch, a lone
  write, a copy). Descriptor pools of two sets make the longest program (three
  dispatches) grow the supply. There are two sizes, mixed within every program
  that provides more than one buffer, so that buckets fill and empty
  independently. The first setting has all programs, an activation and buckets
  of two. The second has every failure, the two programs without a store, and
  buckets of one, which overflow when the MLP returns, and two submissions may
  be in flight after a failed wait, which happens at most once in a behaviour
  (`WaitFails`). `maxSets` also bounds the growth that failing calls cause, see
  the hazards. Of each size there are two buffers more than the call that needs
  most of it takes.
* `EngineLifecycle`: two contexts, so that one is dropped or given up while the
  other lives; two tensors; two shaders, one with a second variant, so that a
  failure falls before, between and after variants. `RMSNORM_SHADERS` is empty in
  the instance: its two variants are compiled as those of a matvec shader are.
  Two descriptor pools are one growth. Deadlock checking is off since contexts
  run out.
* `KVLayout`: layers of one or two heads, scalars, tokens per block and bytes, of
  caches that end at or before `Word = 24` elements, so that the largest fill the
  shaders' range.
* `TensorParallel`: three ranks, so that two may agree against a third; a
  gathering Linear with a bias, a reducing one with and one without, an MLP, and a
  Linear after it, so that a rank out of step meets another collective.
* `LinearDispatch`: two MLPs that share a down projection, one of them with a
  weight below the size limit; three storage ids, so that a refilled weight may
  take its own old id or another's; a weight that does not fit float16; builds
  with missing shaders.
* `DecodeServer`: five layers of which two share caches, every second one with
  full attention: a shared layer of each kind, and the last cache is not of
  both kinds. A window of 2 under a context of 4 makes the window slide; prompts
  of 1 or 2 and up to 3 new tokens reach, fill and exceed the context.
* `ForwardPass`: four layers, a sliding and a full one with caches of their own
  and one of each that shares; sizes of Gemma4-E2B, since only `FitsSlots` looks
  at them. Two tokens, so that every slot, cache and tier is used again. Up to
  two failed uploads give every combination of two tier decisions. Uploads in
  `MCTolerated` are those the code has a slower tier for; of the norms and the
  scalar, which gate one decision together, one may fail. Deadlock checking is
  off since the model stops after `MaxTokens`.

### Fairness

* `AttentionMirror`: weak fairness of the steps of a running `forward()`, which
  is straight-line code in one thread. Starting a `forward()` is not fair.
* `ComputeEngine`: weak fairness of the host inside a call and of the GPU on
  submitted work. The code waits with a timeout of `u64::MAX`, so it relies on
  the driver in the same way. Making a call is not fair.
* `BatchService`: weak fairness of answering a pending call; TLC checks that the
  engine's two conditions imply it.
* `DecodeServer`: weak fairness of each request's steps: every executor thread
  gets the GIL again. A request arriving is not fair.
* `LinearDispatch`: weak fairness of the next Linear call of an MLP's own
  forward, which is straight-line code.
* `TensorParallel`: weak fairness of each rank, a process of its own, and of a
  collective that all have joined.
* `EngineLifecycle` and `ForwardPass` have safety properties only.

## 4. What the code does against what it says

Each is a run that TLC ends with a counterexample.

1. `attn_stale`, `attention.py:741`. `written_slots` is set when a slot is first
   mirrored and never cleared. When a block is handed to another request and the
   mirror write of its token fails (the failure is only logged), the check still
   passes and the decode reads the earlier request's key and value. The docstring
   of `_vulkan_cache_has_sequences` promises that every token to be read "has
   already been written there". The check is sound in either half alone: without
   failures (`attn_reliable`) and without reuse (`attn_failing`).
2. `server_shared`, `server.py:241`. Requests run on the default executor without
   a lock over one model: with two open, rows land at indices that are not their
   positions.
3. `linear_fused_bridge`, `vulkan_bridge.py:239`. The bridge turns a chain
   reference, a pair of integers, into two bytes, and the fused MLP returns a
   product that is not of its weights; nothing raises, so nothing falls back.
4. `forward_lost_weight`, `lib.rs:2034`. The FFN's single submission is chosen on
   `gate_proj` and `down_proj` and indexes `up_proj` too: losing that one upload
   panics where the comment on the tiers promises a fallback.

## 5. What is proved

TLAPS checks the proofs for every value of the constants that the named
assumptions of the modules allow. `PROJECT.json` lists the theorems.

**AttentionMirrorProofs** (from `MirrorAssumption`: positive sizes). `IndInv ==
TypeOK /\ BatchOK /\ VerifiedPrefixesAreWritten /\ ChecksOK` is inductive.
`VerifiedPrefixesAreWritten` is not inductive by itself: that a scan which
starts at a verified prefix ends with a written prefix needs `CheckIsSound`,
which relates a table to its tables without the last block; and `ReverifyPasses`
needs `ChecksOK`, which says what the requests already scanned by `CheckPrior`
have established while later requests are scanned and entries may be evicted.
`BatchOK` ties the batch to the block tables. From `IndInv`: `TypeCorrect`,
`VerifiedPrefixesCorrect`, `ReverifyCorrect`, under any failures and any reuse
of blocks. With `Failures = {}`, `CohInv` (a written slot agrees with the CPU
except for the slots of the running step before their mirror write) is inductive
relative to `IndInv` and gives `MirrorCoherentWhenReliable` and
`DecodeCorrectWhenReliable`. With `Reuse = FALSE`, `OnceInv` is inductive
relative to `IndInv` under any failures: no block of a table is free, a block
with room is at one place of one table, a slot that holds no token is not marked
as written, and a written slot agrees with the CPU. It gives
`CheckedCorrectWithoutReuse` and `DecodeCorrectWithoutReuse`. One of the two
hypotheses is needed: with failures and reuse both properties fail (section 4).

**DecodeServerProofs** (from `ServerAssumption`: both layer kinds occur below the
first shared layer). `TypeInv == TypeOK /\ Fresh /\ Ahead` gives `TypeCorrect`
for any number of open requests. With `MaxOpen = 1`, `TurnInv` adds that one
request is open, that the owners' caches are exactly its rows (`RowsAreOwn`),
and that no call has yet attended to anything else. The core is
`AttendsRightWhenOwn`: over such caches every layer, windowed or full, owned or
shared, attends to the request's own context; it needs `TargetKind`, that the
cache a layer shares is of the layer's kind, from the arithmetic of the layer
pattern. From `TurnInv`: `AnswersCorrectWhenTakingTurns`,
`CachesLevelWhenTakingTurns`, `FittingRequestsFit`, for any model, window,
context length and failures. `Stopped`, that a running request has sampled no stop
token and an answered one none but its last, is inductive with `TypeInv`; it gives
`ShortAnswersCorrect` for any number of open requests.

**LinearDispatchProofs** (from `LinearAssumption`).
`IndInv == TypeOK /\ CachesFollowWeights /\ NoContextNoBuffer /\ BridgeAskedFor`
is inductive: `NoContextNoBuffer` because setting a context clears the decisions
and not the buffers, which would break the agreement of the two caches if there
were buffers; `BridgeAskedFor` because a wrong product needs the bridge. It
gives `TypeCorrect` and `CachesCorrect`, and `AnswersCorrectApart`: if no
setting turns on both the fused MLP and the bridge, every product is of the
right weights. That hypothesis is needed (finding 3). `UploadsKept` is the action
property `UploadedOnce`: an upload fills in entries that are missing, and the
clean-up of one storage removes no other's entry because storages that live have
distinct ids.

**TensorParallelProofs** (from `GroupAssumption`: every MLP that the hook may fuse
is fusible). `IndInv == TypeOK /\ Positions /\ InStep /\ Values` is inductive:
`Values` says what a rank holds at every point of a call, not only between calls,
and `Positions` that a rank inside a call stands at a Linear of the model. The
core is the collective: all ranks in it have joined the same one by `InStep`, and
the union of what they bring is the whole sum by `Values`. It gives
`TypeCorrect`, `LockStep` and `SumsCorrect` for any group, model and failures.

**EngineLifecycleProofs** (from `LifecycleAssumption`: a context may have a
descriptor pool). `IndInv` is `OwnedOnce /\ NothingElseLeaks` with what they need:
`Fresh`, that what the running constructor is about to create does not exist
(`Created` tells its progress from an object), without which a second creation
would give an object a second owner; `Variants`, that a shader's variants still
to compile differ, for the same reason; `OwnsOwn`, that an engine owns no device
and what the constructor holds is not lost; and `Halfway` and `Whole`, what the
constructor and a returned context consist of at each point. Two lemmas carry
most steps, `OwnsMore` (new objects get an owner) and `Forgets` (a failing call
loses them). It gives `TypeCorrect`, `Ownership`, `NoOtherLeaks` and `UsableWhole`
for any contexts, tensors, shaders, failures and order of drops.

**ForwardPassProofs** (from `ConfigAssumption`: sizes are natural numbers, a layer
exists that does not share its cache, a head of a sliding layer is no wider than
one of a full layer, and there are key-value heads and elements to attend to,
since `cpu_sdpa` divides by their number; and `BoundsAssumption`).
The order of the GPU within a segment makes the values in the slots unpredictable
step by step, so the invariant does not describe them: each submission has a
*table* (`FusedTable`, `FfnTable`, ...), what its slots hold once all of it has
executed. `Running(table)` says that what is left of the submission is `Sound` (no
dispatch writes a slot that another one of its segment or an earlier one reads or
writes, each computes its entry of the table from other entries, each fits) and
that every slot of the table is `Awaited` or already holds its entry. `Executes`
is the core: any dispatch of the first segment, in any order, keeps that. The
order within a submission is a depth given to every slot (`Depth`, `Deep`), so
that the seventeen segments of `fused_post_attention` need no comparison of all
pairs (`FusedSound`). `IndInv == TypeOK /\ Buffers /\ IsSequence(cmd) /\ Stage`
ties the table to the point the thread waits at: what layer, token and residual
it is of, and that these are the reference's. It gives `TypeCorrect`,
`ReferenceFollowed`, `RaceFree` and `SlotsFit` for every configuration, every
set of lost weights and any number of tokens. `PanicFree` has the hypothesis that
the uploads of `up_proj`, `k_proj` and `v_proj` do not fail; it is what
`MCTolerated` leaves out and it is needed (finding 4).

**KVLayoutProofs** (for all layers and sizes). Two conditions are assumed where
they are needed, both in `Addressable`: the layer's base is a whole number of its
elements, which holds since all layers of a cache have one dtype
(`InferredLayersAligned`), and the cache ends within the shaders' integers, which
the code does not check. Then `StoreMatchesLayout` (the write shader stores at the
byte offset of `kv_layout.py`), `ScalarsApart` (two scalars of a layer never
share an element) and, without either condition, `ScanFindsStore` (the decode
shader reads a token where the write shader put it through the slot of its block
table). They rest on the uniqueness of quotient and remainder.

**ComputeEngineProofs** (from `EngineAssumption`: operation lists are not empty
and well formed, the first descriptor pool exists, buffers are finitely many).
`IndInv` is inductive under any failures of the driver. Its parts: `CallShape`,
how far the call is bound and that the buffers of its operations lie one after
another in `temp_bufs` and `out_bufs`; `Memory`, that buckets, temporaries,
outputs and activations are disjoint and without repetition and a bucket has
buffers of its size only (`OneOwner`, with the types it needs); `Recording`,
that each recorded dispatch points at the bindings of its operation through a
set that no other one has (`Points`); `Queue`, that while `synced` the GPU has
nothing, or exactly the submission of the running call with the fence not yet
signalled. `InFlightBuffersOwned` is not inductive without `Points`, and
`Points` of a submission in flight not without `Queue`, since otherwise the next
call would rewrite its sets. `IndInv` gives `TypeCorrect`,
`BuffersHaveOneOwner`, `BuffersInFlight`, `SetsInFlight` and `ResetIdle`.

Three invariants are inductive relative to `IndInv`. `PoolBounded` counts size
by size: what a call holds of a size is one buffer per binding of its own of
that size, and together with the bucket that it will fill it is no more than the
most demanding call needs, because a call takes new buffers of a size only when
the bucket is empty; this gives `BuffersBounded`, for each size and not over all
of them. `SetsInv` says that without failures the cursor is back at zero between
calls and never ahead of the dispatches recorded, unless the driver has no more
sets to give, and gives `DescriptorSetsBounded` from the hypothesis that callers
name outputs that exist: a reference beyond `out_bufs` ends the call after it
has taken sets. `DataInv` says what temporaries, outputs and tensors hold while
the GPU is part way through a submission: `Current(Done)`, what the operations
done so far would leave if they had run in program order. That a dispatch keeps
it is the core (`InputIsRight`, `DispatchData`): by `Independent` an operation
that the barriers allow to run depends on nothing that has not run, and nothing
that depends on it has.

`Implements` is the refinement, `Spec => Service!Spec`: every call is answered
once, with what its operations compute in program order, unless a wait for the
fence has failed before, and refused only under a driver that fails. Its
hypotheses are `IsSynchronized` for all operation lists, which is needed (a run
in which `WriteAndDecode` loses its barrier violates `ImplementsService`, one of
the mutants), and `Suffices` (of each size, and of descriptor sets) where the
driver does not fail, without which a call is refused for lack of memory. The
instance of `engine_calls` satisfies both, and `OperatorsSynchronize` proves the
first one of every operation list the Python operators build, for any sizes and
any number of sequences, with resident weights for a Linear layer and the fused
MLP.

**Only model-checked**: all liveness (`ForwardReturns`, the answer that must
come in `ImplementsService`, `EveryRequestEnds`, `UnfusedReturns`,
`EveryRankFinishes`), which needs reasoning about fairness beyond this prover,
and the pure operators of `SlotMapping`, `Sampler` and `MemoryTypes`, on small
inputs. Every other property of a passing run is a theorem, some of them under
the hypotheses named above.

## 6. What is not modelled

* Float arithmetic, in shaders and on the CPU: values are names or terms. So
  rounding, overflow to infinity and numerical agreement of tiers are outside.
  The sampler's weights are exact; NaN logits are outside.
* What a shader computes inside one dispatch; a shader reads and writes what it
  is given. Its bounds are `FitsSlots`' subject for the standalone model, its
  addressing `KVLayout`'s for the paged cache.
* Undefined behaviour after a reset of a pending command buffer is reduced to
  "the work is lost or goes on".
* `execute_chained`, `execute`, `rms_norm_then_linear` and `BatchContext`: no
  code of the package uses them. `execute_mixed` is a batch of one.
* The replacement of an attention entry when a CPU tensor changes: vLLM allocates
  its caches once for the life of a worker.
* The bridge's messages one by one, its start-up and shutdown: in
  `LinearDispatch` a call over the bridge is one step that succeeds, fails, or
  finds the child dead.
* In `EngineLifecycle`: specialization constants and push constant sizes, which
  are data, and the driver's own reaction to objects that are never destroyed.
* Start-up code (platform plugin, worker, configuration, the patches that replace
  imports): decisions taken once, without later state.
* Vendored shaders, examples, scripts and tests.

`PROJECT.json` lists every component with its status, and every hazard with the
properties that cover it or the reason none does.

## 7. Plan

In order of what the system depends on most.

1. **Bridge.** Requests, answers and the child's tensor table as messages over
the pipe, start-up, shutdown and `close()`, shown to implement `BatchService`
over the child's context. 2. **Composition.** The attention backend over
`BatchService`, so that the failures `AttentionMirror` assumes of a GPU call are
those the engine is proved to have. 3. **Life cycles in Python.** The attention
entry's replacement and address reuse; `BatchContext` and its futures, if the
package begins to use them.
