--------------------------- MODULE LinearDispatch ---------------------------
(***************************************************************************)
(* Linear layers of vLLM's model on the GPU: the hooks that                *)
(* model_runner.py puts in front of every Linear and MLP module, the       *)
(* caches vulkan_ops.py keeps of their weights, and the child process of   *)
(* vulkan_bridge.py that owns the GPU when the worker process cannot.      *)
(*                                                                         *)
(* vLLM calls the modules one after another, in one thread.  A hook tries  *)
(* the GPU and calls the module's own forward (orig) when anything raises; *)
(* an MLP's own forward calls the hooks of its two Linear modules.  The    *)
(* caches are keyed by the id of a weight's storage.  vLLM may empty a     *)
(* weight and fill it again between calls: the storage is collected, its   *)
(* id is free for another one, and a weak reference drops the entries.     *)
(*                                                                         *)
(* A buffer is what was uploaded: whose values, and whether as float16.    *)
(* Reading it with the shader of the other width gives no one's values.    *)
(***************************************************************************)
EXTENDS Naturals, Sequences

CONSTANTS
  Weight,     \* weight parameters of the Linear modules
  Large,      \* those with _MATVEC_MIN_WEIGHT_ELEMENTS elements or more
  SafeF16,    \* those whose every element is finite as float16
  Mlp,        \* [gate_up, down]: the fused MLP modules
  Storage,    \* ids that a storage object can have
  Settings,   \* environments the worker may be started in
  Failures,   \* what may fail: "create", "device", "crash"
  Junk        \* what a product is when the shader misreads an operand

\* The shader of a call with fewer than _MATVEC_THRESHOLD tokens, and of one
\* with more, over a weight of float16 (half) or of float32.
Shader(tokens, half) ==
  IF tokens = "decode"
    THEN IF half THEN "mul_mat_vec_f16_f32_f32" ELSE "mul_mat_vec_f32_f32_f32"
    ELSE IF half THEN "matmul_f16_f32_fp32" ELSE "matmul_f32_f32"

Tokens == {"decode", "prefill"}

Shaders == {Shader(t, h) : t \in Tokens, h \in BOOLEAN} \cup {"swiglu_f32"}

Setting == [fuse : BOOLEAN,            \* not VLLM_VULKAN_DISABLE_MLP_FUSION
            bridge : BOOLEAN,          \* VLLM_VULKAN_ALLOW_SUBPROCESS_BRIDGE=1
            shaders : SUBSET Shaders]  \* available_shaders()

ASSUME LinearAssumption ==
  /\ Large \subseteq Weight
  /\ SafeF16 \subseteq Weight
  /\ Mlp \subseteq [gate_up : Weight, down : Weight]
  /\ Settings \subseteq Setting
  /\ Failures \subseteq {"create", "device", "crash"}
  /\ Junk \notin Weight
  /\ Junk \notin Weight \X Weight

VARIABLES
  setting,   \* os.environ and the shaders of the build
  loaded,    \* load_model() has installed the hooks
  ctx,       \* vulkan_ops._ctx: none, direct, or a bridge to a child process
  child,     \* the child process lives
  known,     \* _available_shaders_cache is set
  storage,   \* the storage of every weight that is not emptied
  buffers,   \* _weight_cache: storage -> buffer
  halves,    \* _weight_f16_decision_cache: storage -> use float16
  shadows,   \* _cpu_float32_cache: storage -> whose float32 values
  unfused,   \* Linear calls an MLP's own forward has still to make
  answer     \* history: the last GPU or shadow product, asked for and got

vars == <<setting, loaded, ctx, child, known, storage, buffers, halves, shadows,
          unfused, answer>>

caches == <<known, buffers, halves, shadows>>

Buffer == [of : Weight, half : BOOLEAN]

-----------------------------------------------------------------------------
(* The caches: dicts with storage ids as keys *)

\* put() for several weights at once: value[w] under the id of w's storage.
Put(cache, ws, value) ==
  [s \in DOMAIN cache \cup {storage[w] : w \in ws} |->
     IF \E w \in ws : storage[w] = s
       THEN value[CHOOSE w \in ws : storage[w] = s] ELSE cache[s]]

\* Mutant: no clean-up callback, the entry stays under the id.
Keep(cache, s) == cache

\* The clean-up callback of the weak reference to a storage.
Cleanup(cache, s) == [t \in DOMAIN cache \ {s} |-> cache[t]]

Stored == DOMAIN storage

\* The ids of the storages that live.
Live == {storage[w] : w \in Stored}

Cached(cache, w) == storage[w] \in DOMAIN cache

-----------------------------------------------------------------------------
(* vulkan_ops *)

\* is_ready()
Ready == ctx # "none"

\* A GPU call gets through to a device that may answer.
Reachable == ctx = "direct" \/ child

\* What a GPU call may do: succeed or raise.
Outcomes ==
  {ok \in BOOLEAN : IF ok THEN Reachable ELSE "device" \in Failures \/ ~Reachable}

\* available_shaders() is asked once; its answer is remembered.
ShadersKnown == known \/ Reachable

\* _weight_uses_f16(), once it has answered.
UsesF16(w) ==
  IF Cached(halves, w) THEN halves[storage[w]]
  ELSE /\ \A t \in Tokens : Shader(t, TRUE) \in setting.shaders
       /\ w \in SafeF16

Decided(ws) == Put(halves, ws, [w \in ws |-> UsesF16(w)])

\* Mutant: the pre-upload of old, which never asked for float16.
UploadFloat32(w) == [of |-> w, half |-> FALSE]

\* What _get_or_upload_weight(prefer_f16=True) uploads, and what a call binds
\* as bytes when it could not.
Uploaded(w) == [of |-> w, half |-> UsesF16(w)]

\* Mutant: every call uploads its weights afresh.
FetchedAfresh(ws, up) ==
  LET kept == [s \in DOMAIN buffers \ {storage[w] : w \in ws} |-> buffers[s]]
  IN  Put(kept, ws \cap up, [w \in ws |-> Uploaded(w)])

\* The weight cache after uploads for ws of which those of up succeed.
Fetched(ws, up) ==
  Put(buffers, {w \in ws \cap up : ~Cached(buffers, w)}, [w \in ws |-> Uploaded(w)])

\* The operand a dispatch binds for w.
Operand(w, bufs) ==
  IF storage[w] \in DOMAIN bufs THEN bufs[storage[w]]
  ELSE [of |-> w, half |-> UsesF16(w)]

\* Whose product a shader that reads float16 (half) computes.
Product(operand, half) == IF operand.half = half THEN operand.of ELSE Junk

\* The uploads that a call may find to work.
Uploads(ws) ==
  {up \in SUBSET ws : \A w \in ws : (w \in up) \in Outcomes}

-----------------------------------------------------------------------------
(* The bridge *)

\* A chain reference as the context gets it: the bridge puts every binding that
\* is not one of its tensors on the wire as bytes(), a pair of small integers
\* included, so the child binds a buffer of two bytes instead.
ChainRefKept == ctx = "direct"

-----------------------------------------------------------------------------
(* The hooks *)

\* Between two module calls of vLLM's forward pass.
Idle == unfused = <<>>

\* It is w's turn: vLLM calls any module, an MLP's own forward its Linears.
Turn(w) == loaded /\ (IF Idle THEN TRUE ELSE Head(unfused) = w)

\* Mutant: a Linear called by an MLP's own forward calls the MLP again.
ReturnToMlp == unfused' = unfused

Return == unfused' = IF Idle THEN <<>> ELSE Tail(unfused)

Init ==
  /\ setting \in Settings
  /\ loaded = FALSE
  /\ ctx = "none"
  /\ child = FALSE
  /\ known = FALSE
  /\ \E stored \in SUBSET Weight :
       /\ storage \in [stored -> Storage]
       /\ \A v, w \in stored : storage[v] = storage[w] => v = w
  /\ buffers = <<>>
  /\ halves = <<>>
  /\ shadows = <<>>
  /\ unfused = <<>>
  /\ answer = [asked |-> Junk, got |-> Junk]

\* load_model(): the hooks go in, and no context can be created: creation
\* raises, in the child process too, or the device is a software renderer.
LoadWithoutContext ==
  /\ ~loaded
  /\ "create" \in Failures
  /\ loaded' = TRUE
  /\ UNCHANGED <<setting, ctx, child, storage, caches, unfused, answer>>

\* load_model(): a context is created, in this process or behind the bridge, and
\* every weight is uploaded ahead; an upload that raises is left for later.
LoadModel ==
  /\ ~loaded
  /\ loaded' = TRUE
  /\ \/ ctx' = "direct" /\ child' = FALSE
     \/ /\ "create" \in Failures
        /\ setting.bridge
        /\ ctx' = "bridge"
        /\ child' = TRUE
  /\ known' = (Stored # {})
  /\ halves' = Decided(Stored)
  /\ \E up \in SUBSET Stored :
       /\ up = Stored \/ "device" \in Failures
       /\ buffers' = Fetched(Stored, up)
  /\ UNCHANGED <<setting, storage, shadows, unfused, answer>>

\* _get_vulkan_context() of the attention layers, when there is no context yet.
SetContext ==
  /\ loaded
  /\ Idle
  /\ ~Ready
  /\ ctx' = "direct"
  /\ known' = FALSE
  /\ halves' = <<>>
  /\ UNCHANGED <<setting, loaded, child, storage, buffers, shadows, unfused, answer>>

\* vk_forward() hands the call to orig() at once: no context, an emptied weight,
\* or a child process that is gone before its shaders were asked for.
LinearOrig(w) ==
  /\ Turn(w)
  /\ ~Ready \/ w \notin Stored \/ ~ShadersKnown
  /\ Return
  /\ UNCHANGED <<setting, loaded, ctx, child, storage, caches, answer>>

\* linear() on the CPU, over the float32 shadow copy of a half-precision weight.
LinearCpu(w) ==
  /\ Turn(w)
  /\ Ready /\ w \in Stored /\ ShadersKnown
  /\ known' = TRUE
  /\ \E t \in Tokens : w \notin Large \/ Shader(t, FALSE) \notin setting.shaders
  /\ shadows' = IF Cached(shadows, w) THEN shadows ELSE Put(shadows, {w}, [v \in {w} |-> v])
  /\ answer' = [asked |-> w, got |-> shadows'[storage[w]]]
  /\ Return
  /\ UNCHANGED <<setting, loaded, ctx, child, storage, buffers, halves>>

\* linear() on the GPU: _vulkan_matvec() and _vulkan_matmul(); orig() computes
\* the product when the dispatch raises.
LinearGpu(w) ==
  /\ Turn(w)
  /\ Ready /\ w \in Stored /\ ShadersKnown
  /\ known' = TRUE
  /\ \E t \in Tokens : w \in Large /\ Shader(t, FALSE) \in setting.shaders
  /\ halves' = Decided({w})
  /\ \E up \in Uploads({w}), ok \in Outcomes :
       /\ buffers' = Fetched({w}, up)
       /\ answer' = IF ok THEN [asked |-> w,
                                got |-> Product(Operand(w, buffers'), UsesF16(w))]
                    ELSE answer
  /\ Return
  /\ UNCHANGED <<setting, loaded, ctx, child, storage, shadows>>

Weights(m) == {m.gate_up, m.down}

\* The MLP's own forward, which calls its two Linear modules.
CallUnfused(m) == unfused' = <<m.gate_up, m.down>>

\* fused_swiglu_mlp() can have its two weights on the GPU.
Fusable(m) ==
  Ready /\ Weights(m) \subseteq Stored \cap Large /\ ShadersKnown

\* vk_mlp_forward() hands the call to orig() before any decision about weights.
MlpOrig(m) ==
  /\ loaded /\ Idle /\ setting.fuse
  /\ ~Fusable(m) \/ "swiglu_f32" \notin setting.shaders
  /\ known' = (known \/ Fusable(m))
  /\ CallUnfused(m)
  /\ UNCHANGED <<setting, loaded, ctx, child, storage, buffers, halves, shadows, answer>>

\* The shaders of the first and third operation of the fused block.
ShadersOf(m, t) == {Shader(t, UsesF16(w)) : w \in Weights(m)}

\* fused_swiglu_mlp() finds a shader of the decided width missing.
MlpShaderMissing(m) ==
  /\ loaded /\ Idle /\ setting.fuse
  /\ Fusable(m) /\ "swiglu_f32" \in setting.shaders
  /\ \E t \in Tokens : ~(ShadersOf(m, t) \subseteq setting.shaders)
  /\ known' = TRUE
  /\ halves' = Decided(Weights(m))
  /\ CallUnfused(m)
  /\ UNCHANGED <<setting, loaded, ctx, child, storage, buffers, shadows, answer>>

\* What the three chained operations compute.
FusedProduct(m, bufs) ==
  LET got == [w \in Weights(m) |-> Product(Operand(w, bufs), UsesF16(w))]
  IN  IF ChainRefKept /\ \A w \in Weights(m) : got[w] # Junk
        THEN <<got[m.gate_up], got[m.down]>> ELSE Junk

\* fused_swiglu_mlp() in one submission, or orig() when the dispatch raises.
MlpFused(m) ==
  /\ loaded /\ Idle /\ setting.fuse
  /\ Fusable(m) /\ "swiglu_f32" \in setting.shaders
  /\ \E t \in Tokens : ShadersOf(m, t) \subseteq setting.shaders
  /\ known' = TRUE
  /\ halves' = Decided(Weights(m))
  /\ \E up \in Uploads(Weights(m)), ok \in Outcomes :
       /\ buffers' = Fetched(Weights(m), up)
       /\ IF ok THEN /\ answer' = [asked |-> <<m.gate_up, m.down>>,
                                   got |-> FusedProduct(m, buffers')]
                     /\ UNCHANGED unfused
          ELSE CallUnfused(m) /\ UNCHANGED answer
  /\ UNCHANGED <<setting, loaded, ctx, child, storage, shadows>>

-----------------------------------------------------------------------------
(* The environment *)

\* vLLM empties a weight; its storage is collected.
Empty(w) ==
  /\ Idle
  /\ w \in Stored
  /\ storage' = [v \in Stored \ {w} |-> storage[v]]
  /\ buffers' = Cleanup(buffers, storage[w])
  /\ halves' = Cleanup(halves, storage[w])
  /\ shadows' = Cleanup(shadows, storage[w])
  /\ UNCHANGED <<setting, loaded, ctx, child, known, unfused, answer>>

\* vLLM fills a weight again: a new storage, under any id that is free.
Restore(w) ==
  /\ Idle
  /\ w \notin Stored
  /\ \E s \in Storage \ Live :
       storage' = [v \in Stored \cup {w} |-> IF v = w THEN s ELSE storage[v]]
  /\ UNCHANGED <<setting, loaded, ctx, child, caches, unfused, answer>>

\* The child process ends: every later request over the pipe raises.
ChildDies ==
  /\ "crash" \in Failures
  /\ child
  /\ child' = FALSE
  /\ UNCHANGED <<setting, loaded, ctx, storage, caches, unfused, answer>>

Linear(w) == LinearOrig(w) \/ LinearCpu(w) \/ LinearGpu(w)

MlpForward(m) == MlpOrig(m) \/ MlpShaderMissing(m) \/ MlpFused(m)

Next ==
  \/ LoadWithoutContext
  \/ LoadModel
  \/ SetContext
  \/ \E w \in Weight : Linear(w) \/ Empty(w) \/ Restore(w)
  \/ \E m \in Mlp : MlpForward(m)
  \/ ChildDies

Spec == Init /\ [][Next]_vars

\* An MLP's own forward goes on to its next Linear.
FairSpec == Spec /\ WF_vars(~Idle /\ \E w \in Weight : Linear(w))

-----------------------------------------------------------------------------
(* Properties *)

Dict(V) == UNION {[d -> V] : d \in SUBSET Storage}

\* State types; storages that live have distinct ids, and the caches have no
\* entry for any other.
TypeOK ==
  /\ setting \in Settings
  /\ loaded \in BOOLEAN
  /\ ctx \in {"none", "direct", "bridge"}
  /\ child \in BOOLEAN
  /\ known \in BOOLEAN
  /\ storage \in UNION {[d -> Storage] : d \in SUBSET Weight}
  /\ \A v, w \in Stored : storage[v] = storage[w] => v = w
  /\ buffers \in Dict(Buffer)
  /\ halves \in Dict(BOOLEAN)
  /\ shadows \in Dict(Weight)
  /\ DOMAIN buffers \cup DOMAIN halves \cup DOMAIN shadows \subseteq Live
  /\ unfused \in {<<>>} \cup {<<w>> : w \in Weight} \cup (Weight \X Weight)
  /\ answer.asked \in Weight \cup (Weight \X Weight) \cup {Junk}

\* Every product a hook returns is of the weights of the module that was called,
\* whichever caches it came through, whatever failed before, and whoever had the
\* weight's storage id earlier.
AnswersUseOwnWeights == answer.got = answer.asked

\* A cached buffer or shadow is of the weight that lives under its id, and the
\* buffer is of the width that the cached decision names.
CachesFollowWeights ==
  /\ \A w \in Stored : Cached(buffers, w) =>
       /\ Cached(halves, w)
       /\ buffers[storage[w]] = [of |-> w, half |-> halves[storage[w]]]
  /\ \A w \in Stored : Cached(shadows, w) => shadows[storage[w]] = w

\* A weight is uploaded once: its buffer is neither replaced nor dropped while
\* its storage lives, whatever raises.
UploadedOnce ==
  [][\A w \in Stored : Cached(buffers, w) =>
       \/ w \notin DOMAIN storage'
       \/ /\ storage[w] \in DOMAIN buffers'
          /\ buffers'[storage[w]] = buffers[storage[w]]]_vars

\* A call of an MLP that is not fused returns.
UnfusedReturns == ~Idle ~> Idle
=============================================================================
