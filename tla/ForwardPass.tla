----------------------------- MODULE ForwardPass -----------------------------
(***************************************************************************)
(* One forward pass of the standalone VulkanModel (lib.rs): forward_gpu()  *)
(* and its decoder layers, over the persistent activation buffers (act) and *)
(* the weights whose upload worked when the model was loaded.              *)
(*                                                                         *)
(* A layer runs in the fastest tier its uploaded weights allow: one matvec *)
(* for Q, K and V or three; one submission for all that follows attention  *)
(* or one each for o_proj, the FFN and the per-layer embedding (PLE); or   *)
(* the CPU.  The CPU model (model.rs) is the reference.                     *)
(*                                                                         *)
(* The thread records a command buffer (cmd), a sequence of segments with a *)
(* barrier between two, and waits for its fence.  Within a segment the GPU *)
(* executes the dispatches in any order.                                    *)
(*                                                                         *)
(* A value is the term that computes it: <<operation, weight, operands>>.   *)
(* A layer's output is named after its token and layer when it is the term *)
(* the reference computes; only the rounding of float16 is left out.       *)
(***************************************************************************)
EXTENDS Naturals, Sequences, FiniteSets

CONSTANTS
  Config,     \* Gemma4Config: the sizes of the model
  MayFail,    \* weights whose upload may fail
  MaxLost,    \* bound: how many uploads fail
  MaxTokens   \* bound: forward passes

ASSUME ConfigAssumption ==
  /\ Config \in [hidden_size : Nat, num_hidden_layers : Nat, full_every : Nat \ {0},
                 num_attention_heads : Nat, num_key_value_heads : Nat \ {0},
                 head_dim : Nat \ {0}, global_head_dim : Nat, intermediate_size : Nat,
                 num_kv_shared_layers : Nat, vocab_size : Nat, ple_dim : Nat]
  /\ Config.num_kv_shared_layers < Config.num_hidden_layers
  /\ Config.head_dim <= Config.global_head_dim

ASSUME BoundsAssumption == MaxLost \in Nat /\ MaxTokens \in Nat

VARIABLES
  engine,     \* a ComputeEngine was created
  uploaded,   \* gpu_weights
  act,        \* act_bufs: slot -> value, NoBufs before init_act_bufs() succeeds
  cmd,        \* segments of the submission that have still to execute
  pc,         \* where the thread goes on when its fence is signalled
  gpu,        \* use_gpu of this layer
  token,      \* tokens passed to forward()
  layer,      \* layer_idx
  hidden,     \* input of this layer
  out,        \* FBuf: the last product outside the fused submission
  residual,   \* hidden2, then hidden3
  kv,         \* kv_caches: layer -> rows
  logits      \* what forward() returned last

vars == <<engine, uploaded, act, cmd, pc, gpu, token, layer, hidden, out, residual,
          kv, logits>>

-----------------------------------------------------------------------------
(* The model: layers and weights *)

L == Config.num_hidden_layers

H == Config.hidden_size

FirstShared == L - Config.num_kv_shared_layers

IsFull(l) == l % Config.full_every = Config.full_every - 1

IsShared(l) == l >= FirstShared

HeadDim(l) == IF IsFull(l) THEN Config.global_head_dim ELSE Config.head_dim

QDim(l) == Config.num_attention_heads * HeadDim(l)

KvDim(l) == Config.num_key_value_heads * HeadDim(l)

FfnInter(l) ==
  IF IsShared(l) THEN Config.intermediate_size * 2 ELSE Config.intermediate_size

\* kv_shared_target(), and a layer's own cache for the others.
CacheOf(l) ==
  LET like == {i \in 0..FirstShared - 1 : IsFull(i) = IsFull(l)}
  IN  IF ~IsShared(l) THEN l
      ELSE IF like = {} THEN FirstShared - 1
      ELSE CHOOSE i \in like : \A j \in like : j <= i

\* Weights with which fused_post_attention() can run.
PostAttention ==
  {"o_proj", "post_attention_layernorm", "pre_feedforward_layernorm", "gate_proj",
   "up_proj", "down_proj", "post_feedforward_layernorm", "per_layer_input_gate",
   "per_layer_projection", "post_per_layer_input_norm", "layer_scalar"}

LayerWeights ==
  PostAttention \cup {"input_layernorm", "q_proj", "k_proj", "v_proj", "qkv_proj"}

ModelWeights == {"norm", "embed_tokens"}

\* is_matvec_weight(): those uploaded as float16.
IsMatvecWeight(n) ==
  n \in {"q_proj", "k_proj", "v_proj", "qkv_proj", "o_proj", "gate_proj", "up_proj",
         "down_proj", "per_layer_input_gate", "per_layer_projection"}

\* A weight of layer l; those of the model itself are of layer L.
W(l, n) == <<l, n>>

AllWeights == ((0..L - 1) \X LayerWeights) \cup ({L} \X ModelWeights)

HasGpuWeights(l) == {W(l, "q_proj"), W(l, "input_layernorm")} \subseteq uploaded

HasFusedQkv(l) == W(l, "qkv_proj") \in uploaded

HasFusedPostAttn(l) == {W(l, n) : n \in PostAttention} \subseteq uploaded

-----------------------------------------------------------------------------
(* Values, and the reference *)

Leaf(name, t, l) == <<name, <<t, l>>>>

Wrong == <<"wrong">>

None == <<>>

Matvec(w, x) == <<"matvec", w, x>>

Norm(w, x) == <<"norm", w, x>>

Gelu(x) == <<"gelu", None, x>>

Add(x, y) == <<"add", None, x, y>>

Mul(x, y) == <<"mul", None, x, y>>

Scale(w, x) == <<"mul", w, x>>

Tanh(x) == <<"tanh", None, x>>

\* Q after its norm and its rotation, and the row that layer l caches.
Query(l, q) == <<"rope", l, Norm(W(l, "q_norm"), q)>>

Row(l, k, v) == <<<<"rope", l, Norm(W(l, "k_norm"), k)>>, Norm(None, v)>>

Sdpa(l, q, rows) == <<"sdpa", l, q, rows>>

\* The float operations between the products, which every tier shares.
Residual2(l, x, o) == Add(x, Norm(W(l, "post_attention_layernorm"), o))

FfIn(l, r) == Norm(W(l, "pre_feedforward_layernorm"), r)

Residual3(l, r, ff) == Add(r, Norm(W(l, "post_feedforward_layernorm"), ff))

LayerOut(l, r, c) ==
  Scale(W(l, "layer_scalar"), Add(r, Norm(W(l, "post_per_layer_input_norm"), c)))

\* The products as the CPU computes them.
CpuQkv(l, n, x) == Matvec(W(l, n), Norm(W(l, "input_layernorm"), x))

CpuFfn(l, r) ==
  LET x == FfIn(l, r)
  IN  Matvec(W(l, "down_proj"),
             Mul(Gelu(Matvec(W(l, "gate_proj"), x)), Matvec(W(l, "up_proj"), x)))

CpuPle(l, r, ple) ==
  Matvec(W(l, "per_layer_projection"),
         Mul(Gelu(Matvec(W(l, "per_layer_input_gate"), r)), ple))

\* Gemma4Model::forward_layer(): the rows of layer l's cache after t tokens, and
\* its output for token t.
RefRows(l, t) ==
  [i \in 1..t |-> LET x == Leaf("hidden", i, l)
                  IN  Row(l, CpuQkv(l, "k_proj", x), CpuQkv(l, "v_proj", x))]

RefLayer(l, t) ==
  LET x  == Leaf("hidden", t, l)
      at == Sdpa(l, Query(l, CpuQkv(l, "q_proj", x)), RefRows(CacheOf(l), t))
      r2 == Residual2(l, x, Matvec(W(l, "o_proj"), at))
      r3 == Residual3(l, r2, CpuFfn(l, r2))
  IN  LayerOut(l, r3, CpuPle(l, r3, Leaf("ple", t, l)))

InvCap == <<"inv_cap">>

Cap == <<"cap">>

\* Gemma4Model::forward(), after the layers.
RefLogits(x) ==
  Mul(Tanh(Mul(Matvec(W(L, "embed_tokens"), Norm(W(L, "norm"), x)), InvCap)), Cap)

\* Layer l's output, named.
Named(l, t, value) ==
  IF value = RefLayer(l, t) THEN Leaf("hidden", t, l + 1) ELSE Wrong

-----------------------------------------------------------------------------
(* The persistent activation buffers *)

\* ffn_inter of init_act_bufs(): the double-wide layers are the largest.
NarrowFfnSize == Config.intermediate_size   \* Mutant: that of the first layers.

FfnSize == Config.intermediate_size * 2

QSize == Config.num_attention_heads * Config.global_head_dim

KvSize == Config.num_key_value_heads * Config.global_head_dim

SlotsOfSize ==
  [h    |-> {"QKV_IN", "O_OUT", "FFIN", "DOWN", "PLE_C", "RESIDUAL", "PA_NORMED",
             "HIDDEN2", "FF_NORMED", "HIDDEN3A", "CONTRIB_NORMED", "HIDDEN3B",
             "HIDDEN3_FINAL", "RAW_HIDDEN"},
   q    |-> {"Q_OUT", "O_IN"},
   kv   |-> {"K_OUT", "V_OUT"},
   qkv  |-> {"QKV_OUT"},
   ffn  |-> {"GATE", "UP", "MID", "GELU"},
   ple  |-> {"PLE_G", "PLE_LAYER", "PLE_GELU", "PLE_MID"},
   vocab |-> {"LOGIT_RAW", "LOGIT_SCALED", "LOGIT_TANH", "LOGIT_FINAL"},
   one  |-> {"INV_CAP", "CAP"}]

Slots == UNION {SlotsOfSize[kind] : kind \in DOMAIN SlotsOfSize}

Size ==
  [h |-> H, q |-> QSize, kv |-> KvSize, qkv |-> QSize + 2 * KvSize, ffn |-> FfnSize,
   ple |-> Config.ple_dim, vocab |-> Config.vocab_size, one |-> 1]

SlotSize(s) == Size[CHOOSE kind \in DOMAIN Size : s \in SlotsOfSize[kind]]

NoBufs == None

\* A slot holds a value and the number of elements it was written with.
FreshBufs ==
  [s \in Slots |-> CASE s = "INV_CAP" -> <<InvCap, 1>>
                     [] s = "CAP" -> <<Cap, 1>>
                     [] OTHER -> <<Wrong, 0>>]

\* Mutant: the buffers allocated before one failed are kept.
KeepAllocated ==
  IF act # NoBufs THEN {act}
  ELSE {FreshBufs, [s \in SlotsOfSize.h |-> FreshBufs[s]]}

\* What init_act_bufs() may leave: it returns at once when they are there, and
\* clears those it allocated when one allocation fails.
InitActBufs == IF act # NoBufs THEN {act} ELSE {FreshBufs, NoBufs}

\* The first n elements of slot s; a value of another length is not what a reader
\* of n elements gets.
Read(bufs, s, n) == IF bufs[s][2] = n THEN bufs[s][1] ELSE Wrong

\* read_f32_buf_at() of n elements at an offset of the product with the fused
\* weight, whose rows are those of Q, K and V one after the other.
ReadAt(bufs, l, offset, n) ==
  LET x == bufs["QKV_OUT"][1][3]
  IN  CASE <<offset, n>> = <<0, QDim(l)>> -> Matvec(W(l, "q_proj"), x)
        [] <<offset, n>> = <<QDim(l), KvDim(l)>> -> Matvec(W(l, "k_proj"), x)
        [] <<offset, n>> = <<QDim(l) + KvDim(l), KvDim(l)>> ->
             Matvec(W(l, "v_proj"), x)
        [] OTHER -> Wrong

\* Buffer::write() of a value of n elements to a slot.
Write(bufs, s, value, n) == [bufs EXCEPT ![s] = <<value, n>>]

-----------------------------------------------------------------------------
(* Dispatches: an operation, its weight, what it reads, what it writes *)

Dispatch(op, w, in, to, n) == [op |-> op, w |-> w, in |-> in, to |-> to, n |-> n]

\* A matvec with the shader for weights of float16 (half) or float32: w is [n, k].
Mv(half, w, from, k, to, n) ==
  Dispatch(IF half = IsMatvecWeight(w[2]) THEN "matvec" ELSE "misread",
           w, <<<<from, k>>>>, to, n)

RmsNorm(w, from, to) == Dispatch("norm", w, <<<<from, H>>>>, to, H)

Unary(op, from, to, n) == Dispatch(op, None, <<<<from, n>>>>, to, n)

Binary(op, a, b, to, n) == Dispatch(op, None, <<<<a, n>>, <<b, n>>>>, to, n)

\* binary_broadcast_pc(): the second operand is one scalar.
Broadcast(a, b, to, n) == Dispatch("mul", None, <<<<a, n>>, <<b, 1>>>>, to, n)

\* Submit 1 of forward_layer_gpu_matmuls().
QkvProgram(l) ==
  <<{RmsNorm(W(l, "input_layernorm"), "RAW_HIDDEN", "QKV_IN")},
    IF HasFusedQkv(l)
      THEN {Mv(TRUE, W(l, "qkv_proj"), "QKV_IN", H, "QKV_OUT", QDim(l) + 2 * KvDim(l))}
      ELSE {Mv(TRUE, W(l, "q_proj"), "QKV_IN", H, "Q_OUT", QDim(l)),
            Mv(TRUE, W(l, "k_proj"), "QKV_IN", H, "K_OUT", KvDim(l)),
            Mv(TRUE, W(l, "v_proj"), "QKV_IN", H, "V_OUT", KvDim(l))}>>

OProjProgram(l) == <<{Mv(TRUE, W(l, "o_proj"), "O_IN", QDim(l), "O_OUT", H)}>>

\* Mutant: no barrier between the gate product and gelu.
FfnWithoutBarrier(l) ==
  LET n == FfnInter(l)
  IN  <<{Mv(TRUE, W(l, "gate_proj"), "FFIN", H, "GATE", n),
         Mv(TRUE, W(l, "up_proj"), "FFIN", H, "UP", n),
         Unary("gelu", "GATE", "GELU", n)},
        {Binary("mul", "GELU", "UP", "MID", n)},
        {Mv(TRUE, W(l, "down_proj"), "MID", n, "DOWN", H)}>>

\* gate, up, gelu(gate), their product, down: of both tiers.
FfnProgram(l) ==
  LET n == FfnInter(l)
  IN  <<{Mv(TRUE, W(l, "gate_proj"), "FFIN", H, "GATE", n),
         Mv(TRUE, W(l, "up_proj"), "FFIN", H, "UP", n)},
        {Unary("gelu", "GATE", "GELU", n)},
        {Binary("mul", "GELU", "UP", "MID", n)},
        {Mv(TRUE, W(l, "down_proj"), "MID", n, "DOWN", H)}>>

\* gate, gelu(gate), times the layer's embedding, projection; the fused tier reads
\* HIDDEN3A, the other the slot FFIN that its thread has written again.
PleProgram(l, from) ==
  LET n == Config.ple_dim
  IN  <<{Mv(TRUE, W(l, "per_layer_input_gate"), from, H, "PLE_G", n)},
        {Unary("gelu", "PLE_G", "PLE_GELU", n)},
        {Binary("mul", "PLE_GELU", "PLE_LAYER", "PLE_MID", n)},
        {Mv(TRUE, W(l, "per_layer_projection"), "PLE_MID", n, "PLE_C", H)}>>

\* fused_post_attention(): the whole of a layer after attention.
FusedProgram(l) ==
  OProjProgram(l)
  \o <<{RmsNorm(W(l, "post_attention_layernorm"), "O_OUT", "PA_NORMED")},
       {Binary("add", "RESIDUAL", "PA_NORMED", "HIDDEN2", H)},
       {RmsNorm(W(l, "pre_feedforward_layernorm"), "HIDDEN2", "FFIN")}>>
  \o FfnProgram(l)
  \o <<{RmsNorm(W(l, "post_feedforward_layernorm"), "DOWN", "FF_NORMED")},
       {Binary("add", "HIDDEN2", "FF_NORMED", "HIDDEN3A", H)}>>
  \o PleProgram(l, "HIDDEN3A")
  \o <<{RmsNorm(W(l, "post_per_layer_input_norm"), "PLE_C", "CONTRIB_NORMED")},
       {Binary("add", "HIDDEN3A", "CONTRIB_NORMED", "HIDDEN3B", H)},
       {Dispatch("mul", W(l, "layer_scalar"), <<<<"HIDDEN3B", H>>>>, "HIDDEN3_FINAL", H)}>>

\* Final norm, LM head over the float32 embeddings, and the softcap.
HeadProgram ==
  LET n == Config.vocab_size
  IN  <<{RmsNorm(W(L, "norm"), "RAW_HIDDEN", "QKV_IN")},
        {Mv(FALSE, W(L, "embed_tokens"), "QKV_IN", H, "LOGIT_RAW", n)},
        {Broadcast("LOGIT_RAW", "INV_CAP", "LOGIT_SCALED", n)},
        {Unary("tanh", "LOGIT_SCALED", "LOGIT_TANH", n)},
        {Broadcast("LOGIT_TANH", "CAP", "LOGIT_FINAL", n)}>>

-----------------------------------------------------------------------------
(* The thread *)

\* The thread is at stage p: its fence has been signalled.
At(p) == pc = p /\ cmd = <<>>

\* A submission; indexing act_bufs while it is empty panics.
Submit(bufs, program, next) ==
  IF bufs = NoBufs
    THEN pc' = "panicked" /\ UNCHANGED <<act, cmd>>
    ELSE act' = bufs /\ cmd' = program /\ pc' = next

\* FBuf: a view of a slot, or a value of the CPU's.
Borrowed(s) == <<"slot", s>>

Owned(value) == <<"owned", value>>

Product == IF out[1] = "slot" THEN Read(act, out[2], H) ELSE out[2]

Uploaded(names) == {W(layer, n) : n \in names} \subseteq uploaded

\* new(): which uploads worked is settled.
Init ==
  /\ engine \in BOOLEAN
  /\ \E lost \in [1..MaxLost -> {w \in AllWeights : w[2] \in MayFail} \cup {None}] :
       uploaded = IF engine THEN AllWeights \ {lost[i] : i \in 1..MaxLost} ELSE {}
  /\ act = NoBufs
  /\ cmd = <<>>
  /\ pc = "loading"
  /\ gpu = FALSE
  /\ token = 0
  /\ layer = 0
  /\ hidden = None
  /\ out = None
  /\ residual = None
  /\ kv = [l \in 0..L - 1 |-> <<>>]
  /\ logits = None

\* compute_layer_attn_gpu_weight_refs() takes references to the layout it chose.
LoadPanics ==
  \E l \in 0..L - 1 :
    /\ HasGpuWeights(l)
    /\ ~HasFusedQkv(l)
    /\ ~({W(l, "k_proj"), W(l, "v_proj")} \subseteq uploaded)

\* new(): capabilities and references are computed once.
Load ==
  /\ pc = "loading"
  /\ pc' = IF LoadPanics THEN "panicked" ELSE "idle"
  /\ UNCHANGED <<engine, uploaded, act, cmd, gpu, token, layer, hidden, out, residual,
                 kv, logits>>

\* forward() without an engine: Gemma4Model::forward().
ForwardOnCpu ==
  /\ At("idle")
  /\ ~engine
  /\ token < MaxTokens
  /\ token' = token + 1
  /\ kv' = [l \in 0..L - 1 |-> IF IsShared(l) THEN kv[l] ELSE RefRows(l, token')]
  /\ logits' = RefLogits(Leaf("hidden", token', L))
  /\ UNCHANGED <<engine, uploaded, act, cmd, pc, gpu, layer, hidden, out, residual>>

\* forward_gpu(): the embedding, and the projection of the per-layer inputs with
\* temporary buffers; every tier gives a layer the same slice of it.
ForwardOnGpu ==
  /\ At("idle")
  /\ engine
  /\ token < MaxTokens
  /\ token' = token + 1
  /\ layer' = 0
  /\ hidden' = Leaf("hidden", token', 0)
  /\ pc' = "qkv"
  /\ UNCHANGED <<engine, uploaded, act, cmd, gpu, out, residual, kv, logits>>

\* use_gpu: input_layernorm and the Q, K and V products in one submission.
QkvOnGpu ==
  /\ At("qkv")
  /\ HasGpuWeights(layer)
  /\ \E bufs \in InitActBufs \ {NoBufs} :
       Submit(Write(bufs, "RAW_HIDDEN", hidden, H), QkvProgram(layer), "attend")
  /\ gpu' = TRUE
  /\ UNCHANGED <<engine, uploaded, token, layer, hidden, out, residual, kv, logits>>

QkvOnCpu ==
  /\ At("qkv")
  /\ HasGpuWeights(layer) => NoBufs \in InitActBufs
  /\ gpu' = FALSE
  /\ pc' = "attend"
  /\ UNCHANGED <<engine, uploaded, act, cmd, token, layer, hidden, out, residual, kv,
                 logits>>

\* q_vec, k_vec and v_vec.
QkvRead ==
  LET q == QDim(layer)
      n == KvDim(layer)
  IN  IF ~gpu THEN [q |-> CpuQkv(layer, "q_proj", hidden),
                    k |-> CpuQkv(layer, "k_proj", hidden),
                    v |-> CpuQkv(layer, "v_proj", hidden)]
      ELSE IF HasFusedQkv(layer)
        THEN [q |-> ReadAt(act, layer, 0, q),
              k |-> ReadAt(act, layer, q, n),
              v |-> ReadAt(act, layer, q + n, n)]
        ELSE [q |-> Read(act, "Q_OUT", q),
              k |-> Read(act, "K_OUT", n),
              v |-> Read(act, "V_OUT", n)]

\* kv_caches with this token's row.
Appended ==
  IF IsShared(layer) THEN kv
  ELSE [kv EXCEPT ![layer] = Append(@, Row(layer, QkvRead.k, QkvRead.v))]

\* attn_out: cpu_sdpa() over the cache with this token's row.
AttnOut == Sdpa(layer, Query(layer, QkvRead.q), Appended[CacheOf(layer)])

\* Mutant: the residual of an earlier layer is left in its slot.
StaleInputs(bufs) ==
  Write(Write(bufs, "O_IN", AttnOut, QDim(layer)),
        "PLE_LAYER", Leaf("ple", token, layer), Config.ple_dim)

FusedInputs(bufs) ==
  Write(Write(Write(bufs, "O_IN", AttnOut, QDim(layer)), "RESIDUAL", hidden, H),
        "PLE_LAYER", Leaf("ple", token, layer), Config.ple_dim)

\* Norms, rotation, cache and attention; the rest of the layer in one submission.
AttendThenFused ==
  /\ At("attend")
  /\ gpu /\ HasFusedPostAttn(layer)
  /\ kv' = Appended
  /\ Submit(FusedInputs(act), FusedProgram(layer), "fused")
  /\ UNCHANGED <<engine, uploaded, gpu, token, layer, hidden, out, residual, logits>>

\* The same, then o_proj in a submission of its own.
AttendThenOProj ==
  /\ At("attend")
  /\ gpu /\ ~HasFusedPostAttn(layer) /\ Uploaded({"o_proj"})
  /\ kv' = Appended
  /\ Submit(Write(act, "O_IN", AttnOut, QDim(layer)), OProjProgram(layer), "ffn")
  /\ out' = Borrowed("O_OUT")
  /\ UNCHANGED <<engine, uploaded, gpu, token, layer, hidden, residual, logits>>

\* The same, with o_proj on the CPU.
AttendThenCpu ==
  /\ At("attend")
  /\ ~(gpu /\ Uploaded({"o_proj"}))
  /\ kv' = Appended
  /\ out' = Owned(Matvec(W(layer, "o_proj"), AttnOut))
  /\ pc' = "ffn"
  /\ UNCHANGED <<engine, uploaded, act, cmd, gpu, token, layer, hidden, residual, logits>>

\* The FFN in one submission; its third weight is taken for granted.
FfnOnGpu ==
  /\ At("ffn")
  /\ gpu /\ Uploaded({"gate_proj", "down_proj"})
  /\ residual' = Residual2(layer, hidden, Product)
  /\ IF Uploaded({"up_proj"})
       THEN Submit(Write(act, "FFIN", FfIn(layer, residual'), H), FfnProgram(layer), "ple")
       ELSE pc' = "panicked" /\ UNCHANGED <<act, cmd>>
  /\ out' = Borrowed("DOWN")
  /\ UNCHANGED <<engine, uploaded, gpu, token, layer, hidden, kv, logits>>

\* The FFN on the CPU, its last product in a submission with temporary buffers
\* when that weight was uploaded.
FfnOnCpu ==
  /\ At("ffn")
  /\ ~(gpu /\ Uploaded({"gate_proj", "down_proj"}))
  /\ residual' = Residual2(layer, hidden, Product)
  /\ out' = Owned(CpuFfn(layer, residual'))
  /\ pc' = "ple"
  /\ UNCHANGED <<engine, uploaded, act, cmd, gpu, token, layer, hidden, kv, logits>>

\* The per-layer embedding in one submission; FFIN is used again as its input.
PleOnGpu ==
  /\ At("ple")
  /\ gpu /\ Uploaded({"per_layer_input_gate", "per_layer_projection"})
  /\ residual' = Residual3(layer, residual, Product)
  /\ Submit(Write(Write(act, "FFIN", residual', H),
                  "PLE_LAYER", Leaf("ple", token, layer), Config.ple_dim),
            PleProgram(layer, "FFIN"), "last")
  /\ out' = Borrowed("PLE_C")
  /\ UNCHANGED <<engine, uploaded, gpu, token, layer, hidden, kv, logits>>

PleOnCpu ==
  /\ At("ple")
  /\ ~(gpu /\ Uploaded({"per_layer_input_gate", "per_layer_projection"}))
  /\ residual' = Residual3(layer, residual, Product)
  /\ out' = Owned(CpuPle(layer, residual', Leaf("ple", token, layer)))
  /\ pc' = "last"
  /\ UNCHANGED <<engine, uploaded, act, cmd, gpu, token, layer, hidden, kv, logits>>

\* The layer returns: the next one has its output as input.
EndLayer ==
  /\ At("fused") \/ At("last")
  /\ hidden' = Named(layer, token,
                     IF pc = "fused" THEN Read(act, "HIDDEN3_FINAL", H)
                     ELSE LayerOut(layer, residual, Product))
  /\ layer' = layer + 1
  /\ pc' = IF layer' = L THEN "head" ELSE "qkv"
  /\ UNCHANGED <<engine, uploaded, act, cmd, gpu, token, out, residual, kv, logits>>

HeadUploaded == {W(L, "embed_tokens"), W(L, "norm")} \subseteq uploaded

\* Mutant: the LM head trusts that a layer has allocated the buffers.
HeadWithoutInit == {act}

\* The buffers the LM head would find, with use_gpu_lm_head.
HeadBufs == InitActBufs \ {NoBufs}

HeadOnGpu ==
  /\ At("head")
  /\ HeadUploaded
  /\ \E bufs \in HeadBufs :
       Submit(IF bufs = NoBufs THEN bufs ELSE Write(bufs, "RAW_HIDDEN", hidden, H),
              HeadProgram, "logits")
  /\ UNCHANGED <<engine, uploaded, gpu, token, layer, hidden, out, residual, kv, logits>>

HeadOnCpu ==
  /\ At("head")
  /\ HeadUploaded => NoBufs \in InitActBufs
  /\ logits' = RefLogits(hidden)
  /\ pc' = "idle"
  /\ UNCHANGED <<engine, uploaded, act, cmd, gpu, token, layer, hidden, out, residual, kv>>

EndForward ==
  /\ At("logits")
  /\ logits' = Read(act, "LOGIT_FINAL", Config.vocab_size)
  /\ pc' = "idle"
  /\ UNCHANGED <<engine, uploaded, act, cmd, gpu, token, layer, hidden, out, residual, kv>>

-----------------------------------------------------------------------------
(* The GPU *)

\* One dispatch of the first segment; a barrier lets the next begin.
Execute(d) ==
  LET inputs == [i \in DOMAIN d.in |-> Read(act, d.in[i][1], d.in[i][2])]
      rest   == Head(cmd) \ {d}
  IN  /\ act' = Write(act, d.to, <<d.op, d.w>> \o inputs, d.n)
      /\ cmd' = IF rest = {} THEN Tail(cmd) ELSE <<rest>> \o Tail(cmd)
      /\ UNCHANGED <<engine, uploaded, pc, gpu, token, layer, hidden, out, residual, kv,
                     logits>>

Gpu == cmd # <<>> /\ \E d \in Head(cmd) : Execute(d)

Next ==
  \/ Load
  \/ ForwardOnCpu
  \/ ForwardOnGpu
  \/ QkvOnGpu
  \/ QkvOnCpu
  \/ AttendThenFused
  \/ AttendThenOProj
  \/ AttendThenCpu
  \/ FfnOnGpu
  \/ FfnOnCpu
  \/ PleOnGpu
  \/ PleOnCpu
  \/ EndLayer
  \/ HeadOnGpu
  \/ HeadOnCpu
  \/ EndForward
  \/ Gpu

Spec == Init /\ [][Next]_vars

-----------------------------------------------------------------------------
(* Properties *)

Stages == {"loading", "idle", "qkv", "attend", "fused", "ffn", "ple", "last", "head",
           "logits", "panicked"}

\* State types: all activation buffers are there or none, and the thread waits for
\* its fence whenever a submission is under way.
TypeOK ==
  /\ engine \in BOOLEAN
  /\ uploaded \subseteq AllWeights
  /\ act = NoBufs \/ DOMAIN act = Slots
  /\ pc \in Stages
  /\ cmd # <<>> => pc \in {"attend", "fused", "ffn", "ple", "last", "logits"}
  /\ gpu \in BOOLEAN
  /\ token \in 0..MaxTokens
  /\ layer \in 0..L
  /\ DOMAIN kv = 0..L - 1

\* Whatever was uploaded, whichever tier each layer takes, and in whatever order
\* the GPU executes what lies between two barriers, a forward pass computes what
\* the CPU model computes: every layer's output, every cached row, the logits.
FollowsReference ==
  /\ pc \in {"qkv", "head"} => hidden = Leaf("hidden", token, layer)
  /\ pc = "idle" /\ token > 0 =>
       /\ logits = RefLogits(Leaf("hidden", token, L))
       /\ \A l \in 0..L - 1 : kv[l] = IF IsShared(l) THEN <<>> ELSE RefRows(l, token)

\* No dispatch reads or writes a slot that another one writes unless a barrier
\* lies between them.
NoRace ==
  \A i \in DOMAIN cmd : \A d, e \in cmd[i] :
    d # e => /\ d.to # e.to
             /\ \A j \in DOMAIN e.in : e.in[j][1] # d.to

\* No dispatch of any layer reaches past the end of a slot, which is sized once
\* for the largest layer of its kind.
FitsSlots ==
  \A i \in DOMAIN cmd : \A d \in cmd[i] :
    /\ d.n <= SlotSize(d.to)
    /\ \A j \in DOMAIN d.in : d.in[j][2] <= SlotSize(d.in[j][1])

\* A weight whose upload failed sends its layer to a slower tier; it never makes
\* the model panic.
NeverPanics == pc # "panicked"
=============================================================================
