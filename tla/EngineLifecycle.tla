---------------------------- MODULE EngineLifecycle ----------------------------
(***************************************************************************)
(* The life of the Vulkan objects of a process: the instance and logical   *)
(* devices of src/src/device.rs, the pipelines of src/src/pipeline.rs, and *)
(* the pools, fence and buffers of src/src/compute.rs, which Python reaches *)
(* as VulkanContext and GpuTensor (src/src/lib.rs).                        *)
(*                                                                         *)
(* A constructor creates one object after another and returns at the first *)
(* driver call that fails.  What it has built into a value with a Drop     *)
(* (PipelineCache, ComputeEngine, Buffer) is destroyed then; a handle that *)
(* is not yet in one is forgotten, and its object stays.  Constructors     *)
(* hold the GIL, so one runs at a time; Python drops contexts and tensors  *)
(* in any order.                                                           *)
(***************************************************************************)
EXTENDS Naturals, Sequences, FiniteSets

CONSTANTS
  Context,   \* the VulkanContexts the process makes
  Tensor,    \* allocations of buffers
  Shader,    \* the SPIR-V binaries of include_all_shaders
  Matvec,    \* MATVEC_SHADERS
  RmsNorm,   \* RMSNORM_SHADERS
  MaxPools   \* bound: descriptor pools of a context

ASSUME LifecycleAssumption ==
  /\ Matvec \subseteq Shader /\ RmsNorm \subseteq Shader
  /\ Matvec \cap RmsNorm = {}
  /\ MaxPools \in Nat \ {0}

VARIABLES
  vk,        \* VK_STATE: "unset", or for good "none" or "some"
  live,      \* the objects that exist
  lost,      \* history: objects whose last handle a failing call forgot
  status,    \* of each context: "new", "building", "ready", or "gone"
  owns,      \* what dropping the context's engine, or its parts, destroys
  names,     \* pipelines: the shader variants that can be dispatched
  held,      \* the buffers that callers hold, with the context they came from
  ctx,       \* the context whose constructor runs
  at,        \* where it stands
  todo,      \* the shaders it has not come to
  rest,      \* the variants of its current shader still to compile
  loose      \* objects it holds by their handles only

building == <<ctx, at, todo, rest, loose>>
vars == <<vk, live, lost, status, owns, names, held, building>>

-----------------------------------------------------------------------------
(* Objects *)

Object == {"instance", "device", "set_layout", "module", "layout", "pipeline",
           "command_pool", "fence", "descriptor_pool", "buffer", "memory"}

Instance == <<"instance">>
Device(c) == <<"device", c>>
SetLayout(c) == <<"set_layout", c>>
CommandPool(c) == <<"command_pool", c>>
Fence(c) == <<"fence", c>>
DescriptorPool(c, n) == <<"descriptor_pool", c, n>>

\* A Pipeline: what compile_one_with_spec creates for a variant, in order.
Parts(c, v) == <<<<"module", c, v>>, <<"layout", c, v>>, <<"pipeline", c, v>>>>

\* A Buffer: what Buffer::alloc creates, in order.
Storage(c, t) == <<<<"buffer", c, t>>, <<"memory", c, t>>>>

\* The objects the first k calls of a sequence have made.
First(k, objects) == {objects[i] : i \in 1 .. k}

HeldObjects == UNION {First(2, Storage(h[1], h[2])) : h \in held}

Pools(c) == {n \in 1 .. MaxPools : DescriptorPool(c, n) \in live}

-----------------------------------------------------------------------------
(* The instance *)

Init ==
  /\ vk = "unset"
  /\ live = {} /\ lost = {}
  /\ status = [c \in Context |-> "new"]
  /\ owns = [c \in Context |-> {}]
  /\ names = [c \in Context |-> {}]
  /\ held = {}
  /\ ctx \in Context /\ at = "idle"
  /\ todo = {} /\ rest = <<>> /\ loose = {}

\* What get_state() can come to: init_vulkan() runs once, finds no loader or no
\* instance, an instance without devices, which it keeps, or one with.
GetState ==
  IF vk # "unset" THEN {[is |-> vk, made |-> {}, forgotten |-> {}]}
  ELSE {[is |-> "none", made |-> {}, forgotten |-> {}],
        [is |-> "none", made |-> {Instance}, forgotten |-> {Instance}],
        [is |-> "some", made |-> {Instance}, forgotten |-> {}]}

\* is_available, get_device_count, enumerate_devices, get_memory_info.
Query ==
  /\ at = "idle"
  /\ \E s \in GetState :
       /\ vk' = s.is
       /\ live' = live \cup s.made
       /\ lost' = lost \cup s.forgotten
  /\ UNCHANGED <<status, owns, names, held, building>>

-----------------------------------------------------------------------------
(* VulkanContext::new *)

\* ComputeDevice::create: the device index, its compute queue family, the device.
CreateDevice(c) ==
  /\ at = "idle" /\ status[c] = "new"
  /\ \E s \in GetState :
       /\ vk' = s.is
       /\ lost' = lost \cup s.forgotten
       /\ \/ /\ live' = live \cup s.made
             /\ status' = [status EXCEPT ![c] = "gone"]
             /\ UNCHANGED <<ctx, at, loose>>
          \/ /\ s.is = "some"
             /\ live' = live \cup s.made \cup {Device(c)}
             /\ status' = [status EXCEPT ![c] = "building"]
             /\ ctx' = c /\ at' = "set_layout" /\ loose' = {Device(c)}
  /\ UNCHANGED <<owns, names, held, todo, rest>>

\* Mutant: the caches of an abandoned constructor are not dropped.
GiveUpKeeps(made) ==
  /\ live' = live \cup made
  /\ lost' = lost \cup loose \cup made
  /\ status' = [status EXCEPT ![ctx] = "gone"]
  /\ owns' = [owns EXCEPT ![ctx] = {}]
  /\ names' = [names EXCEPT ![ctx] = {}]
  /\ at' = "idle" /\ todo' = {} /\ rest' = <<>> /\ loose' = {}
  /\ UNCHANGED <<vk, held, ctx>>

\* Mutant: an abandoned constructor is taken for one that still runs.
GiveUpStaysOpen(made) ==
  /\ live' = (live \cup made) \ owns[ctx]
  /\ lost' = lost \cup loose \cup made
  /\ owns' = [owns EXCEPT ![ctx] = {}]
  /\ names' = [names EXCEPT ![ctx] = {}]
  /\ at' = "idle" /\ todo' = {} /\ rest' = <<>> /\ loose' = {}
  /\ UNCHANGED <<vk, status, held, ctx>>

\* The `?' of a constructor after the objects in made: its values are dropped.
GiveUp(made) ==
  /\ live' = (live \cup made) \ owns[ctx]
  /\ lost' = lost \cup loose \cup made
  /\ status' = [status EXCEPT ![ctx] = "gone"]
  /\ owns' = [owns EXCEPT ![ctx] = {}]
  /\ names' = [names EXCEPT ![ctx] = {}]
  /\ at' = "idle" /\ todo' = {} /\ rest' = <<>> /\ loose' = {}
  /\ UNCHANGED <<vk, held, ctx>>

\* PipelineCache::new: the one descriptor set layout.
CreateSetLayout ==
  /\ at = "set_layout"
  /\ \/ GiveUp({})
     \/ /\ live' = live \cup {SetLayout(ctx)}
        /\ owns' = [owns EXCEPT ![ctx] = {SetLayout(ctx)}]
        /\ at' = "compile" /\ todo' = Shader
        /\ UNCHANGED <<vk, lost, status, names, held, ctx, rest, loose>>

\* compile_matvec, compile_rms_norm, and compile_one or compile_matmul.
MatvecVariants(s) == <<<<s, "">>, <<s, "_r4">>>>
RmsNormVariants(s) == <<<<s, "">>, <<s, "_mul">>>>
SingleVariant(s) == <<<<s, "">>>>

VariantsOf(s) ==
  IF s \in RmsNorm THEN RmsNormVariants(s)
  ELSE IF s \in Matvec THEN MatvecVariants(s)
  ELSE SingleVariant(s)

\* The loop over the shaders, a map, takes any next.
NextShader ==
  /\ at = "compile" /\ rest = <<>>
  /\ \E s \in todo : todo' = todo \ {s} /\ rest' = VariantsOf(s)
  /\ UNCHANGED <<vk, live, lost, status, owns, names, held, ctx, at, loose>>

\* Mutant: the pipeline is entered in the table before it is created.
CompileEntersEarly ==
  /\ at = "compile" /\ rest # <<>>
  /\ LET parts == Parts(ctx, Head(rest))
     IN  \E k \in 0 .. 3 :
           /\ live' = live \cup First(k, parts)
           /\ names' = [names EXCEPT ![ctx] = @ \cup {Head(rest)}]
           /\ owns' = [owns EXCEPT ![ctx] = @ \cup First(k, parts)]
           /\ rest' = IF k = 3 THEN Tail(rest) ELSE <<>>
  /\ UNCHANGED <<vk, lost, status, held, ctx, at, todo, loose>>

\* compile_one_with_spec.  An error ends the current shader with a warning; the
\* constructor goes on.
Compile ==
  /\ at = "compile" /\ rest # <<>>
  /\ LET parts == Parts(ctx, Head(rest))
     IN  \/ /\ live' = live \cup First(3, parts)
            /\ owns' = [owns EXCEPT ![ctx] = @ \cup First(3, parts)]
            /\ names' = [names EXCEPT ![ctx] = @ \cup {Head(rest)}]
            /\ rest' = Tail(rest)
            /\ UNCHANGED lost
         \/ \E k \in 0 .. 2 :
              /\ live' = live \cup First(k, parts)
              /\ lost' = lost \cup First(k, parts)
              /\ rest' = <<>>
              /\ UNCHANGED <<owns, names>>
  /\ UNCHANGED <<vk, status, held, ctx, at, todo, loose>>

\* ComputeEngine::new, up to the value that has a Drop.
CreateCommandPool ==
  /\ at = "compile" /\ rest = <<>> /\ todo = {}
  /\ \/ GiveUp({})
     \/ /\ live' = live \cup {CommandPool(ctx)}
        /\ loose' = loose \cup {CommandPool(ctx)}
        /\ at' = "command_buffer"
        /\ UNCHANGED <<vk, lost, status, owns, names, held, ctx, todo, rest>>

\* The command buffer belongs to its pool.
AllocateCommandBuffer ==
  /\ at = "command_buffer"
  /\ \/ GiveUp({})
     \/ /\ at' = "fence"
        /\ UNCHANGED <<vk, live, lost, status, owns, names, held, ctx, todo, rest, loose>>

\* With the fence the engine is a value; it never destroys its device.
CreateFence ==
  /\ at = "fence"
  /\ \/ GiveUp({})
     \/ /\ live' = live \cup {Fence(ctx)}
        /\ owns' = [owns EXCEPT ![ctx] = @ \cup {CommandPool(ctx), Fence(ctx)}]
        /\ loose' = {Device(ctx)}
        /\ at' = "descriptor_pool"
        /\ UNCHANGED <<vk, lost, status, names, held, ctx, todo, rest>>

\* The first grow_descriptor_pool; its second call may fail after its first.
CreateDescriptorPool ==
  /\ at = "descriptor_pool"
  /\ \/ GiveUp({})
     \/ GiveUp({DescriptorPool(ctx, 1)})
     \/ /\ live' = live \cup {DescriptorPool(ctx, 1)}
        /\ owns' = [owns EXCEPT ![ctx] = @ \cup {DescriptorPool(ctx, 1)}]
        /\ status' = [status EXCEPT ![ctx] = "ready"]
        /\ at' = "idle" /\ loose' = {}
        /\ UNCHANGED <<vk, lost, names, held, ctx, todo, rest>>

-----------------------------------------------------------------------------
(* A context in use *)

\* grow_descriptor_pool within a call, with the same two outcomes.
Grow(c) ==
  /\ at = "idle" /\ status[c] = "ready"
  /\ \E n \in 1 .. MaxPools \ Pools(c) :
       /\ \A m \in 1 .. n - 1 : m \in Pools(c)
       /\ live' = live \cup {DescriptorPool(c, n)}
       /\ \/ /\ owns' = [owns EXCEPT ![c] = @ \cup {DescriptorPool(c, n)}]
             /\ UNCHANGED lost
          \/ /\ lost' = lost \cup {DescriptorPool(c, n)}
             /\ UNCHANGED owns
  /\ UNCHANGED <<vk, status, names, held, building>>

\* Buffer::alloc, for a GpuTensor, a staging buffer or a temporary.  Without a
\* memory type or memory the buffer is forgotten, without a binding or a mapping
\* the memory too.
Alloc(c, t) ==
  /\ at = "idle" /\ status[c] = "ready"
  /\ \A d \in Context : First(2, Storage(d, t)) \cap live = {}
  /\ \/ /\ live' = live \cup First(2, Storage(c, t))
        /\ held' = held \cup {<<c, t>>}
        /\ UNCHANGED lost
     \/ \E k \in 1 .. 2 :
          /\ live' = live \cup First(k, Storage(c, t))
          /\ lost' = lost \cup First(k, Storage(c, t))
          /\ UNCHANGED held
  /\ UNCHANGED <<vk, status, owns, names, building>>

\* Buffer::drop: a tensor or a temporary goes, or a full bucket discards it,
\* whatever became of its context.
Free(c, t) ==
  /\ at = "idle"
  /\ <<c, t>> \in held
  /\ live' = live \ First(2, Storage(c, t))
  /\ held' = held \ {<<c, t>>}
  /\ UNCHANGED <<vk, lost, status, owns, names, building>>

\* Mutant: the caller keeps a buffer it has returned.
ReturnToPoolKeeps(c, t) ==
  /\ at = "idle" /\ status[c] = "ready"
  /\ <<c, t>> \in held
  /\ owns' = [owns EXCEPT ![c] = @ \cup First(2, Storage(c, t))]
  /\ UNCHANGED <<vk, live, lost, status, names, held, building>>

\* return_to_pool: the engine's buf_pool has it.
ReturnToPool(c, t) ==
  /\ at = "idle" /\ status[c] = "ready"
  /\ <<c, t>> \in held
  /\ owns' = [owns EXCEPT ![c] = @ \cup First(2, Storage(c, t))]
  /\ held' = held \ {<<c, t>>}
  /\ UNCHANGED <<vk, live, lost, status, names, building>>

\* alloc_host_coherent_storage finds it there.
TakeFromPool(c, t) ==
  /\ at = "idle" /\ status[c] = "ready"
  /\ First(2, Storage(c, t)) \subseteq owns[c]
  /\ owns' = [owns EXCEPT ![c] = @ \ First(2, Storage(c, t))]
  /\ held' = held \cup {<<c, t>>}
  /\ UNCHANGED <<vk, live, lost, status, names, building>>

\* Mutant: "pipeline_cache and device are dropped after this".
DropContextAndDevice(c) ==
  /\ at = "idle" /\ status[c] = "ready"
  /\ live' = live \ (owns[c] \cup {Device(c)})
  /\ owns' = [owns EXCEPT ![c] = {}]
  /\ names' = [names EXCEPT ![c] = {}]
  /\ status' = [status EXCEPT ![c] = "gone"]
  /\ UNCHANGED <<vk, lost, held, building>>

\* ComputeEngine::drop and then its fields: once the device is idle the descriptor
\* pools, the fence, the command pool, the pipelines, the pooled buffers.
DropContext(c) ==
  /\ at = "idle" /\ status[c] = "ready"
  /\ live' = live \ owns[c]
  /\ owns' = [owns EXCEPT ![c] = {}]
  /\ names' = [names EXCEPT ![c] = {}]
  /\ status' = [status EXCEPT ![c] = "gone"]
  /\ UNCHANGED <<vk, lost, held, building>>

-----------------------------------------------------------------------------
Construct ==
  \/ CreateSetLayout \/ NextShader \/ Compile
  \/ CreateCommandPool \/ AllocateCommandBuffer \/ CreateFence \/ CreateDescriptorPool

Use(c) ==
  \/ Grow(c) \/ DropContext(c)
  \/ \E t \in Tensor :
       Alloc(c, t) \/ Free(c, t) \/ ReturnToPool(c, t) \/ TakeFromPool(c, t)

Next ==
  \/ Query \/ Construct
  \/ \E c \in Context : CreateDevice(c) \/ Use(c)

Spec == Init /\ [][Next]_vars

-----------------------------------------------------------------------------
(* Properties *)

TypeOK ==
  /\ vk \in {"unset", "none", "some"}
  /\ \A o \in live : o[1] \in Object
  /\ status \in [Context -> {"new", "building", "ready", "gone"}]
  /\ names \in [Context -> SUBSET (Shader \X {"", "_r4", "_mul"})]
  /\ held \subseteq Context \X Tensor
  /\ ctx \in Context
  /\ at \in {"idle", "set_layout", "compile", "command_buffer", "fence",
             "descriptor_pool"}
  /\ todo \subseteq Shader
  /\ \A c \in Context : status[c] = "building" <=> at # "idle" /\ c = ctx

\* Every object has at most one owner, which is there to destroy it: an engine or
\* its parts, a buffer a caller holds, or the running constructor.  So nothing is
\* destroyed twice, whatever fails and in whatever order Python drops contexts
\* and tensors, and what a failed call forgot is never touched again.
OwnedOnce ==
  /\ \A c \in Context :
       /\ owns[c] \subseteq live
       /\ owns[c] \cap (loose \cup lost \cup HeldObjects) = {}
       /\ \A d \in Context \ {c} : owns[c] \cap owns[d] = {}
  /\ HeldObjects \subseteq live
  /\ (loose \cup lost) \subseteq live
  /\ (loose \cup lost) \cap HeldObjects = {}

\* All else that exists is owned: an error or a drop leaves nothing behind but the
\* instance, the devices, which the code never destroys, and what a failing call
\* had in hand.
NothingElseLeaks ==
  live \subseteq {Instance} \cup {Device(c) : c \in Context}
                 \cup lost \cup loose \cup HeldObjects
                 \cup UNION {owns[c] : c \in Context}

\* What a caller can use is there in full: a context that was returned, each
\* pipeline of its table, and each tensor, also after its context is gone, with
\* the device they all live on.
UsableIsWhole ==
  /\ \A c \in Context : status[c] = "ready" =>
       /\ {Instance, Device(c), SetLayout(c), CommandPool(c), Fence(c)} \subseteq live
       /\ Pools(c) # {}
       /\ \A v \in names[c] : First(3, Parts(c, v)) \subseteq live
  /\ \A h \in held :
       {Instance, Device(h[1])} \cup First(2, Storage(h[1], h[2])) \subseteq live

=============================================================================
