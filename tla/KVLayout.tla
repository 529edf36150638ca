------------------------------- MODULE KVLayout -------------------------------
(***************************************************************************)
(* Where a key or value lies in the paged KV cache, computed three times:  *)
(* by VulkanPagedKVLayout (vllm_vulkan/kv_layout.py) in bytes, by the      *)
(* write shader (shaders/paged_kv_write_*.comp) from a slot and by the     *)
(* decode shaders (shaders/paged_attn_decode_*.comp) from a block table,   *)
(* both in elements and from push constants (vllm_vulkan/kv_ops.py).       *)
(*                                                                         *)
(* A layer is [heads, headSize, blockSize, dtypeSize]; slots, blocks and   *)
(* elements count from 0, layers from 1.                                   *)
(***************************************************************************)
EXTENDS Integers, Sequences

CONSTANT Word  \* the integers of the shaders and of struct.pack: 2^32

ASSUME WordAssumption == Word \in Nat \ {0}

LayerSpecs ==
  [heads : Nat \ {0}, headSize : Nat \ {0}, blockSize : Nat \ {0}, dtypeSize : Nat \ {0}]

Plane == {"k", "v"}

-----------------------------------------------------------------------------
(* kv_layout.py *)

ElementsPerToken(s) == s.heads * s.headSize
PlaneBytesPerBlock(s) == s.blockSize * (ElementsPerToken(s) * s.dtypeSize)
BytesPerBlock(s) == 2 * PlaneBytesPerBlock(s)

\* _layer_base_offsets, with the end of the last layer, _total_bytes.
LayerBase(specs, numBlocks) ==
  LET base[l \in 0 .. Len(specs)] ==
        IF l = 0 THEN 0 ELSE base[l - 1] + numBlocks * BytesPerBlock(specs[l])
  IN  base

PlaneBase(s, base, block, plane) ==
  base + block * BytesPerBlock(s) + (IF plane = "v" THEN PlaneBytesPerBlock(s) ELSE 0)

\* e is the scalar within its token: kv_head * head_size + head_element.
TokenOffset(s, base, block, token, e, plane) ==
  PlaneBase(s, base, block, plane) + (token * ElementsPerToken(s) + e) * s.dtypeSize

SlotOffset(s, base, slot, e, plane) ==
  TokenOffset(s, base, slot \div s.blockSize, slot % s.blockSize, e, plane)

\* A layer of a Hugging Face configuration; its global fields may be absent (0).
InferSpec(cfg, l, blockSize, dtypeSize) ==
  LET global == cfg.full[l] /\ cfg.globalHeadSize > 0 /\ cfg.globalHeads > 0
  IN  [heads |-> IF global THEN cfg.globalHeads ELSE cfg.heads,
       headSize |-> IF global THEN cfg.globalHeadSize ELSE cfg.headSize,
       blockSize |-> blockSize, dtypeSize |-> dtypeSize]

-----------------------------------------------------------------------------
(* kv_ops.py and the shaders *)

\* _paged_kv_write_pc and _paged_attn_decode_pc, in elements.
PushConstants(s, base) ==
  [elementsPerToken |-> ElementsPerToken(s),
   headSize |-> s.headSize,
   blockSize |-> s.blockSize,
   layerBase |-> base \div s.dtypeSize,
   plane |-> PlaneBytesPerBlock(s) \div s.dtypeSize,
   block |-> BytesPerBlock(s) \div s.dtypeSize]

\* struct.pack raises an error if a number takes more than a word.
Packs(pc) == \A f \in DOMAIN pc : pc[f] < Word

PlaneElements(pc, plane) == IF plane = "v" THEN pc.plane ELSE 0

\* Where the write shader stores scalar e of a token with this slot.
StoreIndex(pc, slot, e, plane) ==
  LET block == slot \div pc.blockSize
      token == slot - block * pc.blockSize
  IN  (pc.layerBase + block * pc.block + token * pc.elementsPerToken + e
         + PlaneElements(pc, plane)) % Word

\* Where the decode shaders find scalar e of the i-th token of a sequence.
ScanIndex(pc, table, i, e, plane) ==
  LET logical == i \div pc.blockSize
      token == i - logical * pc.blockSize
  IN  (pc.layerBase + table[logical] * pc.block + token * pc.elementsPerToken + e
         + PlaneElements(pc, plane)) % Word

\* The slot that vLLM gives the i-th token of a sequence with this block table.
SlotFor(s, table, i) ==
  table[i \div s.blockSize] * s.blockSize + (i % s.blockSize)

-----------------------------------------------------------------------------
(* What the layout promises *)

\* The cache fits the shaders' integers, and the layer's region is aligned: so
\* it is when all layers have the same dtype.
Addressable(s, base, numBlocks) ==
  /\ base % s.dtypeSize = 0
  /\ base + numBlocks * BytesPerBlock(s) <= Word * s.dtypeSize

Slots(s, numBlocks) == {x \in Nat : x < numBlocks * s.blockSize}

Scalars(s) == {e \in Nat : e < ElementsPerToken(s)}

=============================================================================
