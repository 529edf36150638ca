-------------------------- MODULE MCAttentionMirror --------------------------
(* Instances of AttentionMirror for TLC, and of the layout of the cache it     *)
(* mirrors.                                                                    *)
EXTENDS AttentionMirror, SlotMapping, TLC

\* Requests, blocks and data are interchangeable: the model compares them only
\* for equality.
Symmetry == Permutations(Req) \cup Permutations(Block) \cup Permutations(Val)

\* Small layers, and caches of at most two of them with one block size.
SmallSpecs ==
  [heads : 1 .. 2, headSize : 1 .. 2, blockSize : 1 .. 2, dtypeSize : 1 .. 2]

SmallCaches ==
  {specs \in [1 .. 2 -> SmallSpecs] : specs[1].blockSize = specs[2].blockSize}

SmallScalars(s, numBlocks) ==
  (0 .. numBlocks * s.blockSize - 1) \X (0 .. ElementsPerToken(s) - 1) \X Plane

\* The bytes of a scalar of a layer.
BytesOf(s, base, x) ==
  LET first == SlotOffset(s, base, x[1], x[2], x[3])
  IN  first .. first + s.dtypeSize - 1

\* The layers of a cache, with their sizes, tile it: every byte belongs to one
\* scalar of one layer.
ASSUME CacheIsTiled ==
  \A specs \in SmallCaches, numBlocks \in 1 .. 2 :
    LET base == LayerBase(specs, numBlocks)
        parts == UNION {{l} \X SmallScalars(specs[l], numBlocks) : l \in 1 .. 2}
        bytes(p) == BytesOf(specs[p[1]], base[p[1] - 1], p[2])
    IN  /\ UNION {bytes(p) : p \in parts} = 0 .. base[2] - 1
        /\ MapThenSumSet(LAMBDA p : specs[p[1]].dtypeSize, parts) = base[2]

SmallConfigs ==
  [full : [1 .. 2 -> BOOLEAN], heads : 1 .. 2, headSize : 1 .. 2,
   globalHeads : 0 .. 2, globalHeadSize : 0 .. 2]

\* Layers inferred from one configuration have one dtype, so that each begins at
\* a whole number of its elements.
ASSUME InferredLayersAligned ==
  \A cfg \in SmallConfigs, blockSize \in 1 .. 2, dtypeSize \in {1, 2, 4}, numBlocks \in 1 .. 3 :
    LET specs == [l \in 1 .. 2 |-> InferSpec(cfg, l, blockSize, dtypeSize)]
    IN  \A l \in 1 .. 2 : LayerBase(specs, numBlocks)[l] % dtypeSize = 0

\* What KVLayoutProofs proves for all sizes, on small ones: the write shader
\* stores where the layout says, and the decode shaders look there.
ASSUME ShadersFollowLayout ==
  \A s \in SmallSpecs, numBlocks \in 1 .. 2, skipped \in 0 .. 2 :
    LET base == skipped * s.dtypeSize
        push == PushConstants(s, base)
    IN  Addressable(s, base, numBlocks) =>
          /\ Packs(push)
          /\ \A x \in SmallScalars(s, numBlocks) :
               StoreIndex(push, x[1], x[2], x[3]) * s.dtypeSize
                 = SlotOffset(s, base, x[1], x[2], x[3])
          /\ \A blocks \in [0 .. 1 -> 0 .. numBlocks - 1],
                i \in 0 .. 2 * s.blockSize - 1, plane \in Plane :
               ScanIndex(push, blocks, i, 0, plane)
                 = StoreIndex(push, SlotFor(s, blocks, i), 0, plane)

\* A step of two requests that share no block, each with some tokens cached and
\* some added: the tokens get different slots, and the decode of a request finds
\* each of them where its slot puts it.
ASSUME SlotsFollowBlockTables ==
  \A past \in [1 .. 2 -> 0 .. 2], added \in [1 .. 2 -> 0 .. 2],
     blockSize \in 1 .. 2, step \in {1, 3, 5, 7} :
    LET blockTable == [r \in 1 .. 2 |-> [b \in 0 .. 3 |-> (step * (4 * r - 4 + b)) % 8]]
        startLoc == <<0, added[1], added[1] + added[2]>>
        positions == [i \in 1 .. added[1] |-> past[1] + i - 1]
                       \o [i \in 1 .. added[2] |-> past[2] + i - 1]
        slots == ComputeSlotMapping(startLoc, positions, blockTable, blockSize)
        push == PushConstants([heads |-> 1, headSize |-> 1, blockSize |-> blockSize,
                               dtypeSize |-> 1], 0)
    IN  /\ Len(slots) = added[1] + added[2]
        /\ IsInjective(slots)
        /\ \A r \in 1 .. 2 : \A i \in 1 .. added[r] :
             StoreIndex(push, slots[startLoc[r] + i], 0, "k")
               = ScanIndex(push, blockTable[r], past[r] + i - 1, 0, "k")

=============================================================================
