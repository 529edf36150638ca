--------------------------- MODULE AttentionMirror ---------------------------
(***************************************************************************)
(* One decoder attention layer of vllm_vulkan/attention.py.                *)
(*                                                                         *)
(* vLLM's paged KV cache in CPU memory is the source of truth.  The layer  *)
(* keeps a mirror of it in GPU memory, a bitmap of the mirror slots it has *)
(* ever written, and an ordered, bounded memory of block tables it has     *)
(* already found to be written up to some length.  A decode may run on the *)
(* mirror instead of the CPU only when that bookkeeping says that every    *)
(* token it reads is there.                                                *)
(*                                                                         *)
(* vLLM's scheduler (external) owns the blocks: it gives them to requests, *)
(* takes them back when a request ends or is preempted, and hands the same *)
(* block to a later request.  Nobody tells the layer.                      *)
(*                                                                         *)
(* A call of forward() is a sequence of steps: `pc' says which call of the *)
(* handler comes next, `scan' which request of the batch a check is at.    *)
(* Every GPU call may fail, before or after its effect on the device, when *)
(* the constant Failures allows it.                                        *)
(***************************************************************************)
EXTENDS Integers, Sequences, FiniteSets

CONSTANTS
  Req,          \* request ids of the running batch
  Block,        \* physical block ids of the paged KV cache
  BlockSize,    \* tokens per block
  MaxBlocks,    \* blocks per block-table row
  MaxNew,       \* bound: most tokens one request computes in one forward
  MaxVerified,  \* _MAX_VERIFIED_SEQUENCE_KEYS
  Val,          \* key/value data; one forward writes one of them
  Zero,         \* the content of a slot nobody has written
  Failures,     \* the ways a GPU call may fail: a subset of {"before", "after"}
  Reuse,        \* whether the scheduler hands freed blocks out again
  Decodable     \* the layer's static part of _supports_vulkan_decode holds
                \* and VLLM_VULKAN_DISABLE_ATTN is not set

ASSUME MirrorAssumption ==
  /\ BlockSize \in Nat \ {0}
  /\ MaxBlocks \in Nat \ {0}
  /\ MaxNew \in Nat \ {0}
  /\ MaxVerified \in Nat \ {0}
  /\ Failures \subseteq {"before", "after"}
  /\ Reuse \in BOOLEAN
  /\ Decodable \in BOOLEAN

VARIABLES
  free,     \* scheduler: blocks it may hand out
  table,    \* scheduler: block table of each request
  len,      \* scheduler: tokens of each request with K/V computed
  cpu,      \* vLLM's KV cache: slot -> data
  gpu,      \* entry.cache, the mirror: slot -> data
  written,  \* entry.written_slots
  verified, \* entry.verified_prefix_by_blocks, oldest entry first
  used,     \* _last_vulkan_decode_used
  pc,       \* the next call of the running forward()
  order,    \* the requests of the running forward(), in batch order
  new,      \* tokens each request computes in the running forward()
  sdpa,     \* attn_metadata.use_sdpa_prefill
  scan      \* req_idx of the running _vulkan_cache_has_sequences

schedulerVars == <<free, table, len>>
stepVars == <<order, new, sdpa>>
entryVars == <<gpu, written, verified>>
vars == <<free, table, len, cpu, gpu, written, verified, used, pc, order, new,
          sdpa, scan>>

-----------------------------------------------------------------------------
(* Slots and block tables *)

Slot == Block \X (0 .. BlockSize - 1)

Tables == UNION {[1 .. n -> Block] : n \in 0 .. MaxBlocks}

SlotOf(t, p) == <<t[(p \div BlockSize) + 1], p % BlockSize>>

NeededBlocks(n) == (n + BlockSize - 1) \div BlockSize

\* The slots a sequence of n tokens occupies in the blocks of t.
SlotsOf(t, n) == {SlotOf(t, p) : p \in 0 .. n - 1}

ActiveBlocks(r, n) == SubSeq(table[r], 1, NeededBlocks(n))

BlocksOf(r) == {table[r][i] : i \in DOMAIN table[r]}

InBatch == {order[i] : i \in DOMAIN order}

\* slot_mapping: where this forward's new tokens go.
StepSlots ==
  UNION {{SlotOf(table[r], p) : p \in (len[r] - new[r]) .. (len[r] - 1)}
           : r \in InBatch}

ReadBy(cache, r) == [p \in 0 .. len[r] - 1 |-> cache[SlotOf(table[r], p)]]

-----------------------------------------------------------------------------
(* The bookkeeping of an entry *)

Entry == [blocks : Tables, upto : Nat]

Remembered(t, n) ==
  \E i \in DOMAIN verified : verified[i].blocks = t /\ verified[i].upto = n

\* verified_prefix_by_blocks.get(t) is not None
Knows(t) == \E i \in DOMAIN verified : verified[i].blocks = t

UpTo(t) == (CHOOSE e \in {verified[i] : i \in DOMAIN verified} : e.blocks = t).upto

AllButLast(t) == SubSeq(t, 1, Len(t) - 1)

VerifiedPrefixLen(t) ==
  IF Knows(t) THEN UpTo(t)
  ELSE IF Len(t) > 1 /\ Knows(AllButLast(t)) THEN UpTo(AllButLast(t))
  ELSE 0

\* Mutant: a check looks at the newest token only.
StartPosNewestOnly(t, n) == n - 1

StartPos(t, n) == IF VerifiedPrefixLen(t) < n THEN VerifiedPrefixLen(t) ELSE n

\* Mutant: the scan stops one token early.
ScannedButLast(t, n) == \A p \in StartPos(t, n) .. n - 2 : SlotOf(t, p) \in written

\* The scan of written_slots: it starts where the verified prefix ends.
Scanned(t, n) == \A p \in StartPos(t, n) .. n - 1 : SlotOf(t, p) \in written

\* The check of one request: its row is long enough and the scan succeeds.
PassesCheck(r, n) ==
  /\ NeededBlocks(n) <= Len(table[r])
  /\ Scanned(ActiveBlocks(r, n), n)

Without(t) ==
  IF Knows(t)
  THEN LET i == CHOOSE j \in DOMAIN verified : verified[j].blocks = t
       IN  SubSeq(verified, 1, i - 1) \o SubSeq(verified, i + 1, Len(verified))
  ELSE verified

\* Mutant: the OrderedDict is never trimmed.
RememberWithoutEviction(t, n) ==
  verified' = Append(Without(t), [blocks |-> t, upto |-> n])

\* Assign, move_to_end, and drop the oldest entry when there are too many.
RememberPrefix(t, n) ==
  LET q == Append(Without(t), [blocks |-> t, upto |-> n])
  IN  verified' = IF Len(q) > MaxVerified THEN Tail(q) ELSE q

-----------------------------------------------------------------------------
(* vLLM's scheduler *)

Init ==
  /\ free = Block
  /\ table = [r \in Req |-> <<>>]
  /\ len = [r \in Req |-> 0]
  /\ cpu = [s \in Slot |-> Zero]
  /\ gpu = [s \in Slot |-> Zero]
  /\ written = {}
  /\ verified = <<>>
  /\ used = FALSE
  /\ pc = "idle"
  /\ order = <<>>
  /\ new = [r \in Req |-> 0]
  /\ sdpa = FALSE
  /\ scan = 1

\* The scheduler gives request r one more block.
Allocate(r, b) ==
  /\ pc = "idle"
  /\ b \in free
  /\ Len(table[r]) < MaxBlocks
  /\ free' = free \ {b}
  /\ table' = [table EXCEPT ![r] = Append(@, b)]
  /\ UNCHANGED <<len, cpu, entryVars, used, pc, stepVars, scan>>

\* Prefix caching: request r starts with the full blocks that hold the first
\* n tokens of request q, computed and cached when q computed them.
SharePrefix(q, r, n) ==
  /\ pc = "idle"
  /\ table[r] = <<>>
  /\ n <= len[q]
  /\ n % BlockSize = 0
  /\ table' = [table EXCEPT ![r] = ActiveBlocks(q, n)]
  /\ len' = [len EXCEPT ![r] = n]
  /\ UNCHANGED <<free, cpu, entryVars, used, pc, stepVars, scan>>

\* Request r ends or is preempted: the blocks no other request holds go back,
\* and are handed out again when Reuse holds.
Release(r) ==
  /\ pc = "idle"
  /\ table[r] # <<>>
  /\ free' = IF Reuse THEN free \cup (BlocksOf(r) \ UNION {BlocksOf(q) : q \in Req \ {r}})
             ELSE free
  /\ table' = [table EXCEPT ![r] = <<>>]
  /\ len' = [len EXCEPT ![r] = 0]
  /\ UNCHANGED <<cpu, entryVars, used, pc, stepVars, scan>>

-----------------------------------------------------------------------------
(* forward() *)

\* cpu_attn_reshape_and_cache runs first, always; the merged write and decode
\* is tried only for a batch of single-token queries without SDPA prefill.
Forward(o, n, s, v) ==
  /\ pc = "idle"
  /\ \A r \in Req : /\ n[r] > 0 <=> \E i \in DOMAIN o : o[i] = r
                    /\ NeededBlocks(len[r] + n[r]) <= Len(table[r])
  /\ s => \E r \in Req : n[r] > 1
  /\ order' = o
  /\ new' = n
  /\ sdpa' = s
  /\ UNCHANGED <<free, table, entryVars>>
  /\ len' = [r \in Req |-> len[r] + n[r]]
  /\ cpu' = [x \in Slot |-> IF x \in StepSlots' THEN v ELSE cpu[x]]
  /\ used' = FALSE
  /\ scan' = 1
  /\ pc' = IF Decodable /\ ~s /\ \A r \in Req : n[r] <= 1
           THEN "checkPrior" ELSE "mirror"

\* _vulkan_cache_has_sequences(exclude_current_token=True), one request: the
\* history before this step's token must be in the mirror.
CheckPrior ==
  /\ pc = "checkPrior"
  /\ scan <= Len(order)
  /\ LET r == order[scan]
         n == len[r] - 1
     IN  \/ /\ n <= 0
            /\ scan' = scan + 1
            /\ UNCHANGED <<verified, pc>>
         \/ /\ n > 0
            /\ PassesCheck(r, n)
            /\ RememberPrefix(ActiveBlocks(r, n), n)
            /\ scan' = scan + 1
            /\ UNCHANGED pc
         \/ /\ n > 0
            /\ ~PassesCheck(r, n)
            /\ pc' = "mirror"
            /\ scan' = 1
            /\ UNCHANGED verified
  /\ UNCHANGED <<schedulerVars, cpu, gpu, written, used, stepVars>>

MirrorWrite == gpu' = [x \in Slot |-> IF x \in StepSlots THEN cpu[x] ELSE gpu[x]]

\* Mutant: the decode is recorded without the write before it.
DecodeWithoutWrite ==
  /\ pc = "checkPrior"
  /\ scan > Len(order)
  /\ written' = written \cup StepSlots
  /\ scan' = 1
  /\ pc' = "reverify"
  /\ UNCHANGED <<schedulerVars, cpu, gpu, verified, used, stepVars>>

\* Mutant: the merged path forgets to mark its slots.
WriteWithoutMark ==
  /\ pc = "checkPrior"
  /\ scan > Len(order)
  /\ MirrorWrite
  /\ scan' = 1
  /\ pc' = "reverify"
  /\ UNCHANGED <<schedulerVars, cpu, written, verified, used, stepVars>>

\* One execute_batch writes the new tokens and decodes from the mirror.
WriteAndDecode ==
  /\ pc = "checkPrior"
  /\ scan > Len(order)
  /\ MirrorWrite
  /\ written' = written \cup StepSlots
  /\ scan' = 1
  /\ pc' = "reverify"
  /\ UNCHANGED <<schedulerVars, cpu, verified, used, stepVars>>

\* The except clause of _try_write_and_decode_vulkan: no context, no entry, a
\* rejected argument or a failed submission leave the device as it was.
MergedFailsBefore ==
  /\ "before" \in Failures
  /\ pc = "checkPrior"
  /\ scan' = 1
  /\ pc' = "mirror"
  /\ UNCHANGED <<schedulerVars, cpu, entryVars, used, stepVars>>

\* The same clause when the batch had run: the wait for it, the read-back or
\* the copy to the output failed.
MergedFailsAfter ==
  /\ "after" \in Failures
  /\ pc = "checkPrior"
  /\ scan > Len(order)
  /\ MirrorWrite
  /\ scan' = 1
  /\ pc' = "mirror"
  /\ UNCHANGED <<schedulerVars, cpu, written, verified, used, stepVars>>

\* The full sequences are checked again, only to remember them; the result of
\* the check is not looked at.
Reverify ==
  /\ pc = "reverify"
  /\ IF scan <= Len(order) /\ PassesCheck(order[scan], len[order[scan]])
     THEN /\ RememberPrefix(ActiveBlocks(order[scan], len[order[scan]]), len[order[scan]])
          /\ scan' = scan + 1
          /\ UNCHANGED <<used, pc>>
     ELSE /\ used' = TRUE
          /\ pc' = "done"
          /\ UNCHANGED <<verified, scan>>
  /\ UNCHANGED <<schedulerVars, cpu, gpu, written, stepVars>>

\* Where forward() goes once the mirror write has been tried.
AfterMirror ==
  IF Decodable /\ ~sdpa /\ \A r \in Req : new[r] <= 1 THEN "checkAll" ELSE "cpu"

\* Mutant: SDPA-prefill batches are not mirrored.
MirrorDecodeBatchesOnly ==
  /\ pc = "mirror"
  /\ IF sdpa
     THEN UNCHANGED <<gpu, written>>
     ELSE /\ MirrorWrite
          /\ written' = written \cup StepSlots
  /\ pc' = AfterMirror
  /\ UNCHANGED <<schedulerVars, cpu, verified, used, stepVars, scan>>

\* _try_write_tokens_to_vulkan_cache
Mirror ==
  /\ pc = "mirror"
  /\ MirrorWrite
  /\ written' = written \cup StepSlots
  /\ pc' = AfterMirror
  /\ UNCHANGED <<schedulerVars, cpu, verified, used, stepVars, scan>>

\* Mutant: the slots are marked whether or not the write succeeded.
MirrorFailureMarks ==
  /\ "before" \in Failures
  /\ pc = "mirror"
  /\ written' = written \cup StepSlots
  /\ pc' = AfterMirror
  /\ UNCHANGED <<schedulerVars, cpu, gpu, verified, used, stepVars, scan>>

\* "Vulkan KV cache mirror skipped": the exception is logged and dropped.
MirrorFailsBefore ==
  /\ "before" \in Failures
  /\ pc = "mirror"
  /\ pc' = AfterMirror
  /\ UNCHANGED <<schedulerVars, cpu, entryVars, used, stepVars, scan>>

MirrorFailsAfter ==
  /\ "after" \in Failures
  /\ pc = "mirror"
  /\ MirrorWrite
  /\ pc' = AfterMirror
  /\ UNCHANGED <<schedulerVars, cpu, written, verified, used, stepVars, scan>>

\* Mutant: a failed check goes back to the mirror write.
CheckAllRetries ==
  /\ pc = "checkAll"
  /\ scan <= Len(order)
  /\ LET r == order[scan]
     IN  IF PassesCheck(r, len[r])
         THEN /\ RememberPrefix(ActiveBlocks(r, len[r]), len[r])
              /\ scan' = scan + 1
              /\ UNCHANGED pc
         ELSE /\ pc' = "mirror"
              /\ scan' = 1
              /\ UNCHANGED verified
  /\ UNCHANGED <<schedulerVars, cpu, gpu, written, used, stepVars>>

\* _vulkan_cache_has_sequences in _try_vulkan_decode, one request.
CheckAll ==
  /\ pc = "checkAll"
  /\ scan <= Len(order)
  /\ LET r == order[scan]
     IN  \/ /\ PassesCheck(r, len[r])
            /\ RememberPrefix(ActiveBlocks(r, len[r]), len[r])
            /\ scan' = scan + 1
            /\ UNCHANGED pc
         \/ /\ ~PassesCheck(r, len[r])
            /\ pc' = "cpu"
            /\ UNCHANGED <<verified, scan>>
  /\ UNCHANGED <<schedulerVars, cpu, gpu, written, used, stepVars>>

\* _try_vulkan_decode reads the mirror.
Decode ==
  /\ pc = "checkAll"
  /\ scan > Len(order)
  /\ used' = TRUE
  /\ pc' = "done"
  /\ UNCHANGED <<schedulerVars, cpu, entryVars, stepVars, scan>>

DecodeFails ==
  /\ Failures # {}
  /\ pc = "checkAll"
  /\ pc' = "cpu"
  /\ UNCHANGED <<schedulerVars, cpu, entryVars, used, stepVars, scan>>

\* cpu_attention_with_kv_cache (and _run_sdpa_forward for the prefill part).
CpuAttention ==
  /\ pc = "cpu"
  /\ pc' = "done"
  /\ UNCHANGED <<schedulerVars, cpu, entryVars, used, stepVars, scan>>

Return ==
  /\ pc = "done"
  /\ pc' = "idle"
  /\ order' = <<>>
  /\ new' = [r \in Req |-> 0]
  /\ sdpa' = FALSE
  /\ scan' = 1
  /\ UNCHANGED <<schedulerVars, cpu, entryVars, used>>

-----------------------------------------------------------------------------
Orders == {o \in UNION {[1 .. n -> Req] : n \in 1 .. Cardinality(Req)} :
             \A i, j \in DOMAIN o : o[i] = o[j] => i = j}

Step ==
  \/ CheckPrior \/ WriteAndDecode \/ MergedFailsBefore \/ MergedFailsAfter
  \/ Reverify
  \/ Mirror \/ MirrorFailsBefore \/ MirrorFailsAfter
  \/ CheckAll \/ Decode \/ DecodeFails
  \/ CpuAttention \/ Return

Next ==
  \/ \E r \in Req : \E b \in Block : Allocate(r, b)
  \/ \E q, r \in Req : \E n \in 1 .. len[q] : SharePrefix(q, r, n)
  \/ \E r \in Req : Release(r)
  \/ \E o \in Orders, n \in [Req -> 0 .. MaxNew], s \in BOOLEAN, v \in Val :
       Forward(o, n, s, v)
  \/ Step

Spec == Init /\ [][Next]_vars

\* A running forward() goes on until it returns; nobody has to call it.
FairSpec == Spec /\ WF_vars(Step)

-----------------------------------------------------------------------------
(* Properties *)

\* Types, and the bound on the memory of verified block tables.
TypeOK ==
  /\ free \subseteq Block
  /\ table \in [Req -> Tables]
  /\ len \in [Req -> Nat]
  /\ cpu \in [Slot -> Val \cup {Zero}]
  /\ gpu \in [Slot -> Val \cup {Zero}]
  /\ written \subseteq Slot
  /\ verified \in Seq(Entry)
  /\ Len(verified) <= MaxVerified
  /\ used \in BOOLEAN
  /\ pc \in {"idle", "checkPrior", "reverify", "mirror", "checkAll", "cpu", "done"}
  /\ order \in Seq(Req)
  /\ new \in [Req -> Nat]
  /\ sdpa \in BOOLEAN
  /\ scan \in Nat \ {0}
  /\ \A r \in Req : NeededBlocks(len[r]) <= Len(table[r])

\* The memory of verified prefixes (_remember_verified_prefix), which lets a
\* check skip its scan, never runs ahead of the bitmap: every slot a
\* remembered prefix covers has been written.
VerifiedPrefixesAreWritten ==
  \A i \in DOMAIN verified :
    LET e == verified[i]
    IN  \A p \in 0 .. e.upto - 1 :
          (p \div BlockSize) + 1 \in DOMAIN e.blocks /\ SlotOf(e.blocks, p) \in written

\* A forward() that returns with _last_vulkan_decode_used has decoded exactly
\* the keys and values CPU_ATTN would have read, for every request of the
\* batch and every position of it.
DecodeReadsWhatCpuHolds ==
  pc = "done" /\ used => \A r \in InBatch : ReadBy(gpu, r) = ReadBy(cpu, r)

\* Between two calls of forward() a slot marked in written_slots holds in the
\* mirror what it holds in vLLM's cache.
MirrorCoherent ==
  pc = "idle" => \A x \in written : gpu[x] = cpu[x]

\* The re-verification at the end of the merged path, whose result the code
\* ignores, never fails: the merged path only ran because the history was
\* there, and it has just written the rest.
ReverifyPasses ==
  pc = "reverify" /\ scan <= Len(order) =>
    PassesCheck(order[scan], len[order[scan]])

\* _vulkan_cache_has_sequences "Returns whether every token this decode step
\* needs to read from the Vulkan cache has already been written there": when
\* the whole batch has passed, the mirror holds those tokens.
CheckedTokensAreThere ==
  pc = "checkAll" /\ scan > Len(order) =>
    \A r \in InBatch : ReadBy(gpu, r) = ReadBy(cpu, r)

\* Every call of forward() returns, whatever fails on the way.
ForwardReturns == pc # "idle" ~> pc = "idle"
=============================================================================
