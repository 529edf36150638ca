------------------------------ MODULE SlotMapping ------------------------------
(***************************************************************************)
(* The slots of the tokens of a step, as _pure_python_compute_slot_mapping *)
(* (vllm_vulkan/patches.py) computes them for all requests at once.        *)
(* Request r has the tokens startLoc[r] .. startLoc[r + 1] - 1 of the step, *)
(* tokens counted from 0 and requests from 1.                              *)
(***************************************************************************)
EXTENDS KVLayout, FiniteSetsExt, SequencesExt

TokensOf(startLoc, r) == Max({0, startLoc[r + 1] - startLoc[r]})

\* repeat_interleave: for each token its request.
RequestIds(startLoc) ==
  FlattenSeq([r \in 1 .. Len(startLoc) - 1 |-> [i \in 1 .. TokensOf(startLoc, r) |-> r]])

\* Indexing with ids and positions of different lengths raises an error.
ComputeSlotMapping(startLoc, positions, blockTable, blockSize) ==
  LET ids == RequestIds(startLoc)
  IN  IF Len(ids) # Len(positions) THEN <<>>
      ELSE [t \in 1 .. Len(ids) |->
              SlotFor([blockSize |-> blockSize], blockTable[ids[t]], positions[t])]

=============================================================================
