--------------------------- MODULE MCComputeEngine ---------------------------
(***************************************************************************)
(* Operation lists the Python operators build, for one KV cache and two    *)
(* weights, over two sizes of buffers; a merged write and decode of two    *)
(* sequences is the longest.                                               *)
(***************************************************************************)
EXTENDS ComputeEngine

CONSTANTS kv, w1, w2, narrow, wide

MCTensors == {kv, w1, w2}

MCSizes == {narrow, wide}

(* Of each size what the call that needs most of it takes, and two more.   *)
MCSizeOf == [b \in Buffers |-> IF b <= 5 THEN narrow ELSE wide]

MCWrite == [rows |-> wide, slots |-> narrow]

MCSequence == [query |-> wide, blocks |-> narrow]

MCMlp == [x |-> narrow, gateUp |-> wide, swiglu |-> narrow, down |-> narrow]

MCPrograms ==
    {WriteAndDecode(kv, MCWrite, <<MCSequence, MCSequence>>), FusedSwigluMLP(w1, w2, MCMlp),
     Linear(w1, narrow, wide), PagedKVWrite(kv, MCWrite), Upload(w1, wide)}

MCFewPrograms == {FusedSwigluMLP(w1, w2, MCMlp), Linear(w1, narrow, wide)}

(***************************************************************************)
(* A driver that does not fail under every operation list, and one that    *)
(* fails everywhere under two, with a pool that overflows on every return. *)
(***************************************************************************)
MCSettings ==
    {[programs |-> MCPrograms, failures |-> {},
      poolMax |-> 2, maxSets |-> 8, activations |-> 1],
     [programs |-> MCFewPrograms, failures |-> Steps,
      poolMax |-> 1, maxSets |-> 4, activations |-> 0]}

=============================================================================
