---------------------------- MODULE TensorParallel ----------------------------
(***************************************************************************)
(* A tensor-parallel group of vLLM workers running one model whose Linear  *)
(* and MLP modules carry the hooks of vllm_vulkan/model_runner.py.         *)
(*                                                                         *)
(* Each rank decides for itself, at every call, whether the product comes  *)
(* from Vulkan or from the module's own forward (orig), and whether an MLP *)
(* runs fused or as its two Linear modules.  The ranks meet only in the    *)
(* collectives, which have no names on the wire: the n-th collective of a  *)
(* rank meets the n-th of every other.                                     *)
(*                                                                         *)
(* What a rank holds is described by where it came from: the shards whose  *)
(* products are in it, and the ranks that have added their bias to it.     *)
(***************************************************************************)
EXTENDS Naturals, Sequences

CONSTANTS
  Rank,    \* the workers of the group
  Model    \* the Linear modules in the order the forward passes call them

\* A Linear module.  bias: it has one and skip_bias_add is off.  mlp: it is the
\* gate_up_proj of an MLP the hook may fuse, and the next one its down_proj.
Linear == [collective : {"none", "all_reduce", "all_gather"},
           bias : BOOLEAN,
           mlp : BOOLEAN]

\* _wrap_swiglu_mlp leaves an MLP alone unless this holds of it; that a down_proj
\* gathers nothing is what its class means.
Fusible(i) ==
  /\ i + 1 \in DOMAIN Model
  /\ Model[i].collective = "none" /\ Model[i + 1].collective # "all_gather"
  /\ ~Model[i].bias /\ ~Model[i + 1].bias

ASSUME GroupAssumption ==
  /\ Rank # {}
  /\ Model \in Seq(Linear)
  /\ \A i \in DOMAIN Model : Model[i].mlp => Fusible(i)

VARIABLES
  at,      \* the Linear each rank is at; past the end when it has finished
  pc,      \* where the rank stands in that call
  fused,   \* the rank runs Linear at and the one after it as a fused MLP
  plain,   \* it is inside an MLP's own forward, which calls plain Linears
  out      \* what the rank holds: its activations, or the product so far

vars == <<at, pc, fused, plain, out>>

Value == [parts : SUBSET (Nat \X Rank), biased : SUBSET Rank]

-----------------------------------------------------------------------------
(* What a rank should hold *)

Meets(i) == Model[i].collective # "none"

\* Every rank's product in a rank that took part in a collective, its own
\* otherwise.
PartsAfter(i, r) == IF Meets(i) THEN {i} \X Rank ELSE {<<i, r>>}

\* A bias is sharded with the columns; one that follows a reduction is whole.
BiasAfter(i, r) ==
  IF ~Model[i].bias THEN {}
  ELSE IF Model[i].collective = "all_gather" THEN Rank
  ELSE {r}

\* The activations after Linear i at rank r; before the first one, nothing.
Want(i, r) ==
  IF i = 0 THEN [parts |-> {}, biased |-> {}]
  ELSE [parts |-> PartsAfter(i, r), biased |-> BiasAfter(i, r)]

-----------------------------------------------------------------------------
(* One rank *)

Finished(r) == at[r] > Len(Model)

\* The Linear whose product and collective the running call ends with.
Last(r) == IF fused[r] THEN at[r] + 1 ELSE at[r]

\* Mutant: the bias of a row-parallel Linear goes into the sharded matmul.
BiasAlwaysInMatmul(i, r) == IF Model[i].bias THEN {r} ELSE {}

\* matmul_bias: a row-parallel Linear leaves it until after the reduction.
MatmulBias(i, r) ==
  IF Model[i].bias /\ Model[i].collective # "all_reduce" THEN {r} ELSE {}

\* The product of Linear last over what rank r holds; of nothing if that is not
\* what the Linear at which the call began is to be given.
Product(r, last) ==
  [parts |-> IF out[r] = Want(at[r] - 1, r) THEN {<<last, r>>} ELSE {},
   biased |-> MatmulBias(last, r)]

\* Mutant: a call also takes the place of the Linear after it.
LeaveSkipping(r, i) ==
  /\ at' = [at EXCEPT ![r] = i + 2]
  /\ pc' = [pc EXCEPT ![r] = "call"]
  /\ fused' = [fused EXCEPT ![r] = FALSE]
  /\ plain' = [plain EXCEPT ![r] = plain[r] /\ Model[i].mlp]

\* The call is over: r goes on after Linear i.
Leave(r, i) ==
  /\ at' = [at EXCEPT ![r] = i + 1]
  /\ pc' = [pc EXCEPT ![r] = "call"]
  /\ fused' = [fused EXCEPT ![r] = FALSE]
  /\ plain' = [plain EXCEPT ![r] = plain[r] /\ Model[i].mlp]

Init ==
  /\ at = [r \in Rank |-> 1]
  /\ pc = [r \in Rank |-> "call"]
  /\ fused = [r \in Rank |-> FALSE]
  /\ plain = [r \in Rank |-> FALSE]
  /\ out = [r \in Rank |-> Want(0, r)]

\* vk_forward() calls orig(): no context, an emptied weight, linear() raises.
FallBack(r) ==
  /\ pc[r] = "call" /\ ~Finished(r)
  /\ Model[at[r]].mlp => plain[r]
  /\ pc' = [pc EXCEPT ![r] = "orig"]
  /\ UNCHANGED <<at, fused, plain, out>>

\* vulkan_ops.linear() returns.
Compute(r) ==
  /\ pc[r] = "call" /\ ~Finished(r)
  /\ Model[at[r]].mlp => plain[r]
  /\ pc' = [pc EXCEPT ![r] = "computed"]
  /\ out' = [out EXCEPT ![r] = Product(r, at[r])]
  /\ UNCHANGED <<at, fused, plain>>

\* vk_mlp_forward() calls orig(), the MLP's own forward, which calls the hooks of
\* its two Linears: fused_swiglu_mlp() is not available or raises.
Unfuse(r) ==
  /\ pc[r] = "call" /\ ~Finished(r)
  /\ Model[at[r]].mlp /\ ~plain[r]
  /\ plain' = [plain EXCEPT ![r] = TRUE]
  /\ UNCHANGED <<at, pc, fused, out>>

\* vulkan_ops.fused_swiglu_mlp() returns.
ComputeFused(r) ==
  /\ pc[r] = "call" /\ ~Finished(r)
  /\ Model[at[r]].mlp /\ ~plain[r]
  /\ pc' = [pc EXCEPT ![r] = "computed"]
  /\ fused' = [fused EXCEPT ![r] = TRUE]
  /\ out' = [out EXCEPT ![r] = Product(r, at[r] + 1)]
  /\ UNCHANGED <<at, plain>>

\* result.to(x.dtype), still inside the try block.
Cast(r) ==
  /\ pc[r] = "computed"
  /\ pc' = [pc EXCEPT ![r] = "cast"]
  /\ UNCHANGED <<at, fused, plain, out>>

\* The cast raises; the product is dropped and orig() starts from x again.
CastFails(r) ==
  /\ pc[r] = "computed"
  /\ pc' = [pc EXCEPT ![r] = IF fused[r] THEN "call" ELSE "orig"]
  /\ fused' = [fused EXCEPT ![r] = FALSE]
  /\ plain' = [plain EXCEPT ![r] = plain[r] \/ fused[r]]
  /\ out' = [out EXCEPT ![r] = Want(at[r] - 1, r)]
  /\ UNCHANGED at

\* Mutant: a fused MLP returns its own partial sum.
HookEndsWithoutReduction(r) ==
  /\ pc[r] = "cast"
  /\ IF Meets(Last(r)) /\ ~fused[r]
       THEN pc' = [pc EXCEPT ![r] = "joined"] /\ UNCHANGED <<at, fused, plain>>
       ELSE Leave(r, Last(r))
  /\ UNCHANGED out

\* After the try block: the collective if the Linear has one.
HookEnds(r) ==
  /\ pc[r] = "cast"
  /\ IF Meets(Last(r))
       THEN pc' = [pc EXCEPT ![r] = "joined"] /\ UNCHANGED <<at, fused, plain>>
       ELSE Leave(r, Last(r))
  /\ UNCHANGED out

\* The module's own forward: its product, then its collective.
Orig(r) ==
  /\ pc[r] = "orig"
  /\ out' = [out EXCEPT ![r] = Product(r, at[r])]
  /\ IF Meets(at[r])
       THEN pc' = [pc EXCEPT ![r] = "joined"] /\ UNCHANGED <<at, fused, plain>>
       ELSE Leave(r, at[r])

\* The bias that follows a reduction.
LateBias(i, r) ==
  IF Model[i].bias /\ Model[i].collective = "all_reduce" THEN {r} ELSE {}

Biased(r) ==
  [parts |-> out[r].parts, biased |-> out[r].biased \cup LateBias(Last(r), r)]

\* Mutant: the collective stands inside the try block, so what raises after it
\* runs orig() and the collective once more.
AddBiasMayRepeat(r) ==
  \/ /\ pc[r] = "met"
     /\ out' = [out EXCEPT ![r] = Biased(r)]
     /\ Leave(r, Last(r))
  \/ /\ pc[r] = "met" /\ ~fused[r]
     /\ pc' = [pc EXCEPT ![r] = "orig"]
     /\ out' = [out EXCEPT ![r] = Want(at[r] - 1, r)]
     /\ UNCHANGED <<at, fused, plain>>

\* The collective has returned; a reduced product gets its bias now, in the hook
\* as in the module's own forward.
AddBias(r) ==
  /\ pc[r] = "met"
  /\ out' = [out EXCEPT ![r] = Biased(r)]
  /\ Leave(r, Last(r))

-----------------------------------------------------------------------------
(* The group *)

\* A collective returns once every rank has called one, and combines what they
\* brought; it cannot complete if they called different kinds.
Collective ==
  /\ \A r \in Rank : pc[r] = "joined"
  /\ \A r, s \in Rank : Model[Last(r)].collective = Model[Last(s)].collective
  /\ pc' = [r \in Rank |-> "met"]
  /\ out' = [r \in Rank |->
               [parts |-> UNION {out[s].parts : s \in Rank},
                biased |-> UNION {out[s].biased : s \in Rank}]]
  /\ UNCHANGED <<at, fused, plain>>

RankStep(r) ==
  \/ FallBack(r) \/ Compute(r)
  \/ Unfuse(r) \/ ComputeFused(r)
  \/ Cast(r) \/ CastFails(r) \/ HookEnds(r)
  \/ Orig(r)
  \/ AddBias(r)

Terminated == (\A r \in Rank : Finished(r)) /\ UNCHANGED vars

Next == (\E r \in Rank : RankStep(r)) \/ Collective \/ Terminated

Spec == Init /\ [][Next]_vars

\* Every worker process runs, and the transport delivers.
FairSpec == Spec /\ (\A r \in Rank : WF_vars(RankStep(r))) /\ WF_vars(Collective)

-----------------------------------------------------------------------------
(* Properties *)

TypeOK ==
  /\ at \in [Rank -> 1 .. Len(Model) + 1]
  /\ pc \in [Rank -> {"call", "orig", "computed", "cast", "joined", "met"}]
  /\ fused \in [Rank -> BOOLEAN]
  /\ plain \in [Rank -> BOOLEAN]
  /\ out \in [Rank -> Value]

\* The collectives that rank r has still to join.
Ahead(r) ==
  {i \in DOMAIN Model : Meets(i) /\ (IF pc[r] = "met" THEN i > Last(r) ELSE i >= at[r])}

\* Whatever raises on which rank, and whichever way each rank computes, all ranks
\* have the same collectives before them, so that two that meet in one are in the
\* collective of the same Linear (the placement of the collectives outside the
\* try blocks of vk_forward and vk_mlp_forward: "every rank performs exactly one
\* collective and stays in lockstep").
InStep == \A r, s \in Rank : Ahead(r) = Ahead(s)

\* Between two modules a rank holds what the unsharded module would have given
\* it: every rank's product where the Linear ends in a collective, and each bias
\* once, although the hook, the fused MLP and the module's own forward may have
\* been mixed in one sum (matmul_bias, row_reduce, gather_output).
SumsAreWhole ==
  \A r \in Rank : pc[r] = "call" => out[r] = Want(at[r] - 1, r)

\* No rank waits for ever in a collective that another never joins.
EveryRankFinishes == <>(\A r \in Rank : Finished(r))

=============================================================================
