------------------------- MODULE TensorParallelProofs -------------------------
(***************************************************************************)
(* Proofs about TensorParallel for any group of ranks and any model that   *)
(* GroupAssumption allows.                                                 *)
(*                                                                         *)
(* The argument: a rank inside a call stands at a Linear of the model      *)
(* (Positions); no step of one rank changes the collectives it has still   *)
(* to join, and a collective removes the same one from every rank, the     *)
(* least (InStep).  So the ranks that meet in a collective bring the       *)
(* products of one Linear, and what each rank holds at every point of a    *)
(* call follows (Values).                                                  *)
(***************************************************************************)
EXTENDS TensorParallel, TLAPS

\* Where a rank can be while it is inside a call.
Positions ==
  \A r \in Rank :
    /\ pc[r] # "call" => at[r] \in DOMAIN Model
    /\ fused[r] => /\ at[r] \in DOMAIN Model
                   /\ Model[at[r]].mlp
                   /\ pc[r] \notin {"call", "orig"}
    /\ pc[r] \in {"joined", "met"} => Meets(Last(r))

\* A rank's own product of Linear i, and what a collective makes of all of them.
Own(i, r) == [parts |-> {<<i, r>>}, biased |-> MatmulBias(i, r)]

Joint(i) == [parts |-> {i} \X Rank, biased |-> UNION {MatmulBias(i, s) : s \in Rank}]

\* What rank r holds.
Holds(r) ==
  CASE pc[r] \in {"call", "orig"} -> Want(at[r] - 1, r)
    [] pc[r] = "met" -> Joint(Last(r))
    [] OTHER -> Own(Last(r), r)

Values == \A r \in Rank : out[r] = Holds(r)

IndInv == TypeOK /\ Positions /\ InStep /\ Values

-----------------------------------------------------------------------------
(* The model *)

LEMMA ModelFacts ==
  /\ Len(Model) \in Nat
  /\ DOMAIN Model = 1 .. Len(Model)
  /\ \A i \in DOMAIN Model : Model[i] \in Linear
BY GroupAssumption

LEMMA MlpFacts ==
  ASSUME NEW i \in DOMAIN Model, Model[i].mlp
  PROVE  /\ i + 1 \in DOMAIN Model
         /\ ~Meets(i)
         /\ ~Model[i + 1].bias
BY GroupAssumption DEF Fusible, Meets

\* The Linear a call ends with is one of the model, and none between it and the
\* one the call began with has a collective.
LEMMA LastFacts ==
  ASSUME TypeOK, Positions, NEW r \in Rank, pc[r] # "call"
  PROVE  /\ Last(r) \in DOMAIN Model
         /\ Last(r) \in Nat
         /\ at[r] \in Nat
         /\ at[r] <= Last(r)
         /\ \A i \in at[r] .. Last(r) - 1 : ~Meets(i)
         /\ Last(r) + 1 \in 1 .. Len(Model) + 1
<1>1. at[r] \in DOMAIN Model
  BY DEF Positions
<1>2. CASE fused[r]
  <2>1. Model[at[r]].mlp
    BY <1>2 DEF Positions
  <2>2. Last(r) = at[r] + 1
    BY <1>2 DEF Last
  <2>3. at[r] + 1 \in DOMAIN Model /\ ~Meets(at[r])
    BY <1>1, <2>1, MlpFacts
  <2> QED
    BY <1>1, <2>2, <2>3, ModelFacts
<1>3. CASE ~fused[r]
  <2>1. Last(r) = at[r]
    BY <1>3 DEF Last
  <2> QED
    BY <1>1, <2>1, ModelFacts
<1> QED
  BY <1>2, <1>3

-----------------------------------------------------------------------------
(* Types and positions *)

LEMMA WantType ==
  ASSUME NEW i \in Nat, NEW r \in Rank
  PROVE  Want(i, r) \in Value
<1>1. BiasAfter(i, r) \subseteq Rank
  BY DEF BiasAfter
<1>2. PartsAfter(i, r) \subseteq Nat \X Rank
  BY DEF PartsAfter
<1> QED
  BY <1>1, <1>2 DEF Want, Value

LEMMA ProductType ==
  ASSUME NEW i \in Nat, NEW r \in Rank
  PROVE  Product(r, i) \in Value
BY DEF Product, MatmulBias, Value

LEMMA InitType == Init => TypeOK /\ Positions
<1> SUFFICES ASSUME Init PROVE TypeOK /\ Positions
  OBVIOUS
<1>1. out \in [Rank -> Value]
  BY WantType DEF Init
<1>2. at \in [Rank -> 1 .. Len(Model) + 1]
  BY ModelFacts DEF Init
<1> QED
  BY <1>1, <1>2 DEF Init, TypeOK, Positions

LEMMA LeaveType ==
  ASSUME TypeOK, Positions, NEW r \in Rank, pc[r] # "call", Leave(r, Last(r))
  PROVE  /\ at' \in [Rank -> 1 .. Len(Model) + 1]
         /\ pc' \in [Rank -> {"call", "orig", "computed", "cast", "joined", "met"}]
         /\ fused' \in [Rank -> BOOLEAN]
         /\ plain' \in [Rank -> BOOLEAN]
         /\ Positions'
<1>1. Last(r) + 1 \in 1 .. Len(Model) + 1 /\ Last(r) \in DOMAIN Model
  BY LastFacts
<1>2. at' \in [Rank -> 1 .. Len(Model) + 1]
  BY <1>1 DEF Leave, TypeOK
<1>3. pc' \in [Rank -> {"call", "orig", "computed", "cast", "joined", "met"}]
  BY DEF Leave, TypeOK
<1>4. fused' \in [Rank -> BOOLEAN]
  BY DEF Leave, TypeOK
<1>5. (plain[r] /\ Model[Last(r)].mlp) \in BOOLEAN
  OBVIOUS
<1>6. plain' \in [Rank -> BOOLEAN]
  BY <1>5, Zenon DEF Leave, TypeOK
<1>7. ASSUME NEW s \in Rank, s # r
      PROVE  at'[s] = at[s] /\ pc'[s] = pc[s] /\ fused'[s] = fused[s] /\ Last(s)' = Last(s)
  BY <1>7 DEF Leave, TypeOK, Last
<1>8. pc'[r] = "call" /\ ~fused'[r]
  BY DEF Leave, TypeOK
<1>9. Positions'
  BY <1>7, <1>8 DEF Positions, Meets
<1> QED
  BY <1>2, <1>3, <1>4, <1>6, <1>9

\* One rank's step preserves types and positions.
LEMMA RankType ==
  ASSUME TypeOK, Positions, NEW r \in Rank, RankStep(r)
  PROVE  TypeOK' /\ Positions'
<1> USE DEF TypeOK
<1>0. at[r] \in Nat /\ at[r] - 1 \in Nat /\ at[r] + 1 \in Nat
  BY ModelFacts
<1>a. pc[r] = "call" /\ ~Finished(r) => at[r] \in DOMAIN Model
  BY ModelFacts DEF Finished
<1>1. CASE FallBack(r)
  BY <1>1, <1>a DEF FallBack, Positions, Meets, Last
<1>2. CASE Compute(r)
  <2>1. out' \in [Rank -> Value]
    BY <1>0, <1>2, ProductType DEF Compute
  <2> QED
    BY <1>2, <1>a, <2>1 DEF Compute, Positions, Meets, Last
<1>3. CASE Unfuse(r)
  BY <1>3 DEF Unfuse, Positions, Meets, Last
<1>4. CASE ComputeFused(r)
  <2>1. out' \in [Rank -> Value]
    BY <1>0, <1>4, ProductType DEF ComputeFused
  <2> QED
    BY <1>4, <1>a, <2>1 DEF ComputeFused, Positions, Meets, Last
<1>5. CASE Cast(r)
  BY <1>5 DEF Cast, Positions, Meets, Last
<1>6. CASE CastFails(r)
  <2>1. out' \in [Rank -> Value]
    BY <1>0, <1>6, WantType DEF CastFails
  <2>2. (plain[r] \/ fused[r]) \in BOOLEAN
    OBVIOUS
  <2>3. plain' \in [Rank -> BOOLEAN]
    BY <1>6, <2>2, Zenon DEF CastFails
  <2> QED
    BY <1>6, <2>1, <2>3 DEF CastFails, Positions, Meets, Last
<1>7. CASE HookEnds(r)
  <2>1. CASE Meets(Last(r))
    BY <1>7, <2>1 DEF HookEnds, Positions, Meets, Last
  <2>2. CASE ~Meets(Last(r))
    BY <1>7, <2>2, LeaveType DEF HookEnds
  <2> QED
    BY <2>1, <2>2
<1>8. CASE Orig(r)
  <2>1. out' \in [Rank -> Value]
    BY <1>0, <1>8, ProductType DEF Orig
  <2>2. Last(r) = at[r]
    BY <1>8 DEF Orig, Positions, Last
  <2>3. CASE Meets(at[r])
    BY <1>8, <2>1, <2>2, <2>3 DEF Orig, Positions, Meets, Last
  <2>4. CASE ~Meets(at[r])
    BY <1>8, <2>1, <2>2, <2>4, LeaveType DEF Orig
  <2> QED
    BY <2>3, <2>4
<1>9. CASE AddBias(r)
  <2>1. Leave(r, Last(r)) /\ pc[r] # "call"
    BY <1>9 DEF AddBias
  <2>2. out' \in [Rank -> Value]
    BY <1>9 DEF AddBias, Biased, LateBias, Value
  <2> QED
    BY <2>1, <2>2, LeaveType
<1> QED
  BY <1>1, <1>2, <1>3, <1>4, <1>5, <1>6, <1>7, <1>8, <1>9 DEF RankStep

LEMMA CollectiveType ==
  ASSUME TypeOK, Positions, Collective
  PROVE  TypeOK' /\ Positions'
<1>1. out' \in [Rank -> Value]
  BY DEF Collective, TypeOK, Value
<1>2. pc' \in [Rank -> {"call", "orig", "computed", "cast", "joined", "met"}]
  BY DEF Collective
<1> QED
  BY <1>1, <1>2 DEF Collective, TypeOK, Positions, Last, Meets

LEMMA StutterType ==
  ASSUME TypeOK, Positions, UNCHANGED vars
  PROVE  TypeOK' /\ Positions'
BY DEF TypeOK, Positions, vars, Last, Meets

-----------------------------------------------------------------------------
(* The collectives ahead *)

\* After Leave, what is ahead of r is what lies behind the call's last Linear.
LEMMA LeaveAhead ==
  ASSUME TypeOK, Positions, NEW r \in Rank, pc[r] # "call", Leave(r, Last(r))
  PROVE  Ahead(r)' = {i \in DOMAIN Model : Meets(i) /\ i > Last(r)}
<1>1. at'[r] = Last(r) + 1 /\ pc'[r] = "call"
  BY DEF Leave, TypeOK
<1>2. Last(r) \in Nat
  BY LastFacts
<1> QED
  BY <1>1, <1>2, ModelFacts DEF Ahead, Meets

LEMMA OtherAhead ==
  ASSUME TypeOK, NEW r \in Rank, RankStep(r), NEW s \in Rank, s # r
  PROVE  Ahead(s)' = Ahead(s)
<1>1. at'[s] = at[s] /\ pc'[s] = pc[s] /\ fused'[s] = fused[s]
  BY DEF RankStep, FallBack, Compute, Unfuse, ComputeFused, Cast, CastFails,
         HookEnds, Orig, AddBias, Leave, TypeOK
<1> QED
  BY <1>1 DEF Ahead, Last, Meets

\* A step of its own does not change what is ahead of a rank either.
LEMMA OwnAhead ==
  ASSUME TypeOK, Positions, NEW r \in Rank, RankStep(r)
  PROVE  Ahead(r)' = Ahead(r)
<1>1. ASSUME at'[r] = at[r], pc[r] # "met", pc'[r] # "met"
      PROVE  Ahead(r)' = Ahead(r)
  BY <1>1 DEF Ahead, Meets
<1>2. ASSUME pc[r] \notin {"call", "met"}, Leave(r, Last(r)), ~Meets(Last(r))
      PROVE  Ahead(r)' = Ahead(r)
  <2>1. Ahead(r)' = {i \in DOMAIN Model : Meets(i) /\ i > Last(r)}
    BY <1>2, LeaveAhead
  <2>2. ASSUME NEW i \in DOMAIN Model, Meets(i)
        PROVE  i > Last(r) <=> i >= at[r]
    BY <1>2, <2>2, LastFacts, ModelFacts
  <2> QED
    BY <1>2, <2>1, <2>2 DEF Ahead
<1>3. CASE FallBack(r)
  BY <1>1, <1>3 DEF FallBack, TypeOK
<1>4. CASE Compute(r)
  BY <1>1, <1>4 DEF Compute, TypeOK
<1>5. CASE Unfuse(r)
  BY <1>1, <1>5 DEF Unfuse, TypeOK
<1>6. CASE ComputeFused(r)
  BY <1>1, <1>6 DEF ComputeFused, TypeOK
<1>7. CASE Cast(r)
  BY <1>1, <1>7 DEF Cast, TypeOK
<1>8. CASE CastFails(r)
  BY <1>1, <1>8 DEF CastFails, TypeOK
<1>9. CASE HookEnds(r)
  BY <1>1, <1>2, <1>9 DEF HookEnds, TypeOK
<1>10. CASE Orig(r)
  <2>1. Last(r) = at[r]
    BY <1>10 DEF Orig, Positions, Last
  <2> QED
    BY <1>1, <1>2, <1>10, <2>1 DEF Orig, TypeOK
<1>11. CASE AddBias(r)
  <2>1. Ahead(r)' = {i \in DOMAIN Model : Meets(i) /\ i > Last(r)}
    BY <1>11, LeaveAhead DEF AddBias
  <2> QED
    BY <1>11, <2>1 DEF Ahead, AddBias
<1> QED
  BY <1>3, <1>4, <1>5, <1>6, <1>7, <1>8, <1>9, <1>10, <1>11 DEF RankStep

\* Ranks with the same collectives ahead that have joined one are in the same.
LEMMA SameCollective ==
  ASSUME TypeOK, Positions, InStep, NEW r \in Rank, NEW s \in Rank,
         pc[r] = "joined", pc[s] = "joined"
  PROVE  Last(r) = Last(s)
<1>1. ASSUME NEW q \in Rank, pc[q] = "joined"
      PROVE  /\ Last(q) \in Ahead(q)
             /\ \A i \in Ahead(q) : Last(q) <= i
             /\ Last(q) \in Nat
  <2>1. Last(q) \in DOMAIN Model /\ Last(q) \in Nat /\ at[q] \in Nat /\ at[q] <= Last(q)
    BY <1>1, LastFacts
  <2>2. Meets(Last(q))
    BY <1>1 DEF Positions
  <2>3. Last(q) \in Ahead(q)
    BY <1>1, <2>1, <2>2 DEF Ahead
  <2>4. ASSUME NEW i \in Ahead(q) PROVE Last(q) <= i
    <3>1. i \in DOMAIN Model /\ Meets(i) /\ i >= at[q]
      BY <1>1, <2>4 DEF Ahead
    <3>2. i \notin at[q] .. Last(q) - 1
      BY <1>1, <3>1, LastFacts
    <3> QED
      BY <2>1, <3>1, <3>2, ModelFacts
  <2> QED
    BY <2>1, <2>3, <2>4
<1>2. Ahead(r) = Ahead(s)
  BY DEF InStep
<1> QED
  BY <1>1, <1>2

LEMMA CollectiveInStep ==
  ASSUME TypeOK, Positions, InStep, Collective
  PROVE  InStep'
<1>1. ASSUME NEW r \in Rank
      PROVE  Ahead(r)' = {i \in DOMAIN Model : Meets(i) /\ i > Last(r)}
  BY DEF Collective, Ahead, Last, Meets
<1>2. \A r, s \in Rank : Last(r) = Last(s)
  BY SameCollective DEF Collective
<1> QED
  BY <1>1, <1>2 DEF InStep

LEMMA StepInStep ==
  ASSUME TypeOK, Positions, InStep, [Next]_vars
  PROVE  InStep'
<1>1. ASSUME NEW r \in Rank, RankStep(r) PROVE InStep'
  <2>1. \A s \in Rank : Ahead(s)' = Ahead(s)
    BY <1>1, OwnAhead, OtherAhead
  <2> QED
    BY <2>1 DEF InStep
<1>2. CASE Collective
  BY <1>2, CollectiveInStep
<1>3. CASE UNCHANGED vars
  BY <1>3 DEF InStep, Ahead, Last, Meets, vars
<1> QED
  BY <1>1, <1>2, <1>3 DEF Next, Terminated
-----------------------------------------------------------------------------
(* What the ranks hold *)

\* A rank's own product is all there is to hold after a Linear without a
\* collective.
LEMMA OwnIsWanted ==
  ASSUME NEW i \in DOMAIN Model, ~Meets(i), NEW r \in Rank
  PROVE  Own(i, r) = Want(i, r)
<1>1. i # 0
  BY ModelFacts
<1>2. Model[i].collective = "none" /\ Model[i].bias \in BOOLEAN
  BY ModelFacts DEF Meets, Linear
<1>3. PartsAfter(i, r) = {<<i, r>>}
  BY DEF PartsAfter
<1>4. BiasAfter(i, r) = MatmulBias(i, r)
  BY <1>2 DEF BiasAfter, MatmulBias
<1> QED
  BY <1>1, <1>3, <1>4 DEF Own, Want

\* After a collective and the bias that follows it a rank holds the whole.
LEMMA JointIsWanted ==
  ASSUME NEW i \in DOMAIN Model, Meets(i), NEW r \in Rank
  PROVE  [parts |-> Joint(i).parts, biased |-> Joint(i).biased \cup LateBias(i, r)]
           = Want(i, r)
<1>1. i # 0
  BY ModelFacts
<1>2. Model[i].collective \in {"all_reduce", "all_gather"} /\ Model[i].bias \in BOOLEAN
  BY ModelFacts DEF Meets, Linear
<1>3. PartsAfter(i, r) = {i} \X Rank
  BY DEF PartsAfter
<1>4. (UNION {MatmulBias(i, s) : s \in Rank}) \cup LateBias(i, r) = BiasAfter(i, r)
  <2>1. CASE ~Model[i].bias
    <3>1. \A s \in Rank : MatmulBias(i, s) = {}
      BY <2>1 DEF MatmulBias
    <3>2. LateBias(i, r) = {} /\ BiasAfter(i, r) = {}
      BY <2>1 DEF LateBias, BiasAfter
    <3> QED
      BY <3>1, <3>2
  <2>2. CASE Model[i].bias /\ Model[i].collective = "all_reduce"
    <3>1. \A s \in Rank : MatmulBias(i, s) = {}
      BY <2>2 DEF MatmulBias
    <3>2. LateBias(i, r) = {r} /\ BiasAfter(i, r) = {r}
      BY <2>2 DEF LateBias, BiasAfter
    <3> QED
      BY <3>1, <3>2
  <2>3. CASE Model[i].bias /\ Model[i].collective = "all_gather"
    <3>1. \A s \in Rank : MatmulBias(i, s) = {s}
      BY <2>3 DEF MatmulBias
    <3>2. LateBias(i, r) = {} /\ BiasAfter(i, r) = Rank
      BY <2>3 DEF LateBias, BiasAfter
    <3> QED
      BY <3>1, <3>2
  <2> QED
    BY <1>2, <2>1, <2>2, <2>3
<1> QED
  BY <1>1, <1>3, <1>4 DEF Joint, Want

\* What a rank holds depends on that rank only.
LEMMA HoldsSame ==
  ASSUME NEW r \in Rank, at'[r] = at[r], pc'[r] = pc[r], fused'[r] = fused[r]
  PROVE  Holds(r)' = Holds(r)
BY DEF Holds, Last, Own, Joint, MatmulBias, Want, PartsAfter, BiasAfter, Meets

LEMMA OtherHolds ==
  ASSUME TypeOK, Values, NEW r \in Rank, RankStep(r), NEW s \in Rank, s # r
  PROVE  out'[s] = Holds(s)'
<1>1. at'[s] = at[s] /\ pc'[s] = pc[s] /\ fused'[s] = fused[s] /\ out'[s] = out[s]
  BY DEF RankStep, FallBack, Compute, Unfuse, ComputeFused, Cast, CastFails,
         HookEnds, Orig, AddBias, Leave, TypeOK
<1> QED
  BY <1>1, HoldsSame DEF Values

\* Leaving a call with what is wanted.
LEMMA LeaveHolds ==
  ASSUME TypeOK, Positions, NEW r \in Rank, pc[r] # "call", Leave(r, Last(r)),
         out'[r] = Want(Last(r), r)
  PROVE  out'[r] = Holds(r)'
<1>1. pc'[r] = "call" /\ at'[r] = Last(r) + 1
  BY DEF Leave, TypeOK
<1>2. Last(r) \in Nat
  BY LastFacts
<1>3. at'[r] - 1 = Last(r)
  BY <1>1, <1>2
<1>4. Holds(r)' = Want(at'[r] - 1, r)
  BY <1>1 DEF Holds, Want, PartsAfter, BiasAfter, Meets
<1> QED
  BY <1>3, <1>4

LEMMA ProductIsOwn ==
  ASSUME NEW r \in Rank, out[r] = Want(at[r] - 1, r), NEW i
  PROVE  Product(r, i) = Own(i, r)
BY DEF Product, Own

LEMMA OwnHolds ==
  ASSUME TypeOK, Positions, Values, NEW r \in Rank, RankStep(r)
  PROVE  out'[r] = Holds(r)'
<1> USE DEF TypeOK
<1>1. ASSUME at'[r] = at[r], pc'[r] \in {"call", "orig"}, out'[r] = Want(at[r] - 1, r)
      PROVE  out'[r] = Holds(r)'
  BY <1>1 DEF Holds, Want, PartsAfter, BiasAfter, Meets
<1>2. ASSUME NEW i, Last(r)' = i, pc'[r] \in {"computed", "cast", "joined"},
             out'[r] = Own(i, r)
      PROVE  out'[r] = Holds(r)'
  BY <1>2 DEF Holds, Own, MatmulBias
<1>3. pc[r] \in {"call", "orig"} => out[r] = Want(at[r] - 1, r)
  BY DEF Values, Holds
<1>4. pc[r] \in {"computed", "cast"} => out[r] = Own(Last(r), r)
  BY DEF Values, Holds
<1>5. CASE FallBack(r)
  BY <1>1, <1>3, <1>5 DEF FallBack
<1>6. CASE Compute(r)
  <2>1. ~fused[r]
    BY <1>6 DEF Compute, Positions
  <2>2. Last(r)' = at[r]
    BY <1>6, <2>1 DEF Compute, Last
  <2>3. out'[r] = Own(at[r], r)
    BY <1>3, <1>6, ProductIsOwn DEF Compute
  <2> QED
    BY <1>2, <1>6, <2>2, <2>3 DEF Compute
<1>7. CASE Unfuse(r)
  BY <1>1, <1>3, <1>7 DEF Unfuse
<1>8. CASE ComputeFused(r)
  <2>1. Last(r)' = at[r] + 1
    BY <1>8 DEF ComputeFused, Last
  <2>2. out'[r] = Own(at[r] + 1, r)
    BY <1>3, <1>8, ProductIsOwn DEF ComputeFused
  <2> QED
    BY <1>2, <1>8, <2>1, <2>2 DEF ComputeFused
<1>9. CASE Cast(r)
  <2>1. Last(r)' = Last(r)
    BY <1>9 DEF Cast, Last
  <2> QED
    BY <1>2, <1>4, <1>9, <2>1 DEF Cast
<1>10. CASE CastFails(r)
  BY <1>1, <1>10 DEF CastFails
<1>11. CASE HookEnds(r)
  <2>1. CASE Meets(Last(r))
    <3>1. Last(r)' = Last(r)
      BY <1>11, <2>1 DEF HookEnds, Last
    <3> QED
      BY <1>2, <1>4, <1>11, <2>1, <3>1 DEF HookEnds
  <2>2. CASE ~Meets(Last(r))
    <3>1. out'[r] = Want(Last(r), r)
      BY <1>4, <1>11, <2>2, LastFacts, OwnIsWanted DEF HookEnds
    <3> QED
      BY <1>11, <2>2, <3>1, LeaveHolds DEF HookEnds
  <2> QED
    BY <2>1, <2>2
<1>12. CASE Orig(r)
  <2>1. Last(r) = at[r]
    BY <1>12 DEF Orig, Positions, Last
  <2>2. out'[r] = Own(at[r], r)
    BY <1>3, <1>12, ProductIsOwn DEF Orig
  <2>3. CASE Meets(at[r])
    <3>1. Last(r)' = at[r]
      BY <1>12, <2>1, <2>3 DEF Orig, Last
    <3> QED
      BY <1>2, <1>12, <2>2, <2>3, <3>1 DEF Orig
  <2>4. CASE ~Meets(at[r])
    <3>1. out'[r] = Want(Last(r), r)
      BY <1>12, <2>1, <2>2, <2>4, LastFacts, OwnIsWanted DEF Orig
    <3> QED
      BY <1>12, <2>1, <2>4, <3>1, LeaveHolds DEF Orig
  <2> QED
    BY <2>3, <2>4
<1>13. CASE AddBias(r)
  <2>1. out[r] = Joint(Last(r)) /\ Meets(Last(r)) /\ Last(r) \in DOMAIN Model
    BY <1>13, LastFacts DEF AddBias, Values, Holds, Positions
  <2>2. out'[r] = Biased(r)
    BY <1>13 DEF AddBias
  <2>3. out'[r] = Want(Last(r), r)
    BY <2>1, <2>2, JointIsWanted DEF Biased
  <2> QED
    BY <1>13, <2>3, LeaveHolds DEF AddBias
<1> QED
  BY <1>5, <1>6, <1>7, <1>8, <1>9, <1>10, <1>11, <1>12, <1>13 DEF RankStep

LEMMA OwnFields ==
  ASSUME NEW i, NEW r
  PROVE  Own(i, r).parts = {<<i, r>>} /\ Own(i, r).biased = MatmulBias(i, r)
BY DEF Own

LEMMA UnionOfPairs ==
  ASSUME NEW i
  PROVE  UNION {{<<i, s>>} : s \in Rank} = {i} \X Rank
OBVIOUS

LEMMA CollectiveHolds ==
  ASSUME TypeOK, Positions, InStep, Values, Collective
  PROVE  Values'
<1> SUFFICES ASSUME NEW r \in Rank PROVE out'[r] = Holds(r)'
  BY DEF Values
<1>1. \A s \in Rank : out[s] = Own(Last(r), s)
  BY SameCollective DEF Collective, Values, Holds
<1>2. UNION {out[s].parts : s \in Rank} = {Last(r)} \X Rank
  <2>1. \A s \in Rank : out[s].parts = {<<Last(r), s>>}
    BY <1>1, OwnFields
  <2>2. {out[s].parts : s \in Rank} = {{<<Last(r), s>>} : s \in Rank}
    BY <2>1
  <2> QED
    BY <2>2, UnionOfPairs
<1>3. UNION {out[s].biased : s \in Rank} = UNION {MatmulBias(Last(r), s) : s \in Rank}
  <2>1. \A s \in Rank : out[s].biased = MatmulBias(Last(r), s)
    BY <1>1, OwnFields
  <2>2. {out[s].biased : s \in Rank} = {MatmulBias(Last(r), s) : s \in Rank}
    BY <2>1
  <2> QED
    BY <2>2
<1>4. out'[r] = Joint(Last(r))
  BY <1>2, <1>3 DEF Collective, Joint
<1>5. pc'[r] = "met" /\ Last(r)' = Last(r)
  BY DEF Collective, Last
<1> QED
  BY <1>4, <1>5 DEF Holds, Joint, MatmulBias

-----------------------------------------------------------------------------
(* The theorems *)

LEMMA InitInv == Init => IndInv
<1> SUFFICES ASSUME Init PROVE IndInv
  OBVIOUS
<1>1. TypeOK /\ Positions
  BY InitType
<1>2. InStep
  BY DEF Init, InStep, Ahead
<1>3. ASSUME NEW r \in Rank PROVE out[r] = Holds(r)
  <2>1. at[r] - 1 = 0 /\ pc[r] = "call" /\ out[r] = Want(0, r)
    BY DEF Init
  <2> QED
    BY <2>1 DEF Holds
<1> QED
  BY <1>1, <1>2, <1>3 DEF IndInv, Values

LEMMA NextInv == IndInv /\ [Next]_vars => IndInv'
<1> SUFFICES ASSUME TypeOK, Positions, InStep, Values, [Next]_vars
             PROVE  IndInv'
  BY DEF IndInv
<1>1. InStep'
  BY StepInStep
<1>2. ASSUME NEW r \in Rank, RankStep(r) PROVE IndInv'
  <2>1. TypeOK' /\ Positions'
    BY <1>2, RankType
  <2>2. Values'
    BY <1>2, OwnHolds, OtherHolds DEF Values
  <2> QED
    BY <1>1, <2>1, <2>2 DEF IndInv
<1>3. CASE Collective
  BY <1>1, <1>3, CollectiveType, CollectiveHolds DEF IndInv
<1>4. CASE UNCHANGED vars
  <2>1. Values'
    BY <1>4, HoldsSame DEF Values, vars
  <2> QED
    BY <1>1, <1>4, <2>1, StutterType DEF IndInv
<1> QED
  BY <1>2, <1>3, <1>4 DEF Next, Terminated

LEMMA Invariance == Spec => []IndInv
<1>1. Init => IndInv
  BY InitInv
<1>2. IndInv /\ [Next]_vars => IndInv'
  BY NextInv
<1> QED
  BY <1>1, <1>2, PTL DEF Spec

\* Every rank stands at a Linear of the model or at its end, and what it holds are
\* products and biases of ranks, for any group and any model.
THEOREM TypeCorrect == Spec => []TypeOK
<1>1. IndInv => TypeOK
  BY DEF IndInv
<1> QED
  BY <1>1, Invariance, PTL

\* For any group, any model and any failures, all ranks have the same collectives
\* before them: no two ranks ever meet in the collectives of different Linears
\* (vk_forward and vk_mlp_forward put them after the try block).
THEOREM LockStep == Spec => []InStep
<1>1. IndInv => InStep
  BY DEF IndInv
<1> QED
  BY <1>1, Invariance, PTL

\* However hooks, fused MLPs and the modules' own forwards are mixed over the
\* ranks, each rank leaves a Linear with what the whole group's product of it is,
\* every shard in it and each bias once.
THEOREM SumsCorrect == Spec => []SumsAreWhole
<1>1. IndInv => SumsAreWhole
  BY DEF IndInv, Values, Holds, SumsAreWhole
<1> QED
  BY <1>1, Invariance, PTL

=============================================================================
