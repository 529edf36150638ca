------------------------ MODULE LinearDispatchProofs ------------------------
(***************************************************************************)
(* Proofs about LinearDispatch, for every set of weights, modules, storage *)
(* ids, shaders and failures.                                              *)
(***************************************************************************)
EXTENDS LinearDispatch, TLAPS

-----------------------------------------------------------------------------
(* Dicts *)

\* What it is to be a cache with values of V.
LEMMA DictIs ==
  ASSUME NEW V, NEW d
  PROVE  d \in Dict(V) <=>
           /\ d = [s \in DOMAIN d |-> d[s]]
           /\ DOMAIN d \subseteq Storage
           /\ \A s \in DOMAIN d : d[s] \in V
<1>1. ASSUME d \in Dict(V)
      PROVE  /\ d = [s \in DOMAIN d |-> d[s]]
             /\ DOMAIN d \subseteq Storage
             /\ \A s \in DOMAIN d : d[s] \in V
  <2>1. PICK e \in SUBSET Storage : d \in [e -> V]
    BY <1>1 DEF Dict
  <2> QED
    BY <2>1
<1>2. ASSUME d = [s \in DOMAIN d |-> d[s]], DOMAIN d \subseteq Storage,
             \A s \in DOMAIN d : d[s] \in V
      PROVE  d \in Dict(V)
  <2>1. d \in [DOMAIN d -> V]
    BY <1>2
  <2> QED
    BY <1>2, <2>1 DEF Dict
<1> QED
  BY <1>1, <1>2

\* The dict without entries.
LEMMA EmptyDict ==
  ASSUME NEW V
  PROVE  <<>> \in Dict(V) /\ DOMAIN <<>> = {}
<1>1. <<>> \in [{} -> V]
  BY SMT
<1>2. DOMAIN <<>> = {}
  BY SMT
<1> QED
  BY <1>1, <1>2 DEF Dict

\* Storages are distinct, and a weight's is an id.
LEMMA StorageIs ==
  ASSUME TypeOK
  PROVE  /\ Stored \subseteq Weight
         /\ \A w \in Stored : storage[w] \in Storage /\ storage[w] \in Live
         /\ \A v, w \in Stored : storage[v] = storage[w] => v = w
<1>1. PICK d \in SUBSET Weight : storage \in [d -> Storage]
  BY DEF TypeOK
<1>2. Stored = d
  BY <1>1 DEF Stored
<1>3. \A w \in Stored : storage[w] \in Storage /\ storage[w] \in Live
  BY <1>1, <1>2 DEF Live
<1> QED
  BY <1>2, <1>3 DEF TypeOK

\* P is the dict c of values in V, but for the entries of ws, which are val's.
IsPut(P, V, c, ws, val) ==
  /\ P \in Dict(V)
  /\ \A s : s \in DOMAIN P <=> s \in DOMAIN c \/ \E w \in ws : storage[w] = s
  /\ \A w \in ws : P[storage[w]] = val[w]
  /\ \A w \in Stored \ ws : storage[w] \in DOMAIN P =>
       storage[w] \in DOMAIN c /\ P[storage[w]] = c[storage[w]]

\* put() sets the entries of the weights it is given and no other.
LEMMA PutIs ==
  ASSUME TypeOK, NEW V, NEW c \in Dict(V), NEW vs \in SUBSET Stored,
         NEW ws \in SUBSET vs, NEW val \in [vs -> V]
  PROVE  IsPut(Put(c, ws, val), V, c, ws, val)
<1> DEFINE P == Put(c, ws, val)
<1> DEFINE D == DOMAIN c \cup {storage[w] : w \in ws}
<1>0. /\ \A w \in Stored : storage[w] \in Storage
      /\ \A v, w \in Stored : storage[v] = storage[w] => v = w
      /\ ws \subseteq Stored
      /\ \A w \in ws : val[w] \in V
  BY StorageIs
<1>1. P = [s \in D |-> IF \E w \in ws : storage[w] = s
                         THEN val[CHOOSE w \in ws : storage[w] = s] ELSE c[s]]
  BY DEF Put
<1>2. DOMAIN P = D
  BY <1>1
<1>3. /\ DOMAIN c \subseteq Storage
      /\ \A s \in DOMAIN c : c[s] \in V
  BY DictIs
<1>4. D \subseteq Storage
  BY <1>0, <1>3
<1>5. ASSUME NEW w \in ws PROVE P[storage[w]] = val[w]
  <2>1. storage[w] \in D
    OBVIOUS
  <2>2. (CHOOSE v \in ws : storage[v] = storage[w]) = w
    BY <1>0
  <2> QED
    BY <1>1, <2>1, <2>2
<1>6. ASSUME NEW s \in D, \A w \in ws : storage[w] # s
      PROVE  s \in DOMAIN c /\ P[s] = c[s]
  BY <1>1, <1>6
<1>7. ASSUME NEW s \in D PROVE P[s] \in V
  <2>1. CASE \E w \in ws : storage[w] = s
    BY <1>0, <1>5, <2>1
  <2>2. CASE \A w \in ws : storage[w] # s
    BY <1>3, <1>6, <2>2
  <2> QED
    BY <2>1, <2>2
<1>8. P = [s \in DOMAIN P |-> P[s]]
  BY <1>1
<1>9. P \in Dict(V)
  <2> HIDE DEF P, D
  <2> QED
    BY <1>2, <1>4, <1>7, <1>8, DictIs
<1>10. ASSUME NEW w \in Stored \ ws, storage[w] \in DOMAIN P
       PROVE  storage[w] \in DOMAIN c /\ P[storage[w]] = c[storage[w]]
  BY <1>0, <1>2, <1>6, <1>10
<1>11. IsPut(P, V, c, ws, val)
  BY <1>2, <1>5, <1>9, <1>10 DEF IsPut
<1> QED
  BY <1>11

\* The clean-up drops one entry and keeps the others.
LEMMA CleanupIs ==
  ASSUME NEW V, NEW c \in Dict(V), NEW s
  PROVE  /\ Cleanup(c, s) \in Dict(V)
         /\ DOMAIN Cleanup(c, s) = DOMAIN c \ {s}
         /\ \A t \in DOMAIN c \ {s} : Cleanup(c, s)[t] = c[t]
<1> DEFINE C == Cleanup(c, s)
<1>1. C = [t \in DOMAIN c \ {s} |-> c[t]]
  BY DEF Cleanup
<1>2. /\ DOMAIN c \subseteq Storage
      /\ \A t \in DOMAIN c : c[t] \in V
  BY DictIs
<1>3. /\ DOMAIN C = DOMAIN c \ {s}
      /\ \A t \in DOMAIN c \ {s} : C[t] = c[t]
      /\ C = [t \in DOMAIN C |-> C[t]]
  BY <1>1
<1>4. C \in Dict(V)
  <2> HIDE DEF C
  <2> QED
    BY <1>2, <1>3, DictIs
<1> QED
  BY <1>3, <1>4

-----------------------------------------------------------------------------
(* The inductive invariant *)

\* Without a context nothing was uploaded.
NoContextNoBuffer == ~Ready => DOMAIN buffers = {}

\* The bridge is there only if it was asked for.
BridgeAskedFor == ctx = "bridge" => setting.bridge

IndInv ==
  TypeOK /\ CachesFollowWeights /\ NoContextNoBuffer /\ BridgeAskedFor

\* A decision is a Boolean.
LEMMA UsesF16Type ==
  ASSUME TypeOK, NEW w \in Stored
  PROVE  UsesF16(w) \in BOOLEAN
<1>1. CASE Cached(halves, w)
  <2>1. \A s \in DOMAIN halves : halves[s] \in BOOLEAN
    BY DictIs DEF TypeOK
  <2> QED
    BY <1>1, <2>1, Zenon DEF UsesF16, Cached
<1>2. CASE ~Cached(halves, w)
  BY <1>2, Zenon DEF UsesF16
<1> QED
  BY <1>1, <1>2

\* A call decides on its weights and uploads those it can: both caches stay in
\* step, and every operand it binds is of its weight in the decided width.
LEMMA CallOnWeights ==
  ASSUME TypeOK, CachesFollowWeights, NEW ws \in SUBSET Stored, NEW up
  PROVE  LET B == Fetched(ws, up)
             H == Decided(ws)
         IN  /\ B \in Dict(Buffer) /\ DOMAIN B \subseteq Live
             /\ H \in Dict(BOOLEAN) /\ DOMAIN H \subseteq Live
             /\ \A w \in ws : Operand(w, B) = [of |-> w, half |-> UsesF16(w)]
             /\ \A w \in Stored : storage[w] \in DOMAIN B =>
                  /\ storage[w] \in DOMAIN H
                  /\ B[storage[w]] = [of |-> w, half |-> H[storage[w]]]
<1> DEFINE B == Fetched(ws, up)
<1> DEFINE H == Decided(ws)
<1> DEFINE new == {w \in ws \cap up : ~Cached(buffers, w)}
<1> DEFINE dec == [w \in ws |-> UsesF16(w)]
<1> DEFINE val == [w \in ws |-> Uploaded(w)]
<1>1. /\ Stored \subseteq Weight
      /\ \A w \in Stored : storage[w] \in Storage
      /\ \A w \in Stored : storage[w] \in Live
      /\ \A v, w \in Stored : storage[v] = storage[w] => v = w
  BY StorageIs
<1>2. \A w \in ws : dec[w] = UsesF16(w) /\ dec[w] \in BOOLEAN
  BY UsesF16Type
<1>3. \A w \in ws : val[w] = [of |-> w, half |-> UsesF16(w)] /\ val[w] \in Buffer
  BY <1>1, UsesF16Type DEF Uploaded, Buffer
<1>4. new \subseteq ws /\ new \in SUBSET Stored
  OBVIOUS
<1>5. B = Put(buffers, new, val) /\ H = Put(halves, ws, dec)
  BY DEF Fetched, Decided
<1>6. buffers \in Dict(Buffer) /\ halves \in Dict(BOOLEAN)
  BY DEF TypeOK
<1>7. DOMAIN buffers \subseteq Live /\ DOMAIN halves \subseteq Live
  BY DEF TypeOK
<1> HIDE DEF new, dec, val, B, H
<1>8. /\ B \in Dict(Buffer)
      /\ \A s : s \in DOMAIN B <=>
           s \in DOMAIN buffers \/ \E w \in new : storage[w] = s
      /\ \A w \in new : B[storage[w]] = val[w]
      /\ \A w \in Stored \ new : storage[w] \in DOMAIN B =>
           storage[w] \in DOMAIN buffers /\ B[storage[w]] = buffers[storage[w]]
  <2>1. val \in [ws -> Buffer] /\ new \in SUBSET ws /\ ws \in SUBSET Stored
    BY <1>3, <1>4 DEF val
  <2>2. buffers \in Dict(Buffer)
    BY <1>6
  <2>3. IsPut(Put(buffers, new, val), Buffer, buffers, new, val)
    BY <2>1, <2>2, PutIs
  <2> QED
    BY <1>5, <2>3 DEF IsPut
<1>9. /\ H \in Dict(BOOLEAN)
      /\ \A s : s \in DOMAIN H <=>
           s \in DOMAIN halves \/ \E w \in ws : storage[w] = s
      /\ \A w \in ws : H[storage[w]] = dec[w]
      /\ \A w \in Stored \ ws : storage[w] \in DOMAIN H =>
           storage[w] \in DOMAIN halves /\ H[storage[w]] = halves[storage[w]]
  <2>1. dec \in [ws -> BOOLEAN] /\ ws \in SUBSET ws /\ ws \in SUBSET Stored
    BY <1>2 DEF dec
  <2>2. IsPut(Put(halves, ws, dec), BOOLEAN, halves, ws, dec)
    BY <1>6, <2>1, PutIs
  <2> QED
    BY <1>5, <2>2 DEF IsPut
<1>10. DOMAIN B \subseteq Live /\ DOMAIN H \subseteq Live
  BY <1>1, <1>4, <1>7, <1>8, <1>9
<1>11. ASSUME NEW w \in Stored, storage[w] \in DOMAIN B
       PROVE  /\ storage[w] \in DOMAIN H
              /\ B[storage[w]] = [of |-> w, half |-> H[storage[w]]]
  <2>1. CASE w \in new
    BY <1>2, <1>3, <1>4, <1>8, <1>9, <2>1
  <2>2. CASE w \notin new
    <3>1. Cached(buffers, w) /\ B[storage[w]] = buffers[storage[w]]
      BY <1>8, <1>11, <2>2 DEF Cached
    <3>2. /\ Cached(halves, w)
          /\ B[storage[w]] = [of |-> w, half |-> halves[storage[w]]]
      BY <3>1 DEF CachesFollowWeights
    <3>3. H[storage[w]] = halves[storage[w]]
      <4>1. CASE w \in ws
        <5>1. UsesF16(w) = halves[storage[w]]
          BY <3>2, Zenon DEF UsesF16
        <5> QED
          BY <1>2, <1>9, <4>1, <5>1
      <4>2. CASE w \notin ws
        BY <1>9, <3>2, <4>2 DEF Cached
      <4> QED
        BY <4>1, <4>2
    <3> QED
      BY <1>9, <3>2, <3>3 DEF Cached
  <2> QED
    BY <2>1, <2>2
<1>12. ASSUME NEW w \in ws PROVE Operand(w, B) = [of |-> w, half |-> UsesF16(w)]
  <2>1. CASE storage[w] \in DOMAIN B
    BY <1>2, <1>9, <1>11, <2>1 DEF Operand
  <2>2. CASE storage[w] \notin DOMAIN B
    BY <2>2 DEF Operand
  <2> QED
    BY <2>1, <2>2
<1> QED
  BY <1>8, <1>9, <1>10, <1>11, <1>12 DEF B, H

\* Lists of calls that an MLP's own forward has still to make.
UnfusedType == {<<>>} \cup {<<w>> : w \in Weight} \cup (Weight \X Weight)

\* A hook that returns leaves such a list.
LEMMA ReturnType ==
  ASSUME unfused \in UnfusedType, Return
  PROVE  unfused' \in UnfusedType
<1>1. CASE Idle
  BY <1>1 DEF Return, UnfusedType
<1>2. CASE ~Idle
  <2>1. unfused' = Tail(unfused)
    BY <1>2 DEF Return
  <2>2. CASE \E w \in Weight : unfused = <<w>>
    BY <2>1, <2>2 DEF UnfusedType
  <2>3. CASE unfused \in Weight \X Weight
    <3>1. PICK v \in Weight, w \in Weight : unfused = <<v, w>>
      BY <2>3
    <3>2. unfused' = <<w>>
      BY <2>1, <3>1
    <3> QED
      BY <3>2 DEF UnfusedType
  <2> QED
    BY <1>2, <2>2, <2>3 DEF Idle, UnfusedType
<1> QED
  BY <1>1, <1>2

\* Calling an MLP's own forward does too.
LEMMA CallUnfusedType ==
  ASSUME NEW m \in Mlp, CallUnfused(m)
  PROVE  unfused' \in UnfusedType
  BY LinearAssumption DEF CallUnfused, UnfusedType

\* The caches after a call, or the pre-upload, that decides on ws.
LEMMA CachesAfterCall ==
  ASSUME TypeOK, CachesFollowWeights, NEW ws \in SUBSET Stored, NEW up,
         halves' = Decided(ws), buffers' = Fetched(ws, up),
         storage' = storage, shadows' = shadows
  PROVE  /\ buffers' \in Dict(Buffer) /\ halves' \in Dict(BOOLEAN)
         /\ DOMAIN buffers' \cup DOMAIN halves' \cup DOMAIN shadows' \subseteq Live'
         /\ CachesFollowWeights'
         /\ \A w \in ws : Operand(w, buffers') = [of |-> w, half |-> UsesF16(w)]
<1>1. /\ buffers' \in Dict(Buffer) /\ DOMAIN buffers' \subseteq Live
      /\ halves' \in Dict(BOOLEAN) /\ DOMAIN halves' \subseteq Live
      /\ \A w \in ws : Operand(w, buffers') = [of |-> w, half |-> UsesF16(w)]
      /\ \A w \in Stored : storage[w] \in DOMAIN buffers' =>
           /\ storage[w] \in DOMAIN halves'
           /\ buffers'[storage[w]] = [of |-> w, half |-> halves'[storage[w]]]
  BY CallOnWeights
<1>2. Live' = Live /\ Stored' = Stored
  BY DEF Live, Stored
<1>3. CachesFollowWeights'
  BY <1>1, <1>2 DEF CachesFollowWeights, Cached
<1> QED
  BY <1>1, <1>2, <1>3 DEF TypeOK

\* Decisions alone, for a fused call that finds a shader missing.
LEMMA DecisionsAlone ==
  ASSUME TypeOK, CachesFollowWeights, NEW ws \in SUBSET Stored
  PROVE  Fetched(ws, {}) = buffers
<1>1. {w \in ws \cap {} : ~Cached(buffers, w)} = {}
  OBVIOUS
<1>2. Fetched(ws, {}) = Put(buffers, {}, [w \in ws |-> Uploaded(w)])
  BY <1>1 DEF Fetched
<1>3. {storage[w] : w \in {}} = {}
  OBVIOUS
<1>4. \A val : Put(buffers, {}, val) = [s \in DOMAIN buffers |-> buffers[s]]
  BY <1>3 DEF Put
<1>5. buffers = [s \in DOMAIN buffers |-> buffers[s]]
  BY DictIs DEF TypeOK
<1> QED
  BY <1>2, <1>4, <1>5

-----------------------------------------------------------------------------
(* Every step preserves the invariant *)

LEMMA InitIndInv == Init => IndInv
<1> SUFFICES ASSUME Init PROVE IndInv
  OBVIOUS
<1>1. PICK stored \in SUBSET Weight :
        /\ storage \in [stored -> Storage]
        /\ \A v, w \in stored : storage[v] = storage[w] => v = w
  BY DEF Init
<1>2. Stored = stored
  BY <1>1 DEF Stored
<1>3. /\ buffers \in Dict(Buffer) /\ halves \in Dict(BOOLEAN)
      /\ shadows \in Dict(Weight)
      /\ DOMAIN buffers = {} /\ DOMAIN halves = {} /\ DOMAIN shadows = {}
  BY EmptyDict DEF Init
<1>4. TypeOK
  BY <1>1, <1>2, <1>3 DEF Init, TypeOK
<1>5. CachesFollowWeights
  BY <1>3 DEF CachesFollowWeights, Cached
<1> QED
  BY <1>3, <1>4, <1>5 DEF Init, IndInv, NoContextNoBuffer, BridgeAskedFor

LEMMA LoadWithoutContextIndInv ==
  ASSUME IndInv, LoadWithoutContext
  PROVE  IndInv'
<1>1. TypeOK'
  BY DEF IndInv, LoadWithoutContext, TypeOK, caches, Stored, Live
<1>2. CachesFollowWeights'
  BY DEF IndInv, LoadWithoutContext, CachesFollowWeights, caches, Stored, Cached
<1> QED
  BY <1>1, <1>2 DEF IndInv, LoadWithoutContext, NoContextNoBuffer, BridgeAskedFor,
                    caches, Ready

LEMMA LoadModelIndInv ==
  ASSUME IndInv, LoadModel
  PROVE  IndInv'
<1>1. PICK up \in SUBSET Stored : buffers' = Fetched(Stored, up)
  BY DEF LoadModel
<1>2. /\ buffers' \in Dict(Buffer) /\ halves' \in Dict(BOOLEAN)
      /\ DOMAIN buffers' \cup DOMAIN halves' \cup DOMAIN shadows' \subseteq Live'
      /\ CachesFollowWeights'
  BY <1>1, CachesAfterCall DEF LoadModel, IndInv
<1>3. TypeOK'
  BY <1>2 DEF IndInv, LoadModel, TypeOK, Stored
<1> QED
  BY <1>2, <1>3 DEF IndInv, LoadModel, NoContextNoBuffer, BridgeAskedFor, Ready

LEMMA SetContextIndInv ==
  ASSUME IndInv, SetContext
  PROVE  IndInv'
<1>1. halves' \in Dict(BOOLEAN) /\ DOMAIN halves' = {}
  BY EmptyDict DEF SetContext
<1>2. DOMAIN buffers' = {}
  BY DEF SetContext, IndInv, NoContextNoBuffer
<1>3. TypeOK'
  <2>1. /\ ctx' = "direct" /\ known' \in BOOLEAN
        /\ UNCHANGED <<setting, loaded, child, storage, buffers, shadows, unfused, answer>>
    BY Zenon DEF SetContext
  <2> QED
    BY <1>1, <2>1 DEF IndInv, TypeOK, Stored, Live
<1>4. CachesFollowWeights'
  BY <1>2 DEF IndInv, SetContext, CachesFollowWeights, Stored, Cached
<1> QED
  BY <1>2, <1>3, <1>4 DEF SetContext, IndInv, NoContextNoBuffer, BridgeAskedFor, Ready

LEMMA LinearOrigIndInv ==
  ASSUME IndInv, NEW w \in Weight, LinearOrig(w)
  PROVE  IndInv'
<1>1. unfused' \in UnfusedType
  BY ReturnType DEF IndInv, TypeOK, UnfusedType, LinearOrig
<1>2. TypeOK'
  BY <1>1 DEF IndInv, LinearOrig, TypeOK, caches, Stored, Live, UnfusedType
<1>3. CachesFollowWeights'
  BY DEF IndInv, LinearOrig, CachesFollowWeights, caches, Stored, Cached
<1> QED
  BY <1>2, <1>3 DEF IndInv, LinearOrig, NoContextNoBuffer, BridgeAskedFor, caches, Ready

\* The shadow copy that linear() computes with is of its weight.
LEMMA ShadowIs ==
  ASSUME IndInv, NEW w \in Weight, LinearCpu(w)
  PROVE  /\ shadows' \in Dict(Weight)
         /\ DOMAIN shadows' \subseteq Live
         /\ \A v \in Stored : storage[v] \in DOMAIN shadows' =>
              shadows'[storage[v]] = v
         /\ shadows'[storage[w]] = w
<1> DEFINE val == [v \in {w} |-> v]
<1>1. w \in Stored /\ Stored \subseteq Weight /\ storage[w] \in Live
  BY StorageIs DEF IndInv, LinearCpu
<1>2. /\ shadows \in Dict(Weight) /\ DOMAIN shadows \subseteq Live
      /\ \A v \in Stored : storage[v] \in DOMAIN shadows => shadows[storage[v]] = v
  BY DEF IndInv, TypeOK, CachesFollowWeights, Cached
<1>3. CASE Cached(shadows, w)
  <2>1. shadows' = shadows
    BY <1>3 DEF LinearCpu
  <2> QED
    BY <1>1, <1>2, <1>3, <2>1 DEF Cached
<1>4. CASE ~Cached(shadows, w)
  <2>1. shadows' = Put(shadows, {w}, val)
    BY <1>4 DEF LinearCpu
  <2>2. val \in [{w} -> Weight] /\ {w} \in SUBSET {w} /\ {w} \in SUBSET Stored
    BY <1>1
  <2>3. val[w] = w
    OBVIOUS
  <2> HIDE DEF val
  <2>4. IsPut(Put(shadows, {w}, val), Weight, shadows, {w}, val)
    BY <1>2, <2>2, PutIs DEF IndInv
  <2> QED
    BY <1>1, <1>2, <2>1, <2>3, <2>4 DEF IsPut
<1> QED
  BY <1>3, <1>4

LEMMA LinearCpuIndInv ==
  ASSUME IndInv, NEW w \in Weight, LinearCpu(w)
  PROVE  IndInv'
<1>1. unfused' \in UnfusedType
  BY ReturnType DEF IndInv, TypeOK, UnfusedType, LinearCpu
<1>2. Live' = Live /\ Stored' = Stored
  BY DEF Live, Stored, LinearCpu
<1>3. TypeOK'
  <2>1. /\ shadows' \in Dict(Weight)
        /\ DOMAIN buffers' \cup DOMAIN halves' \cup DOMAIN shadows' \subseteq Live'
    BY <1>2, ShadowIs DEF IndInv, TypeOK, LinearCpu
  <2>2. answer'.asked \in Weight \cup (Weight \X Weight) \cup {Junk}
    BY DEF LinearCpu
  <2> QED
    BY <1>1, <1>2, <2>1, <2>2 DEF IndInv, LinearCpu, TypeOK, UnfusedType
<1>4. CachesFollowWeights'
  BY <1>2, ShadowIs DEF IndInv, LinearCpu, CachesFollowWeights, Cached
<1> QED
  BY <1>3, <1>4 DEF IndInv, LinearCpu, NoContextNoBuffer, BridgeAskedFor, Ready

LEMMA LinearGpuIndInv ==
  ASSUME IndInv, NEW w \in Weight, LinearGpu(w)
  PROVE  IndInv'
<1>1. PICK up \in Uploads({w}), ok \in Outcomes :
        /\ buffers' = Fetched({w}, up)
        /\ answer' = IF ok THEN [asked |-> w,
                                 got |-> Product(Operand(w, buffers'), UsesF16(w))]
                     ELSE answer
  BY DEF LinearGpu
<1>2. {w} \in SUBSET Stored
  BY DEF LinearGpu
<1>3. /\ buffers' \in Dict(Buffer) /\ halves' \in Dict(BOOLEAN)
      /\ DOMAIN buffers' \cup DOMAIN halves' \cup DOMAIN shadows' \subseteq Live'
      /\ CachesFollowWeights'
  BY <1>1, <1>2, CachesAfterCall DEF LinearGpu, IndInv
<1>4. unfused' \in UnfusedType
  BY ReturnType DEF IndInv, TypeOK, UnfusedType, LinearGpu
<1>5. answer'.asked \in Weight \cup (Weight \X Weight) \cup {Junk}
  BY <1>1 DEF IndInv, TypeOK
<1>6. TypeOK'
  BY <1>3, <1>4, <1>5 DEF IndInv, LinearGpu, TypeOK, Stored, UnfusedType
<1> QED
  BY <1>3, <1>6 DEF IndInv, LinearGpu, NoContextNoBuffer, BridgeAskedFor, Ready

LEMMA MlpOrigIndInv ==
  ASSUME IndInv, NEW m \in Mlp, MlpOrig(m)
  PROVE  IndInv'
<1>1. unfused' \in UnfusedType
  BY CallUnfusedType DEF MlpOrig
<1>2. known' \in BOOLEAN
  BY Zenon DEF IndInv, TypeOK, MlpOrig
<1>3. TypeOK'
  BY <1>1, <1>2 DEF IndInv, MlpOrig, TypeOK, Stored, Live, UnfusedType
<1>4. CachesFollowWeights'
  BY DEF IndInv, MlpOrig, CachesFollowWeights, Stored, Cached
<1> QED
  BY <1>3, <1>4 DEF IndInv, MlpOrig, NoContextNoBuffer, BridgeAskedFor, Ready

\* The weights of a module that may be fused have storages.
LEMMA FusableStored ==
  ASSUME NEW m \in Mlp, Fusable(m)
  PROVE  Weights(m) \in SUBSET Stored /\ Ready
  BY DEF Fusable

LEMMA MlpShaderMissingIndInv ==
  ASSUME IndInv, NEW m \in Mlp, MlpShaderMissing(m)
  PROVE  IndInv'
<1>1. Weights(m) \in SUBSET Stored /\ Ready
  BY FusableStored DEF MlpShaderMissing
<1>2. buffers' = Fetched(Weights(m), {})
  BY <1>1, DecisionsAlone DEF IndInv, MlpShaderMissing
<1>3. /\ buffers' \in Dict(Buffer) /\ halves' \in Dict(BOOLEAN)
      /\ DOMAIN buffers' \cup DOMAIN halves' \cup DOMAIN shadows' \subseteq Live'
      /\ CachesFollowWeights'
  BY <1>1, <1>2, CachesAfterCall DEF MlpShaderMissing, IndInv
<1>4. unfused' \in UnfusedType
  BY CallUnfusedType DEF MlpShaderMissing
<1>5. TypeOK'
  BY <1>3, <1>4 DEF IndInv, MlpShaderMissing, TypeOK, Stored, UnfusedType
<1> QED
  BY <1>1, <1>3, <1>5 DEF IndInv, MlpShaderMissing, NoContextNoBuffer, BridgeAskedFor, Ready

LEMMA MlpFusedIndInv ==
  ASSUME IndInv, NEW m \in Mlp, MlpFused(m)
  PROVE  IndInv'
<1>1. PICK up \in Uploads(Weights(m)), ok \in Outcomes :
        /\ buffers' = Fetched(Weights(m), up)
        /\ IF ok THEN /\ answer' = [asked |-> <<m.gate_up, m.down>>,
                                    got |-> FusedProduct(m, buffers')]
                      /\ UNCHANGED unfused
           ELSE CallUnfused(m) /\ UNCHANGED answer
  BY DEF MlpFused
<1>2. Weights(m) \in SUBSET Stored /\ Ready
  BY FusableStored DEF MlpFused
<1>3. /\ buffers' \in Dict(Buffer) /\ halves' \in Dict(BOOLEAN)
      /\ DOMAIN buffers' \cup DOMAIN halves' \cup DOMAIN shadows' \subseteq Live'
      /\ CachesFollowWeights'
  BY <1>1, <1>2, CachesAfterCall DEF MlpFused, IndInv
<1>4. unfused' \in UnfusedType
  BY <1>1, CallUnfusedType DEF IndInv, TypeOK, UnfusedType
<1>5. answer'.asked \in Weight \cup (Weight \X Weight) \cup {Junk}
  <2>1. <<m.gate_up, m.down>> \in Weight \X Weight
    BY LinearAssumption
  <2> QED
    BY <1>1, <2>1 DEF IndInv, TypeOK
<1>6. TypeOK'
  BY <1>3, <1>4, <1>5 DEF IndInv, MlpFused, TypeOK, Stored, UnfusedType
<1> QED
  BY <1>2, <1>3, <1>6 DEF IndInv, MlpFused, NoContextNoBuffer, BridgeAskedFor, Ready

LEMMA EmptyIndInv ==
  ASSUME IndInv, NEW w \in Weight, Empty(w)
  PROVE  IndInv'
<1> DEFINE s == storage[w]
<1>1. /\ Stored \subseteq Weight /\ w \in Stored
      /\ \A v \in Stored : storage[v] \in Storage /\ storage[v] \in Live
      /\ \A u, v \in Stored : storage[u] = storage[v] => u = v
  BY StorageIs DEF Empty, IndInv
<1>2. /\ Stored' = Stored \ {w}
      /\ \A v \in Stored' : storage'[v] = storage[v]
      /\ storage' \in [Stored \ {w} -> Storage]
  BY <1>1 DEF Empty, Stored
<1>3. Live' = Live \ {s}
  BY <1>1, <1>2 DEF Live
<1>4. /\ buffers \in Dict(Buffer) /\ halves \in Dict(BOOLEAN)
      /\ shadows \in Dict(Weight)
      /\ DOMAIN buffers \cup DOMAIN halves \cup DOMAIN shadows \subseteq Live
  BY DEF IndInv, TypeOK
<1>5. /\ buffers' = Cleanup(buffers, s) /\ halves' = Cleanup(halves, s)
      /\ shadows' = Cleanup(shadows, s)
  BY DEF Empty
<1> HIDE DEF s
<1>6. /\ buffers' \in Dict(Buffer)
      /\ DOMAIN buffers' = DOMAIN buffers \ {s}
      /\ \A t \in DOMAIN buffers \ {s} : buffers'[t] = buffers[t]
  BY <1>4, <1>5, CleanupIs
<1>7. /\ halves' \in Dict(BOOLEAN)
      /\ DOMAIN halves' = DOMAIN halves \ {s}
      /\ \A t \in DOMAIN halves \ {s} : halves'[t] = halves[t]
  BY <1>4, <1>5, CleanupIs
<1>8. /\ shadows' \in Dict(Weight)
      /\ DOMAIN shadows' = DOMAIN shadows \ {s}
      /\ \A t \in DOMAIN shadows \ {s} : shadows'[t] = shadows[t]
  BY <1>4, <1>5, CleanupIs
<1>9. \A v \in Stored' : v \in Stored /\ storage[v] # s
  BY <1>1, <1>2 DEF s
<1>10. TypeOK'
  <2>1. storage' \in UNION {[d -> Storage] : d \in SUBSET Weight}
    BY <1>1, <1>2
  <2>2. \A u, v \in Stored' : storage'[u] = storage'[v] => u = v
    BY <1>1, <1>2
  <2>3. DOMAIN buffers' \cup DOMAIN halves' \cup DOMAIN shadows' \subseteq Live'
    BY <1>3, <1>4, <1>6, <1>7, <1>8
  <2> QED
    BY <1>6, <1>7, <1>8, <2>1, <2>2, <2>3 DEF IndInv, TypeOK, Empty
<1>11. CachesFollowWeights'
  <2>1. ASSUME NEW v \in Stored', storage'[v] \in DOMAIN buffers'
        PROVE  /\ storage'[v] \in DOMAIN halves'
               /\ buffers'[storage'[v]] = [of |-> v, half |-> halves'[storage'[v]]]
    <3>1. /\ v \in Stored /\ storage'[v] = storage[v]
          /\ storage[v] \in DOMAIN buffers \ {s}
      BY <1>2, <1>6, <1>9, <2>1
    <3>2. /\ storage[v] \in DOMAIN halves
          /\ buffers[storage[v]] = [of |-> v, half |-> halves[storage[v]]]
      BY <3>1 DEF IndInv, CachesFollowWeights, Cached
    <3> QED
      BY <1>6, <1>7, <3>1, <3>2
  <2>2. ASSUME NEW v \in Stored', storage'[v] \in DOMAIN shadows'
        PROVE  shadows'[storage'[v]] = v
    <3>1. /\ v \in Stored /\ storage'[v] = storage[v]
          /\ storage[v] \in DOMAIN shadows \ {s}
      BY <1>2, <1>8, <1>9, <2>2
    <3>2. shadows[storage[v]] = v
      BY <3>1 DEF IndInv, CachesFollowWeights, Cached
    <3> QED
      BY <1>8, <3>1, <3>2
  <2> QED
    BY <2>1, <2>2 DEF CachesFollowWeights, Cached
<1> QED
  BY <1>6, <1>10, <1>11 DEF IndInv, Empty, NoContextNoBuffer, BridgeAskedFor, Ready

LEMMA RestoreIndInv ==
  ASSUME IndInv, NEW w \in Weight, Restore(w)
  PROVE  IndInv'
<1>1. /\ Stored \subseteq Weight /\ w \notin Stored
      /\ \A v \in Stored : storage[v] \in Storage /\ storage[v] \in Live
      /\ \A u, v \in Stored : storage[u] = storage[v] => u = v
  BY StorageIs DEF Restore, IndInv
<1>2. PICK s \in Storage \ Live :
        storage' = [v \in Stored \cup {w} |-> IF v = w THEN s ELSE storage[v]]
  BY DEF Restore
<1>3. /\ Stored' = Stored \cup {w}
      /\ \A v \in Stored : storage'[v] = storage[v]
      /\ storage'[w] = s
      /\ storage' \in [Stored \cup {w} -> Storage]
  BY <1>1, <1>2 DEF Stored
<1>4. Live' = Live \cup {s}
  BY <1>1, <1>3 DEF Live
<1>5. /\ buffers' = buffers /\ halves' = halves /\ shadows' = shadows
      /\ DOMAIN buffers \cup DOMAIN halves \cup DOMAIN shadows \subseteq Live
  BY DEF Restore, caches, IndInv, TypeOK
<1>6. TypeOK'
  <2>1. storage' \in UNION {[d -> Storage] : d \in SUBSET Weight}
    BY <1>1, <1>3
  <2>2. \A u, v \in Stored' : storage'[u] = storage'[v] => u = v
    BY <1>1, <1>3
  <2>3. DOMAIN buffers' \cup DOMAIN halves' \cup DOMAIN shadows' \subseteq Live'
    BY <1>4, <1>5
  <2> QED
    BY <2>1, <2>2, <2>3 DEF IndInv, TypeOK, Restore, caches
<1>7. CachesFollowWeights'
  <2>1. \A v \in Stored' : storage'[v] \in Live => v \in Stored /\ storage'[v] = storage[v]
    BY <1>3
  <2> QED
    BY <1>5, <2>1 DEF IndInv, CachesFollowWeights, Cached
<1> QED
  BY <1>6, <1>7 DEF IndInv, Restore, NoContextNoBuffer, BridgeAskedFor, Ready, caches

LEMMA ChildDiesIndInv ==
  ASSUME IndInv, ChildDies
  PROVE  IndInv'
<1>1. TypeOK'
  <2>1. /\ child' \in BOOLEAN
        /\ UNCHANGED <<setting, loaded, ctx, storage, caches, unfused, answer>>
    BY Zenon DEF ChildDies
  <2> QED
    BY <2>1 DEF IndInv, TypeOK, caches, Stored, Live
<1>2. CachesFollowWeights'
  BY DEF IndInv, ChildDies, CachesFollowWeights, caches, Stored, Cached
<1> QED
  BY <1>1, <1>2 DEF IndInv, ChildDies, NoContextNoBuffer, BridgeAskedFor, caches, Ready

LEMMA StutterIndInv ==
  ASSUME IndInv, UNCHANGED vars
  PROVE  IndInv'
<1>1. TypeOK'
  BY DEF IndInv, vars, TypeOK, Stored, Live
<1>2. CachesFollowWeights'
  BY DEF IndInv, vars, CachesFollowWeights, Stored, Cached
<1> QED
  BY <1>1, <1>2 DEF IndInv, vars, NoContextNoBuffer, BridgeAskedFor, Ready

LEMMA NextIndInv == IndInv /\ [Next]_vars => IndInv'
<1> SUFFICES ASSUME IndInv, [Next]_vars PROVE IndInv'
  OBVIOUS
<1>1. CASE LoadWithoutContext
  BY <1>1, LoadWithoutContextIndInv
<1>2. CASE LoadModel
  BY <1>2, LoadModelIndInv
<1>3. CASE SetContext
  BY <1>3, SetContextIndInv
<1>4. ASSUME NEW w \in Weight, Linear(w) \/ Empty(w) \/ Restore(w) PROVE IndInv'
  BY <1>4, LinearOrigIndInv, LinearCpuIndInv, LinearGpuIndInv, EmptyIndInv,
     RestoreIndInv DEF Linear
<1>5. ASSUME NEW m \in Mlp, MlpForward(m) PROVE IndInv'
  BY <1>5, MlpOrigIndInv, MlpShaderMissingIndInv, MlpFusedIndInv DEF MlpForward
<1>6. CASE ChildDies
  BY <1>6, ChildDiesIndInv
<1>7. CASE UNCHANGED vars
  BY <1>7, StutterIndInv
<1> QED
  BY <1>1, <1>2, <1>3, <1>4, <1>5, <1>6, <1>7 DEF Next

LEMMA SpecIndInv == Spec => []IndInv
  BY InitIndInv, NextIndInv, PTL DEF Spec

-----------------------------------------------------------------------------
(* The theorems *)

\* The hooks and the caches keep their types: storages that live have distinct
\* ids, and no cache has an entry for an id whose storage was collected.
THEOREM TypeCorrect == Spec => []TypeOK
<1>1. IndInv => TypeOK
  BY DEF IndInv
<1> QED
  BY <1>1, SpecIndInv, PTL

\* The entry of a cache under a weight's storage id is that weight's, and the
\* buffer has the width the decision cache names, whatever fails and however
\* often ids are reused.
THEOREM CachesCorrect == Spec => []CachesFollowWeights
<1>1. IndInv => CachesFollowWeights
  BY DEF IndInv
<1> QED
  BY <1>1, SpecIndInv, PTL

\* A worker that does not both fuse MLPs and use the bridge returns no product
\* but of the weights of the module that was called.
THEOREM AnswersCorrectApart ==
  ASSUME \A e \in Settings : ~(e.fuse /\ e.bridge)
  PROVE  Spec => []AnswersUseOwnWeights
<1>1. Init => AnswersUseOwnWeights
  BY DEF Init, AnswersUseOwnWeights
<1>2. ASSUME IndInv, AnswersUseOwnWeights, Next PROVE AnswersUseOwnWeights'
  <2>1. CASE UNCHANGED answer
    BY <1>2, <2>1 DEF AnswersUseOwnWeights
  <2>2. ASSUME NEW w \in Weight, LinearCpu(w) PROVE AnswersUseOwnWeights'
    BY <1>2, <2>2, ShadowIs DEF LinearCpu, AnswersUseOwnWeights
  <2>3. ASSUME NEW w \in Weight, LinearGpu(w) PROVE AnswersUseOwnWeights'
    <3>1. PICK up \in Uploads({w}), ok \in Outcomes :
            /\ buffers' = Fetched({w}, up)
            /\ answer' = IF ok THEN [asked |-> w,
                                     got |-> Product(Operand(w, buffers'), UsesF16(w))]
                         ELSE answer
      BY <2>3 DEF LinearGpu
    <3>2. {w} \in SUBSET Stored
      BY <2>3 DEF LinearGpu
    <3>3. Operand(w, buffers') = [of |-> w, half |-> UsesF16(w)]
      BY <1>2, <2>3, <3>1, <3>2, CachesAfterCall DEF LinearGpu, IndInv
    <3> QED
      BY <1>2, <3>1, <3>3 DEF Product, AnswersUseOwnWeights
  <2>4. ASSUME NEW m \in Mlp, MlpFused(m) PROVE AnswersUseOwnWeights'
    <3>1. PICK up \in Uploads(Weights(m)), ok \in Outcomes :
            /\ buffers' = Fetched(Weights(m), up)
            /\ IF ok THEN /\ answer' = [asked |-> <<m.gate_up, m.down>>,
                                        got |-> FusedProduct(m, buffers')]
                          /\ UNCHANGED unfused
               ELSE CallUnfused(m) /\ UNCHANGED answer
      BY <2>4 DEF MlpFused
    <3>2. Weights(m) \in SUBSET Stored /\ Ready
      BY <2>4, FusableStored DEF MlpFused
    <3>3. \A w \in Weights(m) : Operand(w, buffers') = [of |-> w, half |-> UsesF16(w)]
      BY <1>2, <2>4, <3>1, <3>2, CachesAfterCall DEF MlpFused, IndInv
    <3>4. ChainRefKept
      <4>1. setting \in Settings /\ setting.fuse
        BY <1>2, <2>4 DEF MlpFused, IndInv, TypeOK
      <4>2. ctx # "bridge"
        BY <1>2, <4>1 DEF IndInv, BridgeAskedFor
      <4>3. ctx \in {"none", "direct", "bridge"}
        BY <1>2 DEF IndInv, TypeOK
      <4> QED
        BY <3>2, <4>2, <4>3 DEF Ready, ChainRefKept
    <3>5. \A w \in Weights(m) : Product(Operand(w, buffers'), UsesF16(w)) = w /\ w # Junk
      BY <3>2, <3>3, StorageIs, <1>2, LinearAssumption DEF Product, IndInv
    <3>6. FusedProduct(m, buffers') = <<m.gate_up, m.down>>
      BY <3>4, <3>5 DEF FusedProduct, Weights
    <3> QED
      BY <1>2, <3>1, <3>6 DEF AnswersUseOwnWeights
  <2> QED
    BY <1>2, <2>1, <2>2, <2>3, <2>4
       DEF Next, Linear, MlpForward, LoadWithoutContext, LoadModel, SetContext,
           LinearOrig, Empty, Restore, MlpOrig, MlpShaderMissing, ChildDies
<1>3. ASSUME AnswersUseOwnWeights, UNCHANGED vars PROVE AnswersUseOwnWeights'
  BY <1>3 DEF vars, AnswersUseOwnWeights
<1> QED
  BY <1>1, <1>2, <1>3, SpecIndInv, PTL DEF Spec
-----------------------------------------------------------------------------
(* Buffers that stay *)

\* The buffer of w is as it was, or w is emptied.
Kept(w) ==
  \/ w \notin DOMAIN storage'
  \/ /\ storage[w] \in DOMAIN buffers'
     /\ buffers'[storage[w]] = buffers[storage[w]]

\* Uploads fill in what is missing, and replace nothing.
LEMMA FetchedKeeps ==
  ASSUME NEW ws, NEW up, NEW w \in Stored, Cached(buffers, w), buffers' = Fetched(ws, up)
  PROVE  Kept(w)
<1> DEFINE new == {v \in ws \cap up : ~Cached(buffers, v)}
<1> DEFINE val == [v \in ws |-> Uploaded(v)]
<1>1. \A v \in new : storage[v] # storage[w]
  BY DEF Cached
<1>2. buffers' = Put(buffers, new, val)
  BY DEF Fetched
<1> HIDE DEF new, val
<1>3. storage[w] \in DOMAIN buffers
  BY DEF Cached
<1>4. /\ storage[w] \in DOMAIN Put(buffers, new, val)
      /\ Put(buffers, new, val)[storage[w]] = buffers[storage[w]]
  BY <1>1, <1>3 DEF Put
<1> QED
  BY <1>2, <1>4 DEF Kept

\* Emptying one weight cleans up the entries of its own storage only.
LEMMA EmptyKeeps ==
  ASSUME IndInv, NEW v \in Weight, Empty(v), NEW w \in Stored, Cached(buffers, w)
  PROVE  Kept(w)
<1>1. CASE w = v
  BY <1>1 DEF Empty, Kept
<1>2. CASE w # v
  <2>1. storage[w] # storage[v]
    BY <1>2, StorageIs DEF IndInv, Empty
  <2>2. buffers' = Cleanup(buffers, storage[v])
    BY DEF Empty
  <2>3. storage[w] \in DOMAIN buffers \ {storage[v]}
    BY <2>1 DEF Cached
  <2>4. buffers' = [t \in DOMAIN buffers \ {storage[v]} |-> buffers[t]]
    BY <2>2 DEF Cleanup
  <2> QED
    BY <2>3, <2>4 DEF Kept
<1> QED
  BY <1>1, <1>2

\* The buffer of a weight that was uploaded is neither replaced nor dropped while
\* the weight keeps its storage, whatever calls, uploads and the child process
\* fail, and whichever other weights are emptied and take free ids: no weight is
\* uploaded a second time (_get_or_upload_weight, the clean-up callbacks).
THEOREM UploadsKept == Spec => UploadedOnce
<1> DEFINE Once == \A w \in Stored : Cached(buffers, w) => Kept(w)
<1>1. ASSUME IndInv, [Next]_vars
      PROVE  Once
  <2> SUFFICES ASSUME NEW w \in Stored, Cached(buffers, w)
               PROVE  Kept(w)
    OBVIOUS
  <2>1. CASE UNCHANGED buffers
    BY <2>1 DEF Kept, Cached
  <2>2. CASE LoadModel
    <3>1. PICK up \in SUBSET Stored : buffers' = Fetched(Stored, up)
      BY <2>2 DEF LoadModel
    <3> QED
      BY <3>1, FetchedKeeps
  <2>3. ASSUME NEW v \in Weight, LinearGpu(v)
        PROVE  Kept(w)
    <3>1. PICK up : buffers' = Fetched({v}, up)
      BY <2>3 DEF LinearGpu
    <3> QED
      BY <3>1, FetchedKeeps
  <2>4. ASSUME NEW m \in Mlp, MlpFused(m)
        PROVE  Kept(w)
    <3>1. PICK up : buffers' = Fetched(Weights(m), up)
      BY <2>4 DEF MlpFused
    <3> QED
      BY <3>1, FetchedKeeps
  <2>5. ASSUME NEW v \in Weight, Empty(v)
        PROVE  Kept(w)
    BY <1>1, <2>5, EmptyKeeps
  <2> QED
    BY <1>1, <2>1, <2>2, <2>3, <2>4, <2>5
       DEF Next, Linear, MlpForward, LoadWithoutContext, SetContext, LinearOrig, LinearCpu,
           Restore, MlpOrig, MlpShaderMissing, ChildDies, caches, vars
<1>2. Once => \A w \in Stored : Cached(buffers, w) =>
         \/ w \notin DOMAIN storage'
         \/ /\ storage[w] \in DOMAIN buffers'
            /\ buffers'[storage[w]] = buffers[storage[w]]
  BY DEF Kept
<1> QED
  BY <1>1, <1>2, SpecIndInv, PTL DEF Spec, UploadedOnce
=============================================================================
