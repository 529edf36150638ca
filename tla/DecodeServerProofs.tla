------------------------- MODULE DecodeServerProofs -------------------------
(***************************************************************************)
(* Proofs about DecodeServer, for every layer pattern, window, cache size  *)
(* and number of requests, and every way a model call may panic.           *)
(***************************************************************************)
EXTENDS DecodeServer, SequenceTheorems, FiniteSetTheorems, TLAPS

-----------------------------------------------------------------------------
(* Layers *)

\* The first shared layer comes after at least one layer of either kind.
LEMMA FirstKvSharedType ==
  /\ FirstKvShared \in Nat
  /\ FullEvery <= FirstKvShared
  /\ FirstKvShared <= NumLayers
  BY ServerAssumption DEF FirstKvShared

\* Owners are the layers below the first shared one.
LEMMA Owners == Owner = 0 .. FirstKvShared - 1
  BY FirstKvSharedType, ServerAssumption DEF Owner, Layer, IsKvShared

\* A number with a remainder of e-1 is one less than a multiple of e.
LEMMA LastOfGroup ==
  ASSUME NEW e \in Nat \ {0, 1}, NEW q \in Nat \ {0}
  PROVE  (q * e - 1) % e = e - 1
<1>1. q * e - 1 = (q - 1) * e + (e - 1)
  OBVIOUS
<1>2. e - 1 \in 0 .. e - 1
  OBVIOUS
<1>3. q - 1 \in Nat
  OBVIOUS
<1> DEFINE a == q * e - 1
<1>4. a = (q - 1) * e + (e - 1)
  BY <1>1
<1>5. a \in Nat
  BY <1>2, <1>3, <1>4
<1>6. a % e = e - 1
  BY <1>2, <1>3, <1>4, <1>5
<1> QED
  BY <1>6

\* A number has the remainder e-1 only just below a multiple of e.
LEMMA GroupOf ==
  ASSUME NEW e \in Nat \ {0, 1}, NEW j \in Nat, j % e = e - 1
  PROVE  j = ((j \div e) + 1) * e - 1
<1>1. j = (j \div e) * e + (j % e)
  OBVIOUS
<1>2. j \div e \in Nat
  OBVIOUS
<1>3. ((j \div e) + 1) * e = (j \div e) * e + e
  BY <1>2
<1> QED
  BY <1>1, <1>2, <1>3

\* The last full-attention layer below f.
LEMMA LastFull ==
  ASSUME NEW e \in Nat \ {0, 1}, NEW f \in Nat, e <= f
  PROVE  \E m \in 0 .. f - 1 :
           /\ m % e = e - 1
           /\ \A j \in 0 .. f - 1 : j % e = e - 1 => j <= m
<1> DEFINE q == f \div e
           m == q * e - 1
<1>1. q \in Nat /\ f = q * e + (f % e) /\ f % e \in 0 .. e - 1
  OBVIOUS
<1>2. q # 0
  BY <1>1
<1>3. q * e \in Nat /\ q * e >= e
  BY <1>1, <1>2
<1>4. m \in 0 .. f - 1
  BY <1>1, <1>3
<1>5. m % e = e - 1
  BY <1>1, <1>2, LastOfGroup
<1>6. ASSUME NEW j \in 0 .. f - 1, j % e = e - 1
      PROVE  j <= m
  <2> DEFINE k == (j \div e) + 1
  <2>0. j \in Nat /\ j \div e \in Nat
    OBVIOUS
  <2>1. k \in Nat /\ j = k * e - 1
    <3>1. j = ((j \div e) + 1) * e - 1
      BY <1>6, <2>0, GroupOf
    <3> QED
      BY <2>0, <3>1
  <2>2. k * e <= f
    BY <2>0, <2>1
  <2>3. (q + 1) * e = q * e + e
    BY <1>1
  <2>4. f < (q + 1) * e
    BY <1>1, <2>3
  <2>5. k < q + 1
    <3>1. k * e < (q + 1) * e
      BY <2>1, <2>2, <2>3, <2>4, <1>1
    <3>2. ASSUME k >= q + 1 PROVE k * e >= (q + 1) * e
      BY <3>2, <2>1, <1>1
    <3> QED
      BY <3>1, <3>2, <2>1, <1>1, <2>3
  <2>6. k * e <= q * e
    BY <2>5, <2>1, <1>1
  <2> QED
    BY <2>1, <2>6, <1>3
<1> QED
  BY <1>4, <1>5, <1>6

\* The last sliding layer below f.
LEMMA LastSliding ==
  ASSUME NEW e \in Nat \ {0, 1}, NEW f \in Nat, e <= f
  PROVE  \E m \in 0 .. f - 1 :
           /\ m % e # e - 1
           /\ \A j \in 0 .. f - 1 : j % e # e - 1 => j <= m
<1>1. CASE (f - 1) % e # e - 1
  <2>1. f - 1 \in 0 .. f - 1 /\ \A j \in 0 .. f - 1 : j <= f - 1
    OBVIOUS
  <2> QED
    BY <1>1, <2>1
<1>2. ASSUME (f - 1) % e = e - 1
      PROVE  (f - 2) % e # e - 1
  <2>1. f - 1 \in Nat /\ f - 2 \in Nat
    OBVIOUS
  <2>2. SUFFICES ASSUME (f - 2) % e = e - 1 PROVE FALSE
    OBVIOUS
  <2> DEFINE a == (f - 1) \div e
             b == (f - 2) \div e
  <2>3. f - 1 = a * e + (e - 1) /\ a \in Nat
    BY <2>1, <1>2
  <2>4. f - 2 = b * e + (e - 1) /\ b \in Nat
    BY <2>1, <2>2
  <2>5. a * e = b * e + 1
    BY <2>3, <2>4
  <2>6. (a - b) * e = 1
    BY <2>3, <2>4, <2>5
  <2> QED
    BY <2>3, <2>4, <2>6
<1>3. CASE (f - 1) % e = e - 1
  <2>1. f - 2 \in 0 .. f - 1
    OBVIOUS
  <2>2. (f - 2) % e # e - 1
    BY <1>2, <1>3
  <2>3. ASSUME NEW j \in 0 .. f - 1, j % e # e - 1 PROVE j <= f - 2
    <3>1. j # f - 1
      BY <1>3, <2>3
    <3> QED
      BY <3>1
  <2> QED
    BY <2>1, <2>2, <2>3
<1> QED
  BY <1>1, <1>3

\* Every layer attends to the cache of an owner of its own kind.
LEMMA TargetKind ==
  ASSUME NEW l \in Layer
  PROVE  /\ TargetCache(l) \in Owner
         /\ IsFullAttention(TargetCache(l)) = IsFullAttention(l)
<1>1. CASE ~IsKvShared(l)
  BY <1>1 DEF TargetCache, Owner
<1>2. ASSUME IsKvShared(l)
      PROVE  /\ KvSharedTarget(l) \in 0 .. FirstKvShared - 1
             /\ IsFullAttention(KvSharedTarget(l)) = IsFullAttention(l)
  <2> DEFINE same == SameKindBelow(l)
  <2>1. \E m \in same : \A j \in same : m >= j
    <3>1. CASE IsFullAttention(l)
      <4>1. \E m \in 0 .. FirstKvShared - 1 :
              /\ m % FullEvery = FullEvery - 1
              /\ \A j \in 0 .. FirstKvShared - 1 : j % FullEvery = FullEvery - 1 => j <= m
        BY FirstKvSharedType, ServerAssumption, LastFull
      <4> QED
        BY <3>1, <4>1 DEF SameKindBelow, IsFullAttention
    <3>2. CASE ~IsFullAttention(l)
      <4>1. \E m \in 0 .. FirstKvShared - 1 :
              /\ m % FullEvery # FullEvery - 1
              /\ \A j \in 0 .. FirstKvShared - 1 : j % FullEvery # FullEvery - 1 => j <= m
        BY FirstKvSharedType, ServerAssumption, LastSliding
      <4> QED
        BY <3>2, <4>1 DEF SameKindBelow, IsFullAttention
    <3> QED
      BY <3>1, <3>2
  <2>2. KvSharedTarget(l) = CHOOSE m \in same : \A j \in same : m >= j
    BY <2>1 DEF KvSharedTarget, Max
  <2>3. KvSharedTarget(l) \in same
    BY <2>1, <2>2
  <2> QED
    BY <2>3 DEF SameKindBelow
<1> QED
  BY <1>1, <1>2, Owners DEF TargetCache

-----------------------------------------------------------------------------
(* Rows and caches *)

\* Prompts are sequences of tokens, and none is empty.
LEMMA PromptsType ==
  ASSUME NEW p \in Prompts
  PROVE  p \in Seq(Token) /\ Len(p) > 0
<1>1. PICK n \in 1 .. MaxPrompt : p \in [1 .. n -> Token]
  BY DEF Prompts
<1>2. n \in Nat /\ n > 0
  BY ServerAssumption
<1>3. p = [i \in 1 .. n |-> p[i]] /\ \A i \in 1 .. n : p[i] \in Token
  BY <1>1
<1>4. p \in Seq(Token)
  BY <1>1, <1>2
<1>5. Len(p) = n
  BY <1>1, <1>2, <1>4, LenProperties
<1> QED
  BY <1>2, <1>4, <1>5

\* What is fed is the prompt followed by the generated tokens.
LEMMA FedType ==
  ASSUME TypeOK, NEW r \in Request
  PROVE  /\ Fed(r) \in Seq(Token)
         /\ Len(Fed(r)) = Len(prompt[r]) + Len(generated[r])
         /\ Len(prompt[r]) \in Nat
         /\ Len(generated[r]) \in Nat
         /\ Len(Fed(r)) \in Nat
<1>1. prompt[r] \in Seq(Token) /\ generated[r] \in Seq(Token)
  BY DEF TypeOK
<1>2. /\ prompt[r] \o generated[r] \in Seq(Token)
      /\ Len(prompt[r] \o generated[r]) = Len(prompt[r]) + Len(generated[r])
  BY <1>1, ConcatProperties
<1> QED
  BY <1>1, <1>2, LenProperties DEF Fed

\* Generating a token leaves the tokens fed so far what they were.
LEMMA FedGrows ==
  ASSUME NEW p \in Seq(Token), NEW g \in Seq(Token), NEW t \in Token,
         NEW i \in 1 .. Len(p) + Len(g)
  PROVE  (p \o Append(g, t))[i] = (p \o g)[i]
<1>1. /\ Append(g, t) \in Seq(Token)
      /\ Len(Append(g, t)) = Len(g) + 1
      /\ \A j \in 1 .. Len(g) : Append(g, t)[j] = g[j]
  BY AppendProperties
<1>2. Len(p) \in Nat /\ Len(g) \in Nat
  BY LenProperties
<1> QED
  BY <1>1, <1>2, ConcatProperties

\* The row of a token that is fed is a row.
LEMMA RowOfType ==
  ASSUME TypeOK, NEW r \in Request, NEW i \in 0 .. Len(Fed(r)) - 1, NEW l \in Layer
  PROVE  RowOf(r, i, l) \in Row
<1>1. Fed(r) \in Seq(Token) /\ Len(Fed(r)) \in Nat
  BY FedType
<1>2. i + 1 \in 1 .. Len(Fed(r)) /\ i \in Nat
  BY <1>1
<1>3. Fed(r)[i + 1] \in Token
  BY <1>1, <1>2, ElementOfSeq
<1>4. IsFullAttention(l) \in BOOLEAN
  BY Zenon DEF IsFullAttention
<1> QED
  BY <1>2, <1>3, <1>4 DEF RowOf, Row

\* A call appends rows only, and none to a cache that is full.
LEMMA AppendedType ==
  ASSUME TypeOK, NEW r \in Request, made[r] < Len(Fed(r)),
         NEW n \in 0 .. NumLayers, \A l \in FullCaches : n <= l
  PROVE  /\ Appended(r, n) \in [Layer -> Seq(Row)]
         /\ \A l \in Layer : Len(Appended(r, n)[l]) <= MaxSeqLen
         /\ \A l \in Layer \ Owner : Appended(r, n)[l] = <<>>
<1>1. ASSUME NEW l \in Layer
      PROVE  /\ Append(kv[l], RowOf(r, made[r], l)) \in Seq(Row)
             /\ Len(Append(kv[l], RowOf(r, made[r], l))) = Len(kv[l]) + 1
             /\ Len(kv[l]) \in Nat
  <2>1. made[r] \in Nat
    BY DEF TypeOK
  <2>2. made[r] \in 0 .. Len(Fed(r)) - 1
    BY <2>1, FedType
  <2>3. kv[l] \in Seq(Row) /\ RowOf(r, made[r], l) \in Row
    BY <2>2, RowOfType DEF TypeOK
  <2> QED
    BY <2>3, AppendProperties, LenProperties
<1>2. ASSUME NEW l \in Layer
      PROVE  /\ Appended(r, n)[l] \in Seq(Row)
             /\ Len(Appended(r, n)[l]) <= MaxSeqLen
  <2>1. CASE l \in Owner /\ l < n
    <3>1. Appended(r, n)[l] = Append(kv[l], RowOf(r, made[r], l))
      BY <2>1 DEF Appended
    <3>2. l \in Int /\ n \in Int
      BY ServerAssumption DEF Layer
    <3>3. l \notin FullCaches
      BY <2>1, <3>2
    <3>4. Len(kv[l]) < MaxSeqLen
      BY <2>1, <3>3, <1>1, ServerAssumption DEF FullCaches
    <3> QED
      BY <3>1, <3>4, <1>1, ServerAssumption
  <2>2. CASE ~(l \in Owner /\ l < n)
    BY <2>2 DEF Appended, TypeOK
  <2> QED
    BY <2>1, <2>2
<1>3. \A l \in Layer \ Owner : Appended(r, n)[l] = <<>>
  BY DEF Appended, TypeOK
<1>4. Appended(r, n) = [l \in Layer |-> Appended(r, n)[l]]
  BY DEF Appended
<1> QED
  BY <1>2, <1>3, <1>4

-----------------------------------------------------------------------------
(* Types, for clients that come and go as they like *)

TypeInv == TypeOK /\ Fresh /\ Ahead

LEMMA InitTypeInv == Init => TypeInv
<1> SUFFICES ASSUME Init PROVE TypeInv
  OBVIOUS
<1>1. <<>> \in Seq(Row) /\ <<>> \in Seq(Token) /\ Len(<<>>) = 0
  BY EmptySeq
<1>2. TypeOK
  BY <1>1, ServerAssumption DEF Init, TypeOK
<1>3. Fresh
  BY DEF Init, Fresh
<1>4. Ahead
  BY DEF Init, Ahead, Open
<1> QED
  BY <1>2, <1>3, <1>4 DEF TypeInv

\* A request that arrives has a prompt, and nothing else.
LEMMA ArriveTypeInv ==
  ASSUME TypeInv, NEW r \in Request, Arrive(r)
  PROVE  TypeInv'
<1> USE DEF TypeInv, Arrive
<1>1. PICK p \in Prompts, n \in 0 .. MaxNew :
        /\ prompt' = [prompt EXCEPT ![r] = p]
        /\ limit' = [limit EXCEPT ![r] = n]
  OBVIOUS
<1>2. p \in Seq(Token) /\ Len(p) > 0 /\ Len(p) \in Nat
  BY PromptsType, LenProperties
<1>3. generated[r] = <<>> /\ made[r] = 0
  BY DEF Fresh
<1>4. TypeOK'
  <2>1. prompt' \in [Request -> Seq(Token)]
    BY <1>1, <1>2 DEF TypeOK
  <2>2. limit' \in [Request -> 0 .. MaxNew]
    BY <1>1 DEF TypeOK
  <2>3. phase' \in [Request -> {"unsent", "reset", "model", "answered", "error"}]
    BY DEF TypeOK
  <2>4. \A q \in Request : Len(generated[q])' <= limit'[q]
    <3>1. Len(<<>>) = 0
      BY EmptySeq
    <3> QED
      BY <1>1, <1>3, <3>1, ServerAssumption DEF TypeOK
  <2>5. right' \in [Request -> BOOLEAN]
    BY DEF TypeOK
  <2> QED
    BY <2>1, <2>2, <2>3, <2>4, <2>5 DEF TypeOK
<1>5. Fresh'
  BY DEF Fresh, TypeOK
<1>6. Ahead'
  <2> SUFFICES ASSUME NEW q \in Request, Open(q)' PROVE (made[q] < Len(Fed(q)))'
    BY DEF Ahead
  <2>1. CASE q = r
    <3>1. Fed(q)' = p \o <<>>
      BY <2>1, <1>1, <1>3 DEF Fed, TypeOK
    <3>2. Fed(q)' = p
      BY <3>1, <1>2, ConcatEmptySeq
    <3> QED
      BY <3>2, <2>1, <1>2, <1>3
  <2>2. CASE q # r
    <3>1. Fed(q)' = Fed(q) /\ Open(q)
      BY <2>2, <1>1 DEF Fed, TypeOK, Open
    <3> QED
      BY <3>1 DEF Ahead
  <2> QED
    BY <2>1, <2>2
<1> QED
  BY <1>4, <1>5, <1>6

\* Resetting the caches keeps the types.
LEMMA ResetTypeInv ==
  ASSUME TypeInv, NEW r \in Request, ResetKvCache(r)
  PROVE  TypeInv'
<1> USE DEF TypeInv, ResetKvCache
<1>1. TypeOK'
  <2>1. <<>> \in Seq(Row) /\ Len(<<>>) = 0
    BY EmptySeq
  <2>2. kv' \in [Layer -> Seq(Row)] /\ (\A l \in Layer : Len(kv'[l]) <= MaxSeqLen)
        /\ (\A l \in Layer \ Owner : kv'[l] = <<>>)
    BY <2>1, ServerAssumption
  <2>3. phase' \in [Request -> {"unsent", "reset", "model", "answered", "error"}]
    BY DEF TypeOK
  <2> QED
    BY <2>2, <2>3 DEF TypeOK
<1>2. Fresh'
  BY DEF Fresh, TypeOK
<1>3. Ahead'
  BY DEF Ahead, Open, Fed, TypeOK
<1> QED
  BY <1>1, <1>2, <1>3

\* A model call that returns keeps the types of what it changes.
LEMMA ForwardTypes ==
  ASSUME TypeInv, NEW r \in Request, Forward(r)
  PROVE  /\ kv' \in [Layer -> Seq(Row)]
         /\ \A l \in Layer : Len(kv'[l]) <= MaxSeqLen
         /\ \A l \in Layer \ Owner : kv'[l] = <<>>
         /\ made' \in [Request -> Nat]
         /\ right' \in [Request -> BOOLEAN]
<1> USE DEF TypeInv, Forward
<1>1. made[r] < Len(Fed(r))
  BY DEF Ahead, Open
<1>2. NumLayers \in 0 .. NumLayers /\ \A l \in FullCaches : NumLayers <= l
  BY ServerAssumption
<1>3. /\ kv' \in [Layer -> Seq(Row)]
      /\ \A l \in Layer : Len(kv'[l]) <= MaxSeqLen
      /\ \A l \in Layer \ Owner : kv'[l] = <<>>
  BY <1>1, <1>2, AppendedType
<1>4. made' \in [Request -> Nat]
  BY DEF TypeOK
<1>5. right' \in [Request -> BOOLEAN]
  <2>1. AttendsRight(r, Appended(r, NumLayers)) \in BOOLEAN
    BY Zenon DEF AttendsRight
  <2>2. right \in [Request -> BOOLEAN]
    BY DEF TypeOK
  <2>3. (right[r] /\ AttendsRight(r, Appended(r, NumLayers))) \in BOOLEAN
    BY Zenon
  <2> QED
    BY <2>2, <2>3, Zenon
<1> QED
  BY <1>3, <1>4, <1>5

LEMMA PrefillTypeInv ==
  ASSUME TypeInv, NEW r \in Request, Prefill(r)
  PROVE  TypeInv'
<1>1. Forward(r) /\ phase[r] = "model"
  BY DEF Prefill, Forward
<1>2. TypeOK'
  BY <1>1, ForwardTypes DEF TypeInv, TypeOK, Prefill
<1>3. Fresh'
  BY <1>1 DEF TypeInv, Fresh, TypeOK, Prefill, Forward
<1>4. Ahead'
  <2> SUFFICES ASSUME NEW q \in Request, Open(q)' PROVE (made[q] < Len(Fed(q)))'
    BY DEF Ahead
  <2>1. Open(q) /\ Fed(q)' = Fed(q)
    BY DEF Prefill, Open, Fed
  <2>2. CASE q = r
    <3>1. Len(Fed(r)) >= Len(prompt[r]) /\ made'[r] = made[r] + 1
      BY <1>1, FedType DEF TypeInv, TypeOK, Forward
    <3> QED
      BY <2>1, <2>2, <3>1, FedType DEF Prefill, TypeInv, TypeOK
  <2>3. CASE q # r
    BY <2>1, <2>3 DEF Prefill, Forward, TypeInv, TypeOK, Ahead
  <2> QED
    BY <2>2, <2>3
<1> QED
  BY <1>2, <1>3, <1>4 DEF TypeInv

LEMMA SampleTypeInv ==
  ASSUME TypeInv, NEW r \in Request, Sample(r)
  PROVE  TypeInv'
<1>1. Forward(r) /\ phase[r] = "model"
  BY DEF Sample, Forward
<1>2. UNCHANGED <<prompt, limit, cause>> /\ made' = [made EXCEPT ![r] = @ + 1]
  BY <1>1 DEF Sample, Forward
<1>3. made[r] < Len(Fed(r)) /\ made[r] \in Nat
  BY <1>1 DEF TypeInv, Ahead, Open, TypeOK
<1>4. CASE Room(r) /\ \E t \in Token :
         /\ generated' = [generated EXCEPT ![r] = Append(@, t)]
         /\ phase' = IF t \in StopToken THEN [phase EXCEPT ![r] = "answered"]
                                        ELSE phase
  <2>1. PICK t \in Token :
          /\ generated' = [generated EXCEPT ![r] = Append(@, t)]
          /\ phase' = IF t \in StopToken THEN [phase EXCEPT ![r] = "answered"]
                                         ELSE phase
    BY <1>4
  <2>2. /\ generated[r] \in Seq(Token)
        /\ Append(generated[r], t) \in Seq(Token)
        /\ Len(Append(generated[r], t)) = Len(generated[r]) + 1
        /\ Len(generated[r]) \in Nat
    BY AppendProperties, LenProperties DEF TypeInv, TypeOK
  <2>3. generated' \in [Request -> Seq(Token)]
    BY <2>1, <2>2 DEF TypeInv, TypeOK
  <2>4. phase' \in [Request -> {"unsent", "reset", "model", "answered", "error"}]
    BY <2>1 DEF TypeInv, TypeOK
  <2>5. \A q \in Request : Len(generated'[q]) <= limit'[q]
    <3>1. Len(generated'[r]) <= limit'[r]
      BY <2>1, <2>2, <1>2, <1>4, ServerAssumption DEF Room, TypeInv, TypeOK
    <3>2. \A q \in Request \ {r} : generated'[q] = generated[q] /\ limit'[q] = limit[q]
      BY <2>1, <1>2 DEF TypeInv, TypeOK
    <3> QED
      BY <3>1, <3>2 DEF TypeInv, TypeOK
  <2>6. TypeOK'
    BY <1>1, <1>2, <2>3, <2>4, <2>5, ForwardTypes DEF TypeInv, TypeOK
  <2>7. Fresh'
    BY <1>1, <1>2, <2>1 DEF TypeInv, Fresh, TypeOK
  <2>8. Ahead'
    <3> SUFFICES ASSUME NEW q \in Request, Open(q)' PROVE (made[q] < Len(Fed(q)))'
      BY DEF Ahead
    <3>1. Open(q)
      BY <2>1 DEF Open, TypeInv, TypeOK
    <3>2. CASE q = r
      <4>1. Len(Fed(r))' = (Len(prompt[r]) + Len(generated[r]))'
        BY <2>6, FedType, <1>2, <2>1, <2>2, ConcatProperties DEF Fed, TypeInv, TypeOK
      <4>2. (Len(prompt[r]) + Len(generated[r]))' = Len(prompt[r]) + Len(generated[r]) + 1
        BY <1>2, <2>1, <2>2, FedType DEF TypeInv, TypeOK
      <4>3. Len(Fed(r))' = Len(Fed(r)) + 1 /\ made'[r] = made[r] + 1
        BY <4>1, <4>2, FedType, <1>2 DEF TypeInv, TypeOK
      <4> QED
        BY <3>2, <4>3, <1>3, FedType DEF TypeInv
    <3>3. CASE q # r
      <4>1. Fed(q)' = Fed(q) /\ made'[q] = made[q]
        BY <3>3, <2>1, <1>2 DEF Fed, TypeInv, TypeOK
      <4> QED
        BY <3>1, <4>1 DEF TypeInv, Ahead
    <3> QED
      BY <3>2, <3>3
  <2> QED
    BY <2>6, <2>7, <2>8 DEF TypeInv
<1>5. CASE /\ phase' = [phase EXCEPT ![r] = "answered"]
           /\ UNCHANGED generated
  <2>1. phase' \in [Request -> {"unsent", "reset", "model", "answered", "error"}]
    BY <1>5 DEF TypeInv, TypeOK
  <2>2. TypeOK'
    BY <1>1, <1>2, <1>5, <2>1, ForwardTypes DEF TypeInv, TypeOK
  <2>3. Fresh'
    BY <1>1, <1>2, <1>5 DEF TypeInv, Fresh, TypeOK
  <2>4. Ahead'
    BY <1>1, <1>2, <1>5 DEF TypeInv, Ahead, TypeOK, Open, Fed
  <2> QED
    BY <2>2, <2>3, <2>4 DEF TypeInv
<1> QED
  BY <1>4, <1>5 DEF Sample

\* A call that panics keeps the rows it appended below the layer it stopped in.
LEMMA PanicTypeInv ==
  ASSUME TypeInv, NEW r \in Request, phase[r] = "model",
         NEW n \in 0 .. NumLayers, \A l \in FullCaches : n <= l,
         kv' = Appended(r, n), NEW why \in {"overflow", "device"}, Fails(r, why)
  PROVE  TypeInv'
<1>1. made[r] < Len(Fed(r))
  BY DEF TypeInv, Ahead, Open
<1>2. /\ kv' \in [Layer -> Seq(Row)]
      /\ \A l \in Layer : Len(kv'[l]) <= MaxSeqLen
      /\ \A l \in Layer \ Owner : kv'[l] = <<>>
  BY <1>1, AppendedType DEF TypeInv
<1>3. /\ phase' \in [Request -> {"unsent", "reset", "model", "answered", "error"}]
      /\ cause' \in [Request -> {"none", "overflow", "device"}]
  BY DEF Fails, TypeInv, TypeOK
<1>4. TypeOK'
  BY <1>2, <1>3 DEF Fails, TypeInv, TypeOK
<1>5. Fresh'
  BY DEF Fails, TypeInv, TypeOK, Fresh
<1>6. Ahead'
  BY DEF Fails, TypeInv, TypeOK, Ahead, Open, Fed
<1> QED
  BY <1>4, <1>5, <1>6 DEF TypeInv

LEMMA NextTypeInv ==
  ASSUME TypeInv, [Next]_vars
  PROVE  TypeInv'
<1>1. CASE UNCHANGED vars
  BY <1>1 DEF vars, TypeInv, TypeOK, Fresh, Ahead, Open, Fed
<1>2. ASSUME NEW r \in Request, Arrive(r) PROVE TypeInv'
  BY <1>2, ArriveTypeInv
<1>3. ASSUME NEW r \in Request, ResetKvCache(r) PROVE TypeInv'
  BY <1>3, ResetTypeInv
<1>4. ASSUME NEW r \in Request, Prefill(r) PROVE TypeInv'
  BY <1>4, PrefillTypeInv
<1>5. ASSUME NEW r \in Request, Sample(r) PROVE TypeInv'
  BY <1>5, SampleTypeInv
<1>6. ASSUME NEW r \in Request, Overflow(r) PROVE TypeInv'
  <2>1. PICK n \in FullCaches : (\A l \in FullCaches : n <= l) /\ kv' = Appended(r, n)
    BY <1>6 DEF Overflow
  <2>2. n \in 0 .. NumLayers
    BY ServerAssumption DEF FullCaches, Owner, Layer
  <2>3. phase[r] = "model" /\ Fails(r, "overflow")
    BY <1>6 DEF Overflow
  <2> QED
    BY <2>1, <2>2, <2>3, PanicTypeInv
<1>7. ASSUME NEW r \in Request, DeviceFails(r) PROVE TypeInv'
  <2>1. PICK n \in 0 .. NumLayers : (\A l \in FullCaches : n <= l) /\ kv' = Appended(r, n)
    BY <1>7 DEF DeviceFails
  <2>2. phase[r] = "model" /\ Fails(r, "device")
    BY <1>7 DEF DeviceFails
  <2> QED
    BY <2>1, <2>2, PanicTypeInv
<1> QED
  BY <1>1, <1>2, <1>3, <1>4, <1>5, <1>6, <1>7 DEF Next, Step, Quiet

\* Types and bounds: however requests interleave and wherever they panic, no
\* cache holds more than MaxSeqLen rows and shared layers' caches stay empty.
THEOREM TypeCorrect == Spec => []TypeOK
<1>1. Init => TypeInv
  BY InitTypeInv
<1>2. TypeInv /\ [Next]_vars => TypeInv'
  BY NextTypeInv
<1>3. TypeInv => TypeOK
  BY DEF TypeInv
<1> QED
  BY <1>1, <1>2, <1>3, PTL DEF Spec

-----------------------------------------------------------------------------
(* How answers end *)

\* A request that still runs has sampled no stop token, and one that was answered
\* none but its last, without which it has all the tokens it asked for.
Stopped ==
  \A r \in Request :
    /\ \A i \in 1 .. Len(generated[r]) :
         generated[r][i] \in StopToken => phase[r] \notin {"unsent", "reset", "model"}
                                          /\ i = Len(generated[r])
    /\ phase[r] = "answered" =>
         \/ Len(generated[r]) = limit[r]
         \/ generated[r] # <<>> /\ generated[r][Len(generated[r])] \in StopToken

\* No step but one of a request's own loop gives it a token or an answer.
LEMMA StoppedKept ==
  ASSUME TypeOK, Stopped, generated' = generated,
         \A q \in Request : Len(generated[q]) > 0 /\ phase[q] \notin {"unsent", "reset", "model"} =>
           phase'[q] \notin {"unsent", "reset", "model"},
         \A q \in Request : phase'[q] = "answered" =>
           \/ phase[q] = "answered" /\ limit'[q] = limit[q]
           \/ Len(generated[q]) = limit'[q]
  PROVE  Stopped'
<1> SUFFICES ASSUME NEW q \in Request
             PROVE  /\ \A i \in 1 .. Len(generated[q]) :
                         generated[q][i] \in StopToken =>
                           phase'[q] \notin {"unsent", "reset", "model"} /\ i = Len(generated[q])
                    /\ phase'[q] = "answered" =>
                         \/ Len(generated[q]) = limit'[q]
                         \/ generated[q] # <<>> /\ generated[q][Len(generated[q])] \in StopToken
  BY DEF Stopped
<1>1. Len(generated[q]) \in Nat
  BY DEF TypeOK
<1>2. ASSUME NEW i \in 1 .. Len(generated[q]), generated[q][i] \in StopToken
      PROVE  phase'[q] \notin {"unsent", "reset", "model"} /\ i = Len(generated[q])
  <2>1. Len(generated[q]) > 0
    BY <1>1
  <2> QED
    BY <1>2, <2>1 DEF Stopped
<1>3. ASSUME phase'[q] = "answered"
      PROVE  \/ Len(generated[q]) = limit'[q]
             \/ generated[q] # <<>> /\ generated[q][Len(generated[q])] \in StopToken
  BY <1>3 DEF Stopped
<1> QED
  BY <1>2, <1>3

LEMMA SampleStopped ==
  ASSUME TypeInv, Stopped, NEW r \in Request, Sample(r)
  PROVE  Stopped'
<1>1. phase[r] = "model" /\ limit' = limit
  BY DEF Sample, Forward
<1>2. ASSUME NEW t \in Token, generated' = [generated EXCEPT ![r] = Append(@, t)],
             phase' = IF t \in StopToken THEN [phase EXCEPT ![r] = "answered"] ELSE phase
      PROVE  Stopped'
  <2> DEFINE g == generated[r]
  <2>1. g \in Seq(Token) /\ Len(g) \in Nat /\ \A i \in 1 .. Len(g) : g[i] \notin StopToken
    BY <1>1 DEF TypeInv, TypeOK, Stopped
  <2>2. generated'[r] = Append(g, t) /\ \A q \in Request \ {r} : generated'[q] = generated[q]
    BY <1>2 DEF TypeInv, TypeOK
  <2>3. /\ \A q \in Request \ {r} : phase'[q] = phase[q]
        /\ phase'[r] = IF t \in StopToken THEN "answered" ELSE "model"
    BY <1>1, <1>2 DEF TypeInv, TypeOK
  <2> HIDE DEF g
  <2>4. /\ Len(Append(g, t)) = Len(g) + 1 /\ Append(g, t)[Len(g) + 1] = t
        /\ \A i \in 1 .. Len(g) : Append(g, t)[i] = g[i]
        /\ Append(g, t) # <<>>
    BY <2>1, AppendProperties
  <2>5. \A i \in 1 .. Len(Append(g, t)) : Append(g, t)[i] \in StopToken =>
          t \in StopToken /\ i = Len(Append(g, t))
    BY <2>1, <2>4
  <2>6. /\ \A i \in 1 .. Len(generated'[r]) :
             generated'[r][i] \in StopToken => phase'[r] \notin {"unsent", "reset", "model"}
                                               /\ i = Len(generated'[r])
        /\ phase'[r] = "answered" =>
             generated'[r] # <<>> /\ generated'[r][Len(generated'[r])] \in StopToken
    BY <2>2, <2>3, <2>4, <2>5
  <2> QED
    BY <1>1, <2>2, <2>3, <2>6 DEF Stopped
<1>3. ASSUME ~Room(r), phase' = [phase EXCEPT ![r] = "answered"], generated' = generated
      PROVE  Stopped'
  <2>1. Len(generated[r]) = limit[r]
    BY <1>3, ServerAssumption DEF Room, TypeInv, TypeOK
  <2>2. phase'[r] = "answered" /\ \A q \in Request \ {r} : phase'[q] = phase[q]
    BY <1>3 DEF TypeInv, TypeOK
  <2> QED
    BY <1>1, <1>3, <2>1, <2>2, StoppedKept DEF TypeInv
<1> QED
  BY <1>2, <1>3 DEF Sample

LEMMA NextStopped ==
  ASSUME TypeInv, Stopped, [Next]_vars
  PROVE  Stopped'
<1>1. CASE UNCHANGED vars
  BY <1>1, StoppedKept DEF vars, TypeInv
<1>2. ASSUME NEW r \in Request, Arrive(r) PROVE Stopped'
  <2>1. /\ generated' = generated /\ phase[r] = "unsent" /\ generated[r] = <<>>
        /\ phase'[r] = "reset" /\ \A q \in Request \ {r} : phase'[q] = phase[q]
    BY <1>2 DEF Arrive, TypeInv, TypeOK, Fresh
  <2>2. \A q \in Request \ {r} : limit'[q] = limit[q]
    BY <1>2 DEF Arrive, TypeInv, TypeOK
  <2>3. Len(generated[r]) = 0
    BY <2>1
  <2> QED
    BY <2>1, <2>2, <2>3, StoppedKept DEF TypeInv
<1>3. ASSUME NEW r \in Request, ResetKvCache(r) PROVE Stopped'
  <2>1. /\ generated' = generated /\ limit' = limit /\ phase[r] = "reset"
        /\ phase'[r] = "model" /\ \A q \in Request \ {r} : phase'[q] = phase[q]
    BY <1>3 DEF ResetKvCache, TypeInv, TypeOK
  <2> QED
    BY <2>1, StoppedKept DEF TypeInv
<1>4. ASSUME NEW r \in Request, Prefill(r) PROVE Stopped'
  <2>1. generated' = generated /\ limit' = limit /\ phase' = phase
    BY <1>4 DEF Prefill
  <2> QED
    BY <2>1, StoppedKept DEF TypeInv
<1>5. ASSUME NEW r \in Request, Overflow(r) \/ DeviceFails(r) PROVE Stopped'
  <2>1. /\ generated' = generated /\ limit' = limit /\ phase[r] = "model"
        /\ phase'[r] = "error" /\ \A q \in Request \ {r} : phase'[q] = phase[q]
    BY <1>5 DEF Overflow, DeviceFails, Fails, TypeInv, TypeOK
  <2> QED
    BY <2>1, StoppedKept DEF TypeInv
<1> QED
  BY <1>1, <1>2, <1>3, <1>4, <1>5, SampleStopped DEF Next, Step, Quiet

\* The trimmed answer ends before the stop token, the only one and the last.
LEMMA TrimmedAnswer ==
  ASSUME TypeOK, Stopped, NEW r \in Request, phase[r] = "answered"
  PROVE  /\ \A i \in DOMAIN Answer(r) : Answer(r)[i] \notin StopToken
         /\ Len(Answer(r)) < limit[r] =>
              generated[r] # <<>> /\ generated[r][Len(generated[r])] \in StopToken
<1> DEFINE g == generated[r]
           K == {0} \cup {i \in DOMAIN g : g[i] \notin StopToken}
           n == Len(g)
           stops == g # <<>> /\ g[n] \in StopToken
<1>1. /\ g \in Seq(Token) /\ n \in Nat /\ DOMAIN g = 1 .. n
      /\ \A i \in 1 .. n : g[i] \in StopToken => i = n
      /\ n = limit[r] \/ stops
  BY DEF TypeOK, Stopped
<1>2. Answer(r) = SubSeq(g, 1, Max(K))
  BY DEF Answer
<1>3. g # <<>> => n >= 1
  BY <1>1
<1>4. \A i \in 1 .. n : g[i] \in Token
  <2>1. \A s \in Seq(Token) : \A i \in 1 .. Len(s) : s[i] \in Token
    OBVIOUS
  <2> QED
    BY <1>1, <2>1
<1> HIDE DEF g, n
<1>5. ASSUME NEW m \in 0 .. n
      PROVE  /\ Len(SubSeq(g, 1, m)) = m /\ DOMAIN SubSeq(g, 1, m) = 1 .. m
             /\ \A i \in 1 .. m : SubSeq(g, 1, m)[i] = g[i]
  <2>1. \A i \in 1 .. m : g[i] \in Token
    BY <1>1, <1>4
  <2>2. m \in Int /\ m >= 0 /\ 1 \in Int
    BY <1>1
  <2>3. /\ SubSeq(g, 1, m) \in Seq(Token)
        /\ Len(SubSeq(g, 1, m)) = IF 1 <= m THEN m - 1 + 1 ELSE 0
        /\ \A i \in 1 .. m - 1 + 1 : SubSeq(g, 1, m)[i] = g[1 + i - 1]
    BY <2>1, <2>2, SubSeqProperties
  <2> QED
    BY <2>2, <2>3
<1>6. CASE stops
  <2>1. n - 1 \in K /\ \A i \in K : n - 1 >= i
    BY <1>1, <1>3, <1>6
  <2>2. K \subseteq Int
    BY <1>1
  <2>3. Max(K) = n - 1
    BY <2>1, <2>2 DEF Max
  <2>4. /\ DOMAIN Answer(r) = 1 .. n - 1
        /\ \A i \in 1 .. n - 1 : Answer(r)[i] = g[i]
    <3>1. n - 1 \in 0 .. n
      BY <1>1, <1>3, <1>6
    <3> QED
      BY <1>2, <1>5, <2>3, <3>1
  <2> QED
    BY <1>1, <1>6, <2>4 DEF g, n
<1>7. CASE ~stops
  <2>1. n \in K /\ \A i \in K : n >= i
    BY <1>1, <1>7 DEF n
  <2>2. K \subseteq Int
    BY <1>1
  <2>3. Max(K) = n
    BY <2>1, <2>2 DEF Max
  <2>4. /\ DOMAIN Answer(r) = 1 .. n /\ Len(Answer(r)) = n
        /\ \A i \in 1 .. n : Answer(r)[i] = g[i]
    <3>1. n \in 0 .. n
      BY <1>1
    <3> QED
      BY <1>2, <1>5, <2>3, <3>1
  <2>5. \A i \in 1 .. n : g[i] \notin StopToken
    BY <1>1, <1>7
  <2> QED
    BY <1>1, <1>7, <2>4, <2>5
<1> QED
  BY <1>6, <1>7

\* An answer holds no stop token, and if it is shorter than asked for, one ended
\* it, for any number of open requests and any failures.
THEOREM ShortAnswersCorrect == Spec => []ShortAnswersStopped
<1>1. Init => Stopped
  <2>1. ASSUME Init, NEW r \in Request
        PROVE  generated[r] = <<>> /\ 1 .. Len(generated[r]) = {} /\ phase[r] = "unsent"
    BY <2>1 DEF Init
  <2> QED
    BY <2>1 DEF Stopped
<1>2. TypeInv /\ Stopped /\ [Next]_vars => Stopped'
  BY NextStopped
<1>3. Init => TypeInv
  BY InitTypeInv
<1>4. TypeInv /\ [Next]_vars => TypeInv'
  BY NextTypeInv
<1>5. TypeInv /\ Stopped => ShortAnswersStopped
  BY TrimmedAnswer DEF TypeInv, ShortAnswersStopped
<1> QED
  BY <1>1, <1>2, <1>3, <1>4, <1>5, PTL DEF Spec

-----------------------------------------------------------------------------
(* Clients that take turns *)

\* When the owners' caches hold the request's rows, the one of this call
\* included, every layer attends to what it should: the window counted back
\* from the end of the cache is the window counted back from the position.
LEMMA AttendsRightWhenOwn ==
  ASSUME TypeOK, NEW r \in Request, NEW caches,
         \A l \in Owner :
           /\ caches[l] \in Seq(Row)
           /\ Len(caches[l]) = made[r] + 1
           /\ \A i \in 1 .. made[r] + 1 : caches[l][i] = RowOf(r, i - 1, l)
  PROVE  AttendsRight(r, caches)
<1> SUFFICES ASSUME NEW l \in Layer
             PROVE  Attended(l, caches[TargetCache(l)]) = OwnContext(r, made[r], l)
  BY DEF AttendsRight
<1> DEFINE tgt == TargetCache(l)
           rows == caches[tgt]
           n == made[r] + 1
           start == KvStart(l, n)
<1>1. tgt \in Owner /\ IsFullAttention(tgt) = IsFullAttention(l)
  BY TargetKind
<1>2. /\ rows \in Seq(Row)
      /\ Len(rows) = n
      /\ \A i \in 1 .. n : rows[i] = RowOf(r, i - 1, tgt)
      /\ made[r] \in Nat
  BY <1>1 DEF TypeOK
<1>3. start \in 0 .. n - 1
  BY <1>2, ServerAssumption DEF KvStart
<1>4. start = (IF IsFullAttention(l) \/ made[r] < Window THEN 0 ELSE made[r] - Window + 1)
  BY <1>2, ServerAssumption DEF KvStart
<1>5. OwnContext(r, made[r], l) = [i \in 1 .. n - start |-> RowOf(r, start + i - 1, l)]
  <2>1. made[r] - start + 1 = n - start
    BY <1>2, <1>3
  <2> QED
    BY <1>4, <2>1 DEF OwnContext
<1>6. ASSUME NEW i \in 1 .. n - start
      PROVE  rows[start + i] = RowOf(r, start + i - 1, l)
  <2>1. start + i \in 1 .. n
    BY <1>2, <1>3
  <2>2. PICK j \in 1 .. n : j = start + i
    BY <2>1
  <2>3. rows[j] = RowOf(r, j - 1, tgt)
    BY <1>2
  <2>4. RowOf(r, j - 1, tgt) = RowOf(r, j - 1, l)
    BY <1>1 DEF RowOf
  <2>5. start + i - 1 = j - 1
    BY <2>2, <1>2, <1>3
  <2> HIDE DEF start, rows
  <2> QED
    BY <2>2, <2>3, <2>4, <2>5
<1>7. /\ SubSeq(rows, start + 1, n) \in Seq(Row)
      /\ Len(SubSeq(rows, start + 1, n)) = n - start
      /\ \A i \in 1 .. n - start : SubSeq(rows, start + 1, n)[i] = rows[start + i]
  <2>1. start + 1 \in 1 .. n /\ n \in 1 .. Len(rows)
    BY <1>2, <1>3
  <2>2. SubSeq(rows, start + 1, n) = [i \in 1 .. n - (start + 1) + 1 |-> rows[i + (start + 1) - 1]]
    BY <2>1
  <2>3. /\ SubSeq(rows, start + 1, n) \in Seq(Row)
        /\ Len(SubSeq(rows, start + 1, n)) = n - (start + 1) + 1
    BY <1>2, <2>1, SubSeqProperties
  <2>4. n - (start + 1) + 1 = n - start
        /\ \A i \in 1 .. n - start : i + (start + 1) - 1 = start + i
    BY <1>2, <1>3
  <2> QED
    BY <2>2, <2>3, <2>4
<1>8. SubSeq(rows, start + 1, n) = [i \in 1 .. n - start |-> RowOf(r, start + i - 1, l)]
  <2> DEFINE sub == SubSeq(rows, start + 1, n)
  <2>1. sub \in [1 .. n - start -> Row]
    <3> HIDE DEF sub
    <3>1. sub \in Seq(Row) /\ Len(sub) = n - start
      BY <1>7 DEF sub
    <3>2. sub \in [1 .. Len(sub) -> Row]
      BY <3>1, LenProperties
    <3> QED
      BY <3>1, <3>2
  <2>2. \A i \in 1 .. n - start : sub[i] = RowOf(r, start + i - 1, l)
    BY <1>6, <1>7
  <2> HIDE DEF sub, start, n
  <2>3. sub = [i \in 1 .. n - start |-> RowOf(r, start + i - 1, l)]
    BY <2>1, <2>2
  <2> QED
    BY <2>3 DEF sub
<1>9. Attended(l, rows) = SubSeq(rows, start + 1, n)
  BY <1>2 DEF Attended
<1> QED
  BY <1>5, <1>8, <1>9

TurnInv ==
  TypeInv /\ OneOpen /\ RowsAreOwn /\ RightSoFar /\ OverflowsOnlyPastTheEnd

LEMMA InitTurnInv == Init => TurnInv
<1> SUFFICES ASSUME Init PROVE TurnInv
  OBVIOUS
<1>1. TypeInv
  BY InitTypeInv
<1>2. OneOpen /\ RowsAreOwn /\ RightSoFar /\ OverflowsOnlyPastTheEnd
  BY DEF Init, OneOpen, Open, RowsAreOwn, RightSoFar, OverflowsOnlyPastTheEnd
<1> QED
  BY <1>1, <1>2 DEF TurnInv

\* A client whose turn it is finds no request open.
LEMMA ArriveTurnInv ==
  ASSUME TurnInv, MaxOpen = 1, NEW r \in Request, Arrive(r)
  PROVE  TurnInv'
<1> DEFINE open == {q \in Request : Open(q)}
<1>1. open = {}
  <2>1. IsFiniteSet(Request) /\ open \subseteq Request
    BY ServerAssumption
  <2>2. IsFiniteSet(open)
    BY <2>1, FS_Subset
  <2>3. Cardinality(open) \in Nat /\ (Cardinality(open) = 0 <=> open = {})
    BY <2>2, FS_CardinalityType, FS_EmptySet
  <2>4. Cardinality(open) < 1
    BY DEF Arrive
  <2> QED
    BY <2>3, <2>4
<1>2. /\ phase' = [phase EXCEPT ![r] = "reset"]
      /\ phase[r] = "unsent"
      /\ UNCHANGED <<kv, made, generated, cause, right>>
      /\ phase \in [Request -> {"unsent", "reset", "model", "answered", "error"}]
  BY DEF Arrive, TurnInv, TypeInv, TypeOK
<1>3. TypeInv'
  BY ArriveTypeInv DEF TurnInv
<1>4. OneOpen'
  BY <1>1, <1>2 DEF OneOpen, Open
<1>5. RowsAreOwn'
  BY <1>1, <1>2 DEF RowsAreOwn, Open
<1>6. RightSoFar'
  BY <1>2 DEF RightSoFar, TurnInv
<1>7. OverflowsOnlyPastTheEnd'
  <2>1. cause[r] = "none"
    BY <1>2 DEF TurnInv, TypeInv, Fresh
  <2>2. \A q \in Request \ {r} : prompt'[q] = prompt[q] /\ limit'[q] = limit[q]
    BY DEF Arrive, TurnInv, TypeInv, TypeOK
  <2> QED
    BY <1>2, <2>1, <2>2 DEF OverflowsOnlyPastTheEnd, TurnInv
<1> QED
  BY <1>3, <1>4, <1>5, <1>6, <1>7 DEF TurnInv

LEMMA ResetTurnInv ==
  ASSUME TurnInv, NEW r \in Request, ResetKvCache(r)
  PROVE  TurnInv'
<1>1. /\ phase[r] = "reset"
      /\ phase' = [phase EXCEPT ![r] = "model"]
      /\ phase \in [Request -> {"unsent", "reset", "model", "answered", "error"}]
      /\ kv' = [l \in Layer |-> <<>>]
      /\ UNCHANGED <<prompt, limit, made, generated, cause, right>>
  BY DEF ResetKvCache, TurnInv, TypeInv, TypeOK
<1>2. TypeInv'
  BY ResetTypeInv DEF TurnInv
<1>3. OneOpen'
  BY <1>1 DEF OneOpen, Open, TurnInv
<1>4. RowsAreOwn'
  <2> SUFFICES ASSUME NEW q \in Request, phase'[q] = "model", NEW l \in Owner
               PROVE  /\ Len(kv'[l]) = made'[q]
                      /\ \A i \in 1 .. made'[q] : kv'[l][i] = RowOf(q, i - 1, l)'
    BY DEF RowsAreOwn
  <2>1. q = r
    BY <1>1 DEF OneOpen, Open, TurnInv
  <2>2. made'[q] = 0
    BY <1>1, <2>1 DEF TurnInv, TypeInv, Fresh
  <2>3. kv'[l] = <<>> /\ Len(<<>>) = 0
    BY <1>1, EmptySeq DEF Owner
  <2> QED
    BY <2>2, <2>3
<1>5. RightSoFar' /\ OverflowsOnlyPastTheEnd'
  BY <1>1 DEF RightSoFar, OverflowsOnlyPastTheEnd, TurnInv
<1> QED
  BY <1>2, <1>3, <1>4, <1>5 DEF TurnInv

\* A call appends the row of its own token at its own position, and attends to
\* its own rows.
LEMMA ForwardRows ==
  ASSUME TurnInv, NEW r \in Request, Forward(r)
  PROVE  /\ \A l \in Owner :
              /\ Len(kv'[l]) = made[r] + 1
              /\ \A i \in 1 .. made[r] + 1 : kv'[l][i] = RowOf(r, i - 1, l)
         /\ right'[r]
<1>1. /\ TypeOK
      /\ phase[r] = "model"
      /\ made[r] \in Nat
      /\ made[r] \in 0 .. Len(Fed(r)) - 1
  BY FedType DEF TurnInv, TypeInv, Forward, TypeOK, Ahead, Open
<1>2. ASSUME NEW l \in Owner
      PROVE  /\ kv'[l] \in Seq(Row)
             /\ Len(kv'[l]) = made[r] + 1
             /\ \A i \in 1 .. made[r] + 1 : kv'[l][i] = RowOf(r, i - 1, l)
  <2>1. l \in Layer /\ l < NumLayers
    BY ServerAssumption DEF Owner, Layer
  <2>2. kv'[l] = Append(kv[l], RowOf(r, made[r], l))
    BY <2>1 DEF Forward, Appended
  <2>3. kv[l] \in Seq(Row) /\ RowOf(r, made[r], l) \in Row
    BY <1>1, <2>1, RowOfType DEF TypeOK
  <2>4. /\ Len(kv[l]) = made[r]
        /\ \A i \in 1 .. made[r] : kv[l][i] = RowOf(r, i - 1, l)
    BY <1>1 DEF TurnInv, RowsAreOwn
  <2>5. /\ Append(kv[l], RowOf(r, made[r], l)) \in Seq(Row)
        /\ Len(Append(kv[l], RowOf(r, made[r], l))) = made[r] + 1
        /\ \A i \in 1 .. made[r] : Append(kv[l], RowOf(r, made[r], l))[i] = kv[l][i]
        /\ Append(kv[l], RowOf(r, made[r], l))[made[r] + 1] = RowOf(r, made[r], l)
    BY <2>3, <2>4, AppendProperties
  <2>6. ASSUME NEW i \in 1 .. made[r] + 1
        PROVE  kv'[l][i] = RowOf(r, i - 1, l)
    <3>1. CASE i = made[r] + 1
      <4>1. i - 1 = made[r]
        BY <3>1, <1>1
      <4> QED
        BY <3>1, <4>1, <2>2, <2>5
    <3>2. CASE i # made[r] + 1
      <4>1. i \in 1 .. made[r]
        BY <3>2, <1>1
      <4> QED
        BY <4>1, <2>2, <2>4, <2>5
    <3> QED
      BY <3>1, <3>2
  <2> QED
    BY <2>2, <2>5, <2>6
<1>3. AttendsRight(r, kv')
  BY <1>1, <1>2, AttendsRightWhenOwn
<1>4. right'[r]
  <2>1. kv' = Appended(r, NumLayers) /\ right[r] /\ right \in [Request -> BOOLEAN]
    BY <1>1 DEF Forward, TurnInv, RightSoFar, TypeOK
  <2>2. right' = [right EXCEPT ![r] = @ /\ AttendsRight(r, Appended(r, NumLayers))]
    BY DEF Forward
  <2>3. right'[r] = (right[r] /\ AttendsRight(r, Appended(r, NumLayers)))
    BY <2>1, <2>2, Zenon
  <2>4. AttendsRight(r, Appended(r, NumLayers))
    BY <1>3, <2>1, Zenon
  <2> QED
    BY <2>1, <2>3, <2>4, Zenon
<1> QED
  BY <1>2, <1>4

\* A call that returns keeps the invariant; a sampled token is fed after the
\* rows it was sampled from, and leaves them what they were.
LEMMA ForwardTurnInv ==
  ASSUME TurnInv, NEW r \in Request, Prefill(r) \/ Sample(r), TypeInv'
  PROVE  TurnInv'
<1>1. /\ Forward(r)
      /\ UNCHANGED <<prompt, limit, cause>>
      /\ phase' = phase \/ phase' = [phase EXCEPT ![r] = "answered"]
      /\ generated' = generated
           \/ \E t \in Token : generated' = [generated EXCEPT ![r] = Append(@, t)]
  BY DEF Prefill, Sample
<1>2. /\ TypeOK
      /\ phase[r] = "model"
      /\ made[r] \in 0 .. Len(Fed(r)) - 1
      /\ made[r] \in Nat
      /\ made' = [made EXCEPT ![r] = @ + 1]
      /\ made'[r] = made[r] + 1
  BY <1>1, FedType DEF TurnInv, TypeInv, Forward, TypeOK, Ahead, Open
<1>3. OneOpen'
  BY <1>1, <1>2 DEF OneOpen, Open, TurnInv, TypeOK
<1>4. ASSUME NEW i \in 1 .. made[r] + 1
      PROVE  Fed(r)'[i] = Fed(r)[i]
  <2>1. CASE generated' = generated
    BY <2>1, <1>1 DEF Fed
  <2>2. ASSUME NEW t \in Token, generated' = [generated EXCEPT ![r] = Append(@, t)]
        PROVE  Fed(r)'[i] = Fed(r)[i]
    <3>1. Fed(r)' = prompt[r] \o Append(generated[r], t)
      BY <2>2, <1>1, <1>2 DEF Fed, TypeOK
    <3>2. /\ Len(Fed(r)) = Len(prompt[r]) + Len(generated[r])
          /\ Len(prompt[r]) \in Nat
          /\ Len(generated[r]) \in Nat
      BY <1>2, FedType
    <3>3. i \in 1 .. Len(prompt[r]) + Len(generated[r])
      <4>1. i \in Nat /\ 1 <= i /\ i <= Len(Fed(r))
        BY <1>2
      <4> DEFINE a == Len(prompt[r])
                 b == Len(generated[r])
      <4>2. Len(Fed(r)) = a + b /\ a \in Nat /\ b \in Nat
        BY <3>2
      <4> HIDE DEF a, b
      <4>3. i \in 1 .. a + b
        BY <4>1, <4>2
      <4> QED
        BY <4>3 DEF a, b
    <3>4. prompt[r] \in Seq(Token) /\ generated[r] \in Seq(Token)
      BY <1>2 DEF TypeOK
    <3>5. (prompt[r] \o Append(generated[r], t))[i] = (prompt[r] \o generated[r])[i]
      BY <3>3, <3>4, FedGrows
    <3> QED
      BY <3>1, <3>5 DEF Fed
  <2> QED
    BY <1>1, <2>1, <2>2
<1>5. RowsAreOwn'
  <2> SUFFICES ASSUME NEW q \in Request, phase'[q] = "model", NEW l \in Owner
               PROVE  /\ Len(kv'[l]) = made'[q]
                      /\ \A i \in 1 .. made'[q] : kv'[l][i] = RowOf(q, i - 1, l)'
    BY DEF RowsAreOwn
  <2>1. q = r
    BY <1>1, <1>2 DEF OneOpen, Open, TurnInv, TypeOK
  <2>2. ASSUME NEW i \in 1 .. made[r] + 1
        PROVE  kv'[l][i] = RowOf(r, i - 1, l)'
    <3>1. kv'[l][i] = RowOf(r, i - 1, l)
      BY <1>1, ForwardRows
    <3>2. (i - 1) + 1 = i
      OBVIOUS
    <3>3. RowOf(r, i - 1, l)' = RowOf(r, i - 1, l)
      BY <1>4, <3>2 DEF RowOf
    <3> QED
      BY <3>1, <3>3
  <2>3. Len(kv'[l]) = made[r] + 1
    BY <1>1, ForwardRows
  <2> QED
    BY <2>1, <2>2, <2>3, <1>2
<1>6. RightSoFar'
  <2>1. right'[r]
    BY <1>1, ForwardRows
  <2>2. \A q \in Request \ {r} : right'[q] = right[q]
    BY <1>1, <1>2, Zenon DEF Forward, TypeOK
  <2> QED
    BY <2>1, <2>2 DEF RightSoFar, TurnInv
<1>7. OverflowsOnlyPastTheEnd'
  BY <1>1 DEF OverflowsOnlyPastTheEnd, TurnInv
<1> QED
  BY <1>3, <1>5, <1>6, <1>7 DEF TurnInv

\* A panic ends the only open request; a full cache is full of its own rows.
LEMMA PanicTurnInv ==
  ASSUME TurnInv, NEW r \in Request, Overflow(r) \/ DeviceFails(r), TypeInv'
  PROVE  TurnInv'
<1>1. /\ phase[r] = "model"
      /\ phase' = [phase EXCEPT ![r] = "error"]
      /\ UNCHANGED <<prompt, limit, made, generated, right>>
      /\ TypeOK
  BY DEF Overflow, DeviceFails, Fails, TurnInv, TypeInv
<1>2. OneOpen'
  BY <1>1 DEF OneOpen, Open, TurnInv, TypeOK
<1>3. RowsAreOwn'
  BY <1>1 DEF RowsAreOwn, OneOpen, Open, TurnInv, TypeOK
<1>4. RightSoFar'
  BY <1>1 DEF RightSoFar, TurnInv
<1>5. OverflowsOnlyPastTheEnd'
  <2> SUFFICES ASSUME NEW q \in Request, cause'[q] = "overflow"
               PROVE  Len(prompt[q]) + limit[q] > MaxSeqLen
    BY <1>1 DEF OverflowsOnlyPastTheEnd
  <2>1. CASE cause[q] = "overflow"
    BY <2>1 DEF OverflowsOnlyPastTheEnd, TurnInv
  <2>2. CASE cause[q] # "overflow"
    <3>1. q = r /\ Overflow(r)
      BY <2>2, <1>1 DEF Overflow, DeviceFails, Fails, TypeOK
    <3>2. PICK l \in Owner : Len(kv[l]) >= MaxSeqLen
      BY <3>1 DEF Overflow, FullCaches
    <3>3. made[r] >= MaxSeqLen
      BY <1>1, <3>2 DEF RowsAreOwn, TurnInv
    <3>4. made[r] < Len(prompt[r]) + Len(generated[r])
      BY <1>1, FedType DEF TurnInv, TypeInv, Ahead, Open
    <3>5. Len(generated[r]) <= limit[r] /\ limit[r] \in Nat
          /\ made[r] \in Nat /\ MaxSeqLen \in Nat
      BY <1>1, ServerAssumption DEF TypeOK
    <3> QED
      <4>1. Len(prompt[r]) \in Nat /\ Len(generated[r]) \in Nat
        BY <1>1, FedType
      <4>2. Len(prompt[r]) + limit[r] > MaxSeqLen
        <5> DEFINE a == Len(prompt[r])
                   b == Len(generated[r])
                   c == limit[r]
                   m == made[r]
        <5>1. /\ a \in Nat /\ b \in Nat /\ c \in Nat /\ m \in Nat /\ MaxSeqLen \in Nat
              /\ m >= MaxSeqLen /\ m < a + b /\ b <= c
          BY <3>3, <3>4, <3>5, <4>1
        <5> HIDE DEF a, b, c, m
        <5>2. a + c > MaxSeqLen
          BY <5>1
        <5> QED
          BY <5>2 DEF a, c
      <4> QED
        BY <3>1, <4>2
  <2> QED
    BY <2>1, <2>2
<1> QED
  BY <1>2, <1>3, <1>4, <1>5 DEF TurnInv

LEMMA NextTurnInv ==
  ASSUME TurnInv, MaxOpen = 1, [Next]_vars
  PROVE  TurnInv'
<1>1. TypeInv'
  BY NextTypeInv DEF TurnInv
<1>2. CASE UNCHANGED vars
  <2>1. OneOpen' /\ RightSoFar' /\ OverflowsOnlyPastTheEnd'
    BY <1>2 DEF vars, TurnInv, OneOpen, Open, RightSoFar, OverflowsOnlyPastTheEnd
  <2>2. RowsAreOwn'
    <3>1. \A r \in Request : \A i, l : RowOf(r, i, l)' = RowOf(r, i, l)
      BY <1>2 DEF vars, RowOf, Fed
    <3> QED
      BY <1>2, <3>1 DEF vars, TurnInv, RowsAreOwn
  <2> QED
    BY <1>1, <2>1, <2>2 DEF TurnInv
<1>3. CASE \E r \in Request : Arrive(r)
  BY <1>3, ArriveTurnInv
<1>4. CASE \E r \in Request : ResetKvCache(r)
  BY <1>4, ResetTurnInv
<1>5. CASE \E r \in Request : Prefill(r) \/ Sample(r)
  BY <1>1, <1>5, ForwardTurnInv
<1>6. CASE \E r \in Request : Overflow(r) \/ DeviceFails(r)
  BY <1>1, <1>6, PanicTurnInv
<1> QED
  BY <1>2, <1>3, <1>4, <1>5, <1>6 DEF Next, Step, Quiet

LEMMA TurnsAlways == ASSUME MaxOpen = 1 PROVE Spec => []TurnInv
<1>1. Init => TurnInv
  BY InitTurnInv
<1>2. TurnInv /\ [Next]_vars => TurnInv'
  BY NextTurnInv
<1> QED
  BY <1>1, <1>2, PTL DEF Spec

\* When clients take turns, every answer is sampled from its request's own
\* tokens, at their positions, whatever layer pattern, window and panics.
THEOREM AnswersCorrectWhenTakingTurns ==
  ASSUME MaxOpen = 1 PROVE Spec => []AnswersFromOwnTokens
<1>1. TurnInv => AnswersFromOwnTokens
  BY DEF TurnInv, RightSoFar, AnswersFromOwnTokens
<1> QED
  BY <1>1, TurnsAlways, PTL

\* When clients take turns, the caches of all layers hold one row per call
\* between the calls of a request, whatever layer an earlier panic stopped in.
THEOREM CachesLevelWhenTakingTurns ==
  ASSUME MaxOpen = 1 PROVE Spec => []CachesLevel
<1>1. TurnInv => CachesLevel
  BY DEF TurnInv, RowsAreOwn, CachesLevel
<1> QED
  BY <1>1, TurnsAlways, PTL

\* When clients take turns, a request whose prompt and tokens fit the caches
\* never fails of a full one.
THEOREM FittingRequestsFit ==
  ASSUME MaxOpen = 1 PROVE Spec => []OverflowsOnlyPastTheEnd
<1>1. TurnInv => OverflowsOnlyPastTheEnd
  BY DEF TurnInv
<1> QED
  BY <1>1, TurnsAlways, PTL
=============================================================================
