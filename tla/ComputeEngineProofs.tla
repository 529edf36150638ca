------------------------- MODULE ComputeEngineProofs -------------------------
(***************************************************************************)
(* Proofs about ComputeEngine, for every set of operation lists, every     *)
(* size of buffers and pools, and any driver calls that fail.              *)
(*                                                                         *)
(* IndInv is inductive by itself.  Three more invariants are inductive     *)
(* beside it: PoolBounded (how many buffers there are), SetsInv (how many  *)
(* descriptor sets) and DataInv (what buffers and tensors hold).  The      *)
(* refinement of BatchService uses all four.                               *)
(***************************************************************************)
EXTENDS ComputeEngine, SequenceTheorems, FiniteSetTheorems, TLAPS

-----------------------------------------------------------------------------
(* The invariant *)

\* Where a call may stand.
Phases == {"idle", "bind", "begin", "record", "submit", "wait", "read"}

\* Where the temporaries and the outputs of an operation start.
Starts == [tempStart : Nat, outStart : Nat]

\* The buffers of operation i lie after those of the operations before it.
Bound(i) ==
  /\ RefsEarlier(i)
  /\ metas[i].tempStart + Cardinality(ByteBindings(program[i])) <= Len(temps)
  /\ metas[i].outStart + program[i].outs <= Len(outs)
  /\ \A k \in 1..i - 1 :
       /\ metas[k].tempStart + Cardinality(ByteBindings(program[k])) <= metas[i].tempStart
       /\ metas[k].outStart + program[k].outs <= metas[i].outStart

\* How far a call has been bound.
CallShape ==
  /\ phase \in Phases
  /\ IF phase = "idle"
     THEN program = <<>> /\ metas = <<>> /\ temps = <<>> /\ outs = <<>>
     ELSE /\ program \in setting.programs
          /\ metas \in Seq(Starts)
          /\ IF phase = "bind" THEN Len(metas) < Len(program) ELSE Len(metas) = Len(program)
          /\ \A i \in 1..Len(metas) : Bound(i)

\* The buffers in buckets q.
Inside(q) == UNION {ToSet(q[z]) : z \in Sizes}

\* Buckets of distinct buffers, each of the size of its bucket, none over the limit.
Buckets(q) ==
  /\ q \in [Sizes -> Seq(Buffers)]
  /\ \A z \in Sizes : /\ Len(q[z]) <= setting.poolMax /\ IsInjective(q[z])
                      /\ \A b \in ToSet(q[z]) : SizeOf[b] = z

\* Where buffers are.
Memory ==
  /\ Buckets(pool)
  /\ temps \in Seq(Buffers) /\ outs \in Seq(Buffers)
  /\ held \subseteq Buffers
  /\ IsInjective(temps) /\ IsInjective(outs)
  /\ Idle \cap (held \cup CallBuffers) = {}
  /\ ToSet(temps) \cap (held \cup ToSet(outs)) = {}
  /\ ToSet(outs) \cap held = {}

\* What a binding may name.
Place == Buffers \cup Tensors

\* What a command buffer has recorded, dispatch by dispatch.
Dispatches == [set : Nat, places : Seq(Place)]

\* The dispatches r of the running call point at its bindings, each through a set of
\* its own.
Points(r) ==
  \A i \in 1..Len(r) :
    /\ r[i].set \in 0..cursor
    /\ RefsInBounds(i)
    /\ PlacesOf(r[i]) = Places(i)
    /\ r[i].set # 0 => \A k \in 1..Len(r) : r[k].set = r[i].set => k = i

\* The command buffer and the descriptor sets.
Recording ==
  /\ cmd \in {"initial", "recording", "executable", "pending", "invalid"}
  /\ recorded \in Seq(Dispatches)
  /\ sets \in Seq(Seq(Place)) /\ Len(sets) <= setting.maxSets /\ cursor \in 0..Len(sets)
  /\ phase = "record" => Len(recorded) < Len(program)
  /\ phase = "submit" => Len(recorded) = Len(program)
  /\ phase \in {"record", "submit"} => Points(recorded)

\* A submission of the running call.
OfCall(job) ==
  /\ job.ops = program /\ job.live
  /\ job.recorded \in Seq(Dispatches) /\ Len(job.recorded) = Len(program)
  /\ job.done \subseteq 1..Len(program)
  /\ Points(job.recorded)

\* As long as no wait has failed, the GPU runs nothing but the submission that the host
\* waits for.
Queue ==
  /\ synced \in BOOLEAN /\ fence \in BOOLEAN
  /\ synced =>
       IF phase = "wait" /\ ~fence
       THEN cmd = "pending" /\ gpu # <<>> /\ gpu = <<gpu[1]>> /\ OfCall(gpu[1])
       ELSE gpu = <<>> /\ cmd # "pending" /\ (fence => phase = "wait")

\* The inductive invariant.
IndInv ==
  /\ setting \in Settings
  /\ answer.result \in {"none", "ok", "error"}
  /\ CallShape
  /\ Memory
  /\ Recording
  /\ Queue

-----------------------------------------------------------------------------
(* Sequences of distinct elements *)

\* The elements of a sequence.
LEMMA Elements ==
  ASSUME NEW S, NEW s \in Seq(S)
  PROVE  /\ ToSet(s) \subseteq S
         /\ \A i \in 1..Len(s) : s[i] \in ToSet(s)
         /\ \A x \in ToSet(s) : \E i \in 1..Len(s) : x = s[i]
<1>1. DOMAIN s = 1..Len(s) /\ \A i \in 1..Len(s) : s[i] \in S
  BY LenProperties, ElementOfSeq
<1> QED
  BY <1>1 DEF ToSet

\* The elements of two sequences, one after the other.
LEMMA ElementsOfConcat ==
  ASSUME NEW S, NEW s \in Seq(S), NEW t \in Seq(S)
  PROVE  ToSet(s \o t) = ToSet(s) \cup ToSet(t)
<1>1. ToSet(s) = Range(s) /\ ToSet(t) = Range(t) /\ ToSet(s \o t) = Range(s \o t)
  BY DEF ToSet, Range
<1> QED
  BY <1>1, RangeConcatenation

\* Two sequences that share no element, each without repetition.
LEMMA DistinctConcat ==
  ASSUME NEW S, NEW s \in Seq(S), NEW t \in Seq(S)
  PROVE  IsInjective(s \o t) <=> /\ IsInjective(s) /\ IsInjective(t)
                                 /\ ToSet(s) \cap ToSet(t) = {}
<1> DEFINE u == s \o t
<1>1. /\ Len(s) \in Nat /\ Len(t) \in Nat /\ Len(u) = Len(s) + Len(t)
      /\ DOMAIN s = 1..Len(s) /\ DOMAIN t = 1..Len(t)
      /\ DOMAIN u = 1..Len(s) + Len(t)
  BY ConcatProperties, LenProperties
<1>2. /\ \A i \in 1..Len(s) : u[i] = s[i]
      /\ \A i \in 1..Len(t) : u[Len(s) + i] = t[i]
  BY <1>1, ConcatProperties
<1>3. \A i \in DOMAIN u : i \in 1..Len(s) \/ \E k \in 1..Len(t) : i = Len(s) + k
  <2> SUFFICES ASSUME NEW i \in DOMAIN u, ~(i \in 1..Len(s))
               PROVE  \E k \in 1..Len(t) : i = Len(s) + k
    OBVIOUS
  <2>1. i - Len(s) \in 1..Len(t) /\ i = Len(s) + (i - Len(s))
    BY <1>1
  <2> QED
    BY <2>1
<1>4. \A i \in 1..Len(s) : s[i] \in ToSet(s)
  BY <1>1 DEF ToSet
<1>5. \A i \in 1..Len(t) : t[i] \in ToSet(t)
  BY <1>1 DEF ToSet
<1> HIDE DEF u
<1>6. ASSUME IsInjective(u)
      PROVE  IsInjective(s) /\ IsInjective(t) /\ ToSet(s) \cap ToSet(t) = {}
  <2>1. ASSUME NEW i \in 1..Len(s), NEW j \in 1..Len(s), s[i] = s[j]
        PROVE  i = j
    BY <1>1, <1>2, <1>6, <2>1 DEF IsInjective
  <2>2. ASSUME NEW i \in 1..Len(t), NEW j \in 1..Len(t), t[i] = t[j]
        PROVE  i = j
    <3>1. Len(s) + i \in DOMAIN u /\ Len(s) + j \in DOMAIN u
      BY <1>1
    <3>2. u[Len(s) + i] = u[Len(s) + j]
      BY <1>2, <2>2
    <3>3. Len(s) + i = Len(s) + j
      BY <1>6, <3>1, <3>2 DEF IsInjective
    <3> QED
      BY <1>1, <3>3
  <2>3. ASSUME NEW x \in ToSet(s), x \in ToSet(t)
        PROVE  FALSE
    <3>1. PICK i \in 1..Len(s) : x = s[i]
      BY <1>1 DEF ToSet
    <3>2. PICK j \in 1..Len(t) : x = t[j]
      BY <1>1, <2>3 DEF ToSet
    <3>3. i \in DOMAIN u /\ Len(s) + j \in DOMAIN u /\ i # Len(s) + j
      BY <1>1
    <3>4. u[i] = u[Len(s) + j]
      BY <1>2, <3>1, <3>2
    <3> QED
      BY <1>6, <3>3, <3>4 DEF IsInjective
  <2> QED
    BY <1>1, <2>1, <2>2, <2>3 DEF IsInjective
<1>7. ASSUME IsInjective(s), IsInjective(t), ToSet(s) \cap ToSet(t) = {},
             NEW i \in DOMAIN u, NEW j \in DOMAIN u, u[i] = u[j]
      PROVE  i = j
  <2>1. CASE i \in 1..Len(s) /\ j \in 1..Len(s)
    BY <1>1, <1>2, <1>7, <2>1 DEF IsInjective
  <2>2. ASSUME NEW k \in 1..Len(t), NEW m \in 1..Len(t), i = Len(s) + k, j = Len(s) + m
        PROVE  i = j
    <3>1. t[k] = t[m]
      BY <1>2, <1>7, <2>2
    <3>2. k = m
      BY <1>1, <1>7, <3>1 DEF IsInjective
    <3> QED
      BY <2>2, <3>2
  <2>3. ASSUME NEW k \in 1..Len(t), i \in 1..Len(s), j = Len(s) + k
        PROVE  FALSE
    BY <1>2, <1>4, <1>5, <1>7, <2>3
  <2>4. ASSUME NEW k \in 1..Len(t), j \in 1..Len(s), i = Len(s) + k
        PROVE  FALSE
    BY <1>2, <1>4, <1>5, <1>7, <2>4
  <2> QED
    BY <1>3, <2>1, <2>2, <2>3, <2>4
<1> QED
  BY <1>6, <1>7 DEF IsInjective, u

\* A sequence cut in two.
LEMMA Cut ==
  ASSUME NEW S, NEW s \in Seq(S), NEW k \in 0..Len(s)
  PROVE  /\ SubSeq(s, 1, k) \in Seq(S) /\ Len(SubSeq(s, 1, k)) = k
         /\ SubSeq(s, k + 1, Len(s)) \in Seq(S)
         /\ Len(SubSeq(s, k + 1, Len(s))) = Len(s) - k
         /\ s = SubSeq(s, 1, k) \o SubSeq(s, k + 1, Len(s))
<1>1. Len(s) \in Nat /\ \A i \in 1..Len(s) : s[i] \in S
  BY LenProperties, ElementOfSeq
<1>2. k \in Int /\ k + 1 \in Int /\ Len(s) \in Int
  BY <1>1
<1>3. SubSeq(s, 1, k) \in Seq(S) /\ Len(SubSeq(s, 1, k)) = IF 1 <= k THEN k - 1 + 1 ELSE 0
  <2>1. PICK one \in Int : one = 1
    OBVIOUS
  <2>2. \A i \in one..k : s[i] \in S
    BY <1>1, <2>1
  <2> QED
    BY <1>2, <2>1, <2>2, SubSeqProperties
<1>4. /\ SubSeq(s, k + 1, Len(s)) \in Seq(S)
      /\ Len(SubSeq(s, k + 1, Len(s))) = IF k + 1 <= Len(s) THEN Len(s) - (k + 1) + 1 ELSE 0
  <2>1. PICK m \in Int : m = k + 1
    BY <1>2
  <2>2. \A i \in m..Len(s) : s[i] \in S
    BY <1>1, <2>1
  <2>3. SubSeq(s, m, Len(s)) \in Seq(S)
        /\ Len(SubSeq(s, m, Len(s))) = IF m <= Len(s) THEN Len(s) - m + 1 ELSE 0
    BY <1>2, <2>2, SubSeqProperties
  <2> QED
    BY <2>1, <2>3
<1>5. SubSeq(s, 1, k) \o SubSeq(s, k + 1, Len(s)) = SubSeq(s, 1, Len(s))
  <2>1. PICK m \in 1..Len(s) + 1 : m = 1
    BY <1>1
  <2>2. k \in m - 1..Len(s) /\ Len(s) \in k..Len(s)
    BY <1>1, <2>1
  <2>3. SubSeq(s, m, k) \o SubSeq(s, k + 1, Len(s)) = SubSeq(s, m, Len(s))
    BY <2>2, ConcatAdjacentSubSeq
  <2> QED
    BY <2>1, <2>3
<1>6. s = SubSeq(s, 1, k) \o SubSeq(s, k + 1, Len(s))
  BY <1>5, SubSeqFull
<1>7. (IF 1 <= k THEN k - 1 + 1 ELSE 0) = k
  BY <1>1
<1>8. (IF k + 1 <= Len(s) THEN Len(s) - (k + 1) + 1 ELSE 0) = Len(s) - k
  BY <1>1
<1> DEFINE a == SubSeq(s, 1, k)
           b == SubSeq(s, k + 1, Len(s))
<1>9. a \in Seq(S) /\ Len(a) = k
  <2>1. Len(a) = IF 1 <= k THEN k - 1 + 1 ELSE 0
    BY <1>3
  <2> HIDE DEF a
  <2> QED
    BY <1>3, <1>7, <2>1 DEF a
<1>10. b \in Seq(S) /\ Len(b) = Len(s) - k
  <2>1. Len(b) = IF k + 1 <= Len(s) THEN Len(s) - (k + 1) + 1 ELSE 0
    BY <1>4
  <2> HIDE DEF b
  <2> QED
    BY <1>4, <1>8, <2>1 DEF b
<1> QED
  BY <1>6, <1>9, <1>10
\* The two halves of a sequence of distinct elements.
LEMMA CutDistinct ==
  ASSUME NEW S, NEW s \in Seq(S), NEW k \in 0..Len(s)
  PROVE  /\ ToSet(s) = ToSet(SubSeq(s, 1, k)) \cup ToSet(SubSeq(s, k + 1, Len(s)))
         /\ IsInjective(s) =>
              /\ IsInjective(SubSeq(s, 1, k)) /\ IsInjective(SubSeq(s, k + 1, Len(s)))
              /\ ToSet(SubSeq(s, 1, k)) \cap ToSet(SubSeq(s, k + 1, Len(s))) = {}
<1> DEFINE a == SubSeq(s, 1, k)
           b == SubSeq(s, k + 1, Len(s))
<1>1. a \in Seq(S) /\ b \in Seq(S) /\ s = a \o b
  BY Cut
<1> HIDE DEF a, b
<1>2. ToSet(s) = ToSet(a) \cup ToSet(b)
  BY <1>1, ElementsOfConcat
<1>3. IsInjective(s) => IsInjective(a) /\ IsInjective(b) /\ ToSet(a) \cap ToSet(b) = {}
  BY <1>1, DistinctConcat
<1> QED
  BY <1>2, <1>3 DEF a, b

-----------------------------------------------------------------------------
(* Numbers of buffers *)

\* A sequence has no more elements than it is long.
LEMMA SizeOfElements ==
  ASSUME NEW S, NEW s \in Seq(S)
  PROVE  IsFiniteSet(ToSet(s)) /\ Cardinality(ToSet(s)) \in Nat /\ Cardinality(ToSet(s)) <= Len(s)
<1>1. Len(s) \in Nat /\ DOMAIN s = 1..Len(s) /\ s \in [1..Len(s) -> S]
  BY LenProperties
<1>2. s \in Surjection(1..Len(s), ToSet(s))
  BY <1>1 DEF Surjection, ToSet
<1>3. PICK a \in Int : a = 1
  OBVIOUS
<1>4. IsFiniteSet(a..Len(s))
      /\ Cardinality(a..Len(s)) = IF a > Len(s) THEN 0 ELSE Len(s) - a + 1
  BY <1>1, FS_Interval
<1>5. IsFiniteSet(1..Len(s)) /\ Cardinality(1..Len(s)) = Len(s)
  BY <1>1, <1>3, <1>4
<1>6. IsFiniteSet(ToSet(s)) /\ Cardinality(ToSet(s)) <= Cardinality(1..Len(s))
  BY <1>2, <1>5, FS_Surjection
<1> QED
  BY <1>5, <1>6, FS_CardinalityType

\* A finite set of numbers has an element with k smaller ones, for any k below its
\* size.
LEMMA HasRank ==
  ASSUME NEW S \in SUBSET Nat, IsFiniteSet(S), NEW k \in 0..Cardinality(S) - 1
  PROVE  \E b \in S : Cardinality({c \in S : c < b}) = k
<1> DEFINE Below(b) == {c \in S : c < b}
           r == [b \in S |-> Cardinality(Below(b))]
           n == Cardinality(S)
<1>1. n \in Nat
  BY FS_CardinalityType
<1>2. ASSUME NEW b \in S
      PROVE  IsFiniteSet(Below(b)) /\ Cardinality(Below(b)) \in 0..n - 1
  <2>1. IsFiniteSet(S \ {b}) /\ Cardinality(S \ {b}) = n - 1
    BY FS_RemoveElement
  <2>2. Below(b) \in SUBSET (S \ {b})
    OBVIOUS
  <2>3. IsFiniteSet(Below(b)) /\ Cardinality(Below(b)) <= n - 1
    BY <2>1, <2>2, FS_Subset
  <2>4. Cardinality(Below(b)) \in Nat
    BY <2>3, FS_CardinalityType
  <2> QED
    BY <1>1, <2>3, <2>4
<1>3. ASSUME NEW b \in S, NEW d \in S, b < d
      PROVE  Cardinality(Below(b)) < Cardinality(Below(d))
  <2>1. Below(b) \cup {b} \in SUBSET Below(d) /\ b \notin Below(b)
    <3>1. b \in Nat /\ d \in Nat /\ \A c \in S : c \in Nat
      OBVIOUS
    <3>2. ASSUME NEW c \in S, c < b
          PROVE  c < d
      BY <1>3, <3>1, <3>2
    <3>3. ~(b < b)
      BY <3>1
    <3> QED
      BY <1>3, <3>2, <3>3
  <2>2. IsFiniteSet(Below(b)) /\ IsFiniteSet(Below(d))
        /\ Cardinality(Below(b)) \in Nat /\ Cardinality(Below(d)) \in Nat
    BY <1>1, <1>2
  <2>3. Cardinality(Below(b) \cup {b}) = Cardinality(Below(b)) + 1
    BY <2>1, <2>2, FS_AddElement
  <2>4. Cardinality(Below(b) \cup {b}) <= Cardinality(Below(d))
    BY <2>1, <2>2, FS_Subset
  <2> QED
    BY <2>2, <2>3, <2>4
<1> HIDE DEF Below
<1>4. r \in Injection(S, 0..n - 1)
  <2>1. r \in [S -> 0..n - 1]
    BY <1>2
  <2>2. ASSUME NEW b \in S, NEW d \in S, r[b] = r[d], b # d
        PROVE  FALSE
    <3>1. b < d \/ d < b
      BY <2>2
    <3>2. Cardinality(Below(b)) \in 0..n - 1 /\ Cardinality(Below(d)) \in 0..n - 1
      BY <1>2
    <3> QED
      BY <1>3, <2>2, <3>1, <3>2
  <2> QED
    BY <2>1, <2>2 DEF Injection, IsInjective
<1>5. IsFiniteSet(0..n - 1) /\ Cardinality(0..n - 1) = n
  <2>1. PICK z \in Int : z = 0
    OBVIOUS
  <2>2. n - 1 \in Int
    BY <1>1
  <2>3. IsFiniteSet(z..n - 1)
        /\ Cardinality(z..n - 1) = IF z > n - 1 THEN 0 ELSE n - 1 - z + 1
    BY <2>2, FS_Interval
  <2> QED
    BY <1>1, <2>1, <2>3
<1>6. r \in Surjection(S, 0..n - 1)
  BY <1>4, <1>5, FS_Injection
<1>7. PICK b \in S : r[b] = k
  BY <1>6 DEF Surjection
<1> QED
  BY <1>7 DEF Below

-----------------------------------------------------------------------------
(* The buffer pool *)

\* The members of a finite set of numbers, in order.
LEMMA NthFacts ==
  ASSUME NEW S \in SUBSET Nat, IsFiniteSet(S), NEW n \in 1..Cardinality(S)
  PROVE  /\ Nth(S, n) \in S
         /\ \A m \in 1..Cardinality(S) : Nth(S, m) = Nth(S, n) => m = n
<1> DEFINE Rank(b) == Cardinality({c \in S : c < b})
<1>1. Cardinality(S) \in Nat
  BY FS_CardinalityType
<1>2. ASSUME NEW k \in 1..Cardinality(S)
      PROVE  Nth(S, k) \in S /\ Rank(Nth(S, k)) = k - 1
  <2>1. k - 1 \in 0..Cardinality(S) - 1
    BY <1>1
  <2>2. \E b \in S : Rank(b) = k - 1
    BY <2>1, HasRank
  <2>3. Nth(S, k) = CHOOSE b \in S : Rank(b) = k - 1
    BY DEF Nth
  <2> HIDE DEF Rank
  <2> QED
    BY <2>2, <2>3
<1> HIDE DEF Rank
<1>3. ASSUME NEW m \in 1..Cardinality(S), Nth(S, m) = Nth(S, n)
      PROVE  m = n
  <2>1. m - 1 = n - 1
    BY <1>2, <1>3
  <2> QED
    BY <1>1, <2>1
<1> QED
  BY <1>2, <1>3

\* The buffers of each size are those in the bucket of the size.
LEMMA BucketFacts ==
  ASSUME NEW q, Buckets(q), NEW z \in Sizes
  PROVE  /\ q[z] \in Seq(Buffers) /\ Len(q[z]) \in Nat
         /\ ToSet(q[z]) \subseteq Inside(q) /\ Inside(q) \subseteq Buffers
         /\ OfSize(Inside(q), z) = ToSet(q[z])
<1>1. \A y \in Sizes : q[y] \in Seq(Buffers) /\ \A b \in ToSet(q[y]) : SizeOf[b] = y
  BY DEF Buckets
<1>2. \A y \in Sizes : ToSet(q[y]) \subseteq Buffers
  BY <1>1, Elements
<1> QED
  BY <1>1, <1>2, LenProperties DEF Inside, OfSize

\* The buffers of a size that an operation asks for, counted one after the other.
LEMMA WantsFacts ==
  ASSUME NEW op, NEW n \in Nat, NEW z
  PROVE  /\ Wants(op, n, z) \in Nat
         /\ \A k \in 1..n : op.sizes[k] = z => Wants(op, k, z) \in 1..Wants(op, n, z)
         /\ \A i, j \in 1..n :
              op.sizes[i] = z /\ op.sizes[j] = z /\ Wants(op, i, z) = Wants(op, j, z) => i = j
<1> DEFINE Upto(k) == {j \in 1..k : op.sizes[j] = z}
<1>1. ASSUME NEW k \in Nat
      PROVE  /\ IsFiniteSet(Upto(k)) /\ Cardinality(Upto(k)) \in Nat
             /\ Wants(op, k, z) = Cardinality(Upto(k))
  <2>1. IsFiniteSet(1..k) /\ Upto(k) \in SUBSET (1..k)
    BY FS_Interval
  <2>2. Wants(op, k, z) = Cardinality(Upto(k))
    BY DEF Wants
  <2> HIDE DEF Upto
  <2> QED
    BY <2>1, <2>2, FS_Subset, FS_CardinalityType
<1>2. ASSUME NEW k \in 1..n, op.sizes[k] = z
      PROVE  Wants(op, k, z) \in 1..Wants(op, n, z)
  <2>1. Upto(k) \in SUBSET Upto(n) /\ k \in Upto(k)
    BY <1>2
  <2>2. k \in Nat
    OBVIOUS
  <2> HIDE DEF Upto
  <2>3. Cardinality(Upto(k)) <= Cardinality(Upto(n)) /\ Cardinality(Upto(k)) # 0
    BY <1>1, <2>1, <2>2, FS_Subset, FS_EmptySet
  <2> QED
    BY <1>1, <2>2, <2>3
<1>3. ASSUME NEW i \in 1..n, NEW j \in 1..n, op.sizes[i] = z, op.sizes[j] = z, i < j
      PROVE  Wants(op, i, z) # Wants(op, j, z)
  <2>1. Upto(i) \in SUBSET Upto(j) /\ j \in Upto(j) /\ j \notin Upto(i)
    BY <1>3
  <2>2. i \in Nat /\ j \in Nat
    OBVIOUS
  <2> HIDE DEF Upto
  <2> QED
    BY <1>1, <2>1, <2>2, FS_Subset
<1>4. ASSUME NEW i \in 1..n, NEW j \in 1..n, op.sizes[i] = z, op.sizes[j] = z,
             Wants(op, i, z) = Wants(op, j, z)
      PROVE  i = j
  <2>1. i < j \/ j < i \/ i = j
    OBVIOUS
  <2> QED
    BY <1>3, <1>4, <2>1
<1> QED
  BY <1>1, <1>2, <1>4

\* How many of them come from the bucket.
LEMMA FromPoolFacts ==
  ASSUME Buckets(pool), NEW op, NEW n \in Nat, NEW z \in Sizes
  PROVE  /\ FromPool(op, n, z) \in 0..Len(pool[z])
         /\ FromPool(op, n, z) <= Wants(op, n, z)
         /\ op.copy => FromPool(op, n, z) = 0
         /\ ~op.copy /\ Wants(op, n, z) <= Len(pool[z]) => FromPool(op, n, z) = Wants(op, n, z)
         /\ ~op.copy /\ Len(pool[z]) < Wants(op, n, z) => FromPool(op, n, z) = Len(pool[z])
<1>1. Len(pool[z]) \in Nat /\ Wants(op, n, z) \in Nat
  BY BucketFacts, WantsFacts
<1> QED
  BY <1>1 DEF FromPool

\* What they leave in the buckets.
LEMMA PoolLeft ==
  ASSUME IndInv, NEW op, NEW n \in Nat
  PROVE  /\ Buckets(PoolAfter(op, n)) /\ Inside(PoolAfter(op, n)) \subseteq Idle
         /\ \A z \in Sizes :
              /\ FromPool(op, n, z) \in 0..Len(pool[z])
              /\ PoolAfter(op, n)[z] = SubSeq(pool[z], 1, Len(pool[z]) - FromPool(op, n, z))
              /\ Len(PoolAfter(op, n)[z]) = Len(pool[z]) - FromPool(op, n, z)
              /\ ToSet(PoolAfter(op, n)[z]) \subseteq ToSet(pool[z])
<1> DEFINE rest == PoolAfter(op, n)
<1>0. Buckets(pool) /\ setting.poolMax \in Nat
  BY EngineAssumption DEF IndInv, Memory
<1>1. rest = [z \in Sizes |-> SubSeq(pool[z], 1, Len(pool[z]) - FromPool(op, n, z))]
  BY DEF PoolAfter
<1>2. ASSUME NEW z \in Sizes
      PROVE  /\ FromPool(op, n, z) \in 0..Len(pool[z])
             /\ rest[z] = SubSeq(pool[z], 1, Len(pool[z]) - FromPool(op, n, z))
             /\ rest[z] \in Seq(Buffers) /\ Len(rest[z]) = Len(pool[z]) - FromPool(op, n, z)
             /\ Len(rest[z]) <= Len(pool[z]) /\ IsInjective(rest[z])
             /\ ToSet(rest[z]) \subseteq ToSet(pool[z])
  <2>1. pool[z] \in Seq(Buffers) /\ Len(pool[z]) \in Nat /\ IsInjective(pool[z])
    BY <1>0, BucketFacts DEF Buckets
  <2>2. FromPool(op, n, z) \in 0..Len(pool[z])
    BY <1>0, FromPoolFacts
  <2>3. PICK k \in 0..Len(pool[z]) : k = Len(pool[z]) - FromPool(op, n, z)
    BY <2>1, <2>2
  <2>4. rest[z] = SubSeq(pool[z], 1, k)
    BY <1>1, <2>3
  <2>5. SubSeq(pool[z], 1, k) \in Seq(Buffers) /\ Len(SubSeq(pool[z], 1, k)) = k
    BY <2>1, Cut
  <2>6. /\ ToSet(SubSeq(pool[z], 1, k)) \subseteq ToSet(pool[z])
        /\ IsInjective(SubSeq(pool[z], 1, k))
    BY <2>1, CutDistinct
  <2> HIDE DEF rest
  <2>7. /\ rest[z] \in Seq(Buffers) /\ Len(rest[z]) = k /\ IsInjective(rest[z])
        /\ ToSet(rest[z]) \subseteq ToSet(pool[z])
    BY <2>4, <2>5, <2>6
  <2>8. k <= Len(pool[z])
    BY <2>1
  <2>9. rest[z] = SubSeq(pool[z], 1, Len(pool[z]) - FromPool(op, n, z))
    BY <2>3, <2>4
  <2> QED
    BY <2>2, <2>3, <2>7, <2>8, <2>9
<1>3. ASSUME NEW z \in Sizes
      PROVE  /\ Len(rest[z]) <= setting.poolMax
             /\ \A b \in ToSet(rest[z]) : SizeOf[b] = z
  <2>1. Len(pool[z]) <= setting.poolMax /\ \A b \in ToSet(pool[z]) : SizeOf[b] = z
    BY <1>0 DEF Buckets
  <2>2. Len(rest[z]) \in Nat /\ Len(pool[z]) \in Nat
    BY <1>0, <1>2, BucketFacts, LenProperties
  <2> HIDE DEF rest
  <2>3. PICK x \in Nat, y \in Nat, w \in Nat :
          x = Len(rest[z]) /\ y = Len(pool[z]) /\ w = setting.poolMax
    BY <1>0, <2>2
  <2>4. x <= y /\ y <= w
    BY <1>2, <2>1, <2>3
  <2>5. x <= w
    BY <2>4
  <2>6. \A b \in ToSet(rest[z]) : SizeOf[b] = z
    BY <1>2, <2>1
  <2> QED
    BY <2>3, <2>5, <2>6
<1> QED
  BY <1>1, <1>2, <1>3 DEF Buckets, Inside, Idle

\* Buffers returned to the buckets of their sizes.
LEMMA PutBuffers ==
  ASSUME Buckets(pool), setting.poolMax \in Nat, NEW bufs \in Seq(Buffers),
         IsInjective(bufs), ToSet(bufs) \cap Idle = {}
  PROVE  Buckets(Put(bufs)) /\ Inside(Put(bufs)) \subseteq Idle \cup ToSet(bufs)
<1> DEFINE Returned(z) == {i \in DOMAIN bufs : SizeOf[bufs[i]] = z}
           Room(z) == setting.poolMax - Len(pool[z])
           Kept(z) == IF Cardinality(Returned(z)) <= Room(z) THEN Cardinality(Returned(z))
                      ELSE Room(z)
           New(z) == [n \in 1..Kept(z) |-> bufs[Nth(Returned(z), n)]]
<1>1. Put(bufs) = [z \in Sizes |-> pool[z] \o New(z)]
  BY DEF Put
<1>2. Len(bufs) \in Nat /\ DOMAIN bufs = 1..Len(bufs) /\ \A i \in 1..Len(bufs) : bufs[i] \in Buffers
  BY LenProperties, ElementOfSeq
<1>3. ASSUME NEW z \in Sizes
      PROVE  /\ pool[z] \o New(z) \in Seq(Buffers) /\ Len(pool[z] \o New(z)) <= setting.poolMax
             /\ IsInjective(pool[z] \o New(z))
             /\ ToSet(pool[z] \o New(z)) \subseteq ToSet(pool[z]) \cup ToSet(bufs)
             /\ \A b \in ToSet(pool[z] \o New(z)) : SizeOf[b] = z
  <2>1. /\ pool[z] \in Seq(Buffers) /\ Len(pool[z]) \in Nat /\ IsInjective(pool[z])
        /\ Len(pool[z]) <= setting.poolMax /\ ToSet(pool[z]) \subseteq Idle
        /\ \A b \in ToSet(pool[z]) : SizeOf[b] = z
    BY BucketFacts DEF Buckets, Idle
  <2>2. Returned(z) \in SUBSET Nat /\ IsFiniteSet(Returned(z)) /\ Cardinality(Returned(z)) \in Nat
    <3>1. IsFiniteSet(1..Len(bufs)) /\ Returned(z) \in SUBSET (1..Len(bufs))
      BY <1>2, FS_Interval
    <3>2. Returned(z) \in SUBSET Nat
      BY <1>2
    <3> HIDE DEF Returned
    <3> QED
      BY <3>1, <3>2, FS_Subset, FS_CardinalityType
  <2>3. \A i \in Returned(z) : i \in 1..Len(bufs) /\ SizeOf[bufs[i]] = z
    BY <1>2
  <2> HIDE DEF Returned
  <2>4. PICK k \in 0..Cardinality(Returned(z)) : k = Kept(z) /\ Len(pool[z]) + k <= setting.poolMax
    BY <2>1, <2>2
  <2>5. New(z) = [n \in 1..k |-> bufs[Nth(Returned(z), n)]]
    BY <2>4
  <2> HIDE DEF New, Kept, Room
  <2>6. ASSUME NEW n \in 1..k
        PROVE  Nth(Returned(z), n) \in 1..Len(bufs) /\ SizeOf[bufs[Nth(Returned(z), n)]] = z
    <3>1. n \in 1..Cardinality(Returned(z))
      BY <2>2
    <3> QED
      BY <2>2, <2>3, <3>1, NthFacts
  <2>7. New(z) \in [1..k -> Buffers]
    BY <1>2, <2>5, <2>6
  <2>8. New(z) \in Seq(Buffers) /\ Len(New(z)) = k /\ DOMAIN New(z) = 1..k
    BY <2>2, <2>7
  <2>9. IsInjective(New(z))
    <3> SUFFICES ASSUME NEW i \in 1..k, NEW j \in 1..k, New(z)[i] = New(z)[j]
                 PROVE  i = j
      BY <2>8 DEF IsInjective
    <3>1. Nth(Returned(z), i) = Nth(Returned(z), j)
      BY <1>2, <2>5, <2>6 DEF IsInjective
    <3>2. i \in 1..Cardinality(Returned(z)) /\ j \in 1..Cardinality(Returned(z))
      BY <2>2
    <3> QED
      BY <2>2, <3>1, <3>2, NthFacts
  <2>10. ToSet(New(z)) \subseteq ToSet(bufs) /\ \A b \in ToSet(New(z)) : SizeOf[b] = z
    BY <1>2, <2>5, <2>6, <2>8 DEF ToSet
  <2>11. ToSet(pool[z]) \cap ToSet(New(z)) = {}
    BY <2>1, <2>10
  <2>12. /\ pool[z] \o New(z) \in Seq(Buffers) /\ Len(pool[z] \o New(z)) = Len(pool[z]) + Len(New(z))
         /\ ToSet(pool[z] \o New(z)) = ToSet(pool[z]) \cup ToSet(New(z))
         /\ IsInjective(pool[z] \o New(z))
    BY <2>1, <2>8, <2>9, <2>11, ConcatProperties, ElementsOfConcat, DistinctConcat
  <2> QED
    BY <2>1, <2>4, <2>8, <2>10, <2>12
<1> HIDE DEF New
<1> QED
  BY <1>1, <1>3 DEF Buckets, Inside, Idle

-----------------------------------------------------------------------------
(* Operations *)

\* The bindings of an operation and the number of buffers it needs.
LEMMA OperationFacts ==
  ASSUME NEW op \in Operations
  PROVE  /\ op.ins \in Seq(Bindings) /\ Len(op.ins) \in Nat /\ DOMAIN op.ins = 1..Len(op.ins)
         /\ op.outs \in Nat /\ op.sizes \in Seq(Sizes)
         /\ ByteBindings(op) \subseteq 1..Len(op.ins) /\ IsFiniteSet(ByteBindings(op))
         /\ Cardinality(ByteBindings(op)) \in Nat
         /\ Need(op) \in Nat /\ Need(op) = Cardinality(ByteBindings(op)) + op.outs
<1>1. op.ins \in Seq(Bindings) /\ op.outs \in Nat /\ op.sizes \in Seq(Sizes)
  BY DEF Operations
<1>2. Len(op.ins) \in Nat /\ DOMAIN op.ins = 1..Len(op.ins)
  BY <1>1, LenProperties
<1>3. ByteBindings(op) \subseteq 1..Len(op.ins)
  BY <1>2 DEF ByteBindings
<1>4. IsFiniteSet(1..Len(op.ins))
  BY <1>2, FS_Interval
<1>5. IsFiniteSet(ByteBindings(op)) /\ Cardinality(ByteBindings(op)) \in Nat
  BY <1>3, <1>4, FS_Subset, FS_CardinalityType
<1> QED
  BY <1>1, <1>2, <1>3, <1>5 DEF Need

\* The byte bindings of an operation are numbered from 1 without repetition.
LEMMA TempIndexFacts ==
  ASSUME NEW op \in Operations, NEW n \in ByteBindings(op)
  PROVE  /\ TempIndex(op, n) \in 1..Cardinality(ByteBindings(op))
         /\ \A m \in ByteBindings(op) : TempIndex(op, m) = TempIndex(op, n) => m = n
<1> DEFINE Upto(k) == {j \in ByteBindings(op) : j <= k}
<1>1. /\ ByteBindings(op) \subseteq Nat /\ IsFiniteSet(ByteBindings(op))
      /\ Cardinality(ByteBindings(op)) \in Nat
  BY OperationFacts
<1>2. ASSUME NEW k \in ByteBindings(op)
      PROVE  /\ IsFiniteSet(Upto(k)) /\ Cardinality(Upto(k)) \in Nat
             /\ Cardinality(Upto(k)) <= Cardinality(ByteBindings(op))
             /\ Upto(k) # {} /\ TempIndex(op, k) = Cardinality(Upto(k))
  <2>1. Upto(k) \in SUBSET ByteBindings(op) /\ k \in Upto(k)
    BY <1>1
  <2>2. TempIndex(op, k) = Cardinality(Upto(k))
    BY DEF TempIndex
  <2> HIDE DEF Upto
  <2> QED
    BY <1>1, <2>1, <2>2, FS_Subset, FS_CardinalityType
<1>3. ASSUME NEW k \in ByteBindings(op), NEW m \in ByteBindings(op), k < m
      PROVE  Cardinality(Upto(k)) # Cardinality(Upto(m))
  <2>1. Upto(k) \in SUBSET Upto(m) /\ m \in Upto(m) /\ m \notin Upto(k)
    <3>1. k \in Nat /\ m \in Nat /\ \A j \in ByteBindings(op) : j \in Nat
      BY <1>1
    <3>2. ASSUME NEW j \in ByteBindings(op), j <= k
          PROVE  j <= m
      BY <1>3, <3>1, <3>2
    <3>3. m <= m /\ ~(m <= k)
      BY <1>3, <3>1
    <3> QED
      BY <3>2, <3>3
  <2>2. IsFiniteSet(Upto(m))
    BY <1>2
  <2> HIDE DEF Upto
  <2> QED
    BY <2>1, <2>2, FS_Subset
<1> HIDE DEF Upto
<1>4. TempIndex(op, n) \in 1..Cardinality(ByteBindings(op))
  BY <1>1, <1>2, FS_EmptySet
<1>5. ASSUME NEW m \in ByteBindings(op), TempIndex(op, m) = TempIndex(op, n), m # n
      PROVE  FALSE
  <2>1. m < n \/ n < m
    BY <1>1, <1>5
  <2>2. Cardinality(Upto(m)) = Cardinality(Upto(n))
    BY <1>2, <1>5
  <2> QED
    BY <1>3, <2>1, <2>2
<1> QED
  BY <1>4, <1>5

\* What a caller hands over is a list of operations that is not empty.
LEMMA ProgramFacts ==
  ASSUME setting \in Settings, NEW p \in setting.programs
  PROVE  /\ IsProgram(p) /\ p \in Seq(Operations) /\ p # <<>>
         /\ Len(p) \in Nat \ {0} /\ DOMAIN p = 1..Len(p)
         /\ \A i \in 1..Len(p) : p[i] \in Operations /\ Len(p[i].sizes) = Need(p[i])
<1>1. IsProgram(p)
  BY EngineAssumption
<1>2. p \in Seq(Operations) /\ p # <<>> /\ \A i \in DOMAIN p : Len(p[i].sizes) = Need(p[i])
  BY <1>1 DEF IsProgram
<1> QED
  BY <1>1, <1>2, LenProperties, ElementOfSeq, EmptySeq

\* An upload has one operation, whose only buffer is the staging buffer.
LEMMA CopyFacts ==
  ASSUME setting \in Settings, NEW p \in setting.programs, NEW i \in 1..Len(p), p[i].copy
  PROVE  /\ Len(p) = 1 /\ i = 1 /\ p[1].copy
         /\ p[1].outs = 0 /\ ByteBindings(p[1]) = {1}
         /\ Cardinality(ByteBindings(p[1])) = 1 /\ Need(p[1]) = 1
         /\ \A n \in DOMAIN p[1].ins : p[1].ins[n].kind = "bytes"
<1>1. PICK t \in Tensors, z \in Sizes : p = Upload(t, z)
  BY ProgramFacts DEF IsProgram
<1>2. Len(p) = 1
  BY <1>1 DEF Upload
<1>3. p[1] = [Op(<<Bytes>>, {t}, 0, <<z>>, FALSE) EXCEPT !.copy = TRUE]
  BY <1>1 DEF Upload
<1>4. p[1].ins = <<Bytes>> /\ p[1].outs = 0 /\ p[1].copy
  BY <1>3 DEF Op
<1>5. ByteBindings(p[1]) = {1}
  BY <1>4 DEF ByteBindings, Bytes
<1>6. Cardinality(ByteBindings(p[1])) = 1
  BY <1>5, FS_Singleton
<1>7. \A n \in DOMAIN p[1].ins : p[1].ins[n].kind = "bytes"
  BY <1>4 DEF Bytes
<1> QED
  BY <1>2, <1>4, <1>5, <1>6, <1>7 DEF Need

-----------------------------------------------------------------------------
(* Bindings of the running call *)

\* Where the buffers of a bound operation lie.
LEMMA BoundFacts ==
  ASSUME IndInv, phase # "idle", NEW i \in 1..Len(metas)
  PROVE  /\ i \in 1..Len(program) /\ program[i] \in Operations
         /\ metas[i].tempStart \in Nat /\ metas[i].outStart \in Nat
         /\ Bound(i)
<1>1. /\ program \in setting.programs /\ metas \in Seq(Starts)
      /\ Len(metas) <= Len(program)
      /\ Bound(i)
  <2>1. Len(metas) \in Nat /\ Len(program) \in Nat
    BY ProgramFacts, LenProperties DEF IndInv, CallShape
  <2> QED
    BY <2>1 DEF IndInv, CallShape
<1>2. Len(metas) \in Nat /\ Len(program) \in Nat /\ metas[i] \in Starts
  BY <1>1, ProgramFacts, LenProperties, ElementOfSeq DEF IndInv
<1>3. i \in 1..Len(program)
  BY <1>1, <1>2
<1> QED
  BY <1>1, <1>2, <1>3, ProgramFacts DEF Starts, IndInv

\* A binding of a bound operation is a buffer of the call or a tensor.
LEMMA InputFacts ==
  ASSUME IndInv, phase # "idle", Len(metas) = Len(program),
         NEW i \in 1..Len(program), RefsInBounds(i), NEW n \in 1..Len(program[i].ins)
  PROVE  /\ InputPlace(i, n) \in Place
         /\ InputPlace(i, n) \in Buffers => InputPlace(i, n) \in CallBuffers
<1> DEFINE b == program[i].ins[n]
<1>1. /\ program[i] \in Operations /\ Bound(i) /\ i \in 1..Len(metas)
      /\ metas[i].tempStart \in Nat /\ metas[i].outStart \in Nat
  BY BoundFacts
<1>2. /\ b \in Bindings /\ DOMAIN program[i].ins = 1..Len(program[i].ins)
      /\ n \in DOMAIN program[i].ins
  BY <1>1, OperationFacts, ElementOfSeq
<1>3. temps \in Seq(Buffers) /\ outs \in Seq(Buffers) /\ Len(temps) \in Nat /\ Len(outs) \in Nat
  BY LenProperties DEF IndInv, Memory
<1>4. CASE b.kind = "bytes"
  <2> DEFINE k == metas[i].tempStart + TempIndex(program[i], n)
  <2>1. n \in ByteBindings(program[i])
    BY <1>2, <1>4 DEF ByteBindings
  <2>2. TempIndex(program[i], n) \in 1..Cardinality(ByteBindings(program[i]))
        /\ Cardinality(ByteBindings(program[i])) \in Nat
    BY <1>1, <2>1, TempIndexFacts, OperationFacts
  <2>3. k \in 1..Len(temps)
    BY <1>1, <1>3, <2>2 DEF Bound
  <2>4. InputPlace(i, n) = temps[k]
    BY <1>4 DEF InputPlace
  <2> HIDE DEF k
  <2>5. temps[k] \in Buffers /\ temps[k] \in ToSet(temps)
    BY <1>3, <2>3, Elements
  <2> QED
    BY <2>4, <2>5 DEF Place, CallBuffers
<1>5. CASE b.kind = "gpu"
  <2>1. b.tensor \in Tensors
    BY <1>2, <1>5 DEF Bindings
  <2>2. InputPlace(i, n) = b.tensor
    BY <1>5 DEF InputPlace
  <2> QED
    BY <2>1, <2>2, EngineAssumption DEF Place
<1>6. CASE b.kind = "ref"
  <2>1. b.op \in Nat /\ b.out \in Nat
    BY <1>2, <1>6 DEF Bindings
  <2>2. b.op + 1 < i
    BY <1>1, <1>2, <1>6 DEF Bound, RefsEarlier
  <2>3. b.op + 1 \in 1..Len(metas)
    BY <1>1, <2>1, <2>2
  <2>4. metas[b.op + 1].outStart \in Nat
    BY <2>3, BoundFacts
  <2>5. RefIndex(b) <= Len(outs)
    BY <1>2, <1>6 DEF RefsInBounds
  <2>6. RefIndex(b) \in 1..Len(outs)
    <3>1. PICK s \in Nat : s = metas[b.op + 1].outStart
      BY <2>4
    <3>2. RefIndex(b) = s + b.out + 1
      BY <3>1 DEF RefIndex
    <3> QED
      BY <1>3, <2>1, <2>5, <3>2
  <2>7. InputPlace(i, n) = outs[RefIndex(b)]
    BY <1>6 DEF InputPlace
  <2>8. outs[RefIndex(b)] \in Buffers /\ outs[RefIndex(b)] \in ToSet(outs)
    BY <1>3, <2>6, Elements
  <2> QED
    BY <2>7, <2>8 DEF Place, CallBuffers
<1> QED
  BY <1>2, <1>4, <1>5, <1>6 DEF Bindings

\* The outputs of an operation are a part of out_bufs.
LEMMA OutputFacts ==
  ASSUME IndInv, phase # "idle", NEW i \in 1..Len(metas)
  PROVE  LET own == SubSeq(outs, metas[i].outStart + 1, metas[i].outStart + program[i].outs)
         IN  /\ own \in Seq(Buffers) /\ Len(own) = program[i].outs
             /\ \A j \in 1..program[i].outs : own[j] = outs[metas[i].outStart + j]
             /\ \A j \in 1..program[i].outs : metas[i].outStart + j \in 1..Len(outs)
             /\ ToSet(own) \subseteq ToSet(outs)
<1> DEFINE a == metas[i].outStart + 1
           z == metas[i].outStart + program[i].outs
           own == SubSeq(outs, a, z)
<1>1. /\ program[i] \in Operations /\ Bound(i) /\ metas[i].outStart \in Nat
      /\ program[i].outs \in Nat
  BY BoundFacts, OperationFacts
<1>2. outs \in Seq(Buffers) /\ Len(outs) \in Nat
  BY LenProperties DEF IndInv, Memory
<1>3. z <= Len(outs) /\ a \in Int /\ z \in Int /\ a \in Nat \ {0}
  BY <1>1 DEF Bound
<1>4. a..z \subseteq 1..Len(outs)
  BY <1>2, <1>3
<1>5. /\ z - a + 1 = program[i].outs
      /\ (IF a <= z THEN z - a + 1 ELSE 0) = program[i].outs
      /\ \A j \in 1..program[i].outs : a + j - 1 = metas[i].outStart + j /\ a + j - 1 \in a..z
  <2>1. PICK s \in Nat, m \in Nat : s = metas[i].outStart /\ m = program[i].outs
    BY <1>1
  <2>2. a = s + 1 /\ z = s + m
    BY <2>1
  <2> HIDE DEF a, z
  <2>4. z - a + 1 = m /\ (IF a <= z THEN z - a + 1 ELSE 0) = m
    BY <2>2
  <2>3. \A j \in 1..m : a + j - 1 = s + j /\ a + j - 1 \in a..z
    <3> SUFFICES ASSUME NEW j \in 1..m
                 PROVE  a + j - 1 = s + j /\ a + j - 1 \in a..z
      OBVIOUS
    <3>1. s \in Nat /\ m \in Nat /\ j \in Nat /\ 1 <= j /\ j <= m
      BY <2>1
    <3>2. (s + 1) + j - 1 = s + j /\ (s + 1) + j - 1 \in s + 1..s + m
      BY <3>1
    <3> QED
      BY <2>2, <3>2
  <2> QED
    BY <2>1, <2>3, <2>4
<1> HIDE DEF a, z
<1>6. \A k \in a..z : outs[k] \in Buffers
  BY <1>2, <1>4, ElementOfSeq
<1>7. own \in Seq(Buffers) /\ Len(own) = IF a <= z THEN z - a + 1 ELSE 0
  BY <1>3, <1>6, SubSeqProperties
<1>8. \A j \in 1..z - a + 1 : own[j] = outs[a + j - 1]
  BY <1>3, <1>6, SubSeqProperties
<1> HIDE DEF own
<1>9. own \in Seq(Buffers) /\ Len(own) = program[i].outs
  BY <1>5, <1>7
<1>10. \A j \in 1..program[i].outs :
          own[j] = outs[metas[i].outStart + j] /\ metas[i].outStart + j \in 1..Len(outs)
  BY <1>4, <1>5, <1>8
<1>11. ToSet(own) \subseteq ToSet(outs)
  <2> SUFFICES ASSUME NEW x \in ToSet(own)
               PROVE  x \in ToSet(outs)
    OBVIOUS
  <2>1. PICK j \in 1..program[i].outs : x = own[j]
    BY <1>9, Elements
  <2>2. PICK l \in 1..Len(outs) : x = outs[l]
    BY <1>10, <2>1
  <2> QED
    BY <1>2, <2>2, Elements
<1> QED
  BY <1>9, <1>10, <1>11 DEF own, a, z

\* The binding list of an operation.
LEMMA PlacesFacts ==
  ASSUME IndInv, phase # "idle", Len(metas) = Len(program),
         NEW i \in 1..Len(program), RefsInBounds(i)
  PROVE  /\ Places(i) \in Seq(Place)
         /\ Len(Places(i)) = Len(program[i].ins) + program[i].outs
         /\ \A n \in 1..Len(program[i].ins) : Places(i)[n] = InputPlace(i, n)
         /\ \A j \in 1..program[i].outs :
               Places(i)[Len(program[i].ins) + j] = outs[metas[i].outStart + j]
         /\ ToSet(Places(i)) \cap Buffers \subseteq CallBuffers
<1> DEFINE ins == [n \in 1..Len(program[i].ins) |-> InputPlace(i, n)]
           own == SubSeq(outs, metas[i].outStart + 1, metas[i].outStart + program[i].outs)
           k == Len(program[i].ins)
           m == program[i].outs
<1>1. i \in 1..Len(metas) /\ program[i] \in Operations /\ k \in Nat /\ m \in Nat
  BY BoundFacts, OperationFacts
<1>2. Places(i) = ins \o own
  BY DEF Places
<1>3. \A n \in 1..k : /\ InputPlace(i, n) \in Place
                      /\ InputPlace(i, n) \in Buffers => InputPlace(i, n) \in CallBuffers
  BY InputFacts
<1>4. ins \in [1..k -> Place]
  BY <1>3
<1>5. ins \in Seq(Place) /\ Len(ins) = k /\ \A n \in 1..k : ins[n] = InputPlace(i, n)
  BY <1>1, <1>4
<1>6. /\ own \in Seq(Buffers) /\ Len(own) = m /\ ToSet(own) \subseteq ToSet(outs)
      /\ \A j \in 1..m : own[j] = outs[metas[i].outStart + j]
  BY <1>1, OutputFacts
<1> HIDE DEF ins, own, k, m
<1>7. own \in Seq(Place)
  BY <1>6, SeqMonotonic DEF Place
<1>8. /\ ins \o own \in Seq(Place) /\ Len(ins \o own) = k + m
      /\ \A j \in 1..k + m : (ins \o own)[j] = IF j <= k THEN ins[j] ELSE own[j - k]
  <2>1. /\ ins \o own \in Seq(Place) /\ Len(ins \o own) = Len(ins) + Len(own)
        /\ \A j \in 1..Len(ins) + Len(own) :
              (ins \o own)[j] = IF j <= Len(ins) THEN ins[j] ELSE own[j - Len(ins)]
    BY <1>5, <1>7, ConcatProperties
  <2> QED
    BY <1>5, <1>6, <2>1
<1>9. \A n \in 1..k : (ins \o own)[n] = InputPlace(i, n)
  BY <1>1, <1>5, <1>8
<1>10. \A j \in 1..m : (ins \o own)[k + j] = outs[metas[i].outStart + j]
  <2> SUFFICES ASSUME NEW j \in 1..m
               PROVE  (ins \o own)[k + j] = outs[metas[i].outStart + j]
    OBVIOUS
  <2>1. PICK x \in 1..k + m : x = k + j /\ ~(x <= k) /\ x - k = j
    BY <1>1
  <2>2. (ins \o own)[x] = own[j]
    BY <1>8, <2>1
  <2> QED
    BY <1>6, <2>1, <2>2
<1>11. ToSet(ins \o own) = ToSet(ins) \cup ToSet(own)
  BY <1>5, <1>7, ElementsOfConcat
<1>12. ToSet(ins) \cap Buffers \subseteq CallBuffers
  BY <1>3, <1>5, Elements
<1>13. ToSet(own) \subseteq CallBuffers
  BY <1>6 DEF CallBuffers
<1> QED
  BY <1>2, <1>8, <1>9, <1>10, <1>11, <1>12, <1>13 DEF k, m

-----------------------------------------------------------------------------
(* Steps *)

\* An engine with nothing recorded, pooled or submitted.
LEMMA InitIsInv == Init => IndInv
<1> SUFFICES ASSUME Init
             PROVE  IndInv
  OBVIOUS
<1>1. CallShape
  BY DEF Init, CallShape, Phases
<1>2. ToSet(<<>>) = {} /\ IsInjective(<<>>) /\ <<>> \in Seq(Buffers) /\ Len(<<>>) = 0
  BY DEF ToSet, IsInjective
<1>3. setting \in Settings /\ setting.poolMax \in Nat /\ PoolSets <= setting.maxSets
      /\ setting.maxSets \in Nat /\ PoolSets \in Nat
  BY EngineAssumption DEF Init
<1>4. Memory
  <2>1. pool = [z \in Sizes |-> <<>>]
    BY DEF Init
  <2>2. Buckets(pool)
    BY <1>2, <1>3, <2>1 DEF Buckets
  <2>3. Idle = {}
    BY <1>2, <2>1 DEF Idle
  <2> QED
    BY <1>2, <2>2, <2>3 DEF Init, Memory, CallBuffers
<1>5. Recording
  <2>1. sets \in [1..PoolSets -> Seq(Place)]
    BY DEF Init
  <2>2. sets \in Seq(Seq(Place)) /\ Len(sets) = PoolSets
    BY <1>3, <2>1 DEF Init
  <2>3. recorded \in Seq(Dispatches)
    BY DEF Init
  <2> QED
    BY <1>3, <2>2, <2>3 DEF Init, Recording
<1>6. Queue
  BY DEF Init, Queue
<1> QED
  BY <1>1, <1>3, <1>4, <1>5, <1>6 DEF Init, IndInv, None

\* What depends on the bindings of the call only.
LEMMA SameCall ==
  ASSUME UNCHANGED <<program, metas, temps, outs>>
  PROVE  /\ CallBuffers' = CallBuffers
         /\ \A i : Bound(i) <=> Bound(i)'
         /\ \A i : RefsInBounds(i) <=> RefsInBounds(i)'
         /\ \A i : Places(i) = Places(i)'
<1>1. CallBuffers' = CallBuffers
  BY DEF CallBuffers
<1>2. ASSUME NEW i
      PROVE  (Bound(i) <=> Bound(i)') /\ (RefsInBounds(i) <=> RefsInBounds(i)')
             /\ Places(i)' = Places(i)
  <2>1. Bound(i) <=> Bound(i)'
    BY DEF Bound, RefsEarlier
  <2>2. RefsInBounds(i) <=> RefsInBounds(i)'
    BY DEF RefsInBounds, RefIndex
  <2>3. \A n : InputPlace(i, n)' = InputPlace(i, n)
    BY DEF InputPlace, RefIndex
  <2>4. Places(i)' = Places(i)
    BY <2>3 DEF Places
  <2> QED
    BY <2>1, <2>2, <2>4
<1> QED
  BY <1>1, <1>2

\* Dispatches keep pointing at the bindings when sets are only added.
LEMMA SamePoints ==
  ASSUME UNCHANGED <<program, metas, temps, outs>>, cursor \in Nat, cursor' \in Nat,
         cursor <= cursor', \A d \in 1..cursor : sets'[d] = sets[d],
         NEW r, Points(r), r \in Seq(Dispatches)
  PROVE  Points(r)'
<1>1. ASSUME NEW i \in 1..Len(r)
      PROVE  /\ r[i].set \in 0..cursor'
             /\ RefsInBounds(i)' /\ PlacesOf(r[i])' = Places(i)'
  <2>1. r[i].set \in 0..cursor /\ RefsInBounds(i) /\ PlacesOf(r[i]) = Places(i)
    BY DEF Points
  <2>2. r[i].set \in 0..cursor'
    BY <2>1
  <2>3. PlacesOf(r[i])' = PlacesOf(r[i])
    <3>1. CASE r[i].set = 0
      BY <3>1 DEF PlacesOf
    <3>2. CASE r[i].set # 0
      <4>1. r[i].set \in 1..cursor
        BY <2>1, <3>2
      <4> QED
        BY <3>2, <4>1 DEF PlacesOf
    <3> QED
      BY <3>1, <3>2
  <2> QED
    BY <2>1, <2>2, <2>3, SameCall
<1> QED
  BY <1>1 DEF Points

\* A new call: nothing is bound yet, and while synced there is no GPU work.
LEMMA CallStep ==
  ASSUME IndInv, Call, UNCHANGED setting
  PROVE  IndInv'
<1>1. phase = "idle" /\ phase' = "bind" /\ program' \in setting.programs
      /\ UNCHANGED <<metas, temps, outs, pool, held, cmd, recorded, fence, gpu, cursor, synced>>
  BY DEF Call
<1>2. CallShape'
  <2>1. metas' = <<>> /\ metas' \in Seq(Starts) /\ Len(metas') = 0
    BY <1>1 DEF IndInv, CallShape
  <2>2. Len(program') \in Nat \ {0}
    BY <1>1, ProgramFacts DEF IndInv
  <2> QED
    BY <1>1, <2>1, <2>2 DEF CallShape, Phases
<1>3. Memory'
  BY <1>1 DEF IndInv, Memory, Buckets, Idle, CallBuffers
<1>4. Recording'
  <2>1. sets \in Seq(Seq(Place)) /\ Len(sets) \in Nat /\ DOMAIN sets = 1..Len(sets)
    BY LenProperties DEF IndInv, Recording
  <2>2. sets' \in Seq(Seq(Place)) /\ Len(sets') = Len(sets)
    <3>1. CASE gpu = <<>>
      <4>1. sets' = [d \in 1..Len(sets) |-> <<>>]
        BY <2>1, <3>1 DEF Call
      <4>2. sets' \in [1..Len(sets) -> Seq(Place)]
        BY <4>1
      <4> QED
        BY <2>1, <4>1, <4>2
    <3> QED
      BY <2>1, <3>1 DEF Call
  <2> QED
    BY <1>1, <2>2 DEF IndInv, Recording
<1>5. Queue'
  BY <1>1 DEF IndInv, Queue
<1> QED
  BY <1>2, <1>3, <1>4, <1>5 DEF IndInv, Call, None

\* A call that ends, with what it takes for the rest of the state.
LEMMA CallEnds ==
  ASSUME IndInv, phase' = "idle", program' = <<>>, metas' = <<>>, temps' = <<>>, outs' = <<>>,
         answer'.result \in {"none", "ok", "error"},
         Buckets(pool'), Inside(pool') \subseteq Idle \cup CallBuffers,
         UNCHANGED <<setting, held, recorded, fence>>,
         cmd' \in {"initial", "recording", "executable", "pending", "invalid"},
         sets' \in Seq(Seq(Place)), Len(sets') <= setting.maxSets, cursor' \in 0..Len(sets'),
         synced' \in BOOLEAN,
         synced' => gpu' = <<>> /\ cmd' # "pending" /\ ~fence
  PROVE  IndInv'
<1>1. CallShape'
  BY DEF CallShape, Phases
<1>2. ToSet(<<>>) = {} /\ IsInjective(<<>>) /\ <<>> \in Seq(Buffers)
  BY DEF ToSet, IsInjective
<1>3. Memory'
  <2>1. Buckets(pool)'
    BY DEF Buckets
  <2>2. Idle' \subseteq Idle \cup CallBuffers
    BY DEF Idle, Inside
  <2> QED
    BY <1>2, <2>1, <2>2 DEF IndInv, Memory, CallBuffers
<1>4. Recording'
  BY DEF IndInv, Recording
<1>5. Queue'
  BY DEF IndInv, Queue
<1> QED
  BY <1>1, <1>3, <1>4, <1>5 DEF IndInv

\* What the errors have in common.
LEMMA FailEnds ==
  ASSUME IndInv, Fail, phase # "idle",
         Buckets(pool'), Inside(pool') \subseteq Idle,
         UNCHANGED <<setting, held, recorded, fence>>,
         cmd' \in {"initial", "recording", "executable", "pending", "invalid"},
         sets' \in Seq(Seq(Place)), Len(sets') <= setting.maxSets, cursor' \in 0..Len(sets'),
         synced' \in BOOLEAN,
         synced' => synced /\ phase # "wait" /\ cmd' # "pending"
  PROVE  IndInv'
<1>1. answer'.result = "error"
  BY DEF Fail, Error
<1>2. synced' => gpu' = <<>> /\ ~fence
  <2> SUFFICES ASSUME synced'
               PROVE  gpu' = <<>> /\ ~fence
    OBVIOUS
  <2>1. gpu = <<>> /\ ~fence
    BY DEF IndInv, Queue
  <2> QED
    BY <2>1 DEF Fail
<1> QED
  BY <1>1, <1>2, CallEnds DEF Fail

\* One buffer of an operation: of its size's bucket, or a new one.
LEMMA TakenOne ==
  ASSUME IndInv, NEW op \in Operations, Len(op.sizes) = Need(op), CanTake(op),
         NEW k \in 1..Need(op)
  PROVE  \E z \in Sizes, w \in Nat, f \in Nat :
           /\ z = op.sizes[k] /\ w = Wants(op, k, z)
           /\ f = FromPool(op, Need(op), z) /\ f <= Len(pool[z])
           /\ 1 <= w /\ w <= Wants(op, Need(op), z)
           /\ \/ w <= f /\ Taken(op)[k] = pool[z][Len(pool[z]) + 1 - w]
              \/ /\ f < w /\ w - f \in 1..Cardinality(Unused(z))
                 /\ Taken(op)[k] = Nth(Unused(z), w - f)
<1> DEFINE n == Need(op)
<1>1. n \in Nat /\ k \in 1..n /\ k \in Nat /\ op.sizes \in Seq(Sizes)
  BY OperationFacts
<1>2. PICK z \in Sizes : z = op.sizes[k]
  BY <1>1, ElementOfSeq
<1>3. Buckets(pool) /\ Len(pool[z]) \in Nat
  BY BucketFacts DEF IndInv, Memory
<1>4. Wants(op, n, z) \in Nat /\ Wants(op, k, z) \in 1..Wants(op, n, z)
  BY <1>1, <1>2, WantsFacts
<1>5. PICK w \in Nat, all \in Nat, free \in Nat, len \in Nat :
        /\ w = Wants(op, k, z) /\ all = Wants(op, n, z) /\ len = Len(pool[z])
        /\ free = Cardinality(Unused(z))
  <2>1. IsFiniteSet(Buffers) /\ Unused(z) \in SUBSET Buffers
    BY EngineAssumption DEF Unused, OfSize
  <2>2. Cardinality(Unused(z)) \in Nat
    BY <2>1, FS_Subset, FS_CardinalityType
  <2> QED
    BY <1>3, <1>4, <2>2
<1>6. PICK f \in 0..len, g \in 0..len :
        /\ f = FromPool(op, n, z) /\ g = FromPool(op, k, z)
        /\ f <= all /\ g <= w
        /\ op.copy => f = 0 /\ g = 0
        /\ ~op.copy /\ all <= len => f = all
        /\ ~op.copy /\ len < all => f = len
        /\ ~op.copy /\ w <= len => g = w
        /\ ~op.copy /\ len < w => g = len
  BY <1>1, <1>3, <1>5, FromPoolFacts
<1>7. all - f <= free
  BY <1>5, <1>6 DEF CanTake
<1>8. Taken(op)[k] = IF w <= g THEN pool[z][len + 1 - w] ELSE Nth(Unused(z), w - g)
  BY <1>1, <1>2, <1>5, <1>6 DEF Taken
<1>9. 1 <= w /\ w <= all
  BY <1>4, <1>5
<1>10. (w <= g <=> w <= f) /\ (f < w => g = f /\ w - f \in 1..free)
  BY <1>6, <1>7, <1>9
<1>11. \/ w <= f /\ Taken(op)[k] = pool[z][len + 1 - w]
       \/ f < w /\ w - f \in 1..free /\ Taken(op)[k] = Nth(Unused(z), w - f)
  BY <1>8, <1>10
<1>12. /\ z = op.sizes[k] /\ w = Wants(op, k, z)
       /\ f = FromPool(op, Need(op), z) /\ f \in Nat /\ f <= Len(pool[z])
       /\ 1 <= w /\ w <= Wants(op, Need(op), z)
       /\ \/ w <= f /\ Taken(op)[k] = pool[z][Len(pool[z]) + 1 - w]
          \/ /\ f < w /\ w - f \in 1..Cardinality(Unused(z))
             /\ Taken(op)[k] = Nth(Unused(z), w - f)
  BY <1>2, <1>5, <1>6, <1>9, <1>11
<1> QED
  BY <1>12

\* The buffers of an operation are of the sizes it asks for, distinct, and no longer, or
\* never were, in the pool.
LEMMA TakenBuffers ==
  ASSUME IndInv, NEW op \in Operations, Len(op.sizes) = Need(op), CanTake(op)
  PROVE  /\ Taken(op) \in Seq(Buffers) /\ Len(Taken(op)) = Need(op)
         /\ \A k \in 1..Need(op) : SizeOf[Taken(op)[k]] = op.sizes[k]
         /\ IsInjective(Taken(op))
         /\ ToSet(Taken(op)) \cap (Inside(PoolAfter(op, Need(op))) \cup held \cup CallBuffers) = {}
<1> DEFINE n == Need(op)
           got == Taken(op)
           rest == PoolAfter(op, n)
<1>1. n \in Nat
  BY OperationFacts
<1>2. DOMAIN got = 1..n
  BY DEF Taken
<1>3. Buckets(pool) /\ \A z \in Sizes : ToSet(pool[z]) \subseteq Idle
  BY DEF IndInv, Memory, Idle
<1>4. ASSUME NEW z \in Sizes
      PROVE  /\ pool[z] \in Seq(Buffers) /\ Len(pool[z]) \in Nat /\ IsInjective(pool[z])
             /\ DOMAIN pool[z] = 1..Len(pool[z])
             /\ \A b \in ToSet(pool[z]) : SizeOf[b] = z /\ b \in Buffers
             /\ Unused(z) \in SUBSET Nat /\ IsFiniteSet(Unused(z))
             /\ \A b \in Unused(z) : SizeOf[b] = z /\ b \in Buffers /\ b \notin Live
  <2>1. IsFiniteSet(Unused(z)) /\ Unused(z) \subseteq Buffers
    <3>1. Unused(z) \in SUBSET Buffers
      BY DEF Unused, OfSize
    <3> QED
      BY <3>1, EngineAssumption, FS_Subset
  <2>2. pool[z] \in Seq(Buffers) /\ Len(pool[z]) \in Nat /\ IsInjective(pool[z])
    BY <1>3, BucketFacts DEF Buckets
  <2>3. \A b \in ToSet(pool[z]) : SizeOf[b] = z /\ b \in Buffers
    BY <1>3, <2>2, Elements DEF Buckets
  <2>4. \A b \in Unused(z) : SizeOf[b] = z /\ b \notin Live
    BY DEF Unused, OfSize
  <2> QED
    BY <2>1, <2>2, <2>3, <2>4, EngineAssumption, LenProperties
<1> HIDE DEF got, rest, n
<1>10. ASSUME NEW k \in 1..n, NEW z \in Sizes, z = op.sizes[k]
       PROVE  \E w \in Nat, f \in Nat :
                /\ w = Wants(op, k, z) /\ 1 <= w /\ f = FromPool(op, n, z) /\ f <= Len(pool[z])
                /\ \/ w <= f /\ got[k] = pool[z][Len(pool[z]) + 1 - w]
                   \/ f < w /\ w - f \in 1..Cardinality(Unused(z)) /\ got[k] = Nth(Unused(z), w - f)
  <2>1. PICK y \in Sizes, w \in Nat, f \in Nat :
          /\ y = op.sizes[k] /\ w = Wants(op, k, y)
          /\ f = FromPool(op, n, y) /\ f <= Len(pool[y]) /\ 1 <= w
          /\ \/ w <= f /\ got[k] = pool[y][Len(pool[y]) + 1 - w]
             \/ f < w /\ w - f \in 1..Cardinality(Unused(y)) /\ got[k] = Nth(Unused(y), w - f)
    BY TakenOne DEF n, got
  <2> QED
    BY <1>10, <2>1
<1>5. ASSUME NEW k \in 1..n
      PROVE  /\ got[k] \in Buffers /\ SizeOf[got[k]] = op.sizes[k] /\ op.sizes[k] \in Sizes
             /\ got[k] \in ToSet(pool[op.sizes[k]]) \/ got[k] \notin Live
             /\ got[k] \notin Inside(rest)
  <2>1. PICK z \in Sizes, w \in Nat, f \in Nat :
           /\ z = op.sizes[k] /\ f = FromPool(op, n, z) /\ f <= Len(pool[z]) /\ 1 <= w
           /\ \/ w <= f /\ got[k] = pool[z][Len(pool[z]) + 1 - w]
              \/ f < w /\ w - f \in 1..Cardinality(Unused(z)) /\ got[k] = Nth(Unused(z), w - f)
    BY TakenOne DEF n, got
  <2>2. /\ Buckets(rest) /\ Inside(rest) \subseteq Idle /\ OfSize(Inside(rest), z) = ToSet(rest[z])
        /\ rest[z] = SubSeq(pool[z], 1, Len(pool[z]) - f)
    BY <1>1, <1>3, <2>1, PoolLeft, BucketFacts DEF rest
  <2>3. CASE w <= f /\ got[k] = pool[z][Len(pool[z]) + 1 - w]
    <3>1. PICK j \in 1..Len(pool[z]) : j = Len(pool[z]) + 1 - w /\ ~(j <= Len(pool[z]) - f)
      <4>1. PICK len \in Nat : len = Len(pool[z])
        BY <1>4
      <4>2. f <= len /\ 1 <= w /\ w <= f
        BY <2>1, <2>3, <4>1
      <4>3. len + 1 - w \in 1..len /\ ~(len + 1 - w <= len - f)
        BY <4>2
      <4> QED
        BY <4>1, <4>3
    <3>2. got[k] = pool[z][j] /\ got[k] \in ToSet(pool[z])
      BY <1>4, <2>3, <3>1 DEF ToSet
    <3>3. got[k] \notin ToSet(rest[z])
      <4>1. PICK c \in 0..Len(pool[z]) : c = Len(pool[z]) - f
        BY <1>4, <2>1
      <4>2. SubSeq(pool[z], 1, c) \in Seq(Buffers) /\ Len(SubSeq(pool[z], 1, c)) = c
        BY <1>4, Cut
      <4>3. \A i \in 1..c : SubSeq(pool[z], 1, c)[i] = pool[z][i] /\ i \in 1..Len(pool[z]) /\ i # j
        <5>1. SubSeq(pool[z], 1, c) = [i \in 1..c |-> pool[z][i]]
          BY <1>4 DEF SubSeq
        <5> QED
          BY <1>4, <3>1, <4>1, <5>1
      <4> QED
        <5> SUFFICES ASSUME got[k] \in ToSet(rest[z])
                     PROVE  FALSE
          OBVIOUS
        <5>1. PICK s \in Seq(Buffers) : s = SubSeq(pool[z], 1, c) /\ s = rest[z] /\ Len(s) = c
          BY <2>2, <4>1, <4>2
        <5>2. PICK i \in 1..c : got[k] = s[i]
          <6>1. got[k] \in ToSet(s)
            BY <5>1
          <6>2. DOMAIN s = 1..c
            BY <5>1, LenProperties
          <6> QED
            BY <6>1, <6>2 DEF ToSet
        <5>3. pool[z][i] = pool[z][j] /\ i \in 1..Len(pool[z]) /\ i # j
          BY <3>2, <4>3, <5>1, <5>2
        <5>4. DOMAIN pool[z] = 1..Len(pool[z]) /\ IsInjective(pool[z])
          BY <1>4
        <5> QED
          BY <3>1, <5>3, <5>4 DEF IsInjective
    <3> QED
      BY <1>4, <2>1, <2>2, <3>2, <3>3 DEF OfSize
  <2>4. CASE w - f \in 1..Cardinality(Unused(z)) /\ got[k] = Nth(Unused(z), w - f)
    <3>1. got[k] \in Unused(z)
      BY <1>4, <2>4, NthFacts
    <3> QED
      BY <1>4, <2>1, <2>2, <3>1 DEF Live
  <2> QED
    BY <2>1, <2>3, <2>4
<1>6. ASSUME NEW i \in 1..n, NEW j \in 1..n, got[i] = got[j]
      PROVE  i = j
  <2>1. PICK z \in Sizes : z = op.sizes[i] /\ z = op.sizes[j]
    BY <1>5, <1>6
  <2>2. PICK f \in Nat, v \in Nat, w \in Nat :
          /\ f <= Len(pool[z]) /\ v = Wants(op, i, z) /\ w = Wants(op, j, z) /\ 1 <= v /\ 1 <= w
          /\ \/ v <= f /\ got[i] = pool[z][Len(pool[z]) + 1 - v]
             \/ f < v /\ v - f \in 1..Cardinality(Unused(z)) /\ got[i] = Nth(Unused(z), v - f)
          /\ \/ w <= f /\ got[j] = pool[z][Len(pool[z]) + 1 - w]
             \/ f < w /\ w - f \in 1..Cardinality(Unused(z)) /\ got[j] = Nth(Unused(z), w - f)
    <3>1. PICK v \in Nat, f \in Nat :
            /\ v = Wants(op, i, z) /\ 1 <= v /\ f = FromPool(op, n, z) /\ f <= Len(pool[z])
            /\ \/ v <= f /\ got[i] = pool[z][Len(pool[z]) + 1 - v]
               \/ f < v /\ v - f \in 1..Cardinality(Unused(z)) /\ got[i] = Nth(Unused(z), v - f)
      BY <1>10, <2>1
    <3>2. PICK w \in Nat, e \in Nat :
            /\ w = Wants(op, j, z) /\ 1 <= w /\ e = FromPool(op, n, z)
            /\ \/ w <= e /\ got[j] = pool[z][Len(pool[z]) + 1 - w]
               \/ e < w /\ w - e \in 1..Cardinality(Unused(z)) /\ got[j] = Nth(Unused(z), w - e)
      BY <1>10, <2>1
    <3>3. e = f
      BY <3>1, <3>2
    <3> QED
      BY <3>1, <3>2, <3>3
  <2>3. v = w
    <3>1. CASE v <= f /\ w <= f
      <4>1. PICK a \in 1..Len(pool[z]), b \in 1..Len(pool[z]) :
              a = Len(pool[z]) + 1 - v /\ b = Len(pool[z]) + 1 - w
        BY <1>4, <2>2, <3>1
      <4>2. pool[z][a] = pool[z][b]
        BY <1>6, <2>2, <3>1, <4>1
      <4>3. a = b
        BY <1>4, <4>2 DEF IsInjective
      <4> QED
        BY <1>4, <2>2, <4>1, <4>3
    <3>2. CASE f < v /\ f < w
      <4>1. PICK a \in 1..Cardinality(Unused(z)), b \in 1..Cardinality(Unused(z)) :
              a = v - f /\ b = w - f
        BY <2>2, <3>2
      <4>2. Nth(Unused(z), a) = Nth(Unused(z), b)
        BY <1>6, <2>2, <3>2, <4>1
      <4>3. a = b
        BY <1>4, <4>2, NthFacts
      <4> QED
        BY <2>2, <4>1, <4>3
    <3>3. ASSUME NEW a \in 1..Len(pool[z]), NEW b \in 1..Cardinality(Unused(z)),
                 pool[z][a] = Nth(Unused(z), b)
          PROVE  FALSE
      <4>1. pool[z][a] \in Live
        BY <1>3, <1>4 DEF Live, ToSet
      <4>2. Nth(Unused(z), b) \in Unused(z)
        BY <1>4, NthFacts
      <4> QED
        BY <1>4, <3>3, <4>1, <4>2
    <3>4. CASE v <= f /\ f < w
      <4>1. Len(pool[z]) + 1 - v \in 1..Len(pool[z])
        BY <1>4, <2>2, <3>4
      <4> QED
        BY <1>6, <2>2, <3>3, <3>4, <4>1
    <3>5. CASE f < v /\ w <= f
      <4>1. Len(pool[z]) + 1 - w \in 1..Len(pool[z])
        BY <1>4, <2>2, <3>5
      <4> QED
        BY <1>6, <2>2, <3>3, <3>5, <4>1
    <3> QED
      BY <2>2, <3>1, <3>2, <3>4, <3>5
  <2> QED
    BY <1>1, <2>1, <2>2, <2>3, WantsFacts
<1>7. got \in Seq(Buffers) /\ Len(got) = n
  <2>1. got = [k \in 1..n |-> got[k]]
    BY DEF got, n, Taken
  <2>2. got \in [1..n -> Buffers]
    BY <1>5, <2>1
  <2> QED
    BY <1>1, <2>2
<1>8. IsInjective(got)
  BY <1>2, <1>6 DEF IsInjective
<1>9. ToSet(got) \cap (Inside(rest) \cup held \cup CallBuffers) = {}
  <2> SUFFICES ASSUME NEW k \in 1..n
               PROVE  got[k] \notin Inside(rest) /\ got[k] \notin held \cup CallBuffers
    BY <1>2 DEF ToSet
  <2>1. got[k] \in Idle \/ got[k] \notin Live
    BY <1>3, <1>5
  <2>2. Idle \cap (held \cup CallBuffers) = {}
    BY DEF IndInv, Memory
  <2> QED
    BY <1>5, <2>1, <2>2 DEF Live
<1> QED
  BY <1>5, <1>7, <1>8, <1>9 DEF got, n, rest

\* What binding one operation adds.
LEMMA BindTakes ==
  ASSUME IndInv, Bind, UNCHANGED setting
  PROVE  LET op == program[Len(metas) + 1]
             n == Cardinality(ByteBindings(op))
         IN  /\ op \in Operations /\ Len(metas) \in Nat /\ Len(metas) < Len(program)
             /\ Len(op.sizes) = Need(op) /\ CanTake(op) /\ pool' = PoolAfter(op, Need(op))
             /\ program \in setting.programs /\ phase = "bind" /\ phase' \in {"begin", "bind"}
             /\ \E a \in Seq(Buffers), b \in Seq(Buffers) :
                  /\ Len(a) = n /\ Len(b) = op.outs
                  /\ temps' = temps \o a /\ outs' = outs \o b
                  /\ a = SubSeq(Taken(op), 1, n)
                  /\ IsInjective(a) /\ IsInjective(b) /\ ToSet(a) \cap ToSet(b) = {}
                  /\ ToSet(Taken(op)) = ToSet(a) \cup ToSet(b)
                  /\ (ToSet(a) \cup ToSet(b)) \cap (Inside(pool') \cup held \cup CallBuffers) = {}
<1> DEFINE op == program[Len(metas) + 1]
           n == Cardinality(ByteBindings(op))
           got == Taken(op)
           a == SubSeq(got, 1, n)
           b == SubSeq(got, n + 1, Need(op))
<1>1. /\ phase = "bind" /\ CanTake(op) /\ temps' = temps \o a /\ outs' = outs \o b
      /\ pool' = PoolAfter(op, Need(op))
      /\ phase' = IF Len(metas) + 1 = Len(program) THEN "begin" ELSE "bind"
  BY DEF Bind
<1>2. program \in setting.programs /\ Len(metas) < Len(program) /\ metas \in Seq(Starts)
  BY <1>1 DEF IndInv, CallShape
<1>3. Len(metas) \in Nat /\ Len(program) \in Nat
  BY <1>2, LenProperties, ProgramFacts DEF IndInv
<1>4. op \in Operations /\ Len(op.sizes) = Need(op)
  <2>1. Len(metas) + 1 \in 1..Len(program)
    BY <1>2, <1>3
  <2> QED
    BY <1>2, <2>1, ProgramFacts DEF IndInv
<1>5. n \in Nat /\ op.outs \in Nat /\ Need(op) = n + op.outs
  BY <1>4, OperationFacts
<1>6. /\ got \in Seq(Buffers) /\ Len(got) = Need(op) /\ IsInjective(got)
      /\ ToSet(got) \cap (Inside(pool') \cup held \cup CallBuffers) = {}
  BY <1>1, <1>4, TakenBuffers
<1> HIDE DEF op, n, got
<1>7. n \in 0..Len(got) /\ Len(got) - n = op.outs /\ b = SubSeq(got, n + 1, Len(got))
  BY <1>5, <1>6
<1>8. a \in Seq(Buffers) /\ Len(a) = n /\ b \in Seq(Buffers) /\ Len(b) = op.outs
  BY <1>6, <1>7, Cut
<1>9. /\ ToSet(got) = ToSet(a) \cup ToSet(b)
      /\ IsInjective(a) /\ IsInjective(b) /\ ToSet(a) \cap ToSet(b) = {}
  BY <1>6, <1>7, CutDistinct
<1> HIDE DEF a, b
<1>10. a = SubSeq(Taken(op), 1, n) /\ ToSet(Taken(op)) = ToSet(a) \cup ToSet(b)
  BY <1>9 DEF a, got
<1>11. /\ op \in Operations /\ Len(metas) \in Nat /\ Len(metas) < Len(program)
       /\ Len(op.sizes) = Need(op) /\ CanTake(op) /\ pool' = PoolAfter(op, Need(op))
       /\ program \in setting.programs /\ phase = "bind" /\ phase' \in {"begin", "bind"}
       /\ Len(a) = n /\ Len(b) = op.outs
       /\ temps' = temps \o a /\ outs' = outs \o b
       /\ a = SubSeq(Taken(op), 1, n) /\ ToSet(Taken(op)) = ToSet(a) \cup ToSet(b)
       /\ IsInjective(a) /\ IsInjective(b) /\ ToSet(a) \cap ToSet(b) = {}
       /\ (ToSet(a) \cup ToSet(b)) \cap (Inside(pool') \cup held \cup CallBuffers) = {}
  BY <1>1, <1>2, <1>3, <1>4, <1>6, <1>8, <1>9, <1>10
<1> QED
  BY <1>8, <1>11 DEF op, n

\* The operations bound so far, and one more behind them.
LEMMA BindShape ==
  ASSUME IndInv, Bind, UNCHANGED setting
  PROVE  CallShape'
<1>0. PICK m \in Nat : m = Len(metas) + 1
  <2>1. Len(metas) \in Nat
    BY BindTakes
  <2> QED
    BY <2>1
<1> DEFINE op == program[m]
           n == Cardinality(ByteBindings(op))
           start == [tempStart |-> Len(temps), outStart |-> Len(outs)]
<1>1. /\ op \in Operations /\ Len(metas) \in Nat /\ Len(metas) < Len(program)
      /\ program \in setting.programs /\ phase = "bind" /\ phase' \in {"begin", "bind"}
  BY <1>0, BindTakes
<1>2. PICK a \in Seq(Buffers), b \in Seq(Buffers) :
        Len(a) = n /\ Len(b) = op.outs /\ temps' = temps \o a /\ outs' = outs \o b
  BY <1>0, BindTakes
<1>3. /\ RefsEarlier(m) /\ metas' = Append(metas, start) /\ program' = program
      /\ phase' = IF m = Len(program) THEN "begin" ELSE "bind"
  BY <1>0 DEF Bind
<1>4. /\ metas \in Seq(Starts) /\ \A i \in 1..Len(metas) : Bound(i)
      /\ temps \in Seq(Buffers) /\ outs \in Seq(Buffers)
      /\ Len(temps) \in Nat /\ Len(outs) \in Nat
  BY <1>1, LenProperties DEF IndInv, CallShape, Memory
<1>5. n \in Nat /\ op.outs \in Nat
  BY <1>1, OperationFacts
<1>6. Len(temps') = Len(temps) + n /\ Len(outs') = Len(outs) + op.outs
  <2>1. Len(temps \o a) = Len(temps) + Len(a) /\ Len(outs \o b) = Len(outs) + Len(b)
    BY <1>2, <1>4, ConcatProperties
  <2> QED
    BY <1>2, <2>1
<1>7. start \in Starts
  BY <1>4 DEF Starts
<1>8. /\ metas' \in Seq(Starts) /\ Len(metas') = m
      /\ \A i \in 1..Len(metas) : metas'[i] = metas[i]
      /\ metas'[m] = start
  BY <1>0, <1>3, <1>4, <1>7, AppendProperties
<1>9. ASSUME NEW i \in 1..Len(metas)
      PROVE  /\ program[i] \in Operations /\ Bound(i)
             /\ metas[i].tempStart \in Nat /\ metas[i].outStart \in Nat
             /\ Cardinality(ByteBindings(program[i])) \in Nat /\ program[i].outs \in Nat
  <2>1. phase # "idle"
    BY <1>1
  <2> QED
    BY <2>1, BoundFacts, OperationFacts
<1>10. m \in 1..Len(program) /\ Len(program) \in Nat
  BY <1>0, <1>1, ProgramFacts DEF IndInv
<1>11. \A i \in 1..m : RefsEarlier(i)'
  <2>1. ASSUME NEW i \in 1..m
        PROVE  RefsEarlier(i)
    <3>1. i \in 1..Len(metas) \/ i = m
      BY <1>0, <1>1
    <3> QED
      BY <1>3, <1>9, <3>1 DEF Bound
  <2> QED
    BY <1>3, <2>1 DEF RefsEarlier
<1> HIDE DEF op, n, start
<1>12. ASSUME NEW i \in 1..Len(metas)
       PROVE  Bound(i)'
  <2>1. /\ metas'[i] = metas[i] /\ i \in 1..m
        /\ \A k \in 1..i - 1 : metas'[k] = metas[k]
    BY <1>0, <1>1, <1>8
  <2>2. /\ metas'[i].tempStart + Cardinality(ByteBindings(program'[i])) <= Len(temps')
        /\ metas'[i].outStart + program'[i].outs <= Len(outs')
    <3>1. /\ metas[i].tempStart + Cardinality(ByteBindings(program[i])) <= Len(temps)
          /\ metas[i].outStart + program[i].outs <= Len(outs)
      BY <1>9 DEF Bound
    <3>2. PICK x \in Nat, y \in Nat :
            /\ x = metas[i].tempStart + Cardinality(ByteBindings(program[i]))
            /\ y = metas[i].outStart + program[i].outs
      BY <1>9
    <3>3. x <= Len(temps') /\ y <= Len(outs')
      BY <1>4, <1>5, <1>6, <3>1, <3>2
    <3> QED
      BY <1>3, <2>1, <3>2, <3>3
  <2>3. \A k \in 1..i - 1 :
          /\ metas'[k].tempStart + Cardinality(ByteBindings(program'[k])) <= metas'[i].tempStart
          /\ metas'[k].outStart + program'[k].outs <= metas'[i].outStart
    BY <1>3, <1>9, <2>1 DEF Bound
  <2> QED
    BY <1>11, <2>1, <2>2, <2>3 DEF Bound
<1>13. Bound(m)'
  <2>1. metas'[m].tempStart = Len(temps) /\ metas'[m].outStart = Len(outs)
    BY <1>8 DEF start
  <2>2. program'[m] = op
    BY <1>3 DEF op
  <2>3. ASSUME NEW k \in 1..m - 1
        PROVE  /\ metas'[k].tempStart + Cardinality(ByteBindings(program'[k])) <= metas'[m].tempStart
               /\ metas'[k].outStart + program'[k].outs <= metas'[m].outStart
    <3>1. k \in 1..Len(metas)
      BY <1>0, <1>1
    <3> QED
      BY <1>3, <1>8, <1>9, <2>1, <3>1 DEF Bound
  <2>4. RefsEarlier(m)'
    BY <1>11, <1>10
  <2>5. /\ metas'[m].tempStart + Cardinality(ByteBindings(program'[m])) <= Len(temps')
        /\ metas'[m].outStart + program'[m].outs <= Len(outs')
    BY <1>4, <1>5, <1>6, <2>1, <2>2 DEF n
  <2> QED
    BY <2>3, <2>4, <2>5 DEF Bound
<1>14. \A i \in 1..Len(metas') : i \in 1..Len(metas) \/ i = m
  BY <1>0, <1>1, <1>8
<1>15. phase' # "idle" /\ (IF phase' = "bind" THEN Len(metas') < Len(program') ELSE Len(metas') = Len(program'))
  BY <1>1, <1>3, <1>8, <1>10
<1> QED
  BY <1>1, <1>3, <1>8, <1>12, <1>13, <1>14, <1>15 DEF CallShape, Phases

\* Phase 1 for one operation: what it draws is nobody else's.
LEMMA BindStep ==
  ASSUME IndInv, Bind, UNCHANGED setting
  PROVE  IndInv'
<1>1. PICK a \in Seq(Buffers), b \in Seq(Buffers) :
        /\ temps' = temps \o a /\ outs' = outs \o b
        /\ IsInjective(a) /\ IsInjective(b) /\ ToSet(a) \cap ToSet(b) = {}
        /\ (ToSet(a) \cup ToSet(b)) \cap (Inside(pool') \cup held \cup CallBuffers) = {}
  BY BindTakes
<1>2. /\ phase = "bind" /\ phase' \in {"begin", "bind"}
      /\ UNCHANGED <<held, cmd, recorded, fence, gpu, sets, cursor, answer, synced>>
  BY BindTakes DEF Bind
<1>3. Buckets(pool') /\ Inside(pool') \subseteq Idle
  <2>1. PICK op \in Operations, n \in Nat : pool' = PoolAfter(op, n)
    BY BindTakes, OperationFacts
  <2> QED
    BY <2>1, PoolLeft
<1>4. temps \in Seq(Buffers) /\ outs \in Seq(Buffers)
  BY DEF IndInv, Memory
<1>5. /\ temps' \in Seq(Buffers) /\ ToSet(temps') = ToSet(temps) \cup ToSet(a)
      /\ outs' \in Seq(Buffers) /\ ToSet(outs') = ToSet(outs) \cup ToSet(b)
  BY <1>1, <1>4, ConcatProperties, ElementsOfConcat
<1>6. IsInjective(temps') /\ IsInjective(outs')
  <2>1. ToSet(temps) \cap ToSet(a) = {} /\ ToSet(outs) \cap ToSet(b) = {}
    BY <1>1 DEF CallBuffers
  <2>2. IsInjective(temps) /\ IsInjective(outs)
    BY DEF IndInv, Memory
  <2> QED
    BY <1>1, <1>4, <2>1, <2>2, DistinctConcat
<1>7. Memory'
  <2>1. Buckets(pool)'
    BY <1>3 DEF Buckets
  <2>2. Idle' = Inside(pool')
    BY DEF Idle, Inside
  <2>3. /\ Idle' \cap (held' \cup CallBuffers') = {}
        /\ ToSet(temps') \cap (held' \cup ToSet(outs')) = {}
        /\ ToSet(outs') \cap held' = {}
    BY <1>1, <1>2, <1>3, <1>5, <2>2 DEF IndInv, Memory, CallBuffers
  <2> QED
    BY <1>2, <1>5, <1>6, <2>1, <2>3 DEF IndInv, Memory
<1>8. Recording'
  BY <1>2 DEF IndInv, Recording
<1>9. Queue'
  BY <1>2 DEF IndInv, Queue
<1> QED
  BY <1>2, <1>7, <1>8, <1>9, BindShape DEF IndInv

\* What was drawn before the allocation failed is dropped.
LEMMA BindFailsStep ==
  ASSUME IndInv, BindFails, UNCHANGED setting
  PROVE  IndInv'
<1>1. /\ phase = "bind" /\ Fail
      /\ UNCHANGED <<held, cmd, recorded, fence, sets, cursor, data, synced>>
  BY DEF BindFails
<1>2. Buckets(pool') /\ Inside(pool') \subseteq Idle
  <2>1. PICK n \in Nat : pool' = PoolAfter(program[Len(metas) + 1], n)
    BY DEF BindFails
  <2> QED
    BY <2>1, PoolLeft
<1>3. cmd' # "pending" \/ ~synced
  BY <1>1 DEF IndInv, Queue
<1> QED
  BY <1>1, <1>2, <1>3, FailEnds DEF IndInv, Recording, Queue

\* Steps that leave the bindings, the pool and the GPU alone.
LEMMA SameMemory ==
  ASSUME IndInv, UNCHANGED <<setting, program, metas, temps, outs, pool, held>>
  PROVE  Memory'
<1>1. CallBuffers' = CallBuffers /\ Idle' = Idle
  BY SameCall DEF Idle
<1> QED
  BY <1>1 DEF IndInv, Memory, Buckets

\* Steps between two phases that come after binding.
LEMMA SameShape ==
  ASSUME IndInv, UNCHANGED <<setting, program, metas, temps, outs>>,
         phase \in {"begin", "record", "submit", "wait"},
         phase' \in {"begin", "record", "submit", "wait", "read"}
  PROVE  CallShape'
<1>1. /\ program \in setting.programs /\ metas \in Seq(Starts) /\ Len(metas) = Len(program)
      /\ \A i \in 1..Len(metas) : Bound(i)
  BY DEF IndInv, CallShape
<1>2. \A i \in 1..Len(metas) : Bound(i)'
  BY <1>1, SameCall
<1> QED
  BY <1>1, <1>2 DEF CallShape, Phases

\* While synced the command buffer is not with the GPU when it is reset.
LEMMA BeginStep ==
  ASSUME IndInv, Begin, UNCHANGED setting
  PROVE  IndInv'
<1>1. /\ phase = "begin" /\ phase' = "record" /\ cmd' = "recording" /\ recorded' = <<>>
      /\ gpu' \in IF cmd = "pending" THEN {gpu, <<>>} ELSE {gpu}
      /\ UNCHANGED <<program, metas, temps, outs, pool, held, fence, sets, cursor, data, answer, synced>>
  BY DEF Begin
<1>2. Recording'
  <2>1. Len(recorded') < Len(program') /\ Points(recorded)'
    BY <1>1, ProgramFacts DEF IndInv, CallShape, Points
  <2> QED
    BY <1>1, <2>1 DEF IndInv, Recording
<1>3. Queue'
  BY <1>1 DEF IndInv, Queue
<1> QED
  BY <1>1, <1>2, <1>3, SameMemory, SameShape DEF IndInv

\* The reset of the command buffer fails.
LEMMA BeginFailsStep ==
  ASSUME IndInv, BeginFails, UNCHANGED setting
  PROVE  IndInv'
<1>1. /\ phase = "begin" /\ Fail
      /\ UNCHANGED <<pool, held, cmd, recorded, fence, sets, cursor, data, synced>>
  BY DEF BeginFails
<1>2. cmd' # "pending" \/ ~synced
  BY <1>1 DEF IndInv, Queue
<1>3. Buckets(pool') /\ Inside(pool') \subseteq Idle
  BY <1>1 DEF IndInv, Memory, Buckets, Idle, Inside
<1> QED
  BY <1>1, <1>2, <1>3, FailEnds DEF IndInv, Recording, Queue

\* One more descriptor pool.
LEMMA GrownSets ==
  ASSUME IndInv, CanGrow
  PROVE  /\ SetsAfterGrowth \in Seq(Seq(Place)) /\ Len(SetsAfterGrowth) <= setting.maxSets
         /\ Len(sets) <= Len(SetsAfterGrowth)
         /\ cursor + 1 \in 1..Len(SetsAfterGrowth) /\ Len(SetsAfterGrowth) \in Nat
         /\ Len(SetsAfterGrowth) = IF cursor < Len(sets) THEN Len(sets) ELSE Len(sets) + PoolSets
         /\ \A d \in 1..cursor : SetsAfterGrowth[d] = sets[d]
<1>1. /\ sets \in Seq(Seq(Place)) /\ Len(sets) \in Nat /\ Len(sets) <= setting.maxSets
      /\ cursor \in 0..Len(sets) /\ PoolSets \in Nat \ {0} /\ setting.maxSets \in Nat
  BY EngineAssumption, LenProperties DEF IndInv, Recording
<1>2. CASE cursor < Len(sets)
  BY <1>1, <1>2 DEF SetsAfterGrowth
<1>3. CASE ~(cursor < Len(sets))
  <2> DEFINE new == [d \in 1..PoolSets |-> <<>>]
  <2>1. new \in Seq(Seq(Place)) /\ Len(new) = PoolSets
    <3>1. new \in [1..PoolSets -> Seq(Place)]
      OBVIOUS
    <3> QED
      BY <1>1, <3>1
  <2>2. SetsAfterGrowth = sets \o new
    BY <1>3 DEF SetsAfterGrowth
  <2> HIDE DEF new
  <2>3. /\ sets \o new \in Seq(Seq(Place)) /\ Len(sets \o new) = Len(sets) + Len(new)
        /\ \A d \in 1..Len(sets) : (sets \o new)[d] = sets[d]
    <3>1. PICK S : S = Seq(Place)
      OBVIOUS
    <3>2. sets \in Seq(S) /\ new \in Seq(S)
      BY <1>1, <2>1, <3>1
    <3> QED
      BY <3>1, <3>2, ConcatProperties
  <2>4. cursor = Len(sets) /\ Len(sets) + PoolSets <= setting.maxSets
    BY <1>1, <1>3 DEF CanGrow
  <2> QED
    BY <1>1, <2>1, <2>2, <2>3, <2>4
<1> QED
  BY <1>2, <1>3

\* One more dispatch, recorded with the set d (0 for a copy).
LEMMA RecordedOne ==
  ASSUME IndInv, phase = "record", UNCHANGED <<program, metas, temps, outs>>,
         RefsInBounds(NextOp), NEW d \in Nat, NEW places \in Seq(Place),
         cursor' \in Nat, cursor <= cursor', \A e \in 1..cursor : sets'[e] = sets[e],
         d = 0 \/ (cursor < d /\ d <= cursor' /\ sets'[d] = Places(NextOp)),
         d = 0 => places = Places(NextOp),
         recorded' = Append(recorded, [set |-> d, places |-> places]),
         phase' = AfterRecord
  PROVE  /\ recorded' \in Seq(Dispatches) /\ Points(recorded)'
         /\ phase' \in {"record", "submit"}
         /\ Len(recorded') = Len(recorded) + 1
         /\ phase' = "record" => Len(recorded') < Len(program)
         /\ phase' = "submit" => Len(recorded') = Len(program)
<1> DEFINE new == [set |-> d, places |-> places]
<1>1. /\ recorded \in Seq(Dispatches) /\ Len(recorded) < Len(program) /\ Points(recorded)
      /\ Len(recorded) \in Nat /\ cursor \in Nat
  BY LenProperties DEF IndInv, Recording
<1>2. Len(program) \in Nat
  BY ProgramFacts DEF IndInv, CallShape
<1>3. new \in Dispatches
  BY DEF Dispatches
<1>4. PICK m \in Nat : m = Len(recorded) + 1
  BY <1>1
<1>5. /\ recorded' \in Seq(Dispatches) /\ Len(recorded') = m
      /\ \A i \in 1..Len(recorded) : recorded'[i] = recorded[i]
      /\ recorded'[m] = new
  BY <1>1, <1>3, <1>4, AppendProperties
<1>6. PICK r : r = recorded'
  OBVIOUS
<1>7. PICK old : old = recorded
  OBVIOUS
<1>8. old \in Seq(Dispatches) /\ Points(old)
  BY <1>1, <1>7
<1>9. Points(old)'
  BY <1>1, <1>8, SamePoints
<1>10. NextOp = m
  BY <1>4 DEF NextOp
<1>11. PlacesOf(new)' = Places(m)
  BY <1>10 DEF PlacesOf
<1>12. RefsInBounds(m)' /\ Places(m)' = Places(m)
  BY <1>10, SameCall
<1> HIDE DEF new
<1>13. ASSUME NEW i \in 1..m
       PROVE  /\ r[i].set \in 0..cursor'
              /\ RefsInBounds(i)' /\ PlacesOf(r[i])' = Places(i)'
              /\ r[i].set # 0 => \A k \in 1..m : r[k].set = r[i].set => k = i
  <2>1. ASSUME NEW k \in 1..Len(recorded)
        PROVE  /\ r[k] = old[k] /\ old[k].set \in 0..cursor
               /\ RefsInBounds(k)' /\ PlacesOf(old[k])' = Places(k)'
               /\ old[k].set # 0 => \A l \in 1..Len(recorded) : old[l].set = old[k].set => l = k
    BY <1>1, <1>5, <1>6, <1>7, <1>9 DEF Points
  <2>2. r[m] = new /\ (new.set = 0 \/ new.set \in cursor + 1..cursor')
    BY <1>1, <1>5, <1>6 DEF new
  <2>3. \A k \in 1..m : k = m \/ k \in 1..Len(recorded)
    BY <1>1, <1>4
  <2>4. CASE i = m
    <3>1. new.set # 0 => \A k \in 1..Len(recorded) : r[k].set # new.set
      BY <1>1, <2>1, <2>2
    <3> QED
      BY <1>1, <1>11, <1>12, <2>2, <2>3, <2>4, <3>1
  <2>5. CASE i \in 1..Len(recorded)
    <3>0. old[i].set \in 0..cursor
      BY <2>1, <2>5
    <3>1. old[i].set # 0 => new.set # old[i].set
      BY <1>1, <2>2, <3>0
    <3>2. old[i].set \in 0..cursor'
      BY <1>1, <3>0
    <3> QED
      BY <2>1, <2>2, <2>3, <2>5, <3>1, <3>2
  <2> QED
    BY <2>3, <2>4, <2>5
<1>14. Points(r)'
  BY <1>5, <1>6, <1>13 DEF Points
<1>15. Points(recorded)'
  BY <1>6, <1>14 DEF Points
<1>16. phase' = IF m = Len(program) THEN "submit" ELSE "record"
  BY <1>10 DEF AfterRecord
<1> QED
  BY <1>1, <1>2, <1>4, <1>5, <1>15, <1>16

\* A dispatch takes a set behind the cursor, which no earlier dispatch has.
LEMMA RecordStep ==
  ASSUME IndInv, Record, UNCHANGED setting
  PROVE  IndInv'
<1>1. /\ phase = "record" /\ ~program[NextOp].copy /\ RefsInBounds(NextOp) /\ CanGrow
      /\ sets' = [SetsAfterGrowth EXCEPT ![cursor + 1] = Places(NextOp)]
      /\ cursor' = CursorAfter
      /\ recorded' = Append(recorded, [set |-> cursor + 1, places |-> <<>>])
      /\ phase' = AfterRecord
      /\ UNCHANGED <<program, metas, temps, outs, pool, held, cmd, fence, gpu, data, answer, synced>>
  BY DEF Record
<1>2. /\ cursor \in Nat /\ cursor' = cursor + 1 /\ recorded \in Seq(Dispatches)
      /\ Len(recorded) < Len(program) /\ Len(recorded) \in Nat
  BY <1>1, LenProperties DEF IndInv, Recording, CursorAfter
<1>3. Len(metas) = Len(program) /\ Len(program) \in Nat
  BY <1>1, ProgramFacts DEF IndInv, CallShape
<1>4. Places(NextOp) \in Seq(Place)
  <2>1. NextOp \in 1..Len(program)
    BY <1>2, <1>3 DEF NextOp
  <2> QED
    BY <1>1, <1>3, <2>1, PlacesFacts
<1>5. /\ sets' \in Seq(Seq(Place)) /\ Len(sets') = Len(SetsAfterGrowth)
      /\ sets'[cursor + 1] = Places(NextOp)
      /\ \A e \in 1..cursor : sets'[e] = sets[e]
  <2>1. /\ SetsAfterGrowth \in Seq(Seq(Place)) /\ cursor + 1 \in 1..Len(SetsAfterGrowth)
        /\ \A e \in 1..cursor : SetsAfterGrowth[e] = sets[e]
    BY <1>1, GrownSets
  <2>2. PICK S : S = Seq(Place)
    OBVIOUS
  <2>3. PICK c \in Nat : c = cursor + 1
    BY <1>2
  <2>4. PICK g : g = SetsAfterGrowth
    OBVIOUS
  <2>5. PICK places : places = Places(NextOp)
    OBVIOUS
  <2>6. g \in Seq(S) /\ c \in 1..Len(g) /\ places \in S /\ sets' = [g EXCEPT ![c] = places]
    BY <1>1, <1>4, <2>1, <2>2, <2>3, <2>4, <2>5
  <2>7. sets' \in Seq(S) /\ Len(sets') = Len(g) /\ sets'[c] = places
        /\ \A e \in 1..Len(g) : e # c => sets'[e] = g[e]
    BY <2>6, ExceptSeq
  <2>8. \A e \in 1..cursor : e \in 1..Len(g) /\ e # c
    BY <1>2, <2>3, <2>6
  <2> QED
    BY <2>1, <2>2, <2>3, <2>4, <2>5, <2>7, <2>8
<1>6. Recording'
  <2>1. /\ recorded' \in Seq(Dispatches) /\ Points(recorded)'
        /\ phase' \in {"record", "submit"}
        /\ phase' = "record" => Len(recorded') < Len(program)
        /\ phase' = "submit" => Len(recorded') = Len(program)
    <3>1. PICK d \in Nat : d = cursor + 1
      BY <1>2
    <3>2. /\ cursor' \in Nat /\ cursor <= cursor' /\ cursor < d /\ d <= cursor' /\ d # 0
          /\ sets'[d] = Places(NextOp)
          /\ recorded' = Append(recorded, [set |-> d, places |-> <<>>])
      BY <1>1, <1>2, <1>5, <3>1
    <3>3. PICK places \in Seq(Place) : places = <<>>
      BY EmptySeq
    <3>4. recorded' = Append(recorded, [set |-> d, places |-> places])
      BY <3>2, <3>3
    <3> QED
      BY <1>1, <1>5, <3>2, <3>4, RecordedOne
  <2>2. /\ Len(sets') <= setting.maxSets /\ cursor' \in 0..Len(sets')
    <3>1. /\ Len(SetsAfterGrowth) <= setting.maxSets /\ cursor + 1 \in 1..Len(SetsAfterGrowth)
          /\ Len(SetsAfterGrowth) \in Nat
      BY <1>1, GrownSets
    <3> QED
      BY <1>2, <1>5, <3>1
  <2> QED
    BY <1>1, <1>5, <2>1, <2>2 DEF IndInv, Recording
<1>7. Queue'
  BY <1>1, <1>6 DEF IndInv, Queue, AfterRecord
<1>8. phase' \in {"record", "submit"}
  BY <1>1 DEF AfterRecord
<1> QED
  BY <1>1, <1>6, <1>7, <1>8, SameMemory, SameShape DEF IndInv

\* A copy takes no set.
LEMMA RecordCopyStep ==
  ASSUME IndInv, RecordCopy, UNCHANGED setting
  PROVE  IndInv'
<1>1. /\ phase = "record" /\ program[NextOp].copy
      /\ recorded' = Append(recorded, [set |-> 0, places |-> Places(NextOp)])
      /\ phase' = AfterRecord
      /\ UNCHANGED <<program, metas, temps, outs, pool, held, cmd, fence, gpu, sets, cursor,
                     data, answer, synced>>
  BY DEF RecordCopy
<1>2. /\ cursor \in Nat /\ Len(recorded) < Len(program) /\ Len(recorded) \in Nat
      /\ Len(metas) = Len(program) /\ Len(program) \in Nat /\ program \in setting.programs
  BY <1>1, ProgramFacts, LenProperties DEF IndInv, Recording, CallShape
<1>3. NextOp \in 1..Len(program)
  BY <1>2 DEF NextOp
<1>4. RefsInBounds(NextOp)
  <2>1. NextOp = 1 /\ \A n \in DOMAIN program[1].ins : program[1].ins[n].kind = "bytes"
    BY <1>1, <1>2, <1>3, CopyFacts DEF IndInv
  <2> QED
    BY <2>1 DEF RefsInBounds
<1>5. Places(NextOp) \in Seq(Place)
  BY <1>1, <1>2, <1>3, <1>4, PlacesFacts
<1>6. Recording'
  <2>1. /\ recorded' \in Seq(Dispatches) /\ Points(recorded)'
        /\ phase' \in {"record", "submit"}
        /\ phase' = "record" => Len(recorded') < Len(program)
        /\ phase' = "submit" => Len(recorded') = Len(program)
    <3>1. PICK d \in Nat : d = 0
      OBVIOUS
    <3>2. PICK places \in Seq(Place) : places = Places(NextOp)
      BY <1>5
    <3>3. /\ recorded' = Append(recorded, [set |-> d, places |-> places])
          /\ cursor' \in Nat /\ cursor <= cursor' /\ \A e \in 1..cursor : sets'[e] = sets[e]
      BY <1>1, <1>2, <3>1, <3>2
    <3> QED
      BY <1>1, <1>4, <3>1, <3>2, <3>3, RecordedOne
  <2> QED
    BY <1>1, <2>1 DEF IndInv, Recording
<1>7. Queue'
  BY <1>1 DEF IndInv, Queue, AfterRecord
<1>8. phase' \in {"record", "submit"}
  BY <1>1 DEF AfterRecord
<1> QED
  BY <1>1, <1>6, <1>7, <1>8, SameMemory, SameShape DEF IndInv

\* The failed call may leave the cursor and the sets moved on.
LEMMA RecordFailsStep ==
  ASSUME IndInv, RecordFails, UNCHANGED setting
  PROVE  IndInv'
<1>1. /\ phase = "record" /\ Fail
      /\ UNCHANGED <<pool, held, cmd, recorded, fence, data, synced>>
      /\ \/ UNCHANGED <<sets, cursor>>
         \/ CanGrow /\ sets' = SetsAfterGrowth /\ cursor' = cursor + 1
  BY DEF RecordFails
<1>2. cmd' # "pending" \/ ~synced
  BY <1>1 DEF IndInv, Queue
<1>3. Buckets(pool') /\ Inside(pool') \subseteq Idle
  BY <1>1 DEF IndInv, Memory, Buckets, Idle, Inside
<1>4. sets' \in Seq(Seq(Place)) /\ Len(sets') <= setting.maxSets /\ cursor' \in 0..Len(sets')
  <2>1. CASE UNCHANGED <<sets, cursor>>
    BY <2>1 DEF IndInv, Recording
  <2>2. CASE CanGrow /\ sets' = SetsAfterGrowth /\ cursor' = cursor + 1
    <3>1. cursor \in Nat
      BY LenProperties DEF IndInv, Recording
    <3> QED
      BY <2>2, <3>1, GrownSets
  <2> QED
    BY <1>1, <2>1, <2>2
<1> QED
  BY <1>1, <1>2, <1>3, <1>4, FailEnds DEF IndInv, Recording, Queue

\* What was recorded becomes the only work of the GPU.
LEMMA SubmitStep ==
  ASSUME IndInv, Submit, UNCHANGED setting
  PROVE  IndInv'
<1>1. /\ phase = "submit" /\ phase' = "wait" /\ cmd' = "pending" /\ recorded' = <<>>
      /\ gpu' = Append(gpu, Job)
      /\ UNCHANGED <<program, metas, temps, outs, pool, held, fence, sets, cursor,
                     data, answer, synced>>
  BY DEF Submit
<1>2. Recording'
  BY <1>1 DEF IndInv, Recording
<1>3. Queue'
  <2> SUFFICES ASSUME synced
               PROVE  ~fence /\ gpu' # <<>> /\ gpu' = <<gpu'[1]>> /\ OfCall(gpu[1])'
    BY <1>1 DEF IndInv, Queue
  <2>1. gpu = <<>> /\ ~fence
    BY <1>1 DEF IndInv, Queue
  <2>2. gpu' = <<Job>>
    BY <1>1, <2>1
  <2>3. gpu'[1] = Job
    BY <2>2
  <2>4. recorded \in Seq(Dispatches) /\ Len(recorded) = Len(program) /\ Points(recorded)
    BY <1>1 DEF IndInv, Recording
  <2>5. PICK r : r = recorded
    OBVIOUS
  <2>6. Points(r)'
    <3>1. cursor \in Nat
      BY LenProperties DEF IndInv, Recording
    <3> QED
      BY <1>1, <2>4, <2>5, <3>1, SamePoints
  <2>7. /\ gpu'[1].ops = program' /\ gpu'[1].live /\ gpu'[1].recorded = r
        /\ gpu'[1].done = {}
    BY <1>1, <2>3, <2>5 DEF Job
  <2>8. Points(gpu[1].recorded)'
    BY <2>6, <2>7 DEF Points
  <2>9. OfCall(gpu[1])'
    BY <1>1, <2>4, <2>5, <2>7, <2>8 DEF OfCall
  <2> QED
    BY <2>1, <2>2, <2>3, <2>9
<1> QED
  BY <1>1, <1>2, <1>3, SameMemory, SameShape DEF IndInv

\* Nothing reached the GPU.
LEMMA SubmitFailsStep ==
  ASSUME IndInv, SubmitFails, UNCHANGED setting
  PROVE  IndInv'
<1>1. /\ phase = "submit" /\ Fail /\ cmd' \in {"invalid", "executable"}
      /\ UNCHANGED <<pool, held, recorded, fence, sets, cursor, data, synced>>
  BY DEF SubmitFails
<1>2. Buckets(pool') /\ Inside(pool') \subseteq Idle
  BY <1>1 DEF IndInv, Memory, Buckets, Idle, Inside
<1> QED
  BY <1>1, <1>2, FailEnds DEF IndInv, Recording, Queue

\* The fence was signalled, so the GPU has no more work.
LEMMA WaitStep ==
  ASSUME IndInv, Wait, UNCHANGED setting
  PROVE  IndInv'
<1>1. /\ phase = "wait" /\ fence /\ fence' = FALSE /\ phase' = "read"
      /\ cursor' = IF program[1].copy THEN cursor ELSE 0
      /\ UNCHANGED <<program, metas, temps, outs, pool, held, cmd, recorded, gpu, sets, data,
                     answer, synced>>
  BY DEF Wait
<1>2. Recording'
  <2>1. cursor' \in 0..Len(sets')
    BY <1>1, LenProperties DEF IndInv, Recording
  <2> QED
    BY <1>1, <2>1 DEF IndInv, Recording
<1>3. Queue'
  BY <1>1 DEF IndInv, Queue
<1> QED
  BY <1>1, <1>2, <1>3, SameMemory, SameShape DEF IndInv

\* From here on synced is false, and little is known of the GPU.
LEMMA WaitFailsStep ==
  ASSUME IndInv, WaitFails, UNCHANGED setting
  PROVE  IndInv'
<1>1. /\ phase = "wait" /\ Fail /\ synced' = FALSE
      /\ UNCHANGED <<pool, held, cmd, recorded, fence, sets, cursor, data>>
  BY DEF WaitFails
<1>2. Buckets(pool') /\ Inside(pool') \subseteq Idle
  BY <1>1 DEF IndInv, Memory, Buckets, Idle, Inside
<1> QED
  BY <1>1, <1>2, FailEnds DEF IndInv, Recording, Queue

\* What phase 4 gives back.
LEMMA ReadReturns ==
  ASSUME IndInv, Read
  PROVE  /\ Buckets(pool') /\ Inside(pool') \subseteq Idle \cup CallBuffers
         /\ program[1].copy => Inside(pool') = Idle
<1>1. pool' = IF program[1].copy THEN pool ELSE Put(temps \o outs)
  BY DEF Read
<1>2. /\ Buckets(pool) /\ temps \in Seq(Buffers) /\ outs \in Seq(Buffers)
      /\ IsInjective(temps) /\ IsInjective(outs)
      /\ Idle \cap CallBuffers = {} /\ ToSet(temps) \cap ToSet(outs) = {}
      /\ setting.poolMax \in Nat
  BY EngineAssumption DEF IndInv, Memory
<1>3. PICK bufs : bufs = temps \o outs
  OBVIOUS
<1>4. bufs \in Seq(Buffers) /\ ToSet(bufs) = CallBuffers /\ IsInjective(bufs)
  BY <1>2, <1>3, ConcatProperties, ElementsOfConcat, DistinctConcat DEF CallBuffers
<1>5. Buckets(Put(bufs)) /\ Inside(Put(bufs)) \subseteq Idle \cup CallBuffers
  BY <1>2, <1>4, PutBuffers
<1>6. CASE program[1].copy
  BY <1>1, <1>2, <1>6 DEF Inside, Idle
<1>7. CASE ~program[1].copy
  BY <1>1, <1>3, <1>5, <1>7
<1> QED
  BY <1>6, <1>7

\* The call's buffers go to their buckets as far as those have room.
LEMMA ReadStep ==
  ASSUME IndInv, Read, UNCHANGED setting
  PROVE  IndInv'
<1>1. /\ phase = "read" /\ phase' = "idle" /\ program' = <<>>
      /\ metas' = <<>> /\ temps' = <<>> /\ outs' = <<>>
      /\ UNCHANGED <<held, cmd, recorded, fence, gpu, sets, cursor, data, synced>>
  BY DEF Read
<1>2. answer'.result = "ok"
  BY DEF Read, Ok
<1>3. Buckets(pool') /\ Inside(pool') \subseteq Idle \cup CallBuffers
  BY ReadReturns
<1>4. synced => gpu' = <<>> /\ cmd' # "pending" /\ ~fence
  BY <1>1 DEF IndInv, Queue
<1>5. /\ cmd' \in {"initial", "recording", "executable", "pending", "invalid"}
      /\ sets' \in Seq(Seq(Place)) /\ Len(sets') <= setting.maxSets /\ cursor' \in 0..Len(sets')
      /\ synced' \in BOOLEAN
  BY <1>1 DEF IndInv, Recording, Queue
<1> QED
  BY <1>1, <1>2, <1>3, <1>4, <1>5, CallEnds

\* Steps between calls.
LEMMA SameWhenIdle ==
  ASSUME IndInv, phase = "idle",
         UNCHANGED <<setting, phase, program, metas, temps, outs, cmd, recorded, fence, gpu, sets,
                     cursor, answer, synced>>
  PROVE  CallShape' /\ Recording' /\ Queue'
<1>1. CallShape'
  BY DEF IndInv, CallShape
<1>2. Recording'
  BY DEF IndInv, Recording
<1>3. Queue'
  BY DEF IndInv, Queue
<1> QED
  BY <1>1, <1>2, <1>3

\* The storage of an activation is asked for like one output.
LEMMA ActivationFacts ==
  ASSUME NEW z \in Sizes
  PROVE  /\ Activation(z) \in Operations /\ ~Activation(z).copy
         /\ Need(Activation(z)) = 1 /\ Len(Activation(z).sizes) = Need(Activation(z))
<1>1. PICK a : a = Activation(z)
  OBVIOUS
<1>2. a = [ins |-> <<>>, writes |-> {}, outs |-> 1, sizes |-> <<z>>, barrier |-> FALSE,
           copy |-> FALSE]
  BY <1>1 DEF Activation, Op
<1>3. a \in Operations /\ ~a.copy /\ a.outs = 1 /\ a.ins = <<>> /\ Len(a.sizes) = 1
  <2>1. <<>> \in Seq(Bindings) /\ <<z>> \in Seq(Sizes) /\ Len(<<z>>) = 1
    OBVIOUS
  <2>2. {} \in SUBSET Tensors /\ 1 \in Nat /\ FALSE \in BOOLEAN
    OBVIOUS
  <2> QED
    BY <1>2, <2>1, <2>2 DEF Operations
<1>4. ByteBindings(a) = {}
  BY <1>3 DEF ByteBindings
<1>5. Need(a) = 1
  BY <1>3, <1>4, FS_EmptySet DEF Need
<1> QED
  BY <1>1, <1>3, <1>5

\* An activation takes one buffer, of the pool or a new one.
LEMMA AllocActivationStep ==
  ASSUME IndInv, AllocActivation, UNCHANGED setting
  PROVE  IndInv'
<1>1. PICK z \in Sizes : /\ CanTake(Activation(z)) /\ held' = held \cup ToSet(Taken(Activation(z)))
                         /\ pool' = PoolAfter(Activation(z), 1)
  BY DEF AllocActivation
<1>2. PICK op \in Operations : op = Activation(z) /\ Need(op) = 1 /\ Len(op.sizes) = Need(op)
  BY ActivationFacts
<1>3. /\ phase = "idle" /\ CanTake(op) /\ held' = held \cup ToSet(Taken(op))
      /\ pool' = PoolAfter(op, Need(op))
      /\ UNCHANGED <<phase, program, metas, temps, outs, cmd, recorded, fence, gpu, sets, cursor,
                     data, answer, synced>>
  BY <1>1, <1>2 DEF AllocActivation
<1>4. /\ Buckets(pool) /\ held \subseteq Buffers /\ temps \in Seq(Buffers) /\ outs \in Seq(Buffers)
  BY DEF IndInv, Memory
<1>5. /\ Taken(op) \in Seq(Buffers)
      /\ ToSet(Taken(op)) \cap (Inside(pool') \cup held \cup CallBuffers) = {}
  BY <1>2, <1>3, TakenBuffers
<1>6. ToSet(Taken(op)) \subseteq Buffers
  BY <1>5, Elements
<1>7. Buckets(pool') /\ Inside(pool') \subseteq Idle
  <2>1. Need(op) \in Nat
    BY OperationFacts
  <2> QED
    BY <1>3, <1>4, <2>1, PoolLeft
<1>8. CallBuffers' = CallBuffers /\ Idle' = Inside(pool') /\ Buckets(pool)'
  BY <1>3, <1>7, SameCall DEF Idle, Inside, Buckets
<1>9. /\ Idle' \cap (held' \cup CallBuffers) = {}
      /\ ToSet(temps) \cap (held' \cup ToSet(outs)) = {} /\ ToSet(outs) \cap held' = {}
  BY <1>3, <1>5, <1>7, <1>8 DEF IndInv, Memory, CallBuffers
<1>10. Memory'
  BY <1>3, <1>4, <1>6, <1>8, <1>9 DEF IndInv, Memory
<1> QED
  BY <1>3, <1>10, SameWhenIdle DEF IndInv

\* Its buffer is destroyed and belongs to nobody.
LEMMA DropActivationStep ==
  ASSUME IndInv, DropActivation, UNCHANGED setting
  PROVE  IndInv'
<1>1. /\ phase = "idle" /\ held' \subseteq held
      /\ UNCHANGED <<phase, program, metas, temps, outs, pool, cmd, recorded, fence, gpu, sets,
                     cursor, data, answer, synced>>
  BY DEF DropActivation
<1>2. CallBuffers' = CallBuffers /\ Idle' = Idle /\ (Buckets(pool) => Buckets(pool)')
  BY <1>1, SameCall DEF Idle, Buckets
<1>3. Memory'
  BY <1>1, <1>2 DEF IndInv, Memory
<1> QED
  BY <1>1, <1>3, SameWhenIdle DEF IndInv

\* A step of the GPU leaves to the host all but the fence and the command buffer.
LEMMA SameForHost ==
  ASSUME IndInv, UNCHANGED <<setting, host>>,
         cmd' \in {"initial", "recording", "executable", "pending", "invalid"}
  PROVE  CallShape' /\ Memory' /\ Recording'
<1>1. UNCHANGED <<phase, program, metas, temps, outs, pool, held, recorded, sets, cursor, answer,
                  synced>>
  BY DEF host
<1>2. CallShape'
  <2>1. \A i : Bound(i) => Bound(i)'
    BY <1>1, SameCall
  <2> QED
    BY <1>1, <2>1 DEF IndInv, CallShape
<1>3. Recording'
  <2>1. PICK r : r = recorded
    OBVIOUS
  <2>2. phase \in {"record", "submit"} => Points(r)'
    <3>1. cursor \in Nat /\ recorded \in Seq(Dispatches)
      BY LenProperties DEF IndInv, Recording
    <3>2. phase \in {"record", "submit"} => Points(r)
      BY <2>1 DEF IndInv, Recording
    <3> QED
      BY <1>1, <2>1, <3>1, <3>2, SamePoints
  <2>3. phase' \in {"record", "submit"} => Points(recorded)'
    BY <1>1, <2>1, <2>2 DEF Points
  <2> QED
    BY <1>1, <2>3 DEF IndInv, Recording
<1> QED
  BY <1>1, <1>2, <1>3, SameMemory

\* The GPU runs one dispatch of the submission.
LEMMA DispatchStep ==
  ASSUME IndInv, NEW j \in DOMAIN gpu, NEW i \in DOMAIN gpu[j].recorded, Dispatch(j, i),
         UNCHANGED setting
  PROVE  IndInv'
<1>1. /\ gpu' = [gpu EXCEPT ![j].done = @ \cup {i}]
      /\ UNCHANGED <<phase, program, metas, temps, outs, pool, held, cmd, recorded, fence, sets,
                     cursor, answer, synced>>
  BY DEF Dispatch
<1>2. CallShape' /\ Memory' /\ Recording'
  BY <1>1, SameForHost DEF IndInv, Recording, host
<1>3. Queue'
  <2>1. CASE ~synced
    BY <1>1, <2>1 DEF IndInv, Queue
  <2>2. CASE synced
    <3>1. /\ phase = "wait" /\ ~fence /\ cmd = "pending" /\ gpu = <<gpu[1]>> /\ OfCall(gpu[1])
      BY <2>2 DEF IndInv, Queue
    <3>2. PICK job : job = gpu[1]
      OBVIOUS
    <3>3. gpu = <<job>> /\ j = 1 /\ i \in DOMAIN job.recorded
      BY <3>1, <3>2
    <3>4. gpu' = <<[job EXCEPT !.done = @ \cup {i}]>>
      BY <1>1, <3>3
    <3>5. OfCall(job)
      BY <3>1, <3>2
    <3>6. PICK new : new = [job EXCEPT !.done = @ \cup {i}]
      OBVIOUS
    <3>7. gpu' = <<new>> /\ gpu'[1] = new
      BY <3>4, <3>6
    <3>8. PICK r : r = job.recorded
      OBVIOUS
    <3>9. /\ r \in Seq(Dispatches) /\ Len(r) = Len(program) /\ i \in 1..Len(program)
          /\ Points(r)
      BY <3>3, <3>5, <3>8, LenProperties DEF OfCall
    <3>10. Points(r)'
      <4>1. cursor \in Nat
        BY LenProperties DEF IndInv, Recording
      <4> QED
        BY <1>1, <3>9, <4>1, SamePoints
    <3>11. OfCall(gpu[1])'
      <4> SUFFICES /\ new.ops = program /\ new.live /\ new.recorded = r
                   /\ new.done \subseteq 1..Len(program)
        BY <1>1, <3>7, <3>9, <3>10 DEF OfCall, Points
      <4> QED
        BY <3>5, <3>6, <3>8, <3>9 DEF OfCall
    <3> QED
      <4>1. gpu' # <<>> /\ gpu' = <<gpu'[1]>>
        BY <3>7
      <4>2. phase' = "wait" /\ ~fence' /\ cmd' = "pending" /\ synced' = TRUE /\ fence' = FALSE
        BY <1>1, <2>2, <3>1 DEF IndInv, Queue
      <4> QED
        BY <3>11, <4>1, <4>2 DEF Queue
  <2> QED
    BY <2>1, <2>2
<1> QED
  BY <1>1, <1>2, <1>3 DEF IndInv

\* The submission is done: the fence is signalled and the queue empty.
LEMMA CompleteStep ==
  ASSUME IndInv, Complete, UNCHANGED setting
  PROVE  IndInv'
<1>1. /\ gpu # <<>> /\ gpu' = Tail(gpu) /\ fence' = TRUE
      /\ cmd' = IF cmd = "pending" /\ Len(gpu) = 1 THEN "invalid" ELSE cmd
      /\ UNCHANGED <<host, data>>
  BY DEF Complete
<1>2. CallShape' /\ Memory' /\ Recording'
  BY <1>1, SameForHost DEF IndInv, Recording
<1>3. Queue'
  <2>1. UNCHANGED <<phase, synced, answer>>
    BY <1>1 DEF host
  <2>2. synced => phase = "wait" /\ ~fence /\ cmd = "pending" /\ gpu = <<gpu[1]>>
    BY <1>1 DEF IndInv, Queue
  <2>3. synced => gpu' = <<>> /\ cmd' = "invalid"
    <3>1. PICK job : job = gpu[1]
      OBVIOUS
    <3>2. synced => Len(gpu) = 1 /\ Tail(gpu) = <<>>
      <4>1. synced => gpu = <<job>>
        BY <2>2, <3>1
      <4>2. Len(<<job>>) = 1 /\ Tail(<<job>>) = <<>>
        OBVIOUS
      <4> QED
        BY <4>1, <4>2
    <3> QED
      BY <1>1, <2>2, <3>2
  <2> QED
    BY <1>1, <2>1, <2>2, <2>3 DEF IndInv, Queue
<1> QED
  BY <1>1, <1>2, <1>3 DEF IndInv, host

\* Nothing changes.
LEMMA StutteringStep ==
  ASSUME IndInv, UNCHANGED vars
  PROVE  IndInv'
<1>1. /\ UNCHANGED <<setting, host>> /\ UNCHANGED <<cmd, fence, gpu>>
  BY DEF vars, host
<1>2. CallShape' /\ Memory' /\ Recording'
  BY <1>1, SameForHost DEF IndInv, Recording
<1>3. UNCHANGED <<phase, program, metas, temps, outs, sets, cursor, synced, answer>>
  BY DEF vars
<1>4. Queue'
  <2>1. PICK job : job = gpu[1]
    OBVIOUS
  <2>2. OfCall(job) => OfCall(job)'
    <3>1. cursor \in Nat
      BY LenProperties DEF IndInv, Recording
    <3>2. PICK r : r = job.recorded
      OBVIOUS
    <3>3. Points(r) /\ r \in Seq(Dispatches) => Points(r)'
      BY <1>3, <3>1, SamePoints
    <3> QED
      BY <1>3, <3>2, <3>3 DEF OfCall, Points
  <2>3. OfCall(gpu[1]) => OfCall(gpu[1])'
    BY <1>1, <2>1, <2>2 DEF OfCall, Points
  <2> QED
    BY <1>1, <1>3, <2>3 DEF IndInv, Queue
<1> QED
  BY <1>1, <1>2, <1>3, <1>4 DEF IndInv

\* Every step preserves the invariant.
LEMMA NextIsInv ==
  ASSUME IndInv, [Next]_vars
  PROVE  IndInv'
<1>1. CASE CallerStep
  BY <1>1, CallStep, AllocActivationStep, DropActivationStep DEF CallerStep
<1>2. CASE HostStep
  BY <1>2, BindStep, BindFailsStep, BeginStep, BeginFailsStep, RecordStep, RecordCopyStep,
     RecordFailsStep, SubmitStep, SubmitFailsStep, WaitStep, WaitFailsStep, ReadStep
     DEF HostStep
<1>3. CASE GpuStep
  BY <1>3, DispatchStep, CompleteStep DEF GpuStep
<1>4. CASE UNCHANGED vars
  BY <1>4, StutteringStep
<1> QED
  BY <1>1, <1>2, <1>3, <1>4 DEF Next

\* IndInv holds in every reachable state: after any calls, with driver calls that fail
\* at any point (execute_batch, upload, alloc_activation).
THEOREM Inductive == Spec => []IndInv
<1>1. IndInv /\ [Next]_vars => IndInv'
  BY NextIsInv
<1> QED
  BY <1>1, InitIsInv, PTL DEF Spec

-----------------------------------------------------------------------------
(* Ownership, and the submission in flight *)

\* The engine's state has its shape for any calls and failures: in particular the
\* bucket of a size has buffers of that size only and is never longer than POOL_MAX
\* (BufferPool::put), and the cursor never passes the descriptor sets that exist
\* (next_descriptor_set).
THEOREM TypeCorrect == Spec => []TypeOK
<1>1. ASSUME IndInv
      PROVE  TypeOK
  <2>1. /\ phase \in Phases /\ program \in setting.programs \cup {<<>>}
        /\ Len(metas) <= Len(program)
    <3>1. CASE phase = "idle"
      <4>1. Len(<<>>) <= Len(<<>>)
        BY EmptySeq
      <4> QED
        BY <1>1, <3>1, <4>1 DEF IndInv, CallShape
    <3>2. CASE phase # "idle"
      <4>1. program \in setting.programs /\ metas \in Seq(Starts)
            /\ (Len(metas) < Len(program) \/ Len(metas) = Len(program))
        BY <1>1, <3>2 DEF IndInv, CallShape
      <4>2. Len(metas) \in Nat /\ Len(program) \in Nat
        BY <1>1, <4>1, LenProperties, ProgramFacts DEF IndInv
      <4> QED
        BY <1>1, <4>1, <4>2 DEF IndInv, CallShape
    <3> QED
      BY <3>1, <3>2
  <2> QED
    BY <1>1, <2>1 DEF TypeOK, IndInv, Memory, Buckets, Recording, Queue, Phases
<1> QED
  BY <1>1, Inductive, PTL

\* A buffer is idle in the bucket of its size, or one temporary or one output of the
\* running call, or an activation tensor, and never two of these: the pool hands no
\* buffer out twice, whatever calls fail half way (BufferPool::get and put, the return
\* of the buffers in phase 4 of execute_batch, alloc_activation).
THEOREM BuffersHaveOneOwner == Spec => []OneOwner
<1>1. ASSUME IndInv
      PROVE  OneOwner
  <2>1. /\ Buckets(pool) /\ temps \in Seq(Buffers) /\ outs \in Seq(Buffers)
        /\ IsInjective(temps) /\ IsInjective(outs)
        /\ Idle \cap (held \cup CallBuffers) = {} /\ Idle = Inside(pool)
        /\ ToSet(temps) \cap (held \cup ToSet(outs)) = {} /\ ToSet(outs) \cap held = {}
    BY <1>1 DEF IndInv, Memory, Idle, Inside
  <2>2. PICK bufs : bufs = temps \o outs
    OBVIOUS
  <2>3. bufs \in Seq(Buffers) /\ ToSet(bufs) = CallBuffers /\ IsInjective(bufs)
    BY <2>1, <2>2, ConcatProperties, ElementsOfConcat, DistinctConcat DEF CallBuffers
  <2>4. ASSUME NEW z \in Sizes
        PROVE  IsInjective(pool[z] \o bufs) /\ \A b \in ToSet(pool[z]) : SizeOf[b] = z
    <3>1. pool[z] \in Seq(Buffers) /\ ToSet(pool[z]) \subseteq Idle
      BY <2>1, BucketFacts
    <3>2. IsInjective(pool[z]) /\ \A b \in ToSet(pool[z]) : SizeOf[b] = z
      BY <2>1 DEF Buckets
    <3>3. ToSet(pool[z]) \cap ToSet(bufs) = {}
      BY <2>1, <2>3, <3>1
    <3> QED
      BY <2>3, <3>1, <3>2, <3>3, DistinctConcat
  <2>5. \A y, z \in Sizes : y # z => ToSet(pool[y]) \cap ToSet(pool[z]) = {}
    BY <2>4
  <2>6. (Idle \cup CallBuffers) \cap held = {}
    BY <2>1 DEF CallBuffers
  <2> QED
    BY <2>2, <2>4, <2>5, <2>6 DEF OneOwner
<1> QED
  BY <1>1, Inductive, PTL

\* The only submission in the queue is the one that the host waits for.
LEMMA InFlight ==
  ASSUME IndInv, synced, NEW j \in DOMAIN gpu
  PROVE  /\ phase = "wait" /\ ~fence /\ cmd = "pending" /\ OfCall(gpu[j])
         /\ program \in setting.programs /\ Len(metas) = Len(program) /\ Len(program) \in Nat
<1>1. gpu # <<>>
  OBVIOUS
<1>2. phase = "wait" /\ ~fence /\ cmd = "pending" /\ gpu = <<gpu[1]>> /\ OfCall(gpu[1])
  BY <1>1 DEF IndInv, Queue
<1>3. PICK job : job = gpu[1]
  OBVIOUS
<1>4. gpu = <<job>>
  BY <1>2, <1>3
<1>5. j = 1
  BY <1>4
<1>6. program \in setting.programs /\ Len(metas) = Len(program)
  BY <1>2 DEF IndInv, CallShape
<1> QED
  BY <1>2, <1>5, <1>6, ProgramFacts DEF IndInv

\* What is known of a dispatch of it.
LEMMA InFlightPoint ==
  ASSUME IndInv, synced, NEW j \in DOMAIN gpu, NEW i \in DOMAIN gpu[j].recorded
  PROVE  /\ i \in 1..Len(program) /\ DOMAIN gpu[j].recorded = 1..Len(program)
         /\ RefsInBounds(i) /\ PlacesOf(gpu[j].recorded[i]) = Places(i)
         /\ gpu[j].recorded[i].set # 0 =>
              \A k \in 1..Len(program) : gpu[j].recorded[k].set = gpu[j].recorded[i].set => k = i
<1>1. PICK r : r = gpu[j].recorded
  OBVIOUS
<1>2. OfCall(gpu[j])
  BY InFlight
<1>3. r \in Seq(Dispatches) /\ Len(r) = Len(program) /\ Points(r)
  BY <1>1, <1>2 DEF OfCall
<1>4. DOMAIN r = 1..Len(program)
  BY <1>3, LenProperties
<1>5. i \in 1..Len(r)
  BY <1>1, <1>3, <1>4
<1>6. /\ RefsInBounds(i) /\ PlacesOf(r[i]) = Places(i)
      /\ r[i].set # 0 => \A k \in 1..Len(r) : r[k].set = r[i].set => k = i
  BY <1>3, <1>5 DEF Points
<1> QED
  BY <1>1, <1>3, <1>4, <1>5, <1>6

\* As long as no wait for the fence has failed, every buffer that an unfinished
\* dispatch touches belongs to the call that waits for it: phase 4 of execute_batch
\* returns buffers to the pool only after phase 3 has waited.
THEOREM BuffersInFlight == Spec => []InFlightBuffersOwned
<1>1. ASSUME IndInv
      PROVE  InFlightBuffersOwned
  <2> SUFFICES ASSUME synced, NEW j \in DOMAIN gpu,
                      NEW i \in DOMAIN gpu[j].recorded \ gpu[j].done
               PROVE  ToSet(PlacesOf(gpu[j].recorded[i])) \cap Buffers \subseteq CallBuffers
    BY DEF InFlightBuffersOwned
  <2>1. /\ i \in 1..Len(program) /\ RefsInBounds(i)
        /\ PlacesOf(gpu[j].recorded[i]) = Places(i)
    BY <1>1, InFlightPoint
  <2>2. phase # "idle" /\ Len(metas) = Len(program)
    BY <1>1, InFlight
  <2>3. ToSet(Places(i)) \cap Buffers \subseteq CallBuffers
    BY <1>1, <2>1, <2>2, PlacesFacts
  <2> QED
    BY <2>1, <2>3
<1> QED
  BY <1>1, Inductive, PTL

\* As long as no wait for the fence has failed, no descriptor set of an unfinished
\* dispatch is updated, and each dispatch of a command buffer has a set of its own,
\* although submit_batch resets the cursor and sets are used again
\* (next_descriptor_set, grow_descriptor_pool).
THEOREM SetsInFlight == Spec => InFlightSetsUntouched
<1> DEFINE Untouched ==
      synced =>
        \A j \in DOMAIN gpu : \A i \in DOMAIN gpu[j].recorded \ gpu[j].done :
          LET d == gpu[j].recorded[i].set
          IN d # 0 => /\ sets'[d] = sets[d]
                      /\ \A k \in DOMAIN gpu[j].recorded \ {i} : gpu[j].recorded[k].set # d
<1>1. ASSUME IndInv, [Next]_vars
      PROVE  Untouched
  <2> SUFFICES ASSUME synced, NEW j \in DOMAIN gpu,
                      NEW i \in DOMAIN gpu[j].recorded \ gpu[j].done,
                      gpu[j].recorded[i].set # 0
               PROVE  /\ sets' = sets
                      /\ \A k \in DOMAIN gpu[j].recorded \ {i} :
                           gpu[j].recorded[k].set # gpu[j].recorded[i].set
    BY DEF Untouched
  <2>1. phase = "wait" /\ ~fence
    BY <1>1, InFlight
  <2>2. sets' = sets
    <3>1. CASE CallerStep
      BY <2>1, <3>1 DEF CallerStep, Call, AllocActivation, DropActivation
    <3>2. CASE HostStep
      BY <2>1, <3>2 DEF HostStep, Bind, BindFails, Begin, BeginFails, Record, RecordCopy,
         RecordFails, Submit, SubmitFails, Wait, WaitFails, Read
    <3>3. CASE GpuStep
      BY <3>3 DEF GpuStep, Dispatch, Complete, host
    <3>4. CASE UNCHANGED vars
      BY <3>4 DEF vars
    <3> QED
      BY <1>1, <3>1, <3>2, <3>3, <3>4 DEF Next
  <2>3. ASSUME NEW k \in DOMAIN gpu[j].recorded \ {i}
        PROVE  gpu[j].recorded[k].set # gpu[j].recorded[i].set
    BY <1>1, InFlightPoint
  <2> QED
    BY <2>2, <2>3
<1>2. Spec => [][Untouched]_vars
  <2>1. IndInv /\ [Next]_vars => [Untouched]_vars
    BY <1>1
  <2> QED
    BY <2>1, Inductive, PTL DEF Spec
<1> QED
  BY <1>2 DEF InFlightSetsUntouched

\* The one command buffer of the engine is not reset while the GPU runs it, as long as
\* no wait for the fence has failed: the comment on cmd_buf says that it is "always
\* safe to reset here".
THEOREM ResetIdle == Spec => ResetIdleWhileSynced
<1> DEFINE Kept == synced /\ cmd = "pending" => cmd' # "recording"
<1>1. ASSUME IndInv, [Next]_vars
      PROVE  Kept
  <2> SUFFICES ASSUME synced, cmd = "pending"
               PROVE  cmd' # "recording"
    OBVIOUS
  <2>1. phase = "wait"
    BY <1>1 DEF IndInv, Queue
  <2>2. CASE CallerStep
    BY <2>1, <2>2 DEF CallerStep, Call, AllocActivation, DropActivation
  <2>3. CASE HostStep
    BY <2>1, <2>3 DEF HostStep, Bind, BindFails, Begin, BeginFails, Record, RecordCopy,
       RecordFails, Submit, SubmitFails, Wait, WaitFails, Read
  <2>4. CASE GpuStep
    BY <2>4 DEF GpuStep, Dispatch, Complete, host
  <2>5. CASE UNCHANGED vars
    BY <2>5 DEF vars
  <2> QED
    BY <1>1, <2>2, <2>3, <2>4, <2>5 DEF Next
<1>2. Spec => [][Kept]_vars
  <2>1. IndInv /\ [Next]_vars => [Kept]_vars
    BY <1>1
  <2> QED
    BY <2>1, Inductive, PTL DEF Spec
<1> QED
  BY <1>2 DEF ResetIdleWhileSynced

-----------------------------------------------------------------------------
(* Buffers alive *)

\* The buffers of size z that an operation asks for, and that the first m operations of
\* p ask for.
Asked(op, z) == {k \in 1..Need(op) : op.sizes[k] = z}
Used(p, m, z) == UNION {{i} \X Asked(p[i], z) : i \in 1..m}

\* What is idle, and what a call holds that ends by filling the pool again.
Refill == Idle \cup (IF phase # "idle" /\ ~program[1].copy THEN CallBuffers ELSE {})

\* Of each size a call holds no more than it has asked for, and together with the bucket
\* no more than some call needs.
PoolBounded ==
  \A z \in Sizes :
    /\ Cardinality(OfSize(CallBuffers, z)) <= Cardinality(Used(program, Len(metas), z))
    /\ \E p \in setting.programs : Cardinality(OfSize(Refill, z)) <= BuffersNeeded(p, z)

\* The size of two sets that have nothing in common.
LEMMA DisjointUnion ==
  ASSUME NEW S, IsFiniteSet(S), NEW T, IsFiniteSet(T), S \cap T = {}
  PROVE  /\ IsFiniteSet(S \cup T)
         /\ Cardinality(S \cup T) = Cardinality(S) + Cardinality(T)
<1>1. /\ IsFiniteSet(S \cup T)
      /\ Cardinality(S \cup T) = Cardinality(S) + Cardinality(T) - Cardinality(S \cap T)
  BY FS_Union
<1>2. Cardinality(S \cap T) = 0
  BY FS_EmptySet
<1>3. Cardinality(S) \in Nat /\ Cardinality(T) \in Nat
  BY FS_CardinalityType
<1> QED
  BY <1>1, <1>2, <1>3

\* The buffers of one size among some buffers.
LEMMA OfSizeFacts ==
  ASSUME NEW S \in SUBSET Buffers, NEW z
  PROVE  /\ IsFiniteSet(OfSize(S, z)) /\ Cardinality(OfSize(S, z)) \in Nat
         /\ \A T \in SUBSET S : Cardinality(OfSize(T, z)) <= Cardinality(OfSize(S, z))
<1>1. OfSize(S, z) \in SUBSET Buffers /\ IsFiniteSet(Buffers)
  BY EngineAssumption DEF OfSize
<1>2. IsFiniteSet(OfSize(S, z)) /\ Cardinality(OfSize(S, z)) \in Nat
  BY <1>1, FS_Subset, FS_CardinalityType
<1>3. ASSUME NEW T \in SUBSET S
      PROVE  Cardinality(OfSize(T, z)) <= Cardinality(OfSize(S, z))
  <2>1. OfSize(T, z) \in SUBSET OfSize(S, z)
    BY DEF OfSize
  <2> QED
    BY <1>2, <2>1, FS_Subset
<1> QED
  BY <1>2, <1>3

\* Some buffers and some more.
LEMMA OfSizeUnion ==
  ASSUME NEW S \in SUBSET Buffers, NEW T \in SUBSET Buffers, NEW z
  PROVE  Cardinality(OfSize(S \cup T, z)) <= Cardinality(OfSize(S, z)) + Cardinality(OfSize(T, z))
<1>1. PICK A, B : A = OfSize(S, z) /\ B = OfSize(T, z)
  OBVIOUS
<1>2. /\ IsFiniteSet(A) /\ Cardinality(A) \in Nat /\ IsFiniteSet(B) /\ Cardinality(B) \in Nat
  BY <1>1, OfSizeFacts
<1>3. OfSize(S \cup T, z) = A \cup B
  BY <1>1 DEF OfSize
<1>4. Cardinality(A \cup B) = Cardinality(A) + Cardinality(B) - Cardinality(A \cap B)
  BY <1>2, FS_Union
<1>5. Cardinality(A \cap B) \in Nat
  BY <1>2, FS_Subset, FS_CardinalityType
<1>6. PICK x \in Nat, y \in Nat, w \in Nat :
        x = Cardinality(A) /\ y = Cardinality(B) /\ w = Cardinality(A \cap B)
  BY <1>2, <1>5
<1>7. Cardinality(A \cup B) <= x + y
  BY <1>4, <1>6
<1> QED
  BY <1>1, <1>3, <1>6, <1>7

\* Where buffers are, they are buffers.
LEMMA BufferSets ==
  ASSUME IndInv
  PROVE  /\ Idle \in SUBSET Buffers /\ CallBuffers \in SUBSET Buffers /\ held \in SUBSET Buffers
         /\ Refill \in SUBSET Buffers /\ Live \in SUBSET Buffers
         /\ Idle \subseteq Refill /\ Refill \subseteq Idle \cup CallBuffers
         /\ Idle = Inside(pool) /\ Buckets(pool)
<1>1. Idle = Inside(pool) /\ Buckets(pool)
  BY DEF IndInv, Memory, Idle, Inside
<1>2. Idle \subseteq Buffers
  <2>1. ASSUME NEW z \in Sizes
        PROVE  ToSet(pool[z]) \subseteq Buffers
    BY <1>1, BucketFacts
  <2> QED
    BY <2>1 DEF Idle
<1>3. CallBuffers \subseteq Buffers /\ held \subseteq Buffers
  BY Elements DEF IndInv, Memory, CallBuffers
<1> QED
  BY <1>1, <1>2, <1>3 DEF Refill, Live

\* The buffers of a size that an operation asks for are finitely many.
LEMMA AskedFacts ==
  ASSUME NEW op \in Operations, NEW z
  PROVE  /\ IsFiniteSet(Asked(op, z)) /\ Cardinality(Asked(op, z)) \in Nat
         /\ Cardinality(Asked(op, z)) = Wants(op, Need(op), z)
<1>1. Need(op) \in Nat
  BY OperationFacts
<1>2. IsFiniteSet(1..Need(op)) /\ Asked(op, z) \in SUBSET (1..Need(op))
  BY <1>1, FS_Interval DEF Asked
<1>3. Cardinality(Asked(op, z)) = Wants(op, Need(op), z)
  BY DEF Asked, Wants
<1> QED
  BY <1>2, <1>3, FS_Subset, FS_CardinalityType

\* The buffers of i, numbered, are as many as those of i.
LEMMA Labelled ==
  ASSUME NEW i, NEW S, IsFiniteSet(S)
  PROVE  IsFiniteSet({i} \X S) /\ Cardinality({i} \X S) = Cardinality(S)
<1> DEFINE f == [x \in S |-> <<i, x>>]
<1>1. f \in [S -> {i} \X S]
  OBVIOUS
<1>2. f \in Bijection(S, {i} \X S)
  <2>1. \A x, y \in S : f[x] = f[y] => x = y
    OBVIOUS
  <2>2. \A t \in {i} \X S : \E x \in S : f[x] = t
    OBVIOUS
  <2> QED
    BY <1>1, <2>1, <2>2 DEF Bijection, Injection, Surjection, IsInjective
<1> QED
  BY <1>2, FS_Bijection DEF ExistsBijection

\* What the first operations of a list ask for is a part of what the whole list needs.
LEMMA UsedFacts ==
  ASSUME setting \in Settings, NEW p \in setting.programs, NEW m \in 0..Len(p), NEW z
  PROVE  /\ IsFiniteSet(Used(p, m, z)) /\ Cardinality(Used(p, m, z)) \in Nat
         /\ Cardinality(Used(p, m, z)) <= BuffersNeeded(p, z)
         /\ BuffersNeeded(p, z) \in Nat
<1>1. /\ Len(p) \in Nat /\ DOMAIN p = 1..Len(p)
      /\ \A i \in 1..Len(p) : p[i] \in Operations
  BY ProgramFacts
<1>2. BuffersNeeded(p, z) = Cardinality(Used(p, Len(p), z))
  BY <1>1 DEF BuffersNeeded, Used, Asked
<1>3. IsFiniteSet(Used(p, Len(p), z))
  <2> DEFINE f == [i \in 1..Len(p) |-> {i} \X Asked(p[i], z)]
             T == {{i} \X Asked(p[i], z) : i \in 1..Len(p)}
  <2>1. f \in Surjection(1..Len(p), T)
    BY DEF Surjection
  <2>2. IsFiniteSet(1..Len(p))
    BY <1>1, FS_Interval
  <2>3. IsFiniteSet(T)
    BY <2>1, <2>2, FS_Surjection
  <2>4. ASSUME NEW t \in T
        PROVE  IsFiniteSet(t)
    BY <1>1, AskedFacts, Labelled
  <2>5. IsFiniteSet(UNION T)
    BY <2>3, <2>4, FS_UNION
  <2> QED
    BY <2>5 DEF Used
<1>4. Used(p, m, z) \in SUBSET Used(p, Len(p), z)
  <2>1. \A i \in 1..m : i \in 1..Len(p)
    BY <1>1
  <2> QED
    BY <2>1 DEF Used
<1> QED
  BY <1>2, <1>3, <1>4, FS_Subset, FS_CardinalityType

\* What one more operation adds.
LEMMA UsedByNext ==
  ASSUME setting \in Settings, NEW p \in setting.programs, NEW m \in Nat, m < Len(p), NEW z
  PROVE  Cardinality(Used(p, m + 1, z))
           = Cardinality(Used(p, m, z)) + Wants(p[m + 1], Need(p[m + 1]), z)
<1> DEFINE n == m + 1
           new == {n} \X Asked(p[n], z)
<1>1. /\ Len(p) \in Nat /\ n \in 1..Len(p) /\ m \in 0..Len(p) /\ p[n] \in Operations
  BY ProgramFacts
<1>2. /\ IsFiniteSet(new) /\ Cardinality(new) = Wants(p[n], Need(p[n]), z)
      /\ Cardinality(new) \in Nat
  <2>1. PICK A : A = Asked(p[n], z)
    OBVIOUS
  <2>2. IsFiniteSet(A) /\ Cardinality(A) \in Nat /\ Cardinality(A) = Wants(p[n], Need(p[n]), z)
    BY <1>1, <2>1, AskedFacts
  <2>3. IsFiniteSet({n} \X A) /\ Cardinality({n} \X A) = Cardinality(A)
    BY <2>2, Labelled
  <2> QED
    BY <2>1, <2>2, <2>3
<1>3. IsFiniteSet(Used(p, m, z)) /\ Cardinality(Used(p, m, z)) \in Nat
  BY <1>1, UsedFacts
<1>4. Used(p, n, z) = Used(p, m, z) \cup new
  <2>1. 1..n = (1..m) \cup {n}
    BY <1>1
  <2> QED
    BY <2>1 DEF Used
<1>5. Used(p, m, z) \cap new = {}
  <2>1. \A i \in 1..m : i # n
    OBVIOUS
  <2> QED
    BY <2>1 DEF Used
<1> HIDE DEF new
<1>6. Cardinality(Used(p, m, z) \cup new) = Cardinality(Used(p, m, z)) + Cardinality(new)
  BY <1>2, <1>3, <1>5, DisjointUnion
<1> QED
  BY <1>2, <1>4, <1>6

\* An upload asks for one buffer.
LEMMA UsedByCopy ==
  ASSUME setting \in Settings, NEW p \in setting.programs, p[1].copy, NEW m \in 0..Len(p), NEW z
  PROVE  Cardinality(Used(p, m, z)) <= 1
<1>1. PICK i \in 1..Len(p) : i = 1
  BY ProgramFacts
<1>2. Len(p) = 1 /\ Need(p[1]) = 1
  BY <1>1, CopyFacts
<1>3. Used(p, m, z) \in SUBSET {<<1, 1>>}
  <2>1. m \in {0, 1}
    BY <1>2
  <2>2. \A j \in 1..m : j = 1
    BY <2>1
  <2>3. Asked(p[1], z) \subseteq {1}
    BY <1>2 DEF Asked
  <2> QED
    BY <2>2, <2>3 DEF Used
<1>4. IsFiniteSet({<<1, 1>>}) /\ Cardinality({<<1, 1>>}) = 1
  BY FS_Singleton
<1> QED
  BY <1>3, <1>4, FS_Subset

\* What the running call has asked for.
LEMMA UsedByCall ==
  ASSUME IndInv, phase # "idle", NEW z
  PROVE  /\ program \in setting.programs /\ Len(metas) \in 0..Len(program)
         /\ Cardinality(Used(program, Len(metas), z)) \in Nat
         /\ Cardinality(Used(program, Len(metas), z)) <= BuffersNeeded(program, z)
         /\ BuffersNeeded(program, z) \in Nat
         /\ program[1].copy => Cardinality(Used(program, Len(metas), z)) <= 1
<1>1. /\ program \in setting.programs /\ metas \in Seq(Starts)
      /\ (Len(metas) < Len(program) \/ Len(metas) = Len(program))
  BY DEF IndInv, CallShape
<1>2. setting \in Settings
  BY DEF IndInv
<1>3. PICK m \in 0..Len(program) : m = Len(metas)
  BY <1>1, <1>2, LenProperties, ProgramFacts
<1>4. /\ Cardinality(Used(program, m, z)) \in Nat
      /\ Cardinality(Used(program, m, z)) <= BuffersNeeded(program, z)
      /\ BuffersNeeded(program, z) \in Nat
      /\ program[1].copy => Cardinality(Used(program, m, z)) <= 1
  BY <1>1, <1>2, UsedFacts, UsedByCopy
<1> QED
  BY <1>1, <1>3, <1>4

\* Numbers of buffers.
LEMMA Lengths ==
  ASSUME IndInv
  PROVE  /\ Len(temps) \in Nat /\ Len(outs) \in Nat
         /\ \A p \in setting.programs : \A z : BuffersNeeded(p, z) \in Nat
<1>1. Len(temps) \in Nat /\ Len(outs) \in Nat
  BY LenProperties DEF IndInv, Memory
<1>2. ASSUME NEW p \in setting.programs, NEW z
      PROVE  BuffersNeeded(p, z) \in Nat
  <2>1. PICK m \in 0..Len(p) : m = Len(p)
    BY ProgramFacts DEF IndInv
  <2> QED
    BY <2>1, UsedFacts DEF IndInv
<1> QED
  BY <1>1, <1>2

\* At first there are no buffers.
LEMMA InitBounded == Init => PoolBounded
<1> SUFFICES ASSUME Init, NEW z \in Sizes
             PROVE  /\ Cardinality(OfSize(CallBuffers, z)) <= Cardinality(Used(program, Len(metas), z))
                    /\ \E p \in setting.programs : Cardinality(OfSize(Refill, z)) <= BuffersNeeded(p, z)
  BY DEF PoolBounded
<1>1. IndInv
  BY InitIsInv
<1>2. /\ metas = <<>> /\ temps = <<>> /\ outs = <<>> /\ pool = [y \in Sizes |-> <<>>]
      /\ phase = "idle"
  BY DEF Init
<1>3. ToSet(<<>>) = {} /\ Len(<<>>) = 0 /\ Cardinality({}) = 0
  BY FS_EmptySet DEF ToSet
<1>4. CallBuffers = {} /\ Refill = {}
  BY <1>2, <1>3 DEF CallBuffers, Refill, Idle
<1>5. OfSize({}, z) = {}
  BY DEF OfSize
<1>6. Used(program, Len(metas), z) = {}
  BY <1>2, <1>3 DEF Used
<1>7. PICK p \in setting.programs : BuffersNeeded(p, z) \in Nat
  BY <1>1, Lengths, EngineAssumption DEF IndInv
<1>8. 0 <= BuffersNeeded(p, z)
  BY <1>7
<1>9. Cardinality(OfSize(CallBuffers, z)) = 0 /\ Cardinality(OfSize(Refill, z)) = 0
  BY <1>3, <1>4, <1>5
<1>10. Cardinality(Used(program, Len(metas), z)) = 0
  BY <1>3, <1>6
<1> QED
  BY <1>8, <1>9, <1>10

\* What is true of the pool stays true when it gets smaller.
LEMMA Shrinks ==
  ASSUME IndInv, PoolBounded, NEW z \in Sizes, NEW S \in SUBSET Refill
  PROVE  \E p \in setting.programs : Cardinality(OfSize(S, z)) <= BuffersNeeded(p, z)
<1>1. PICK p \in setting.programs : Cardinality(OfSize(Refill, z)) <= BuffersNeeded(p, z)
  BY DEF PoolBounded
<1>2. Cardinality(OfSize(S, z)) <= Cardinality(OfSize(Refill, z))
  BY BufferSets, OfSizeFacts
<1>3. PICK x \in Nat, y \in Nat, n \in Nat :
        /\ x = Cardinality(OfSize(S, z)) /\ y = Cardinality(OfSize(Refill, z))
        /\ n = BuffersNeeded(p, z)
  <2>1. S \in SUBSET Buffers /\ Refill \in SUBSET Buffers
    BY BufferSets
  <2> QED
    BY <2>1, OfSizeFacts, Lengths
<1>4. x <= n
  BY <1>1, <1>2, <1>3
<1> QED
  BY <1>3, <1>4

\* The call goes on, and takes no more buffers.
LEMMA GoesOn ==
  ASSUME IndInv, PoolBounded, UNCHANGED <<setting, program, metas, temps, outs>>,
         phase' = "idle" <=> phase = "idle", Inside(pool') \subseteq Idle
  PROVE  PoolBounded'
<1>1. CallBuffers' = CallBuffers /\ Idle' = Inside(pool')
  BY DEF CallBuffers, Idle, Inside
<1>2. Refill' \in SUBSET Refill
  BY <1>1 DEF Refill
<1>3. ASSUME NEW z \in Sizes
      PROVE  /\ Cardinality(OfSize(CallBuffers, z))' <= Cardinality(Used(program, Len(metas), z))'
             /\ \E p \in setting'.programs : Cardinality(OfSize(Refill', z)) <= BuffersNeeded(p, z)
  <2>1. Used(program, Len(metas), z)' = Used(program, Len(metas), z)
    BY DEF Used
  <2>2. OfSize(CallBuffers, z)' = OfSize(CallBuffers, z)
    BY <1>1 DEF OfSize
  <2>3. \E p \in setting.programs : Cardinality(OfSize(Refill', z)) <= BuffersNeeded(p, z)
    BY <1>2, Shrinks
  <2>4. Cardinality(OfSize(CallBuffers, z)) <= Cardinality(Used(program, Len(metas), z))
    BY DEF PoolBounded
  <2>5. Cardinality(OfSize(CallBuffers, z)') <= Cardinality(Used(program, Len(metas), z)')
    BY <2>1, <2>2, <2>4
  <2> QED
    BY <2>3, <2>5
<1> QED
  BY <1>3 DEF PoolBounded, OfSize

\* The call is over, or has bound nothing yet.
LEMMA Empties ==
  ASSUME IndInv, PoolBounded, UNCHANGED setting,
         metas' = <<>>, temps' = <<>>, outs' = <<>>, Inside(pool') \subseteq Refill
  PROVE  PoolBounded'
<1>1. ToSet(<<>>) = {} /\ Len(<<>>) = 0 /\ Cardinality({}) = 0
  BY FS_EmptySet DEF ToSet
<1>2. CallBuffers' = {} /\ Idle' = Inside(pool')
  BY <1>1 DEF CallBuffers, Idle, Inside
<1>3. Refill' \in SUBSET Refill
  BY <1>2 DEF Refill
<1>4. ASSUME NEW z \in Sizes
      PROVE  /\ Cardinality(OfSize(CallBuffers, z))' <= Cardinality(Used(program, Len(metas), z))'
             /\ \E p \in setting'.programs : Cardinality(OfSize(Refill', z)) <= BuffersNeeded(p, z)
  <2>1. Used(program, Len(metas), z)' = {}
    BY <1>1 DEF Used
  <2>2. OfSize(CallBuffers, z)' = {}
    BY <1>2 DEF OfSize
  <2>3. \E p \in setting.programs : Cardinality(OfSize(Refill', z)) <= BuffersNeeded(p, z)
    BY <1>3, Shrinks
  <2>4. Cardinality({}) <= Cardinality({})
    BY <1>1
  <2>5. Cardinality(OfSize(CallBuffers, z)') <= Cardinality(Used(program, Len(metas), z)')
    BY <2>1, <2>2, <2>4
  <2> QED
    BY <2>3, <2>5
<1> QED
  BY <1>4 DEF PoolBounded, OfSize

\* Of each size an operation gets no more than it asks for, all from the bucket when that
\* has enough.
LEMMA TakenOfSize ==
  ASSUME IndInv, NEW op \in Operations, Len(op.sizes) = Need(op), CanTake(op), NEW z \in Sizes
  PROVE  /\ ToSet(Taken(op)) \in SUBSET Buffers
         /\ Cardinality(OfSize(ToSet(Taken(op)), z)) <= Wants(op, Need(op), z)
         /\ ~op.copy /\ Wants(op, Need(op), z) <= Len(pool[z]) =>
              OfSize(ToSet(Taken(op)), z) \subseteq ToSet(pool[z])
<1>1. PICK got : got = Taken(op)
  OBVIOUS
<1>2. /\ got \in Seq(Buffers) /\ Len(got) = Need(op) /\ DOMAIN got = 1..Need(op)
      /\ \A k \in 1..Need(op) : SizeOf[got[k]] = op.sizes[k]
  BY <1>1, TakenBuffers, LenProperties
<1>3. /\ ToSet(got) \subseteq Buffers
      /\ \A k \in 1..Need(op) : got[k] \in ToSet(got)
      /\ \A x \in ToSet(got) : \E k \in 1..Need(op) : x = got[k]
  BY <1>2, Elements
<1>4. PICK A : A = Asked(op, z)
  OBVIOUS
<1>5. /\ IsFiniteSet(A) /\ Cardinality(A) = Wants(op, Need(op), z)
      /\ A = {k \in 1..Need(op) : op.sizes[k] = z}
  BY <1>4, AskedFacts DEF Asked
<1>6. PICK S : S = OfSize(ToSet(got), z)
  OBVIOUS
<1>7. /\ \A k \in A : got[k] \in S
      /\ \A x \in S : \E k \in A : x = got[k]
  BY <1>2, <1>3, <1>5, <1>6 DEF OfSize
<1>8. Cardinality(S) <= Cardinality(A)
  <2> DEFINE f == [k \in A |-> got[k]]
  <2>1. f \in Surjection(A, S)
    BY <1>7 DEF Surjection
  <2> HIDE DEF f
  <2> QED
    BY <1>5, <2>1, FS_Surjection
<1>9. ASSUME ~op.copy, Wants(op, Need(op), z) <= Len(pool[z]), NEW x \in S
      PROVE  x \in ToSet(pool[z])
  <2>1. PICK k \in 1..Need(op) : x = got[k] /\ op.sizes[k] = z
    BY <1>5, <1>7
  <2>2. PICK y \in Sizes, w \in Nat, f \in Nat :
          /\ y = op.sizes[k] /\ w = Wants(op, k, y)
          /\ f = FromPool(op, Need(op), y) /\ f <= Len(pool[y])
          /\ 1 <= w /\ w <= Wants(op, Need(op), y)
          /\ \/ w <= f /\ Taken(op)[k] = pool[y][Len(pool[y]) + 1 - w]
             \/ /\ f < w /\ w - f \in 1..Cardinality(Unused(y))
                /\ Taken(op)[k] = Nth(Unused(y), w - f)
    BY TakenOne
  <2>3. y = z /\ got[k] = Taken(op)[k]
    BY <1>1, <2>1, <2>2
  <2>4. Buckets(pool) /\ Need(op) \in Nat
    BY OperationFacts DEF IndInv, Memory
  <2>5. PICK all \in Nat, len \in Nat : all = Wants(op, Need(op), z) /\ len = Len(pool[z])
    BY <2>4, WantsFacts, BucketFacts
  <2>6. f = all
    <3>1. FromPool(op, Need(op), z) = Wants(op, Need(op), z)
      BY <1>9, <2>4, FromPoolFacts
    <3> QED
      BY <2>2, <2>5, <2>3, <3>1
  <2>7. got[k] = pool[z][len + 1 - w] /\ len + 1 - w \in 1..len
    BY <1>9, <2>2, <2>5, <2>6, <2>3
  <2>8. pool[z] \in Seq(Buffers)
    BY <2>4, BucketFacts
  <2>9. pool[z][len + 1 - w] \in ToSet(pool[z])
    BY <2>5, <2>7, <2>8, Elements
  <2> QED
    BY <2>1, <2>7, <2>9
<1> QED
  BY <1>1, <1>3, <1>5, <1>6, <1>8, <1>9

\* A buffer comes from the bucket of its size, which then shrinks, or is new when that
\* bucket is empty; then the call alone holds what there is of that size.
LEMMA BindBounded ==
  ASSUME IndInv, PoolBounded, Bind, UNCHANGED setting
  PROVE  PoolBounded'
<1>0. PICK m \in Nat : m = Len(metas) + 1
  <2>1. Len(metas) \in Nat
    BY BindTakes
  <2> QED
    BY <2>1
<1> DEFINE op == program[m]
<1>1. /\ op \in Operations /\ Len(metas) \in Nat /\ Len(metas) < Len(program)
      /\ Len(op.sizes) = Need(op) /\ CanTake(op) /\ pool' = PoolAfter(op, Need(op))
      /\ program \in setting.programs /\ phase = "bind" /\ phase' # "idle"
  BY <1>0, BindTakes
<1>2. PICK taken : taken = ToSet(Taken(op))
  OBVIOUS
<1>3. CallBuffers' = CallBuffers \cup taken
  <2>1. PICK a \in Seq(Buffers), b \in Seq(Buffers) :
          /\ temps' = temps \o a /\ outs' = outs \o b
          /\ taken = ToSet(a) \cup ToSet(b)
    BY <1>0, <1>2, BindTakes
  <2>2. temps \in Seq(Buffers) /\ outs \in Seq(Buffers)
    BY DEF IndInv, Memory
  <2>3. ToSet(temps') = ToSet(temps) \cup ToSet(a) /\ ToSet(outs') = ToSet(outs) \cup ToSet(b)
    BY <2>1, <2>2, ElementsOfConcat
  <2> QED
    BY <2>1, <2>3 DEF CallBuffers
<1>4. program' = program /\ Len(metas') = m
  <2>1. metas' = Append(metas, [tempStart |-> Len(temps), outStart |-> Len(outs)])
    BY DEF Bind
  <2>2. metas \in Seq(Starts) /\ [tempStart |-> Len(temps), outStart |-> Len(outs)] \in Starts
    BY <1>1, Lengths DEF IndInv, CallShape, Starts
  <2> QED
    BY <1>0, <2>1, <2>2, AppendProperties DEF Bind
<1>5. setting \in Settings /\ m \in 1..Len(program) /\ m \in 0..Len(program)
  BY <1>0, <1>1, ProgramFacts DEF IndInv
<1>6. program[1].copy <=> op.copy
  <2>1. PICK i \in 1..Len(program) : i = 1
    BY <1>1, <1>5, ProgramFacts
  <2>2. program[1].copy => Len(program) = 1
    BY <1>1, <1>5, <2>1, CopyFacts
  <2>3. ASSUME program[1].copy
        PROVE  m = 1
    <3>1. Len(program) = 1
      BY <2>2, <2>3
    <3> HIDE DEF op
    <3> QED
      BY <1>5, <3>1
  <2>4. op.copy => m = 1
    BY <1>1, <1>5, CopyFacts
  <2> QED
    BY <2>3, <2>4
<1>7. taken \in SUBSET Buffers /\ Need(op) \in Nat
  <2>1. Taken(op) \in Seq(Buffers)
    BY <1>1, TakenBuffers
  <2> QED
    BY <1>1, <1>2, <2>1, Elements, OperationFacts
<1> HIDE DEF op
<1>8. ASSUME NEW z \in Sizes
      PROVE  /\ Cardinality(OfSize(CallBuffers', z)) <= Cardinality(Used(program, m, z))
             /\ \E p \in setting.programs : Cardinality(OfSize(Refill', z)) <= BuffersNeeded(p, z)
  <2>1. PICK u \in Nat, w \in Nat, c \in Nat, t \in Nat :
          /\ u = Cardinality(Used(program, Len(metas), z)) /\ w = Wants(op, Need(op), z)
          /\ c = Cardinality(OfSize(CallBuffers, z)) /\ t = Cardinality(OfSize(taken, z))
    BY <1>1, <1>7, UsedByCall, WantsFacts, BufferSets, OfSizeFacts
  <2>2. Cardinality(Used(program, m, z)) = u + w
    <3>1. Cardinality(Used(program, Len(metas) + 1, z))
            = Cardinality(Used(program, Len(metas), z))
                + Wants(program[Len(metas) + 1], Need(program[Len(metas) + 1]), z)
      BY <1>1, <1>5, UsedByNext
    <3> QED
      BY <1>0, <2>1, <3>1 DEF op
  <2>3. c <= u /\ t <= w
    BY <1>1, <1>2, <2>1, TakenOfSize DEF PoolBounded
  <2>4. Cardinality(OfSize(CallBuffers', z)) <= u + w
    <3>1. /\ Cardinality(OfSize(CallBuffers \cup taken, z)) <= c + t
          /\ Cardinality(OfSize(CallBuffers \cup taken, z)) \in Nat
      BY <1>7, <2>1, BufferSets, OfSizeUnion, OfSizeFacts
    <3> QED
      BY <1>3, <2>3, <3>1
  <2>5. /\ Len(PoolAfter(op, Need(op))[z]) = Len(pool[z]) - FromPool(op, Need(op), z)
        /\ ToSet(PoolAfter(op, Need(op))[z]) \subseteq ToSet(pool[z])
        /\ Inside(PoolAfter(op, Need(op))) \subseteq Idle /\ Buckets(PoolAfter(op, Need(op)))
    BY <1>7, PoolLeft
  <2>6. /\ Idle' = Inside(pool') /\ Inside(pool') \subseteq Idle
        /\ OfSize(Inside(pool'), z) = ToSet(pool'[z])
        /\ Len(pool'[z]) = Len(pool[z]) - FromPool(op, Need(op), z)
        /\ pool'[z] \in Seq(Buffers)
    <3>1. Idle' = Inside(pool')
      BY DEF Idle, Inside
    <3>2. PICK q : q = pool'
      OBVIOUS
    <3>3. Buckets(q) /\ Inside(q) \subseteq Idle
      BY <1>1, <2>5, <3>2
    <3>4. OfSize(Inside(q), z) = ToSet(q[z]) /\ q[z] \in Seq(Buffers)
      BY <3>3, BucketFacts
    <3> QED
      BY <1>1, <2>5, <3>1, <3>2, <3>3, <3>4
  <2>7. \E p \in setting.programs : Cardinality(OfSize(Refill', z)) <= BuffersNeeded(p, z)
    <3>1. CASE program[1].copy
      <4>1. Refill' \in SUBSET Refill
        BY <1>4, <2>6, <3>1 DEF Refill
      <4> QED
        BY <4>1, Shrinks
    <3>2. CASE ~program[1].copy
      <4>1. /\ Refill = Idle \cup CallBuffers /\ Refill' = Inside(pool') \cup CallBuffers'
            /\ ~op.copy
        BY <1>1, <1>4, <1>6, <2>6, <3>2 DEF Refill
      <4>2. Buckets(pool) /\ Idle = Inside(pool)
        BY BufferSets
      <4>3. Len(pool[z]) \in Nat /\ OfSize(Idle, z) = ToSet(pool[z])
        BY <4>2, BucketFacts
      <4>4. CASE w <= Len(pool[z])
        <5>1. OfSize(taken, z) \subseteq OfSize(Idle, z)
          BY <1>1, <1>2, <2>1, <4>1, <4>3, <4>4, TakenOfSize
        <5>2. OfSize(Refill', z) = OfSize(Refill' \cap Refill, z)
          BY <1>3, <2>6, <4>1, <5>1 DEF OfSize
        <5>3. Refill' \cap Refill \in SUBSET Refill
          OBVIOUS
        <5>4. \E p \in setting.programs :
                Cardinality(OfSize(Refill' \cap Refill, z)) <= BuffersNeeded(p, z)
          BY <5>3, Shrinks
        <5> QED
          BY <5>2, <5>4
      <4>5. CASE ~(w <= Len(pool[z]))
        <5>1. FromPool(op, Need(op), z) = Len(pool[z])
          <6>1. Len(pool[z]) < w
            BY <4>3, <4>5
          <6> QED
            BY <1>7, <2>1, <4>1, <4>2, <6>1, FromPoolFacts
        <5>2. Len(pool'[z]) = 0
          BY <2>6, <4>3, <5>1
        <5>3. ToSet(pool'[z]) = {}
          BY <2>6, <5>2, EmptySeq DEF ToSet
        <5>4. OfSize(Refill', z) = OfSize(CallBuffers', z)
          BY <2>6, <4>1, <5>3 DEF OfSize
        <5>5. PICK n \in Nat : n = BuffersNeeded(program, z)
          BY <1>1, Lengths
        <5>6. u + w <= n
          BY <1>1, <1>5, <2>2, <5>5, UsedFacts
        <5>7. Cardinality(OfSize(CallBuffers', z)) \in Nat
          <6>1. CallBuffers' \in SUBSET Buffers
            BY <1>3, <1>7, BufferSets
          <6> QED
            BY <6>1, OfSizeFacts
        <5>8. Cardinality(OfSize(Refill', z)) <= n
          BY <2>4, <5>4, <5>6, <5>7
        <5> QED
          BY <1>1, <5>5, <5>8
      <4> QED
        BY <4>4, <4>5
    <3> QED
      BY <3>1, <3>2
  <2> QED
    BY <2>2, <2>4, <2>7
<1>9. ASSUME NEW z \in Sizes
      PROVE  Used(program, Len(metas), z)' = Used(program, m, z)
  BY <1>4 DEF Used
<1> QED
  BY <1>8, <1>9 DEF PoolBounded, OfSize

\* An error gives nothing back.
LEMMA FailBounded ==
  ASSUME IndInv, PoolBounded, Fail, Inside(pool') \subseteq Idle, UNCHANGED setting
  PROVE  PoolBounded'
<1>1. Inside(pool') \subseteq Refill
  BY BufferSets
<1> QED
  BY <1>1, Empties DEF Fail

\* The buckets receive what the call held.
LEMMA ReadBounded ==
  ASSUME IndInv, PoolBounded, Read, UNCHANGED setting
  PROVE  PoolBounded'
<1>1. phase = "read" /\ metas' = <<>> /\ temps' = <<>> /\ outs' = <<>>
  BY DEF Read
<1>2. /\ Inside(pool') \subseteq Idle \cup CallBuffers
      /\ program[1].copy => Inside(pool') = Idle
  BY ReadReturns
<1>3. Inside(pool') \subseteq Refill
  BY <1>1, <1>2 DEF Refill
<1> QED
  BY <1>1, <1>3, Empties

\* Every step preserves the bound on the pool.
LEMMA NextIsBounded ==
  ASSUME IndInv, PoolBounded, [Next]_vars
  PROVE  PoolBounded'
<1>0. phase \in Phases /\ Inside(pool) = Idle /\ Idle \subseteq Refill
  BY BufferSets DEF IndInv, CallShape
<1>1. CASE Call /\ UNCHANGED setting
  <2>1. metas' = <<>> /\ temps' = <<>> /\ outs' = <<>> /\ Inside(pool') \subseteq Refill
    BY <1>0, <1>1 DEF Call, IndInv, CallShape, Inside
  <2> QED
    BY <1>1, <2>1, Empties
<1>2. CASE AllocActivation /\ UNCHANGED setting
  <2>1. PICK n \in Nat : n = 1
    OBVIOUS
  <2>2. PICK op : pool' = PoolAfter(op, n)
    BY <1>2, <2>1 DEF AllocActivation
  <2>3. Inside(pool') \subseteq Idle
    BY <2>2, PoolLeft
  <2> QED
    BY <1>2, <2>3, GoesOn DEF AllocActivation
<1>3. CASE DropActivation /\ UNCHANGED setting
  <2>1. Inside(pool') \subseteq Idle
    BY <1>0, <1>3 DEF DropActivation, Inside
  <2> QED
    BY <1>3, <2>1, GoesOn DEF DropActivation
<1>4. CASE Bind /\ UNCHANGED setting
  BY <1>4, BindBounded
<1>5. CASE BindFails /\ UNCHANGED setting
  <2>1. PICK n \in Nat : pool' = PoolAfter(program[Len(metas) + 1], n)
    BY <1>5 DEF BindFails
  <2>2. Inside(pool') \subseteq Idle
    BY <2>1, PoolLeft
  <2> QED
    BY <1>5, <2>2, FailBounded DEF BindFails
<1>6. CASE (BeginFails \/ RecordFails \/ SubmitFails \/ WaitFails) /\ UNCHANGED setting
  <2>1. Fail /\ pool' = pool
    BY <1>6 DEF BeginFails, RecordFails, SubmitFails, WaitFails
  <2>2. Inside(pool') \subseteq Idle
    BY <1>0, <2>1 DEF Inside
  <2> QED
    BY <1>6, <2>1, <2>2, FailBounded
<1>7. CASE (Begin \/ Record \/ RecordCopy \/ Submit \/ Wait) /\ UNCHANGED setting
  <2>1. /\ UNCHANGED <<program, metas, temps, outs, pool>>
        /\ phase # "idle" /\ phase' # "idle"
    BY <1>7 DEF Begin, Record, RecordCopy, Submit, Wait, AfterRecord
  <2>2. Inside(pool') \subseteq Idle
    BY <1>0, <2>1 DEF Inside
  <2> QED
    BY <1>7, <2>1, <2>2, GoesOn
<1>8. CASE Read /\ UNCHANGED setting
  BY <1>8, ReadBounded
<1>9. CASE GpuStep \/ UNCHANGED vars
  <2>1. UNCHANGED <<setting, phase, program, metas, temps, outs, pool>>
    BY <1>9 DEF GpuStep, Dispatch, Complete, host, vars
  <2>2. Inside(pool') \subseteq Idle
    BY <1>0, <2>1 DEF Inside
  <2> QED
    BY <2>1, <2>2, GoesOn
<1> QED
  BY <1>1, <1>2, <1>3, <1>4, <1>5, <1>6, <1>7, <1>8, <1>9 DEF Next, CallerStep, HostStep

\* The bound holds in every reachable state.
LEMMA PoolInductive == Spec => []PoolBounded
<1>1. IndInv /\ PoolBounded /\ [Next]_vars => PoolBounded'
  BY NextIsBounded
<1> QED
  BY <1>1, InitBounded, Inductive, PTL DEF Spec

\* The buffers of a size, counted by where they are.
LEMMA LiveSize ==
  ASSUME IndInv, PoolBounded, NEW z \in Sizes
  PROVE  /\ Cardinality(OfSize(Live, z)) \in Nat /\ Cardinality(OfSize(held, z)) \in Nat
         /\ \E p \in setting.programs :
              Cardinality(OfSize(Live, z))
                <= BuffersNeeded(p, z) + Cardinality(OfSize(held, z)) + 1
<1> DEFINE S == Idle \cup CallBuffers
<1>1. /\ S \in SUBSET Buffers /\ held \in SUBSET Buffers /\ Refill \in SUBSET Buffers
      /\ CallBuffers \in SUBSET Buffers /\ Live = S \cup held
  BY BufferSets DEF Live
<1>2. PICK p \in setting.programs : Cardinality(OfSize(Refill, z)) <= BuffersNeeded(p, z)
  BY DEF PoolBounded
<1>3. PICK n \in Nat, h \in Nat, r \in Nat, s \in Nat, l \in Nat, c \in Nat :
        /\ n = BuffersNeeded(p, z) /\ h = Cardinality(OfSize(held, z))
        /\ r = Cardinality(OfSize(Refill, z)) /\ s = Cardinality(OfSize(S, z))
        /\ l = Cardinality(OfSize(Live, z)) /\ c = Cardinality(OfSize(CallBuffers, z))
  <2> HIDE DEF S
  <2>1. Live \in SUBSET Buffers
    BY BufferSets
  <2> QED
    BY <1>1, <2>1, Lengths, OfSizeFacts
<1>4. s <= r + 1
  <2>1. CASE S = Refill
    <3>1. s = r
      BY <1>3, <2>1
    <3> QED
      BY <3>1
  <2>2. CASE S # Refill
    <3>1. phase # "idle" /\ program[1].copy
      <4>1. phase = "idle" => CallBuffers = {}
        BY DEF IndInv, CallShape, CallBuffers, ToSet
      <4> QED
        BY <2>2, <4>1 DEF Refill
    <3>2. c <= 1
      <4>1. PICK u \in Nat : u = Cardinality(Used(program, Len(metas), z))
        BY <3>1, UsedByCall
      <4>2. u <= 1 /\ c <= u
        BY <1>3, <3>1, <4>1, UsedByCall DEF PoolBounded
      <4> QED
        BY <4>2
    <3>3. S = Refill \cup CallBuffers
      BY <3>1 DEF Refill
    <3> HIDE DEF S
    <3>4. s <= r + c
      BY <1>1, <1>3, <3>3, OfSizeUnion
    <3> QED
      BY <3>2, <3>4
  <2> QED
    BY <2>1, <2>2
<1> HIDE DEF S
<1>5. l <= s + h
  BY <1>1, <1>3, OfSizeUnion
<1>6. l <= n + h + 1
  BY <1>2, <1>3, <1>4, <1>5
<1> QED
  BY <1>3, <1>6

\* Of each size there are at most the buffers that the call which needs most of that size
\* needs, the activations of the size, and one staging buffer, whatever calls fail and
\* whatever returns to the pool: a bucket that calls of a size have filled serves the
\* next call of that size before anything is allocated (BufferPool::get).  This says
\* nothing of buffers of different sizes together: their buckets are never emptied.
THEOREM BuffersBounded == Spec => []LiveBounded
<1>1. ASSUME IndInv, PoolBounded
      PROVE  LiveBounded
  BY <1>1, LiveSize DEF LiveBounded
<1> QED
  BY <1>1, PoolInductive, Inductive, PTL

-----------------------------------------------------------------------------
(* Descriptor sets *)

\* Between calls the cursor is back at the first set, and a call takes one set for each
\* dispatch it has recorded.
CursorKept ==
  /\ phase \in {"idle", "bind", "begin", "read"} => cursor = 0
  /\ phase = "record" => cursor <= Len(recorded)
  /\ phase # "idle" /\ program[1].copy => cursor = 0

\* Every call has the descriptor sets it needs.
SetsSuffice == \A p \in setting.programs : Len(p) + PoolSets <= setting.maxSets + 1

\* Without failures: as many sets as the longest call needs, rounded up to whole pools;
\* the cursor is lost only by a call for which the driver has no more sets, after which no
\* pool is added.
SetsInv ==
  setting.failures = {} =>
    /\ \E p \in setting.programs : Len(sets) < Len(p) + PoolSets
    /\ CursorKept \/ (Len(sets) + PoolSets > setting.maxSets /\ ~SetsSuffice)

\* References of a well-formed call are in bounds once everything is bound.
LEMMA BoundRefs ==
  ASSUME IndInv, phase # "idle", Len(metas) = Len(program), ReferencesExist(program),
         NEW i \in 1..Len(program)
  PROVE  RefsInBounds(i)
<1> SUFFICES ASSUME NEW n \in DOMAIN program[i].ins, program[i].ins[n].kind = "ref"
             PROVE  RefIndex(program[i].ins[n]) <= Len(outs)
  BY DEF RefsInBounds
<1> DEFINE b == program[i].ins[n]
<1>1. /\ program[i] \in Operations /\ DOMAIN program = 1..Len(program)
      /\ i \in 1..Len(metas)
  BY BoundFacts, ProgramFacts DEF IndInv, CallShape
<1>2. b.op \in Nat /\ b.out \in Nat
  <2>1. b \in Bindings
    BY <1>1, OperationFacts, ElementOfSeq
  <2> QED
    BY <2>1 DEF Bindings
<1>3. b.op + 1 < i /\ b.out < program[b.op + 1].outs
  BY <1>1 DEF ReferencesExist
<1>4. PICK k \in 1..Len(metas) : k = b.op + 1
  BY <1>1, <1>2, <1>3
<1>5. /\ metas[k].outStart + program[k].outs <= Len(outs) /\ metas[k].outStart \in Nat
      /\ program[k].outs \in Nat
  BY BoundFacts, OperationFacts DEF Bound
<1>6. RefIndex(b) = metas[k].outStart + b.out + 1
  BY <1>4 DEF RefIndex
<1>7. b.out < program[k].outs
  BY <1>3, <1>4
<1>8. Len(outs) \in Nat
  BY Lengths
<1> HIDE DEF b
<1>9. RefIndex(b) <= Len(outs)
  BY <1>2, <1>5, <1>6, <1>7, <1>8
<1> QED
  BY <1>9 DEF b

\* Numbers of sets and of recorded dispatches.
LEMMA SetsFacts ==
  ASSUME IndInv
  PROVE  /\ Len(sets) \in Nat /\ cursor \in Nat /\ cursor <= Len(sets) /\ Len(sets) <= setting.maxSets
         /\ PoolSets \in Nat \ {0} /\ setting.maxSets \in Nat
         /\ Len(recorded) \in Nat
         /\ \A p \in setting.programs : Len(p) \in Nat \ {0}
<1>1. Len(sets) \in Nat /\ Len(recorded) \in Nat
  BY LenProperties DEF IndInv, Recording
<1> QED
  BY <1>1, EngineAssumption, ProgramFacts DEF IndInv, Recording

\* The first pool is there from the start.
LEMMA InitSets == Init => SetsInv
<1> SUFFICES ASSUME Init
             PROVE  SetsInv
  OBVIOUS
<1>1. IndInv
  BY InitIsInv
<1>2. PoolSets \in Nat \ {0} /\ sets = [d \in 1..PoolSets |-> <<>>]
  BY <1>1, SetsFacts DEF Init
<1>3. Len(sets) = PoolSets
  BY <1>2
<1>4. PICK p \in setting.programs : Len(p) \in Nat \ {0}
  BY <1>1, EngineAssumption, SetsFacts DEF IndInv
<1>5. Len(sets) < Len(p) + PoolSets
  BY <1>2, <1>3, <1>4
<1>6. CursorKept
  BY DEF Init, CursorKept
<1> QED
  BY <1>5, <1>6 DEF SetsInv

\* The sets stay, and the cursor is kept if it was.
LEMMA SameSets ==
  ASSUME SetsInv, UNCHANGED setting, Len(sets') = Len(sets), CursorKept => CursorKept'
  PROVE  SetsInv'
<1>1. SetsSuffice' = SetsSuffice
  BY DEF SetsSuffice
<1> QED
  BY <1>1 DEF SetsInv

\* A pool is added only when a dispatch has no set left, and then the call has more
\* dispatches than there were sets.
LEMMA RecordSets ==
  ASSUME IndInv, SetsInv, IndInv', Record, UNCHANGED setting
  PROVE  SetsInv'
<1>1. /\ phase = "record" /\ ~program[NextOp].copy /\ CanGrow
      /\ sets' = [SetsAfterGrowth EXCEPT ![cursor + 1] = Places(NextOp)]
      /\ cursor' = cursor + 1
      /\ recorded' = Append(recorded, [set |-> cursor + 1, places |-> <<>>])
      /\ phase' = AfterRecord /\ program' = program
  BY DEF Record, CursorAfter
<1>2. /\ Len(sets') = IF cursor < Len(sets) THEN Len(sets) ELSE Len(sets) + PoolSets
  <2>1. /\ SetsAfterGrowth \in Seq(Seq(Place)) /\ Len(SetsAfterGrowth) \in Nat
        /\ Len(SetsAfterGrowth) = IF cursor < Len(sets) THEN Len(sets) ELSE Len(sets) + PoolSets
    BY <1>1, GrownSets
  <2>2. Len(sets') = Len(SetsAfterGrowth)
    BY <1>1, <2>1, LenProperties DEF IndInv, Recording
  <2> QED
    BY <2>1, <2>2
<1>3. /\ Len(sets) \in Nat /\ cursor \in Nat /\ cursor <= Len(sets) /\ Len(recorded) \in Nat
      /\ PoolSets \in Nat \ {0} /\ setting.maxSets \in Nat
  BY SetsFacts
<1>4. /\ Len(recorded) < Len(program) /\ program \in setting.programs
      /\ Len(program) \in Nat \ {0}
  BY <1>1, SetsFacts DEF IndInv, Recording, CallShape
<1>5. Len(recorded') = Len(recorded) + 1
  BY <1>1, LenProperties DEF IndInv, Recording
<1>6. phase' \in {"record", "submit"}
  BY <1>1 DEF AfterRecord
<1>7. CursorKept => CursorKept'
  <2> SUFFICES ASSUME CursorKept
               PROVE  CursorKept'
    OBVIOUS
  <2>1. cursor' <= Len(recorded')
    BY <1>1, <1>3, <1>5 DEF CursorKept
  <2>2. ~program[1].copy
    <3>1. ASSUME program[1].copy
          PROVE  FALSE
      <4>1. PICK i \in 1..Len(program) : i = 1
        BY <1>4
      <4>2. Len(program) = 1
        BY <1>4, <3>1, <4>1, CopyFacts DEF IndInv
      <4>3. NextOp = 1
        BY <1>3, <1>4, <4>2 DEF NextOp
      <4> QED
        BY <1>1, <3>1, <4>3
    <3> QED
      BY <3>1
  <2> QED
    BY <1>1, <1>6, <2>1, <2>2 DEF CursorKept
<1>8. CASE cursor < Len(sets)
  BY <1>2, <1>7, <1>8, SameSets
<1>9. CASE ~(cursor < Len(sets))
  <2> SUFFICES ASSUME setting.failures = {}
               PROVE  Len(sets') < Len(program) + PoolSets /\ CursorKept'
    BY <1>4 DEF SetsInv
  <2>1. Len(sets) + PoolSets <= setting.maxSets
    BY <1>1, <1>9 DEF CanGrow
  <2>2. CursorKept
    BY <1>3, <2>1 DEF SetsInv
  <2>3. Len(sets) <= Len(recorded)
    BY <1>1, <1>3, <1>9, <2>2 DEF CursorKept
  <2>4. Len(sets') < Len(program) + PoolSets
    BY <1>2, <1>3, <1>4, <1>9, <2>3
  <2> QED
    BY <1>7, <2>2, <2>4
<1> QED
  BY <1>8, <1>9

\* Without failures of the driver only a missing set ends the recording.
LEMMA RecordFailsSets ==
  ASSUME IndInv, SetsInv, RecordFails, UNCHANGED setting,
         setting.failures = {} => \A p \in setting.programs : ReferencesExist(p)
  PROVE  SetsInv'
<1> SUFFICES ASSUME setting.failures = {}
             PROVE  SetsInv'
  BY DEF SetsInv
<1>1. /\ phase = "record" /\ UNCHANGED <<sets, cursor>>
      /\ ~RefsInBounds(NextOp) \/ ~CanGrow
  BY DEF RecordFails
<1>2. /\ Len(sets) \in Nat /\ cursor \in Nat /\ cursor <= Len(sets) /\ Len(recorded) \in Nat
      /\ PoolSets \in Nat \ {0} /\ setting.maxSets \in Nat
  BY SetsFacts
<1>3. /\ Len(recorded) < Len(program) /\ program \in setting.programs
      /\ Len(program) \in Nat \ {0} /\ Len(metas) = Len(program)
  BY <1>1, SetsFacts DEF IndInv, Recording, CallShape
<1>4. RefsInBounds(NextOp)
  <2>1. NextOp \in 1..Len(program)
    BY <1>2, <1>3 DEF NextOp
  <2> QED
    BY <1>1, <1>3, <2>1, BoundRefs
<1>5. cursor = Len(sets) /\ Len(sets) + PoolSets > setting.maxSets
  BY <1>1, <1>2, <1>4 DEF CanGrow
<1>6. ~SetsSuffice
  <2>1. CASE ~CursorKept
    BY <2>1 DEF SetsInv
  <2>2. CASE CursorKept
    <3>1. Len(sets) < Len(program)
      BY <1>1, <1>2, <1>3, <1>5, <2>2 DEF CursorKept
    <3>2. ~(Len(program) + PoolSets <= setting.maxSets + 1)
      BY <1>2, <1>3, <1>5, <3>1
    <3> QED
      BY <1>3, <3>2 DEF SetsSuffice
  <2> QED
    BY <2>1, <2>2
<1>7. SetsSuffice' = SetsSuffice
  BY DEF SetsSuffice
<1> QED
  BY <1>1, <1>5, <1>6, <1>7 DEF SetsInv

\* Every step preserves the bound on the sets.
LEMMA NextIsSets ==
  ASSUME IndInv, SetsInv, IndInv', [Next]_vars,
         setting.failures = {} => \A p \in setting.programs : ReferencesExist(p)
  PROVE  SetsInv'
<1>1. CASE Call /\ UNCHANGED setting
  <2>1. Len(sets') = Len(sets)
    <3>1. sets \in Seq(Seq(Place))
      BY DEF IndInv, Recording
    <3>2. CASE gpu = <<>>
      <4>1. sets' = [d \in 1..Len(sets) |-> <<>>] /\ Len(sets) \in Nat
        BY <1>1, <3>1, <3>2, LenProperties DEF Call
      <4> QED
        BY <4>1
    <3>3. CASE gpu # <<>>
      BY <1>1, <3>3 DEF Call
    <3> QED
      BY <3>2, <3>3
  <2>2. CursorKept => CursorKept'
    BY <1>1 DEF Call, CursorKept
  <2> QED
    BY <1>1, <2>1, <2>2, SameSets
<1>2. CASE (AllocActivation \/ DropActivation) /\ UNCHANGED setting
  <2>1. UNCHANGED <<phase, program, recorded, sets, cursor>>
    BY <1>2 DEF AllocActivation, DropActivation
  <2> QED
    BY <1>2, <2>1, SameSets DEF CursorKept
<1>3. CASE (Bind \/ Begin \/ Submit) /\ UNCHANGED setting
  <2>1. /\ UNCHANGED <<program, sets, cursor>>
        /\ phase # "idle"
        /\ \/ phase \in {"bind", "begin"} /\ phase' # "idle"
           \/ phase' = "wait"
        /\ phase' = "record" => phase = "begin" /\ recorded' = <<>>
    BY <1>3 DEF Bind, Begin, Submit
  <2>2. phase' = "record" /\ cursor = 0 => cursor <= Len(recorded')
    BY <2>1, EmptySeq
  <2>3. CursorKept => CursorKept'
    BY <2>1, <2>2 DEF CursorKept
  <2> QED
    BY <1>3, <2>1, <2>3, SameSets
<1>4. CASE (BindFails \/ BeginFails) /\ UNCHANGED setting
  <2>1. /\ phase \in {"bind", "begin"} /\ phase' = "idle"
        /\ UNCHANGED <<sets, cursor>>
    BY <1>4 DEF BindFails, BeginFails, Fail
  <2>2. CursorKept => CursorKept'
    BY <2>1 DEF CursorKept
  <2> QED
    BY <1>4, <2>1, <2>2, SameSets
<1>5. CASE Record /\ UNCHANGED setting
  BY <1>5, RecordSets
<1>6. CASE RecordCopy /\ UNCHANGED setting
  <2>1. /\ phase = "record" /\ phase' \in {"record", "submit"}
        /\ UNCHANGED <<program, sets, cursor>>
        /\ recorded' = Append(recorded, [set |-> 0, places |-> Places(NextOp)])
    BY <1>6 DEF RecordCopy, AfterRecord
  <2>2. Len(recorded') = Len(recorded) + 1 /\ Len(recorded) \in Nat /\ cursor \in Nat
    BY <2>1, SetsFacts, LenProperties DEF IndInv, Recording
  <2>3. CursorKept => CursorKept'
    BY <2>1, <2>2 DEF CursorKept
  <2> QED
    BY <1>6, <2>1, <2>3, SameSets
<1>7. CASE RecordFails /\ UNCHANGED setting
  BY <1>7, RecordFailsSets
<1>8. CASE (SubmitFails \/ WaitFails) /\ UNCHANGED setting
  <2>1. setting.failures # {}
    BY <1>8 DEF SubmitFails, WaitFails
  <2> QED
    BY <1>8, <2>1 DEF SetsInv
<1>9. CASE Wait /\ UNCHANGED setting
  <2>1. /\ phase = "wait" /\ phase' = "read" /\ UNCHANGED <<program, sets>>
        /\ cursor' = IF program[1].copy THEN cursor ELSE 0
    BY <1>9 DEF Wait
  <2>2. CursorKept => CursorKept'
    BY <2>1 DEF CursorKept
  <2> QED
    BY <1>9, <2>1, <2>2, SameSets
<1>10. CASE Read /\ UNCHANGED setting
  <2>1. phase = "read" /\ phase' = "idle" /\ UNCHANGED <<sets, cursor>>
    BY <1>10 DEF Read
  <2>2. CursorKept => CursorKept'
    BY <2>1 DEF CursorKept
  <2> QED
    BY <1>10, <2>1, <2>2, SameSets
<1>11. CASE GpuStep
  <2>1. UNCHANGED <<setting, phase, program, recorded, sets, cursor>>
    BY <1>11 DEF GpuStep, Dispatch, Complete, host
  <2> QED
    BY <2>1, SameSets DEF CursorKept
<1>12. CASE UNCHANGED vars
  <2>1. UNCHANGED <<setting, phase, program, recorded, sets, cursor>>
    BY <1>12 DEF vars
  <2> QED
    BY <2>1, SameSets DEF CursorKept
<1> QED
  BY <1>1, <1>2, <1>3, <1>4, <1>5, <1>6, <1>7, <1>8, <1>9, <1>10, <1>11, <1>12
     DEF Next, CallerStep, HostStep

\* The bound holds in every reachable state.
LEMMA SetsInductive ==
  ASSUME \A s \in Settings : s.failures = {} => \A p \in s.programs : ReferencesExist(p)
  PROVE  Spec => []SetsInv
<1>1. IndInv /\ SetsInv /\ IndInv' /\ [Next]_vars => SetsInv'
  BY NextIsSets DEF IndInv
<1> QED
  BY <1>1, InitSets, Inductive, PTL DEF Spec

\* While the driver's calls succeed there are never more descriptor sets than the
\* longest call needs, rounded up to whole pools: submit_batch resets the cursor "so
\* subsequent batches reuse the same pre-allocated pool entries instead of growing the
\* pool indefinitely". The hypothesis is that callers name outputs which exist;
\* execute_batch compares a chain reference with the number of operations only, and a
\* reference beyond out_bufs ends the call while it records, with the cursor advanced.
THEOREM DescriptorSetsBounded ==
  ASSUME \A s \in Settings : s.failures = {} => \A p \in s.programs : ReferencesExist(p)
  PROVE  Spec => []SetsBounded
<1>1. SetsInv => SetsBounded
  BY DEF SetsInv, SetsBounded
<1> QED
  BY <1>1, SetsInductive, PTL

-----------------------------------------------------------------------------
(* What buffers and tensors hold *)

\* The buffer that byte binding n of operation i was given.
TempOf(i, n) == temps[metas[i].tempStart + TempIndex(program[i], n)]

\* The buffer of output j of operation i.
OutOf(i, j) == outs[metas[i].outStart + j]

\* The operations of the call that have run, when no wait has failed.
Done ==
  IF phase = "wait" /\ ~fence THEN gpu[1].done
  ELSE IF phase \in {"wait", "read"} THEN 1..Len(program)
  ELSE {}

\* The operations of S that store to tensor t.
StoresTo(t, S) == {k \in S : t \in program[k].writes}

\* What a tensor holds after the stores S, made in order.
LastStore(S) == IF S = {} THEN Stale ELSE Written(CHOOSE k \in S : \A m \in S : m <= k)

\* The operations that a barrier separates from i.
Before(i) == {k \in 1..i - 1 : \E b \in k..i - 1 : program[b].barrier}

\* Outputs and tensors hold what the operations S, run in program order, leave in them;
\* S has all that its operations wait for.
Current(S) ==
  /\ \A i \in S : Before(i) \subseteq S
  /\ \A i \in S : \A j \in 1..program[i].outs : data[OutOf(i, j)] = Result(i, j)
  /\ \A t \in Tensors : data[t] = LastStore(StoresTo(t, S))

\* Temporaries hold the bytes they were filled with.
TempsKept(m) == \A i \in 1..m : \A n \in ByteBindings(program[i]) : data[TempOf(i, n)] = Given(i, n)

\* What has been written, as long as no wait for the fence has failed.
DataInv ==
  /\ DOMAIN data = Buffers \cup Tensors
  /\ synced /\ phase # "idle" => TempsKept(Len(metas)) /\ Current(Done)

\* Where the buffers of a call are.
LEMMA BufferFacts ==
  ASSUME IndInv, phase # "idle", NEW i \in 1..Len(metas)
  PROVE  /\ \A n \in ByteBindings(program[i]) : TempOf(i, n) \in Buffers /\ TempOf(i, n) \in ToSet(temps)
         /\ \A j \in 1..program[i].outs : OutOf(i, j) \in Buffers /\ OutOf(i, j) \in ToSet(outs)
<1>1. /\ program[i] \in Operations /\ Bound(i)
      /\ metas[i].tempStart \in Nat /\ metas[i].outStart \in Nat
  BY BoundFacts
<1>2. temps \in Seq(Buffers) /\ outs \in Seq(Buffers) /\ Len(temps) \in Nat /\ Len(outs) \in Nat
  BY LenProperties DEF IndInv, Memory
<1>3. ASSUME NEW n \in ByteBindings(program[i])
      PROVE  TempOf(i, n) \in Buffers /\ TempOf(i, n) \in ToSet(temps)
  <2>1. PICK x \in Nat, c \in Nat :
          /\ x = TempIndex(program[i], n) /\ c = Cardinality(ByteBindings(program[i]))
          /\ x \in 1..c
    BY <1>1, OperationFacts, TempIndexFacts
  <2>2. metas[i].tempStart + c <= Len(temps)
    BY <1>1, <2>1 DEF Bound
  <2>3. metas[i].tempStart + x \in 1..Len(temps)
    BY <1>1, <1>2, <2>1, <2>2
  <2>4. TempOf(i, n) = temps[metas[i].tempStart + x]
    BY <2>1 DEF TempOf
  <2> QED
    BY <1>2, <2>3, <2>4, Elements, ElementOfSeq
<1>4. ASSUME NEW j \in 1..program[i].outs
      PROVE  OutOf(i, j) \in Buffers /\ OutOf(i, j) \in ToSet(outs)
  <2>1. metas[i].outStart + j \in 1..Len(outs)
    BY OutputFacts
  <2> QED
    BY <1>2, <2>1, Elements, ElementOfSeq DEF OutOf
<1> QED
  BY <1>3, <1>4

\* Each output has a buffer of its own.
LEMMA OutsDistinct ==
  ASSUME IndInv, phase # "idle", NEW i \in 1..Len(metas), NEW k \in 1..Len(metas),
         NEW j \in 1..program[i].outs, NEW l \in 1..program[k].outs, OutOf(i, j) = OutOf(k, l)
  PROVE  i = k /\ j = l
<1>1. /\ program[i] \in Operations /\ Bound(i) /\ metas[i].outStart \in Nat
      /\ program[k] \in Operations /\ Bound(k) /\ metas[k].outStart \in Nat
      /\ program[i].outs \in Nat /\ program[k].outs \in Nat
  BY BoundFacts, OperationFacts
<1>2. outs \in Seq(Buffers) /\ IsInjective(outs) /\ Len(outs) \in Nat /\ DOMAIN outs = 1..Len(outs)
  BY LenProperties DEF IndInv, Memory
<1>3. metas[i].outStart + j \in 1..Len(outs) /\ metas[k].outStart + l \in 1..Len(outs)
  BY OutputFacts
<1>4. PICK x \in Nat, y \in Nat : x = metas[i].outStart /\ y = metas[k].outStart
  BY <1>1
<1>5. x + j = y + l
  BY <1>2, <1>3, <1>4 DEF IsInjective, OutOf
<1>6. i \in Nat /\ k \in Nat
  OBVIOUS
<1>7. CASE i = k
  BY <1>4, <1>5, <1>7
<1>8. CASE i < k
  <2>1. x + program[i].outs <= y
    <3>1. i \in 1..k - 1
      BY <1>6, <1>8
    <3> QED
      BY <1>1, <1>4, <3>1 DEF Bound
  <2> QED
    BY <1>1, <1>5, <2>1
<1>9. CASE k < i
  <2>1. y + program[k].outs <= x
    <3>1. k \in 1..i - 1
      BY <1>6, <1>9
    <3> QED
      BY <1>1, <1>4, <3>1 DEF Bound
  <2> QED
    BY <1>1, <1>5, <2>1
<1> QED
  BY <1>6, <1>7, <1>8, <1>9

\* An operation that may run depends on no other that has not, and none that depends on
\* it has.
LEMMA Independent ==
  ASSUME IndInv, phase # "idle", IsSynchronized(program), NEW S \in SUBSET (1..Len(program)),
         \A k \in S : Before(k) \subseteq S,
         NEW i \in 1..Len(program), i \notin S, Before(i) \subseteq S
  PROVE  /\ \A k \in 1..i - 1 : DependsOn(program, i, k) => k \in S
         /\ \A k \in S : i < k => ~DependsOn(program, k, i)
<1>1. DOMAIN program = 1..Len(program)
  BY ProgramFacts DEF IndInv, CallShape
<1>2. ASSUME NEW k \in 1..i - 1, DependsOn(program, i, k)
      PROVE  k \in S
  BY <1>1, <1>2 DEF IsSynchronized, BarriersBetween, Before
<1>3. ASSUME NEW k \in S, i < k, DependsOn(program, k, i)
      PROVE  FALSE
  <2>1. i \in 1..k - 1
    BY <1>3
  <2>2. i \in Before(k)
    BY <1>1, <1>3, <2>1 DEF IsSynchronized, BarriersBetween, Before
  <2> QED
    BY <1>3, <2>2
<1> QED
  BY <1>2, <1>3

\* A dispatch finds at each binding what it would find if operations ran in order.
LEMMA InputIsRight ==
  ASSUME IndInv, phase # "idle", Len(metas) = Len(program), IsSynchronized(program),
         NEW S \in SUBSET (1..Len(program)), Current(S), TempsKept(Len(metas)),
         NEW i \in 1..Len(program), i \notin S, Before(i) \subseteq S, RefsInBounds(i),
         NEW n \in 1..Len(program[i].ins)
  PROVE  data[InputPlace(i, n)] = Wanted(program, i, n)
<1> DEFINE b == program[i].ins[n]
<1>1. /\ program[i] \in Operations /\ i \in 1..Len(metas) /\ DOMAIN program = 1..Len(program)
      /\ DOMAIN program[i].ins = 1..Len(program[i].ins)
  BY BoundFacts, OperationFacts, ProgramFacts DEF IndInv, CallShape
<1>2. b \in Bindings
  BY <1>1, OperationFacts, ElementOfSeq
<1>3. /\ \A k \in 1..i - 1 : DependsOn(program, i, k) => k \in S
      /\ \A k \in S : i < k => ~DependsOn(program, k, i)
  BY Independent DEF Current
<1>4. CASE b.kind = "bytes"
  <2>1. n \in ByteBindings(program[i])
    BY <1>1, <1>4 DEF ByteBindings
  <2>2. InputPlace(i, n) = TempOf(i, n)
    BY <1>4 DEF InputPlace, TempOf
  <2>3. Wanted(program, i, n) = Given(i, n)
    BY <1>4 DEF Wanted
  <2> QED
    BY <1>1, <2>1, <2>2, <2>3 DEF TempsKept
<1>5. CASE b.kind = "ref"
  <2>1. b.op \in Nat /\ b.out \in Nat
    BY <1>2, <1>5 DEF Bindings
  <2>2. b.op + 1 < i /\ b.out < program[b.op + 1].outs
    BY <1>1, <1>5 DEF IsSynchronized, ReferencesExist
  <2>3. PICK k \in 1..i - 1 : k = b.op + 1
    BY <2>1, <2>2
  <2>4. PICK l \in Nat : l = b.out + 1
    BY <2>1
  <2>5. k \in S
    <3>1. DependsOn(program, i, k)
      BY <1>1, <1>5, <2>3 DEF DependsOn
    <3> QED
      BY <1>3, <3>1
  <2>6. l \in 1..program[k].outs
    <3>1. program[k] \in Operations
      BY <1>1, ProgramFacts DEF IndInv, CallShape
    <3>2. PICK o \in Nat : o = program[k].outs
      BY <3>1, OperationFacts
    <3>3. b.out < o
      BY <2>2, <2>3, <3>2
    <3> QED
      BY <2>1, <2>4, <3>2, <3>3
  <2>7. InputPlace(i, n) = OutOf(k, l)
    <3>1. PICK o \in Nat : o = metas[k].outStart
      BY <1>1, BoundFacts
    <3>2. InputPlace(i, n) = outs[metas[b.op + 1].outStart + b.out + 1]
      BY <1>5 DEF InputPlace, RefIndex
    <3>3. o + b.out + 1 = o + l
      BY <2>1, <2>4, <3>1
    <3> QED
      BY <2>3, <3>1, <3>2, <3>3 DEF OutOf
  <2>8. Wanted(program, i, n) = Result(k, l)
    BY <1>5, <2>3, <2>4 DEF Wanted
  <2> QED
    BY <2>5, <2>6, <2>7, <2>8 DEF Current
<1>6. CASE b.kind = "gpu"
  <2> DEFINE t == b.tensor
             stores == {k \in 1..i - 1 : t \in program[k].writes}
  <2>1. t \in Tensors
    BY <1>2, <1>6 DEF Bindings
  <2>2. InputPlace(i, n) = t
    BY <1>6 DEF InputPlace
  <2>3. Wanted(program, i, n) = LastStore(stores)
    BY <1>6 DEF Wanted, LastStore
  <2>4. Reads(program[i], t)
    BY <1>1, <1>6 DEF Reads
  <2>5. stores = StoresTo(t, S)
    <3>1. ASSUME NEW k \in 1..i - 1, t \in program[k].writes
          PROVE  k \in S
      <4>1. DependsOn(program, i, k)
        BY <2>4, <3>1 DEF DependsOn
      <4> QED
        BY <1>3, <4>1
    <3>2. ASSUME NEW k \in S, t \in program[k].writes
          PROVE  k \in 1..i - 1
      <4>1. CASE i < k
        <5>1. DependsOn(program, k, i)
          BY <2>4, <3>2 DEF DependsOn
        <5> QED
          BY <1>3, <4>1, <5>1
      <4>2. CASE ~(i < k)
        BY <4>2
      <4> QED
        BY <4>1, <4>2
    <3> QED
      BY <3>1, <3>2 DEF StoresTo
  <2> QED
    BY <2>1, <2>2, <2>3, <2>5 DEF Current
<1> QED
  BY <1>2, <1>4, <1>5, <1>6 DEF Bindings

\* The dispatch that runs, as the call's bindings show it.
LEMMA RunsNext ==
  ASSUME IndInv, DataInv, synced, NEW j \in DOMAIN gpu, NEW i \in DOMAIN gpu[j].recorded,
         Dispatch(j, i), IsSynchronized(program)
  PROVE  /\ i \in 1..Len(program) /\ i \in 1..Len(metas) /\ i \notin Done /\ Before(i) \subseteq Done
         /\ Done \subseteq 1..Len(program) /\ gpu[j] = gpu[1] /\ Done = gpu[j].done
         /\ InputsRight(gpu[j], i)
<1>1. /\ phase = "wait" /\ ~fence /\ OfCall(gpu[j])
      /\ program \in setting.programs /\ Len(metas) = Len(program)
  BY InFlight
<1>2. /\ i \in 1..Len(program) /\ RefsInBounds(i)
      /\ PlacesOf(gpu[j].recorded[i]) = Places(i)
  BY InFlightPoint
<1>3. gpu[j] = gpu[1]
  <2>1. gpu # <<>>
    OBVIOUS
  <2>2. gpu = <<gpu[1]>>
    BY <1>1, <2>1 DEF IndInv, Queue
  <2>3. PICK job : job = gpu[1]
    OBVIOUS
  <2>4. gpu = <<job>>
    BY <2>2, <2>3
  <2> QED
    BY <2>4
<1>4. Done = gpu[j].done /\ Done \subseteq 1..Len(program)
  BY <1>1, <1>3 DEF Done, OfCall
<1>5. i \notin Done /\ Before(i) \subseteq Done
  <2>1. MustPrecede(gpu[j], i) = Before(i)
    BY <1>1 DEF OfCall, MustPrecede, Before
  <2> QED
    BY <1>4, <2>1 DEF Dispatch
<1>6. TempsKept(Len(metas)) /\ Current(Done)
  BY <1>1 DEF DataInv
<1>7. InputsRight(gpu[j], i)
  <2>1. gpu[j].ops = program
    BY <1>1 DEF OfCall
  <2>2. program[i] \in Operations
    BY <1>1, <1>2, ProgramFacts DEF IndInv
  <2>3. DOMAIN program[i].ins = 1..Len(program[i].ins) /\ program[i].outs \in Nat
        /\ Len(program[i].ins) \in Nat
    BY <2>2, OperationFacts
  <2>4. /\ Places(i) \in Seq(Place)
        /\ Len(Places(i)) = Len(program[i].ins) + program[i].outs
        /\ \A n \in 1..Len(program[i].ins) : Places(i)[n] = InputPlace(i, n)
    BY <1>1, <1>2, PlacesFacts
  <2>5. ASSUME NEW n \in 1..Len(program[i].ins)
        PROVE  n \in DOMAIN Places(i) /\ data[Places(i)[n]] = Wanted(program, i, n)
    <3>1. PICK S : S = Done
      OBVIOUS
    <3>2. data[InputPlace(i, n)] = Wanted(program, i, n)
      BY <1>1, <1>2, <1>4, <1>5, <1>6, <3>1, InputIsRight
    <3>3. n \in DOMAIN Places(i)
      <4>1. DOMAIN Places(i) = 1..Len(Places(i))
        BY <2>4, LenProperties
      <4> QED
        BY <2>3, <2>4, <4>1
    <3> QED
      BY <2>4, <3>2, <3>3
  <2> QED
    BY <1>2, <2>1, <2>3, <2>5 DEF InputsRight
<1> QED
  BY <1>1, <1>2, <1>3, <1>4, <1>5, <1>7

\* What it stores.
LEMMA Stores ==
  ASSUME IndInv, DataInv, synced, NEW j \in DOMAIN gpu, NEW i \in DOMAIN gpu[j].recorded,
         Dispatch(j, i), IsSynchronized(program)
  PROVE  /\ DOMAIN data' = DOMAIN data
         /\ \A t \in Tensors : data'[t] = IF t \in program[i].writes THEN Written(i) ELSE data[t]
         /\ \A l \in 1..program[i].outs : data'[OutOf(i, l)] = Result(i, l)
         /\ \A p \in Buffers : (\A l \in 1..program[i].outs : p # OutOf(i, l)) => data'[p] = data[p]
<1> DEFINE at == Places(i)
           op == program[i]
           Hit(p) == {n \in 1..op.outs : Len(op.ins) + n \in DOMAIN at /\ at[Len(op.ins) + n] = p}
<1>1. /\ i \in 1..Len(program) /\ i \in 1..Len(metas) /\ InputsRight(gpu[j], i)
  BY RunsNext
<1>2. /\ phase = "wait" /\ OfCall(gpu[j]) /\ Len(metas) = Len(program) /\ program \in setting.programs
  BY InFlight
<1>3. RefsInBounds(i) /\ PlacesOf(gpu[j].recorded[i]) = at
  BY InFlightPoint
<1>4. gpu[j].live /\ gpu[j].ops = program
  BY <1>2 DEF OfCall
<1>5. op \in Operations /\ op.outs \in Nat /\ Len(op.ins) \in Nat /\ op.writes \subseteq Tensors
  <2>1. op \in Operations
    BY <1>1, <1>2, ProgramFacts DEF IndInv
  <2> QED
    BY <2>1, OperationFacts DEF Operations
<1>6. /\ at \in Seq(Place) /\ Len(at) = Len(op.ins) + op.outs
      /\ \A l \in 1..op.outs : at[Len(op.ins) + l] = OutOf(i, l)
  BY <1>1, <1>2, <1>3, PlacesFacts DEF OutOf
<1>7. ASSUME NEW p
      PROVE  Hit(p) = {l \in 1..op.outs : OutOf(i, l) = p}
  <2>1. DOMAIN at = 1..Len(op.ins) + op.outs
    BY <1>6, LenProperties
  <2>2. \A l \in 1..op.outs : Len(op.ins) + l \in DOMAIN at
    BY <1>5, <2>1
  <2> QED
    BY <1>6, <2>2
<1>8. data' = [p \in DOMAIN data |->
                 CASE p \in op.writes -> Written(i)
                   [] Hit(p) # {} -> Result(i, CHOOSE n \in Hit(p) : TRUE)
                   [] OTHER -> data[p]]
  BY <1>1, <1>3, <1>4 DEF Dispatch
<1> HIDE DEF Hit, at
<1>9. DOMAIN data' = DOMAIN data /\ DOMAIN data = Buffers \cup Tensors
  BY <1>8 DEF DataInv
<1>10. Buffers \cap Tensors = {}
  BY EngineAssumption
<1>11. \A l \in 1..op.outs : OutOf(i, l) \in Buffers
  BY <1>1, <1>2, BufferFacts
<1>12. ASSUME NEW t \in Tensors
       PROVE  data'[t] = IF t \in op.writes THEN Written(i) ELSE data[t]
  <2>1. Hit(t) = {}
    BY <1>7, <1>10, <1>11
  <2> QED
    BY <1>8, <1>9, <2>1
<1>13. ASSUME NEW l \in 1..op.outs
       PROVE  data'[OutOf(i, l)] = Result(i, l)
  <2>1. OutOf(i, l) \notin op.writes /\ OutOf(i, l) \in DOMAIN data
    BY <1>5, <1>9, <1>10, <1>11
  <2>2. Hit(OutOf(i, l)) = {l}
    <3>1. ASSUME NEW m \in 1..op.outs, OutOf(i, m) = OutOf(i, l)
          PROVE  m = l
      BY <1>1, <1>2, <3>1, OutsDistinct
    <3> QED
      BY <1>7, <3>1
  <2>3. (CHOOSE n \in Hit(OutOf(i, l)) : TRUE) = l
    BY <2>2
  <2> QED
    BY <1>8, <2>1, <2>2, <2>3
<1>14. ASSUME NEW p \in Buffers, \A l \in 1..op.outs : p # OutOf(i, l)
       PROVE  data'[p] = data[p]
  <2>1. p \notin op.writes /\ p \in DOMAIN data
    BY <1>5, <1>9, <1>10
  <2>2. Hit(p) = {}
    BY <1>7, <1>14
  <2> QED
    BY <1>8, <2>1, <2>2
<1> QED
  BY <1>9, <1>12, <1>13, <1>14

\* Stores in the order in which the operations are given.
LEMMA NextStore ==
  ASSUME NEW S \in SUBSET Nat, NEW i \in Nat, \A m \in S : m <= i
  PROVE  LastStore(S \cup {i}) = Written(i)
<1>1. (CHOOSE k \in S \cup {i} : \A m \in S \cup {i} : m <= k) = i
  <2>1. \A m \in S \cup {i} : m <= i
    OBVIOUS
  <2>2. ASSUME NEW k \in S \cup {i}, \A m \in S \cup {i} : m <= k
        PROVE  k = i
    <3>1. i <= k /\ k <= i /\ k \in Nat
      BY <2>1, <2>2
    <3> QED
      BY <3>1
  <2> QED
    BY <2>1, <2>2
<1> QED
  BY <1>1 DEF LastStore

\* A dispatch that runs adds itself to the operations done.
LEMMA DispatchData ==
  ASSUME IndInv, DataInv, synced, NEW j \in DOMAIN gpu, NEW i \in DOMAIN gpu[j].recorded,
         Dispatch(j, i), IsSynchronized(program)
  PROVE  DataInv'
<1>1. /\ i \in 1..Len(program) /\ i \in 1..Len(metas) /\ i \notin Done /\ Before(i) \subseteq Done
      /\ Done \subseteq 1..Len(program) /\ gpu[j] = gpu[1] /\ Done = gpu[j].done
  BY RunsNext
<1>2. /\ phase = "wait" /\ ~fence /\ gpu = <<gpu[1]>> /\ Len(metas) = Len(program)
      /\ program \in setting.programs
  <2>1. gpu # <<>>
    OBVIOUS
  <2> QED
    BY <2>1, InFlight DEF IndInv, Queue
<1>3. /\ UNCHANGED <<phase, fence, program, metas, temps, outs, synced>>
      /\ gpu' = [gpu EXCEPT ![j].done = @ \cup {i}]
  BY DEF Dispatch
<1>4. PICK S : S = Done
  OBVIOUS
<1>5. Done' = S \cup {i}
  <2>1. PICK job : job = gpu[1]
    OBVIOUS
  <2>2. gpu = <<job>> /\ j = 1
    BY <1>2, <2>1
  <2>3. gpu' = <<[job EXCEPT !.done = @ \cup {i}]>>
    BY <1>3, <2>2
  <2>4. OfCall(job)
    BY <2>1, InFlight
  <2>5. gpu'[1] = [job EXCEPT !.done = @ \cup {i}]
    BY <2>3
  <2>6. gpu'[1].done = job.done \cup {i}
    BY <2>5
  <2>7. Done' = gpu'[1].done
    BY <1>2, <1>3 DEF Done
  <2> QED
    BY <1>1, <1>4, <2>1, <2>6, <2>7
<1>6. TempsKept(Len(metas)) /\ Current(S)
  BY <1>2, <1>4 DEF DataInv
<1>7. /\ DOMAIN data' = DOMAIN data
      /\ \A t \in Tensors : data'[t] = IF t \in program[i].writes THEN Written(i) ELSE data[t]
      /\ \A l \in 1..program[i].outs : data'[OutOf(i, l)] = Result(i, l)
      /\ \A p \in Buffers : (\A l \in 1..program[i].outs : p # OutOf(i, l)) => data'[p] = data[p]
  BY Stores
<1>8. /\ \A k, l : OutOf(k, l)' = OutOf(k, l)
      /\ \A k, n : TempOf(k, n)' = TempOf(k, n)
      /\ \A k : Before(k)' = Before(k)
  BY <1>3 DEF OutOf, TempOf, Before
<1>9. S \in SUBSET (1..Len(program)) /\ i \notin S /\ Before(i) \subseteq S
  BY <1>1, <1>4
<1>10. TempsKept(Len(metas))'
  <2> SUFFICES ASSUME NEW k \in 1..Len(metas), NEW n \in ByteBindings(program[k])
               PROVE  data'[TempOf(k, n)] = Given(k, n)
    BY <1>3, <1>8 DEF TempsKept
  <2>1. TempOf(k, n) \in Buffers /\ TempOf(k, n) \in ToSet(temps)
    BY <1>2, BufferFacts
  <2>2. \A l \in 1..program[i].outs : OutOf(i, l) \in ToSet(outs)
    BY <1>1, <1>2, BufferFacts
  <2>3. ToSet(temps) \cap ToSet(outs) = {}
    BY DEF IndInv, Memory
  <2>4. data'[TempOf(k, n)] = data[TempOf(k, n)]
    BY <1>7, <2>1, <2>2, <2>3
  <2> QED
    BY <1>6, <2>4 DEF TempsKept
<1>11. \A k \in S \cup {i} : Before(k) \subseteq S \cup {i}
  BY <1>6, <1>9 DEF Current
<1>12. ASSUME NEW k \in S \cup {i}, NEW l \in 1..program[k].outs
       PROVE  data'[OutOf(k, l)] = Result(k, l)
  <2>1. CASE k = i
    BY <1>7, <2>1
  <2>2. CASE k \in S
    <3>1. k \in 1..Len(metas) /\ k # i
      BY <1>2, <1>9, <2>2
    <3>2. OutOf(k, l) \in Buffers
      BY <1>2, <3>1, BufferFacts
    <3>3. ASSUME NEW m \in 1..program[i].outs
          PROVE  OutOf(k, l) # OutOf(i, m)
      BY <1>1, <1>2, <3>1, OutsDistinct
    <3>4. data'[OutOf(k, l)] = data[OutOf(k, l)]
      BY <1>7, <3>2, <3>3
    <3> QED
      BY <1>6, <2>2, <3>4 DEF Current
  <2> QED
    BY <2>1, <2>2
<1>13. ASSUME NEW t \in Tensors
       PROVE  data'[t] = LastStore(StoresTo(t, S \cup {i}))
  <2>1. CASE t \notin program[i].writes
    <3>1. StoresTo(t, S \cup {i}) = StoresTo(t, S)
      BY <2>1 DEF StoresTo
    <3> QED
      BY <1>6, <1>7, <2>1, <3>1 DEF Current
  <2>2. CASE t \in program[i].writes
    <3>1. StoresTo(t, S \cup {i}) = StoresTo(t, S) \cup {i}
      BY <2>2 DEF StoresTo
    <3>2. ASSUME NEW m \in StoresTo(t, S)
          PROVE  m \in Nat /\ m <= i
      <4>1. m \in S /\ m \in 1..Len(program) /\ t \in program[m].writes
        BY <1>9 DEF StoresTo
      <4>2. DependsOn(program, m, i)
        BY <2>2, <4>1 DEF DependsOn
      <4>3. ~(i < m)
        BY <1>1, <1>2, <1>6, <1>9, <4>1, <4>2, Independent DEF Current
      <4>4. m \in Nat /\ i \in Nat
        BY <1>1, <4>1
      <4> QED
        BY <4>3, <4>4
    <3>3. LastStore(StoresTo(t, S) \cup {i}) = Written(i)
      <4>1. PICK T : T = StoresTo(t, S)
        OBVIOUS
      <4>2. T \in SUBSET Nat /\ i \in Nat /\ \A m \in T : m <= i
        BY <1>1, <3>2, <4>1
      <4> QED
        BY <4>1, <4>2, NextStore
    <3> QED
      BY <1>7, <2>2, <3>1, <3>3
  <2> QED
    BY <2>1, <2>2
<1>14. Current(S \cup {i})'
  <2>1. ASSUME NEW t
        PROVE  StoresTo(t, S \cup {i})' = StoresTo(t, S \cup {i})
    BY <1>3 DEF StoresTo
  <2> QED
    BY <1>3, <1>8, <1>11, <1>12, <1>13, <2>1 DEF Current
<1>15. Current(Done)'
  BY <1>5, <1>14 DEF Current, StoresTo
<1> QED
  BY <1>3, <1>7, <1>10, <1>15 DEF DataInv

\* The temporaries are filled as they are drawn; nothing filled before is overwritten.
LEMMA BindData ==
  ASSUME IndInv, DataInv, Bind, UNCHANGED setting
  PROVE  DataInv'
<1>0. PICK m \in Nat : m = Len(metas) + 1
  <2>1. Len(metas) \in Nat
    BY BindTakes
  <2> QED
    BY <2>1
<1> DEFINE op == program[m]
           a == SubSeq(Taken(op), 1, Cardinality(ByteBindings(op)))
<1>1. /\ op \in Operations /\ Len(metas) \in Nat /\ Len(metas) < Len(program)
      /\ program \in setting.programs /\ phase = "bind" /\ phase' \in {"begin", "bind"}
  BY <1>0, BindTakes
<1>2. /\ a \in Seq(Buffers) /\ Len(a) = Cardinality(ByteBindings(op)) /\ temps' = temps \o a
      /\ IsInjective(a) /\ ToSet(a) \cap CallBuffers = {}
  BY <1>0, BindTakes
<1>3. \E b \in Seq(Buffers) : outs' = outs \o b
  BY BindTakes
<1>4. /\ data' = Filled(m, op, a) /\ program' = program /\ synced' = synced
      /\ metas' = Append(metas, [tempStart |-> Len(temps), outStart |-> Len(outs)])
  BY <1>0 DEF Bind
<1>5. /\ metas \in Seq(Starts) /\ temps \in Seq(Buffers) /\ Len(temps) \in Nat
      /\ [tempStart |-> Len(temps), outStart |-> Len(outs)] \in Starts
  BY <1>1, Lengths DEF IndInv, CallShape, Memory, Starts
<1>6. /\ Len(metas') = m /\ \A k \in 1..Len(metas) : metas'[k] = metas[k]
      /\ metas'[m].tempStart = Len(temps)
  BY <1>0, <1>4, <1>5, AppendProperties
<1>7. /\ Len(a) \in Nat /\ DOMAIN a = 1..Len(a)
      /\ \A k \in 1..Len(temps) : temps'[k] = temps[k]
      /\ \A k \in 1..Len(a) : temps'[Len(temps) + k] = a[k]
  <2>1. Len(a) \in Nat /\ DOMAIN a = 1..Len(a)
    BY <1>2, LenProperties
  <2>2. PICK s \in Seq(Buffers), u \in Seq(Buffers) : s = temps /\ u = a
    BY <1>2, <1>5
  <2>3. /\ Len(s \o u) = Len(s) + Len(u)
        /\ \A k \in 1..Len(s) + Len(u) : (s \o u)[k] = IF k <= Len(s) THEN s[k] ELSE u[k - Len(s)]
    BY <2>2, ConcatProperties
  <2>4. \A k \in 1..Len(u) : Len(s) + k \in 1..Len(s) + Len(u) /\ ~(Len(s) + k <= Len(s))
                             /\ (Len(s) + k) - Len(s) = k
    BY <1>5, <2>1, <2>2
  <2>5. \A k \in 1..Len(u) : (s \o u)[Len(s) + k] = u[k]
    BY <2>3, <2>4
  <2>6. \A k \in 1..Len(s) : (s \o u)[k] = s[k]
    BY <1>5, <2>1, <2>2, <2>3
  <2> QED
    BY <1>2, <2>1, <2>2, <2>5, <2>6
<1> HIDE DEF a
<1>8. /\ DOMAIN data' = DOMAIN data
      /\ \A p \in DOMAIN data : p \notin ToSet(a) => data'[p] = data[p]
  BY <1>4 DEF Filled
<1>9. DOMAIN data = Buffers \cup Tensors
  BY DEF DataInv
<1>10. ASSUME NEW n \in ByteBindings(op)
       PROVE  data'[a[TempIndex(op, n)]] = Given(m, n) /\ TempIndex(op, n) \in 1..Len(a)
  <2>1. /\ TempIndex(op, n) \in 1..Len(a)
        /\ \A k \in ByteBindings(op) : TempIndex(op, k) = TempIndex(op, n) => k = n
    BY <1>1, <1>2, TempIndexFacts
  <2>2. ASSUME NEW k \in ByteBindings(op), a[TempIndex(op, k)] = a[TempIndex(op, n)]
        PROVE  k = n
    <3>1. TempIndex(op, k) \in 1..Len(a)
      BY <1>1, <1>2, TempIndexFacts
    <3>2. TempIndex(op, k) = TempIndex(op, n)
      BY <1>2, <1>7, <2>1, <2>2, <3>1 DEF IsInjective
    <3> QED
      BY <2>1, <3>2
  <2>3. (CHOOSE k \in ByteBindings(op) : a[TempIndex(op, k)] = a[TempIndex(op, n)]) = n
    BY <2>2
  <2>4. a[TempIndex(op, n)] \in ToSet(a) /\ a[TempIndex(op, n)] \in DOMAIN data
    BY <1>2, <1>9, <2>1, Elements
  <2> QED
    BY <1>4, <2>1, <2>3, <2>4 DEF Filled
<1> HIDE DEF op
<1> SUFFICES ASSUME synced
             PROVE  TempsKept(Len(metas))' /\ Current(Done)'
  BY <1>1, <1>4, <1>8 DEF DataInv
<1>11. TempsKept(Len(metas)) /\ Current({})
  BY <1>1 DEF DataInv, Done
<1>12. ASSUME NEW k \in 1..Len(metas), NEW n \in ByteBindings(program[k])
       PROVE  data'[temps'[metas'[k].tempStart + TempIndex(program[k], n)]] = Given(k, n)
  <2>1. /\ program[k] \in Operations /\ Bound(k) /\ metas[k].tempStart \in Nat
    BY <1>1, BoundFacts
  <2>2. PICK x \in Nat, c \in Nat, o \in Nat :
          /\ x = TempIndex(program[k], n) /\ c = Cardinality(ByteBindings(program[k]))
          /\ x \in 1..c /\ o = metas[k].tempStart
    BY <2>1, OperationFacts, TempIndexFacts
  <2>3. o + c <= Len(temps)
    BY <2>1, <2>2 DEF Bound
  <2>4. o + x \in 1..Len(temps)
    BY <1>5, <2>2, <2>3
  <2>5. temps'[metas'[k].tempStart + TempIndex(program[k], n)] = TempOf(k, n)
    BY <1>6, <1>7, <2>2, <2>4 DEF TempOf
  <2>6. TempOf(k, n) \in Buffers /\ TempOf(k, n) \in ToSet(temps)
    BY <1>1, BufferFacts
  <2>7. TempOf(k, n) \notin ToSet(a) /\ TempOf(k, n) \in DOMAIN data
    BY <1>2, <1>9, <2>6 DEF CallBuffers
  <2> QED
    BY <1>8, <1>11, <2>5, <2>7 DEF TempsKept
<1>13. ASSUME NEW n \in ByteBindings(op)
       PROVE  data'[temps'[metas'[m].tempStart + TempIndex(op, n)]] = Given(m, n)
  BY <1>6, <1>7, <1>10
<1>14. \A k \in 1..m : k \in 1..Len(metas) \/ k = m
  BY <1>0, <1>1
<1>15. TempsKept(Len(metas))'
  <2> SUFFICES ASSUME NEW k \in 1..m, NEW n \in ByteBindings(program[k])
               PROVE  data'[temps'[metas'[k].tempStart + TempIndex(program[k], n)]] = Given(k, n)
    BY <1>4, <1>6 DEF TempsKept, TempOf
  <2>1. CASE k \in 1..Len(metas)
    BY <1>12, <2>1
  <2>2. CASE k = m
    BY <1>13, <2>2 DEF op
  <2> QED
    BY <1>14, <2>1, <2>2
<1>16. Current({})'
  <2>1. ASSUME NEW t \in Tensors
        PROVE  data'[t] = LastStore({})
    <3>1. t \notin ToSet(a) /\ t \in DOMAIN data
      BY <1>2, <1>9, EngineAssumption, Elements
    <3>2. data[t] = LastStore(StoresTo(t, {})) /\ StoresTo(t, {}) = {}
      BY <1>11 DEF Current, StoresTo
    <3> QED
      BY <1>8, <3>1, <3>2
  <2>2. \A t : StoresTo(t, {})' = {}
    BY DEF StoresTo
  <2> QED
    BY <2>1, <2>2 DEF Current
<1>17. Done' = {}
  BY <1>1 DEF Done
<1> QED
  BY <1>15, <1>16, <1>17 DEF Current, StoresTo

\* The call goes on, and neither the host nor the GPU writes.
LEMMA SameData ==
  ASSUME DataInv, UNCHANGED <<program, metas, temps, outs, data, synced>>,
         phase # "idle", synced => Done' = Done
  PROVE  DataInv'
<1> SUFFICES ASSUME synced
             PROVE  TempsKept(Len(metas))' /\ Current(Done)'
  BY DEF DataInv
<1>1. TempsKept(Len(metas)) /\ Current(Done)
  BY DEF DataInv
<1>2. PICK S : S = Done
  OBVIOUS
<1>3. TempsKept(Len(metas))'
  BY <1>1 DEF TempsKept, TempOf
<1>4. Current(S)'
  BY <1>1, <1>2 DEF Current, StoresTo, OutOf, Before
<1> QED
  BY <1>2, <1>3, <1>4 DEF Current, StoresTo

\* A new call has filled nothing and run nothing.
LEMMA CallData ==
  ASSUME IndInv, DataInv, Call, UNCHANGED setting
  PROVE  DataInv'
<1>1. /\ data' = [p \in DOMAIN data |-> Stale] /\ phase = "idle" /\ phase' = "bind"
      /\ metas' = metas
  BY DEF Call
<1>2. DOMAIN data' = Buffers \cup Tensors /\ \A t \in Tensors : data'[t] = Stale
  BY <1>1 DEF DataInv
<1>3. Len(metas') = 0
  BY <1>1, EmptySeq DEF IndInv, CallShape
<1>4. TempsKept(Len(metas))'
  BY <1>3 DEF TempsKept
<1>5. Done' = {}
  BY <1>1 DEF Done
<1>6. Current({})'
  <2>1. \A t : StoresTo(t, {})' = {}
    BY DEF StoresTo
  <2> QED
    BY <1>2, <2>1 DEF Current, LastStore
<1> QED
  BY <1>2, <1>4, <1>5, <1>6 DEF DataInv, Current, StoresTo

\* Every step preserves what is known of the data.
LEMMA NextIsData ==
  ASSUME IndInv, DataInv, IndInv', [Next]_vars, \A p \in setting.programs : IsSynchronized(p)
  PROVE  DataInv'
<1>1. CASE Call /\ UNCHANGED setting
  BY <1>1, CallData
<1>2. CASE Bind /\ UNCHANGED setting
  BY <1>2, BindData
<1>3. CASE (BindFails \/ BeginFails \/ RecordFails \/ SubmitFails \/ WaitFails \/ Read)
           /\ UNCHANGED setting
  <2>1. phase' = "idle" /\ data' = data
    BY <1>3 DEF BindFails, BeginFails, RecordFails, SubmitFails, WaitFails, Fail, Read
  <2> QED
    BY <2>1 DEF DataInv
<1>4. CASE (AllocActivation \/ DropActivation) /\ UNCHANGED setting
  <2>1. phase' = "idle" /\ data' = data
    BY <1>4 DEF AllocActivation, DropActivation
  <2> QED
    BY <2>1 DEF DataInv
<1>5. CASE (Begin \/ Record \/ RecordCopy) /\ UNCHANGED setting
  <2>1. /\ phase \in {"begin", "record"} /\ phase' \in {"record", "submit"}
        /\ UNCHANGED <<program, metas, temps, outs, data, synced>>
    BY <1>5 DEF Begin, Record, RecordCopy, AfterRecord
  <2> QED
    BY <2>1, SameData DEF Done
<1>6. CASE Submit /\ UNCHANGED setting
  <2>1. /\ phase = "submit" /\ phase' = "wait" /\ gpu' = Append(gpu, Job) /\ fence' = fence
        /\ UNCHANGED <<program, metas, temps, outs, data, synced>>
    BY <1>6 DEF Submit
  <2>2. ASSUME synced
        PROVE  Done' = Done
    <3>1. gpu = <<>> /\ ~fence
      BY <2>1, <2>2 DEF IndInv, Queue
    <3>2. gpu'[1] = Job
      BY <2>1, <3>1
    <3> QED
      BY <2>1, <3>1, <3>2 DEF Done, Job
  <2> QED
    BY <2>1, <2>2, SameData
<1>7. CASE Wait /\ UNCHANGED setting
  <2>1. /\ phase = "wait" /\ fence /\ phase' = "read"
        /\ UNCHANGED <<program, metas, temps, outs, data, synced>>
    BY <1>7 DEF Wait
  <2> QED
    BY <2>1, SameData DEF Done
<1>8. CASE GpuStep
  <2>1. ASSUME NEW j \in DOMAIN gpu, NEW i \in DOMAIN gpu[j].recorded, Dispatch(j, i)
        PROVE  DataInv'
    <3>1. CASE synced
      <4>1. IsSynchronized(program)
        BY <3>1, InFlight
      <4> QED
        BY <2>1, <3>1, <4>1, DispatchData
    <3>2. CASE ~synced
      <4>1. DOMAIN data' = DOMAIN data /\ synced' = synced
        BY <2>1 DEF Dispatch
      <4> QED
        BY <3>2, <4>1 DEF DataInv
    <3> QED
      BY <3>1, <3>2
  <2>2. CASE Complete
    <3>1. CASE synced
      <4>1. PICK j \in DOMAIN gpu : j = 1
        <5>1. gpu # <<>> /\ gpu = <<gpu[1]>>
          BY <2>2, <3>1 DEF Complete, IndInv, Queue
        <5>2. PICK job : job = gpu[1]
          OBVIOUS
        <5>3. gpu = <<job>>
          BY <5>1, <5>2
        <5> QED
          BY <5>3
      <4>2. /\ phase = "wait" /\ ~fence /\ OfCall(gpu[1]) /\ gpu = <<gpu[1]>>
        BY <2>2, <3>1, <4>1, InFlight DEF Complete, IndInv, Queue
      <4>3. /\ Head(gpu).done = DOMAIN Head(gpu).recorded /\ fence' = TRUE
            /\ UNCHANGED <<phase, program, metas, temps, outs, data, synced>>
        BY <2>2 DEF Complete, host
      <4>4. Head(gpu) = gpu[1]
        OBVIOUS
      <4>5. DOMAIN gpu[1].recorded = 1..Len(program)
        BY <4>2, LenProperties DEF OfCall
      <4>6. Done' = Done
        BY <4>2, <4>3, <4>4, <4>5 DEF Done
      <4> QED
        BY <4>2, <4>3, <4>6, SameData
    <3>2. CASE ~synced
      <4>1. data' = data /\ synced' = synced
        BY <2>2 DEF Complete, host
      <4> QED
        BY <3>2, <4>1 DEF DataInv
    <3> QED
      BY <3>1, <3>2
  <2> QED
    BY <1>8, <2>1, <2>2 DEF GpuStep
<1>9. CASE UNCHANGED vars
  <2>1. UNCHANGED <<phase, fence, gpu, program, metas, temps, outs, data, synced>>
    BY <1>9 DEF vars
  <2>2. CASE phase = "idle"
    BY <2>1, <2>2 DEF DataInv
  <2>3. CASE phase # "idle"
    BY <2>1, <2>3, SameData DEF Done
  <2> QED
    BY <2>2, <2>3
<1> QED
  BY <1>1, <1>2, <1>3, <1>4, <1>5, <1>6, <1>7, <1>8, <1>9
     DEF Next, CallerStep, HostStep

\* It holds in every reachable state.
LEMMA DataInductive ==
  ASSUME \A s \in Settings : \A p \in s.programs : IsSynchronized(p)
  PROVE  Spec => []DataInv
<1>1. Init => DataInv
  BY DEF Init, DataInv
<1>2. IndInv /\ DataInv /\ IndInv' /\ [Next]_vars => DataInv'
  BY NextIsData DEF IndInv
<1> QED
  BY <1>1, <1>2, Inductive, PTL DEF Spec

-----------------------------------------------------------------------------
(* Refusals *)

\* There are no more activations than the bound of the process allows.
HeldBounded == Cardinality(held) <= setting.activations

\* The bound on activations holds in every reachable state.
LEMMA HeldInductive == Spec => []HeldBounded
<1>1. ASSUME Init
      PROVE  HeldBounded
  <2>1. held = {} /\ setting.activations \in Nat
    BY <1>1, EngineAssumption DEF Init
  <2> QED
    BY <2>1, FS_EmptySet DEF HeldBounded
<1>2. ASSUME IndInv, HeldBounded, [Next]_vars
      PROVE  HeldBounded'
  <2>1. /\ held \in SUBSET Buffers /\ IsFiniteSet(held) /\ Cardinality(held) \in Nat
        /\ setting.activations \in Nat /\ setting' = setting
    BY <1>2, EngineAssumption, FS_Subset, FS_CardinalityType
       DEF IndInv, Memory, Next, CallerStep, HostStep, GpuStep, vars
  <2>2. CASE held' \subseteq held
    <3>1. Cardinality(held') \in Nat /\ Cardinality(held') <= Cardinality(held)
      BY <2>1, <2>2, FS_Subset, FS_CardinalityType
    <3> QED
      BY <1>2, <2>1, <3>1 DEF HeldBounded
  <2>3. CASE AllocActivation
    <3>1. PICK z \in Sizes : /\ CanTake(Activation(z))
                             /\ held' = held \cup ToSet(Taken(Activation(z)))
      BY <2>3 DEF AllocActivation
    <3>2. Cardinality(held) < setting.activations
      BY <2>3 DEF AllocActivation
    <3>3. PICK n \in Nat : n = 1
      OBVIOUS
    <3>4. PICK got : got = Taken(Activation(z))
      OBVIOUS
    <3>5. got \in Seq(Buffers) /\ Len(got) = n
      BY <1>2, <3>1, <3>3, <3>4, ActivationFacts, TakenBuffers
    <3>6. PICK new : new = ToSet(got)
      OBVIOUS
    <3>7. IsFiniteSet(new) /\ Cardinality(new) \in Nat /\ Cardinality(new) <= n
      BY <3>5, <3>6, SizeOfElements
    <3>8. IsFiniteSet(held \cap new) /\ Cardinality(held \cap new) \in Nat
      BY <2>1, FS_Subset, FS_CardinalityType
    <3>9. Cardinality(held \cup new) = Cardinality(held) + Cardinality(new) - Cardinality(held \cap new)
      BY <2>1, <3>7, FS_Union
    <3>10. Cardinality(held') <= Cardinality(held) + n
      BY <2>1, <3>1, <3>3, <3>4, <3>6, <3>7, <3>8, <3>9
    <3>11. Cardinality(held') \in Int
      BY <2>1, <3>1, <3>3, <3>4, <3>6, <3>7, <3>8, <3>9
    <3> QED
      BY <2>1, <3>2, <3>3, <3>10, <3>11 DEF HeldBounded
  <2>4. CASE ~AllocActivation
    <3>1. held' \subseteq held
      <4>1. CASE CallerStep
        BY <2>4, <4>1 DEF CallerStep, Call, DropActivation
      <4>2. CASE HostStep
        BY <4>2 DEF HostStep, Bind, BindFails, Begin, BeginFails, Record, RecordCopy,
           RecordFails, Submit, SubmitFails, Wait, WaitFails, Read
      <4>3. CASE GpuStep
        BY <4>3 DEF GpuStep, Dispatch, Complete, host
      <4>4. CASE UNCHANGED vars
        BY <4>4 DEF vars
      <4> QED
        BY <1>2, <4>1, <4>2, <4>3, <4>4 DEF Next
    <3> QED
      BY <2>2, <3>1
  <2> QED
    BY <2>3, <2>4
<1>3. IndInv /\ HeldBounded /\ [Next]_vars => HeldBounded'
  BY <1>2
<1> QED
  BY <1>1, <1>3, Inductive, PTL DEF Spec

\* With the buffers it needs at hand, an operation gets them.
LEMMA BuffersSuffice ==
  ASSUME IndInv, PoolBounded, HeldBounded, Suffices(setting), phase = "bind",
         NEW m \in Nat, m = Len(metas) + 1, m <= Len(program)
  PROVE  CanTake(program[m])
<1> DEFINE op == program[m]
<1>1. /\ program \in setting.programs /\ metas \in Seq(Starts) /\ Len(metas) \in Nat
      /\ Len(program) \in Nat \ {0} /\ setting \in Settings /\ setting.activations \in Nat
  BY LenProperties, ProgramFacts, EngineAssumption DEF IndInv, CallShape
<1>2. m \in 1..Len(program) /\ m \in 0..Len(program) /\ op \in Operations
  BY <1>1, ProgramFacts
<1>3. PICK n \in Nat : n = Need(op)
  BY <1>2, OperationFacts
<1>4. SUFFICES ASSUME NEW z \in Sizes
               PROVE  Wants(op, n, z) - FromPool(op, n, z) <= Cardinality(Unused(z))
  BY <1>3 DEF CanTake
<1>5. Buckets(pool) /\ Idle = Inside(pool)
  BY BufferSets
<1>6. PICK u \in Nat, w \in Nat, len \in Nat, bn \in Nat :
        /\ u = Cardinality(Used(program, Len(metas), z)) /\ w = Wants(op, n, z)
        /\ len = Len(pool[z]) /\ bn = BuffersNeeded(program, z)
  BY <1>5, UsedByCall, WantsFacts, BucketFacts
<1>7. Cardinality(Used(program, m, z)) = u + w
  <2>1. Len(metas) < Len(program)
    BY <1>1
  <2>2. Cardinality(Used(program, Len(metas) + 1, z))
          = Cardinality(Used(program, Len(metas), z))
              + Wants(program[Len(metas) + 1], Need(program[Len(metas) + 1]), z)
    BY <1>1, <2>1, UsedByNext
  <2> QED
    BY <1>3, <1>6, <2>2
<1> HIDE DEF op
<1>8. PICK i \in Nat, c \in Nat, h \in Nat, l \in Nat, e \in Nat, all \in Nat :
        /\ i = Cardinality(OfSize(Idle, z)) /\ c = Cardinality(OfSize(CallBuffers, z))
        /\ h = Cardinality(OfSize(held, z)) /\ l = Cardinality(OfSize(Live, z))
        /\ e = Cardinality(Unused(z)) /\ all = Cardinality(OfSize(Buffers, z))
  <2>1. /\ Idle \in SUBSET Buffers /\ CallBuffers \in SUBSET Buffers /\ held \in SUBSET Buffers
        /\ Live \in SUBSET Buffers /\ Buffers \ Live \in SUBSET Buffers
        /\ Buffers \in SUBSET Buffers
    BY BufferSets
  <2>2. Cardinality(Unused(z)) \in Nat
    BY <2>1, OfSizeFacts DEF Unused
  <2> QED
    BY <2>1, <2>2, OfSizeFacts
<1>9. e = all - l
  <2>1. OfSize(Live, z) \cap Unused(z) = {} /\ OfSize(Buffers, z) = OfSize(Live, z) \cup Unused(z)
    BY BufferSets DEF OfSize, Unused
  <2>2. IsFiniteSet(OfSize(Live, z)) /\ IsFiniteSet(Unused(z))
    BY BufferSets, OfSizeFacts DEF Unused
  <2>3. Cardinality(OfSize(Live, z) \cup Unused(z))
          = Cardinality(OfSize(Live, z)) + Cardinality(Unused(z))
    BY <2>1, <2>2, DisjointUnion
  <2>4. all = l + e
    BY <1>8, <2>1, <2>3
  <2> QED
    BY <2>4
<1>10. l <= i + c + h
  <2>1. PICK x \in Nat : x = Cardinality(OfSize(Idle \cup CallBuffers, z))
    BY BufferSets, OfSizeFacts
  <2>2. x <= i + c
    BY <1>8, <2>1, BufferSets, OfSizeUnion
  <2>3. l <= x + h
    <3>1. Live = (Idle \cup CallBuffers) \cup held
      BY DEF Live
    <3>2. Idle \cup CallBuffers \in SUBSET Buffers /\ held \in SUBSET Buffers
      BY BufferSets
    <3>3. Cardinality(OfSize((Idle \cup CallBuffers) \cup held, z))
            <= Cardinality(OfSize(Idle \cup CallBuffers, z)) + Cardinality(OfSize(held, z))
      BY <3>2, OfSizeUnion
    <3> QED
      BY <1>8, <2>1, <3>1, <3>3
  <2> QED
    BY <2>2, <2>3
<1>11. PICK act \in Nat : act = setting.activations
  BY <1>1
<1>12. h <= act /\ c <= u
  <2>1. held \in SUBSET Buffers /\ IsFiniteSet(Buffers)
    BY BufferSets, EngineAssumption
  <2>2. IsFiniteSet(held) /\ Cardinality(held) \in Nat
    BY <2>1, FS_Subset, FS_CardinalityType
  <2>3. OfSize(held, z) \in SUBSET held
    BY DEF OfSize
  <2>4. Cardinality(OfSize(held, z)) <= Cardinality(held)
    BY <2>2, <2>3, FS_Subset
  <2>5. h <= act
    BY <1>8, <1>11, <2>2, <2>4 DEF HeldBounded
  <2>6. c <= u
    BY <1>6, <1>8 DEF PoolBounded
  <2> QED
    BY <2>5, <2>6
<1>13. CASE ~op.copy /\ w <= len
  <2>1. FromPool(op, n, z) = w
    BY <1>5, <1>6, <1>13, FromPoolFacts
  <2> QED
    BY <1>6, <1>8, <2>1
<1>14. CASE ~op.copy /\ len < w
  <2>1. FromPool(op, n, z) = len
    BY <1>5, <1>6, <1>14, FromPoolFacts
  <2>2. i <= len
    <3>1. OfSize(Idle, z) = ToSet(pool[z]) /\ pool[z] \in Seq(Buffers)
      BY <1>5, BucketFacts
    <3> QED
      BY <1>6, <1>8, <3>1, SizeOfElements
  <2>3. u + w <= bn
    BY <1>1, <1>2, <1>6, <1>7, UsedFacts
  <2>4. bn + act + 1 <= all
    BY <1>1, <1>6, <1>8, <1>11 DEF Suffices
  <2>5. w - len <= e
    BY <1>9, <1>10, <1>12, <2>2, <2>3, <2>4
  <2> QED
    BY <1>6, <1>8, <2>1, <2>5
<1>15. CASE op.copy
  <2>1. FromPool(op, n, z) = 0
    BY <1>5, <1>15, FromPoolFacts
  <2>2. u + w <= 1
    <3>1. program[1].copy
      BY <1>1, <1>2, <1>15, CopyFacts DEF op
    <3> QED
      BY <1>1, <1>2, <1>7, <3>1, UsedByCopy
  <2>3. PICK p \in setting.programs : Cardinality(OfSize(Refill, z)) <= BuffersNeeded(p, z)
    BY DEF PoolBounded
  <2>4. PICK r \in Nat, b \in Nat : r = Cardinality(OfSize(Refill, z)) /\ b = BuffersNeeded(p, z)
    BY BufferSets, OfSizeFacts, Lengths
  <2>5. i <= r /\ r <= b
    <3>1. Idle \in SUBSET Refill /\ Refill \in SUBSET Buffers
      BY BufferSets
    <3>2. Cardinality(OfSize(Idle, z)) <= Cardinality(OfSize(Refill, z))
      BY <3>1, OfSizeFacts
    <3> QED
      BY <1>8, <2>3, <2>4, <3>2
  <2>6. b + act + 1 <= all
    BY <1>8, <1>11, <2>4 DEF Suffices
  <2>7. w <= e
    BY <1>9, <1>10, <1>12, <2>2, <2>5, <2>6
  <2> QED
    BY <1>6, <1>8, <2>1, <2>7
<1> QED
  BY <1>6, <1>13, <1>14, <1>15

\* A call is refused only by a driver that may fail.
LEMMA NoRefusal ==
  ASSUME IndInv, PoolBounded, HeldBounded, SetsInv, setting.failures = {}, Suffices(setting),
         \A p \in setting.programs : IsSynchronized(p)
  PROVE  ~(BindFails \/ BeginFails \/ RecordFails \/ SubmitFails \/ WaitFails)
<1>1. ~(BeginFails \/ SubmitFails \/ WaitFails)
  BY DEF BeginFails, SubmitFails, WaitFails
<1>2. ASSUME BindFails
      PROVE  FALSE
  <2>1. PICK m \in Nat : m = Len(metas) + 1
    BY <1>2, LenProperties DEF IndInv, CallShape, BindFails
  <2>2. /\ phase = "bind" /\ m <= Len(program)
        /\ ~RefsEarlier(m) \/ ~CanTake(program[m])
    BY <1>2, <2>1 DEF BindFails
  <2>3. program \in setting.programs /\ DOMAIN program = 1..Len(program) /\ m \in DOMAIN program
    <3>1. program \in setting.programs /\ metas \in Seq(Starts)
      BY <2>2 DEF IndInv, CallShape
    <3>2. DOMAIN program = 1..Len(program) /\ Len(program) \in Nat /\ Len(metas) \in Nat
      BY <3>1, ProgramFacts, LenProperties DEF IndInv
    <3> QED
      BY <2>1, <2>2, <3>1, <3>2
  <2>4. RefsEarlier(m)
    BY <2>3 DEF IsSynchronized, ReferencesExist, RefsEarlier
  <2> QED
    BY <2>1, <2>2, <2>4, BuffersSuffice
<1>3. ASSUME RecordFails
      PROVE  FALSE
  <2>1. ~RefsInBounds(NextOp) \/ ~CanGrow
    BY <1>3 DEF RecordFails
  <2>2. phase = "record"
    BY <1>3 DEF RecordFails
  <2>3. /\ Len(sets) \in Nat /\ cursor \in Nat /\ cursor <= Len(sets) /\ Len(recorded) \in Nat
        /\ PoolSets \in Nat \ {0} /\ setting.maxSets \in Nat
    BY SetsFacts
  <2>4. /\ Len(recorded) < Len(program) /\ program \in setting.programs
        /\ Len(program) \in Nat \ {0} /\ Len(metas) = Len(program)
    BY <2>2, SetsFacts DEF IndInv, Recording, CallShape
  <2>5. RefsInBounds(NextOp)
    <3>1. NextOp \in 1..Len(program)
      BY <2>3, <2>4 DEF NextOp
    <3> QED
      BY <2>2, <2>4, <3>1, BoundRefs DEF IsSynchronized
  <2>6. CursorKept
    <3>1. SetsSuffice
      BY DEF SetsSuffice, Suffices
    <3> QED
      BY <3>1 DEF SetsInv
  <2>7. cursor <= Len(recorded)
    BY <2>2, <2>6 DEF CursorKept
  <2>8. Len(program) + PoolSets <= setting.maxSets + 1
    BY <2>4 DEF Suffices
  <2>9. CanGrow
    BY <2>3, <2>4, <2>7, <2>8 DEF CanGrow
  <2> QED
    BY <2>1, <2>2, <2>5, <2>9
<1> QED
  BY <1>1, <1>2, <1>3

-----------------------------------------------------------------------------
(* The engine and the service *)

\* The outputs of a call that is read are those of its operations.
LEMMA ReadsRight ==
  ASSUME IndInv, DataInv, synced, Read
  PROVE  AnswersAreRight'
<1>1. phase = "read" /\ answer' = Ok([i \in DOMAIN program |-> OutputsOf(i)])
  BY DEF Read
<1>2. /\ program \in setting.programs /\ DOMAIN program = 1..Len(program)
  BY <1>1, ProgramFacts DEF IndInv, CallShape
<1>3. Current(1..Len(program))
  BY <1>1 DEF DataInv, Done
<1>4. answer'.outputs = [i \in DOMAIN program |-> OutputsOf(i)]
  BY <1>1 DEF Ok
<1>5. ASSUME NEW i \in DOMAIN program
      PROVE  /\ DOMAIN OutputsOf(i) = 1..program[i].outs
             /\ \A j \in 1..program[i].outs : OutputsOf(i)[j] = Result(i, j)
  BY <1>2, <1>3 DEF OutputsOf, Current, OutOf
<1> QED
  BY <1>4, <1>5 DEF AnswersAreRight

\* No call is pending.
LEMMA InitImplements == Init => Service!Init
BY DEF Init, Service!Init, Verdict, None

\* Every step is a step of the service or leaves it as it is: a call begins, is
\* answered or refused, or a wait fails.
LEMMA NextImplements ==
  ASSUME IndInv, PoolBounded, HeldBounded, SetsInv, DataInv, [Next]_vars,
         \A p \in setting.programs : IsSynchronized(p),
         setting.failures = {} => Suffices(setting)
  PROVE  [Service!Next]_(Service!svars)
<1>0. setting' = setting /\ synced \in BOOLEAN
  BY DEF IndInv, Queue, Next, CallerStep, HostStep, GpuStep, vars
<1>1. CASE Call
  <2>1. phase = "idle" /\ phase' = "bind" /\ answer' = None /\ synced' = synced
    BY <1>1 DEF Call
  <2>2. Verdict' = "none"
    BY <2>1 DEF Verdict, None
  <2> QED
    BY <1>0, <2>1, <2>2 DEF Service!Next, Service!Ask
<1>2. CASE BindFails \/ BeginFails \/ RecordFails \/ SubmitFails \/ WaitFails
  <2>1. /\ phase # "idle" /\ phase' = "idle" /\ answer' = Error /\ synced' \in {synced, FALSE}
    BY <1>2 DEF BindFails, BeginFails, RecordFails, SubmitFails, WaitFails, Fail
  <2>2. setting.failures # {}
    BY <1>2, NoRefusal
  <2>3. Verdict' = "error"
    BY <2>1 DEF Verdict, Error
  <2>4. (~synced)' \in {~synced, TRUE}
    BY <1>0, <2>1
  <2> QED
    BY <1>0, <2>1, <2>2, <2>3, <2>4 DEF Service!Next, Service!Refuse
<1>3. CASE Read
  <2>1. /\ phase = "read" /\ phase' = "idle" /\ answer'.result = "ok" /\ synced' = synced
    BY <1>3 DEF Read, Ok
  <2>2. Verdict' = IF AnswersAreRight' THEN "right" ELSE "wrong"
    BY <2>1 DEF Verdict
  <2>3. synced => Verdict' = "right"
    BY <1>3, <2>2, ReadsRight
  <2>4. Verdict' \in {"right"} \cup (IF ~synced THEN {"wrong"} ELSE {})
    BY <2>2, <2>3
  <2> QED
    BY <1>0, <2>1, <2>4 DEF Service!Next, Service!Reply
<1>4. CASE \/ Bind \/ Begin \/ Record \/ RecordCopy \/ Submit \/ Wait
           \/ AllocActivation \/ DropActivation \/ GpuStep \/ UNCHANGED vars
  <2>1. (phase # "idle")' = (phase # "idle") /\ answer' = answer /\ synced' = synced
    BY <1>4 DEF Bind, Begin, Record, RecordCopy, Submit, Wait, AllocActivation, DropActivation,
       GpuStep, Dispatch, Complete, host, vars, AfterRecord
  <2>2. Verdict' = Verdict
    BY <2>1 DEF Verdict, AnswersAreRight
  <2> QED
    BY <1>0, <2>1, <2>2 DEF Service!svars
<1> QED
  BY <1>1, <1>2, <1>3, <1>4 DEF Next, CallerStep, HostStep

\* The engine implements the abstract service: each call gets at most one answer, a
\* refusal only from a driver that fails, and every answer is computed from the call's
\* own bytes by its own operations, as if they had run one after the other, although
\* the GPU runs dispatches between two barriers in any order and buffers, descriptor
\* sets and the command buffer are used again, unless a wait for the fence has failed
\* before (execute_batch, record_barrier_to, submit_batch, BufferPool). The hypotheses
\* are what the doc comment of execute_batch asks of a caller, barriers between
\* operations that depend on each other, and that a process whose driver never fails
\* has the memory and the descriptor sets its calls need. That an answer comes is left
\* to TLC.
THEOREM Implements ==
  ASSUME \A s \in Settings : \A p \in s.programs : IsSynchronized(p),
         \A s \in Settings : s.failures = {} => Suffices(s)
  PROVE  Spec => Service!Spec
<1>1. IndInv /\ PoolBounded /\ HeldBounded /\ SetsInv /\ DataInv /\ [Next]_vars
        => [Service!Next]_(Service!svars)
  BY NextImplements DEF IndInv
<1>2. \A s \in Settings : s.failures = {} => \A p \in s.programs : ReferencesExist(p)
  BY DEF IsSynchronized
<1>3. Spec => []SetsInv
  BY <1>2, SetsInductive
<1>4. Spec => []DataInv
  BY DataInductive
<1> QED
  BY <1>1, <1>3, <1>4, InitImplements, Inductive, PoolInductive, HeldInductive, PTL
     DEF Spec, Service!Spec

-----------------------------------------------------------------------------
(* The operation lists of the operators *)

\* A list of one operation without chain references.
LEMMA SingleOperation ==
  ASSUME NEW p, DOMAIN p = {1}, \A n \in DOMAIN p[1].ins : p[1].ins[n].kind # "ref"
  PROVE  IsSynchronized(p)
<1>1. \A i \in DOMAIN p : 1..i - 1 = {}
  OBVIOUS
<1> QED
  BY <1>1 DEF IsSynchronized, ReferencesExist, BarriersBetween

\* The operations of a batched decode only read the cache.
LEMMA DecodesOnly ==
  ASSUME NEW cache, NEW z
  PROVE  /\ DecodeOp(cache, z).writes = {}
         /\ \A m \in DOMAIN DecodeOp(cache, z).ins : DecodeOp(cache, z).ins[m].kind # "ref"
<1>1. PICK op : op = DecodeOp(cache, z)
  OBVIOUS
<1>2. op.writes = {} /\ op.ins = <<Bytes, Bytes, Gpu(cache)>>
  BY <1>1 DEF DecodeOp, Op
<1>3. \A m \in DOMAIN op.ins : op.ins[m].kind # "ref"
  BY <1>2 DEF Bytes, Gpu
<1> QED
  BY <1>1, <1>2, <1>3

\* A merged write and decode is the write, whose barrier the decodes need, and one decode
\* for each sequence.
LEMMA MergedSynchronized ==
  ASSUME NEW cache, NEW z, NEW zs, NEW n \in Nat, DOMAIN zs = 1..n
  PROVE  IsSynchronized(WriteAndDecode(cache, z, zs))
<1>1. PICK p : p = WriteAndDecode(cache, z, zs)
  OBVIOUS
<1>2. /\ DOMAIN p = 1..n + 1 /\ p[1] = KVWriteOp(cache, z, TRUE)
      /\ \A i \in 2..n + 1 : \E y : p[i] = DecodeOp(cache, y)
  <2>1. PICK w, a, b : /\ w = KVWriteOp(cache, z, TRUE) /\ a = <<w>>
                       /\ b = PagedDecode(cache, zs)
    OBVIOUS
  <2>2. b = [s \in 1..n |-> DecodeOp(cache, zs[s])]
    BY <2>1 DEF PagedDecode
  <2>3. \A s \in 1..n : \E y : b[s] = DecodeOp(cache, y)
    BY <2>2
  <2>4. PICK T : T = {w} \cup {b[s] : s \in 1..n}
    OBVIOUS
  <2>5. b \in Seq(T) /\ Len(b) = n
    <3>1. b \in [1..n -> T]
      BY <2>2, <2>4
    <3> QED
      BY <3>1
  <2>6. a \in Seq(T) /\ Len(a) = 1 /\ a[1] = w
    BY <2>1, <2>4
  <2>7. p = a \o b
    BY <1>1, <2>1 DEF WriteAndDecode
  <2>8. /\ p \in Seq(T) /\ Len(p) = n + 1
        /\ \A i \in 1..n + 1 : p[i] = IF i <= 1 THEN a[i] ELSE b[i - 1]
    <3>1. /\ a \o b \in Seq(T) /\ Len(a \o b) = Len(a) + Len(b)
          /\ \A i \in 1..Len(a) + Len(b) :
               (a \o b)[i] = IF i <= Len(a) THEN a[i] ELSE b[i - Len(a)]
      BY <2>5, <2>6, ConcatProperties
    <3> QED
      BY <2>5, <2>6, <2>7, <3>1
  <2>9. DOMAIN p = 1..n + 1
    BY <2>8, LenProperties
  <2>10. p[1] = w
    BY <2>6, <2>8
  <2>11. ASSUME NEW i \in 2..n + 1
         PROVE  \E y : p[i] = DecodeOp(cache, y)
    <3>1. i \in 1..n + 1 /\ ~(i <= 1) /\ i - 1 \in 1..n
      OBVIOUS
    <3>2. p[i] = b[i - 1]
      BY <2>8, <3>1
    <3> QED
      BY <2>3, <3>1, <3>2
  <2> QED
    BY <2>1, <2>9, <2>10, <2>11
<1>3. p[1].barrier /\ p[1].ins = <<Bytes, Bytes, Bytes, Gpu(cache)>>
  BY <1>2 DEF KVWriteOp, Op
<1>4. \A m \in DOMAIN p[1].ins : p[1].ins[m].kind # "ref"
  BY <1>3 DEF Bytes, Gpu
<1>5. ASSUME NEW i \in 2..n + 1
      PROVE  p[i].writes = {} /\ \A m \in DOMAIN p[i].ins : p[i].ins[m].kind # "ref"
  BY <1>2, DecodesOnly
<1>6. \A i \in DOMAIN p : \A m \in DOMAIN p[i].ins : p[i].ins[m].kind # "ref"
  <2>1. \A i \in DOMAIN p : i = 1 \/ i \in 2..n + 1
    BY <1>2
  <2> QED
    BY <1>4, <1>5, <2>1
<1>7. ASSUME NEW i \in DOMAIN p, NEW k \in 1..i - 1, DependsOn(p, i, k)
      PROVE  \E b \in k..i - 1 : p[b].barrier
  <2>1. i \in 2..n + 1 /\ (k = 1 \/ k \in 2..n + 1)
    BY <1>2
  <2>2. CASE k = 1
    BY <1>3, <2>1, <2>2
  <2>3. CASE k \in 2..n + 1
    BY <1>5, <1>6, <1>7, <2>1, <2>3 DEF DependsOn
  <2> QED
    BY <2>1, <2>2, <2>3
<1> QED
  BY <1>1, <1>6, <1>7 DEF IsSynchronized, ReferencesExist, BarriersBetween

\* Decodes do not depend on each other.
LEMMA DecodesSynchronized ==
  ASSUME NEW cache, NEW S, NEW zs \in Seq(S)
  PROVE  IsSynchronized(PagedDecode(cache, zs))
<1>1. PICK p : p = PagedDecode(cache, zs)
  OBVIOUS
<1>2. PICK n \in Nat : n = Len(zs) /\ DOMAIN zs = 1..n
  BY LenProperties
<1>3. DOMAIN p = 1..n /\ \A i \in 1..n : p[i] = DecodeOp(cache, zs[i])
  BY <1>1, <1>2 DEF PagedDecode
<1>4. ASSUME NEW i \in 1..n
      PROVE  p[i].writes = {} /\ \A m \in DOMAIN p[i].ins : p[i].ins[m].kind # "ref"
  BY <1>3, DecodesOnly
<1>5. ASSUME NEW i \in 1..n, NEW k \in 1..i - 1
      PROVE  ~DependsOn(p, i, k)
  BY <1>4 DEF DependsOn
<1> QED
  BY <1>1, <1>3, <1>4, <1>5 DEF IsSynchronized, ReferencesExist, BarriersBetween

\* Each product of the fused MLP has a barrier before the operation that refers to it.
LEMMA FusedSynchronized ==
  ASSUME NEW gateUp, NEW down, NEW z
  PROVE  IsSynchronized(FusedSwigluMLP(gateUp, down, z))
<1> DEFINE o1 == Op(<<Gpu(gateUp), Bytes>>, {}, 1, <<z.x, z.gateUp>>, TRUE)
           o2 == Op(<<Ref(0, 0), Ref(0, 0)>>, {}, 1, <<z.swiglu>>, TRUE)
           o3 == Op(<<Gpu(down), Ref(1, 0)>>, {}, 1, <<z.down>>, FALSE)
<1>1. PICK p : p = FusedSwigluMLP(gateUp, down, z)
  OBVIOUS
<1>2. p = <<o1, o2, o3>>
  BY <1>1 DEF FusedSwigluMLP
<1>3. /\ o1.barrier /\ o1.outs = 1 /\ o1.ins = <<Gpu(gateUp), Bytes>>
      /\ o2.barrier /\ o2.outs = 1 /\ o2.ins = <<Ref(0, 0), Ref(0, 0)>>
      /\ o3.ins = <<Gpu(down), Ref(1, 0)>>
  BY DEF Op
<1> HIDE DEF o1, o2, o3
<1>4. DOMAIN p = 1..3 /\ p[1] = o1 /\ p[2] = o2 /\ p[3] = o3
  BY <1>2
<1>5. ASSUME NEW i \in DOMAIN p, NEW n \in DOMAIN p[i].ins, p[i].ins[n].kind = "ref"
      PROVE  p[i].ins[n].op + 1 < i /\ p[i].ins[n].out < p[p[i].ins[n].op + 1].outs
  <2>1. CASE i = 1
    BY <1>3, <1>4, <1>5, <2>1 DEF Gpu, Bytes
  <2>2. CASE i = 2
    <3>1. p[i].ins[n] = Ref(0, 0)
      BY <1>3, <1>4, <2>2
    <3>2. p[i].ins[n].op = 0 /\ p[i].ins[n].out = 0
      BY <3>1 DEF Ref
    <3> QED
      BY <1>3, <1>4, <2>2, <3>2
  <2>3. CASE i = 3
    <3>1. p[i].ins[n] = Ref(1, 0)
      BY <1>3, <1>4, <1>5, <2>3 DEF Gpu
    <3>2. p[i].ins[n].op = 1 /\ p[i].ins[n].out = 0
      BY <3>1 DEF Ref
    <3> QED
      BY <1>3, <1>4, <2>3, <3>2
  <2> QED
    BY <1>4, <2>1, <2>2, <2>3
<1>6. ASSUME NEW i \in DOMAIN p, NEW k \in 1..i - 1
      PROVE  \E b \in k..i - 1 : p[b].barrier
  <2>1. k \in k..i - 1 /\ (k = 1 \/ k = 2)
    BY <1>4
  <2> QED
    BY <1>3, <1>4, <2>1
<1> QED
  BY <1>1, <1>5, <1>6 DEF IsSynchronized, ReferencesExist, BarriersBetween

\* Every operation list that the Python operators build meets the hypothesis of
\* Implements, for any tensors, any sizes and any number of sequences: the KV write, the
\* batched decode, both in one submission (kv_ops.py), with resident weights a linear
\* layer and the fused SwiGLU MLP (vulkan_ops.py), and the upload of a tensor.
THEOREM OperatorsSynchronize ==
  ASSUME NEW t, NEW w, NEW x, NEW z, NEW S, NEW zs \in Seq(S)
  PROVE  /\ IsSynchronized(WriteAndDecode(t, z, zs))
         /\ IsSynchronized(PagedDecode(t, zs))
         /\ IsSynchronized(PagedKVWrite(t, z))
         /\ IsSynchronized(FusedSwigluMLP(t, w, z))
         /\ IsSynchronized(Linear(t, x, z))
         /\ IsSynchronized(Upload(t, z))
<1>1. IsSynchronized(PagedKVWrite(t, z))
  <2>1. PICK p : p = PagedKVWrite(t, z)
    OBVIOUS
  <2>2. DOMAIN p = {1} /\ p[1].ins = <<Bytes, Bytes, Bytes, Gpu(t)>>
    BY <2>1 DEF PagedKVWrite, KVWriteOp, Op
  <2>3. \A m \in DOMAIN p[1].ins : p[1].ins[m].kind # "ref"
    BY <2>2 DEF Bytes, Gpu
  <2> QED
    BY <2>1, <2>2, <2>3, SingleOperation
<1>2. IsSynchronized(Linear(t, x, z))
  <2>1. PICK p : p = Linear(t, x, z)
    OBVIOUS
  <2>2. DOMAIN p = {1} /\ p[1].ins = <<Gpu(t), Bytes>>
    BY <2>1 DEF Linear, Op
  <2>3. \A m \in DOMAIN p[1].ins : p[1].ins[m].kind # "ref"
    BY <2>2 DEF Bytes, Gpu
  <2> QED
    BY <2>1, <2>2, <2>3, SingleOperation
<1>3. IsSynchronized(Upload(t, z))
  <2>1. PICK p : p = Upload(t, z)
    OBVIOUS
  <2>2. DOMAIN p = {1} /\ p[1].ins = <<Bytes>>
    BY <2>1 DEF Upload, Op
  <2>3. \A m \in DOMAIN p[1].ins : p[1].ins[m].kind # "ref"
    BY <2>2 DEF Bytes
  <2> QED
    BY <2>1, <2>2, <2>3, SingleOperation
<1>4. IsSynchronized(WriteAndDecode(t, z, zs))
  <2>1. Len(zs) \in Nat /\ DOMAIN zs = 1..Len(zs)
    BY LenProperties
  <2> QED
    BY <2>1, MergedSynchronized
<1> QED
  BY <1>1, <1>2, <1>3, <1>4, DecodesSynchronized, FusedSynchronized

=============================================================================
