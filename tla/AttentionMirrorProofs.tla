------------------------ MODULE AttentionMirrorProofs ------------------------
(***************************************************************************)
(* Proofs about AttentionMirror, for every set of requests and blocks,     *)
(* every block size and every bound. The theorems named WhenReliable       *)
(* assume that no GPU call fails, those named WithoutReuse that no block   *)
(* is handed out again; all others allow every failure and every reuse.    *)
(***************************************************************************)
EXTENDS AttentionMirror, SequenceTheorems, TLAPS

-----------------------------------------------------------------------------
(* Arithmetic of positions and blocks *)

\* Division by a positive number keeps the order of naturals.
LEMMA DivMono ==
  ASSUME NEW a \in Nat, NEW b \in Nat, NEW d \in Nat \ {0}, a <= b
  PROVE  a \div d <= b \div d
  OBVIOUS

\* One more divisor, one more quotient.
LEMMA DivPlus ==
  ASSUME NEW a \in Nat, NEW d \in Nat \ {0}
  PROVE  (a + d) \div d = (a \div d) + 1
  OBVIOUS

\* NeededBlocks counts blocks.
LEMMA NeededBlocksNat ==
  ASSUME NEW n \in Nat
  PROVE  NeededBlocks(n) \in Nat
  BY MirrorAssumption DEF NeededBlocks

\* More tokens need no fewer blocks.
LEMMA NeededBlocksMono ==
  ASSUME NEW m \in Nat, NEW n \in Nat, m <= n
  PROVE  NeededBlocks(m) <= NeededBlocks(n)
  BY DivMono, MirrorAssumption DEF NeededBlocks

\* Every position of a sequence lies in one of its needed blocks.
LEMMA PositionInBlocks ==
  ASSUME NEW n \in Nat, NEW p \in 0 .. n - 1
  PROVE  /\ (p \div BlockSize) + 1 \in 1 .. NeededBlocks(n)
         /\ p % BlockSize \in 0 .. BlockSize - 1
<1>1. /\ p \in Nat
      /\ BlockSize \in Nat \ {0}
      /\ p + BlockSize \in Nat
      /\ n + BlockSize - 1 \in Nat
      /\ p + BlockSize <= n + BlockSize - 1
  BY MirrorAssumption
<1>2. (p + BlockSize) \div BlockSize <= (n + BlockSize - 1) \div BlockSize
  BY <1>1, DivMono
<1>3. (p \div BlockSize) + 1 <= NeededBlocks(n)
  BY <1>1, <1>2, DivPlus DEF NeededBlocks
<1>4. p \div BlockSize \in Nat
  BY <1>1
<1>5. p % BlockSize \in 0 .. BlockSize - 1
  BY <1>1
<1> QED
  BY <1>3, <1>4, <1>5, NeededBlocksNat

-----------------------------------------------------------------------------
(* Block tables *)

\* A block table is a sequence of at most MaxBlocks blocks.
LEMMA TableIsSeq ==
  ASSUME NEW t
  PROVE  t \in Tables <=> t \in Seq(Block) /\ Len(t) <= MaxBlocks
<1>1. ASSUME t \in Tables
      PROVE  t \in Seq(Block) /\ Len(t) <= MaxBlocks
  <2>1. PICK n \in 0 .. MaxBlocks : t \in [1 .. n -> Block]
    BY <1>1 DEF Tables
  <2> QED
    BY <2>1, IsASeq, MirrorAssumption
<1>2. ASSUME t \in Seq(Block), Len(t) <= MaxBlocks
      PROVE  t \in Tables
  <2>1. t \in [1 .. Len(t) -> Block] /\ Len(t) \in 0 .. MaxBlocks
    BY <1>2, LenProperties, MirrorAssumption
  <2> QED
    BY <2>1 DEF Tables
<1> QED
  BY <1>1, <1>2

\* A prefix of a block table is a block table, with the same leading blocks.
LEMMA TablePrefix ==
  ASSUME NEW t \in Tables, NEW k \in 0 .. Len(t)
  PROVE  /\ SubSeq(t, 1, k) \in Tables
         /\ Len(SubSeq(t, 1, k)) = k
         /\ DOMAIN SubSeq(t, 1, k) = 1 .. k
         /\ \A i \in 1 .. k : SubSeq(t, 1, k)[i] = t[i]
<1>1. t \in Seq(Block) /\ Len(t) \in Nat /\ Len(t) <= MaxBlocks
  BY TableIsSeq, LenProperties
<1>2. /\ SubSeq(t, 1, k) \in Seq(Block)
      /\ Len(SubSeq(t, 1, k)) = k
      /\ \A i \in 1 .. k : SubSeq(t, 1, k)[i] = t[i]
  BY <1>1, SubSeqProperties
<1>3. k <= MaxBlocks
  BY <1>1, MirrorAssumption
<1>4. SubSeq(t, 1, k) \in Tables
  BY <1>2, <1>3, TableIsSeq
<1>5. DOMAIN SubSeq(t, 1, k) = 1 .. k
  BY <1>2, LenProperties
<1> QED
  BY <1>2, <1>4, <1>5

\* The slot of a position the table has a block for is a slot of the cache.
LEMMA SlotInCache ==
  ASSUME NEW t \in Tables, NEW n \in Nat, NeededBlocks(n) <= Len(t),
         NEW p \in 0 .. n - 1
  PROVE  SlotOf(t, p) \in Slot
<1>0. Len(t) \in Nat
  BY TableIsSeq, LenProperties
<1>9. (p \div BlockSize) + 1 \in 1 .. NeededBlocks(n) /\ NeededBlocks(n) \in Nat
  BY PositionInBlocks, NeededBlocksNat
<1>1. (p \div BlockSize) + 1 \in 1 .. Len(t)
  BY <1>0, <1>9
<1>2. t[(p \div BlockSize) + 1] \in Block
  BY <1>1, TableIsSeq, ElementOfSeq
<1> QED
  BY <1>2, PositionInBlocks DEF SlotOf, Slot

-----------------------------------------------------------------------------
(* The inductive invariant *)

\* The first n tokens of request r are in slots marked as written.
SeqWritten(r, n) == \A p \in 0 .. n - 1 : SlotOf(table[r], p) \in written

\* The batch of the running forward(): empty between two calls, and each of
\* its requests computes at least one of the tokens it has.
BatchOK ==
  /\ pc = "idle" => order = <<>> /\ new = [r \in Req |-> 0]
  /\ \A r \in Req : new[r] <= len[r]
  /\ \A j \in DOMAIN order : new[order[j]] >= 1

\* What the checks of the running forward() have established so far.
ChecksOK ==
  /\ pc = "checkPrior" =>
       \A j \in DOMAIN order : j < scan => SeqWritten(order[j], len[order[j]] - 1)
  /\ pc = "reverify" => \A j \in DOMAIN order : SeqWritten(order[j], len[order[j]])
  /\ pc = "mirror" => scan = 1
  /\ pc = "checkAll" =>
       \A j \in DOMAIN order : j < scan => SeqWritten(order[j], len[order[j]])
  /\ pc = "done" /\ used =>
       \A j \in DOMAIN order : SeqWritten(order[j], len[order[j]])
  /\ used => pc \in {"idle", "done"}

IndInv == TypeOK /\ BatchOK /\ VerifiedPrefixesAreWritten /\ ChecksOK

-----------------------------------------------------------------------------
(* The memory of verified prefixes *)

Covered(t, n) ==
  \A p \in 0 .. n - 1 : (p \div BlockSize) + 1 \in DOMAIN t /\ SlotOf(t, p) \in written

\* Without(t) is a subsequence of verified.
LEMMA WithoutProps ==
  ASSUME NEW t, verified \in Seq(Entry)
  PROVE  /\ Without(t) \in Seq(Entry)
         /\ Len(Without(t)) <= Len(verified)
         /\ \A i \in DOMAIN Without(t) :
              \E j \in DOMAIN verified : Without(t)[i] = verified[j]
<1>1. CASE ~Knows(t)
  BY <1>1, LenProperties DEF Without
<1>2. CASE Knows(t)
  <2> DEFINE k == CHOOSE j \in DOMAIN verified : verified[j].blocks = t
             a == SubSeq(verified, 1, k - 1)
             b == SubSeq(verified, k + 1, Len(verified))
  <2>1. k \in 1 .. Len(verified) /\ Len(verified) \in Nat
    BY <1>2, LenProperties DEF Knows
  <2>2. Without(t) = a \o b
    BY <1>2 DEF Without
  <2> HIDE DEF k
  <2>3. /\ a \in Seq(Entry) /\ Len(a) = k - 1
        /\ \A i \in 1 .. k - 1 : a[i] = verified[i]
    BY <2>1, SubSeqProperties
  <2>4. /\ b \in Seq(Entry) /\ Len(b) = Len(verified) - k
        /\ \A i \in 1 .. Len(verified) - k : b[i] = verified[k + i]
    BY <2>1, SubSeqProperties
  <2> HIDE DEF a, b
  <2> DEFINE c == a \o b
  <2>5. /\ c \in Seq(Entry)
        /\ Len(c) = Len(a) + Len(b)
        /\ \A i \in 1 .. Len(a) + Len(b) :
             c[i] = IF i <= Len(a) THEN a[i] ELSE b[i - Len(a)]
    BY <2>3, <2>4, ConcatProperties
  <2>6. Without(t) = c
    BY <2>2
  <2> HIDE DEF c
  <2>7. /\ Len(a) + Len(b) = Len(verified) - 1
        /\ DOMAIN c = 1 .. Len(verified) - 1
        /\ DOMAIN verified = 1 .. Len(verified)
    BY <2>1, <2>3, <2>4, <2>5, LenProperties
  <2>8. ASSUME NEW i \in 1 .. Len(verified) - 1
        PROVE  \E j \in DOMAIN verified : c[i] = verified[j]
    <3>1. CASE i <= k - 1
      <4>1. c[i] = a[i] /\ i \in 1 .. k - 1
        BY <3>1, <2>1, <2>3, <2>5, <2>7
      <4>2. c[i] = verified[i] /\ i \in DOMAIN verified
        BY <4>1, <2>1, <2>3, <2>7
      <4> QED BY <4>2
    <3>2. CASE ~(i <= k - 1)
      <4>1. c[i] = b[i - (k - 1)] /\ i - (k - 1) \in 1 .. Len(verified) - k
        BY <3>2, <2>1, <2>3, <2>5, <2>7
      <4>2. c[i] = verified[i + 1] /\ i + 1 \in DOMAIN verified
        BY <4>1, <2>1, <2>4, <2>7
      <4> QED BY <4>2
    <3> QED BY <3>1, <3>2
  <2> QED
    BY <2>1, <2>5, <2>6, <2>7, <2>8
<1> QED BY <1>1, <1>2

\* Remembering a prefix adds one entry and keeps the bound.
LEMMA RememberProps ==
  ASSUME NEW t \in Tables, NEW n \in Nat, RememberPrefix(t, n),
         verified \in Seq(Entry), Len(verified) <= MaxVerified
  PROVE  /\ verified' \in Seq(Entry)
         /\ Len(verified') <= MaxVerified
         /\ \A i \in DOMAIN verified' :
              \/ verified'[i] = [blocks |-> t, upto |-> n]
              \/ \E j \in DOMAIN verified : verified'[i] = verified[j]
<1> DEFINE e == [blocks |-> t, upto |-> n]
           w == Without(t)
           q == Append(w, e)
<1>1. /\ w \in Seq(Entry)
      /\ Len(w) <= MaxVerified
      /\ \A i \in DOMAIN w : \E j \in DOMAIN verified : w[i] = verified[j]
  BY WithoutProps, LenProperties, MirrorAssumption
<1>2. e \in Entry
  BY DEF Entry
<1>3. verified' = IF Len(q) > MaxVerified THEN Tail(q) ELSE q
  BY DEF RememberPrefix
<1> HIDE DEF w, e
<1>4. /\ q \in Seq(Entry) /\ Len(q) = Len(w) + 1
      /\ \A i \in 1 .. Len(w) : q[i] = w[i]
      /\ q[Len(w) + 1] = e
  BY <1>1, <1>2, AppendProperties
<1>5. Len(w) \in Nat /\ DOMAIN w = 1 .. Len(w) /\ DOMAIN q = 1 .. Len(w) + 1
  BY <1>1, <1>4, LenProperties
<1> HIDE DEF q
<1>6. \A i \in DOMAIN q : q[i] = e \/ \E j \in DOMAIN verified : q[i] = verified[j]
  BY <1>1, <1>4, <1>5
<1>7. CASE Len(q) > MaxVerified
  <2>1. /\ Tail(q) \in Seq(Entry) /\ Len(Tail(q)) = Len(q) - 1
        /\ \A i \in 1 .. Len(Tail(q)) : Tail(q)[i] = q[i + 1]
    BY <1>4, <1>5, HeadTailProperties
  <2>2. DOMAIN Tail(q) = 1 .. Len(w)
    BY <2>1, <1>4, <1>5, LenProperties
  <2>3. ASSUME NEW i \in DOMAIN Tail(q)
        PROVE  Tail(q)[i] = e \/ \E j \in DOMAIN verified : Tail(q)[i] = verified[j]
    BY <2>1, <2>2, <1>4, <1>5, <1>6
  <2> QED
    BY <1>1, <1>3, <1>4, <1>5, <1>7, <2>1, <2>3, MirrorAssumption DEF e
<1>8. CASE ~(Len(q) > MaxVerified)
  BY <1>3, <1>4, <1>5, <1>6, <1>8, MirrorAssumption DEF e
<1> QED BY <1>7, <1>8

\* A check that passes has established that the whole sequence is written,
\* although it scans only what lies beyond the verified prefix.
LEMMA CheckIsSound ==
  ASSUME TypeOK, VerifiedPrefixesAreWritten,
         NEW r \in Req, NEW n \in Nat, PassesCheck(r, n)
  PROVE  /\ ActiveBlocks(r, n) \in Tables
         /\ Covered(ActiveBlocks(r, n), n)
         /\ SeqWritten(r, n)
<1> DEFINE t == ActiveBlocks(r, n)
<1>1. /\ table[r] \in Tables
      /\ NeededBlocks(n) \in 0 .. Len(table[r])
  BY NeededBlocksNat, TableIsSeq, LenProperties DEF TypeOK, PassesCheck
<1>2. /\ t \in Tables
      /\ Len(t) = NeededBlocks(n)
      /\ DOMAIN t = 1 .. NeededBlocks(n)
      /\ \A i \in 1 .. NeededBlocks(n) : t[i] = table[r][i]
  BY <1>1, TablePrefix DEF ActiveBlocks
<1>3. Scanned(t, n)
  BY DEF PassesCheck
<1>4. \A i \in DOMAIN verified : Covered(verified[i].blocks, verified[i].upto)
  BY DEF VerifiedPrefixesAreWritten, Covered
<1>5. \A i \in DOMAIN verified : verified[i] \in Entry
  BY ElementOfSeq, LenProperties DEF TypeOK
<1> HIDE DEF t
<1>6. ASSUME NEW k, Knows(k)
      PROVE  Covered(k, UpTo(k)) /\ UpTo(k) \in Nat
  <2>1. PICK i \in DOMAIN verified : verified[i].blocks = k
    BY <1>6 DEF Knows
  <2> DEFINE S == {verified[j] : j \in DOMAIN verified}
             e == CHOOSE x \in S : x.blocks = k
  <2>2. e \in S /\ e.blocks = k
    BY <2>1
  <2>3. UpTo(k) = e.upto
    BY DEF UpTo
  <2>4. PICK j \in DOMAIN verified : e = verified[j]
    BY <2>2
  <2> HIDE DEF e, S
  <2> QED
    BY <1>4, <1>5, <2>2, <2>3, <2>4 DEF Entry
<1>7. ASSUME NEW p \in 0 .. n - 1
      PROVE  SlotOf(t, p) \in written
  <2>1. (p \div BlockSize) + 1 \in 1 .. NeededBlocks(n)
    BY PositionInBlocks
  <2>2. CASE Knows(t) /\ p < UpTo(t)
    BY <2>2, <1>6 DEF Covered
  <2>3. CASE Len(t) > 1 /\ Knows(AllButLast(t)) /\ p < UpTo(AllButLast(t))
    <3> DEFINE u == AllButLast(t)
    <3>1. (p \div BlockSize) + 1 \in DOMAIN u /\ SlotOf(u, p) \in written
      BY <2>3, <1>6 DEF Covered
    <3>2. Len(t) - 1 \in 0 .. Len(t)
      BY <1>1, <1>2, <2>3
    <3>3. DOMAIN u = 1 .. Len(t) - 1 /\ \A i \in 1 .. Len(t) - 1 : u[i] = t[i]
      BY <1>2, <3>2, TablePrefix DEF AllButLast
    <3> QED
      BY <3>1, <3>3 DEF SlotOf
  <2>4. CASE p >= StartPos(t, n)
    <3>1. StartPos(t, n) \in Nat
      BY <1>6 DEF StartPos, VerifiedPrefixLen
    <3> QED
      BY <1>3, <2>4, <3>1 DEF Scanned
  <2>5. StartPos(t, n) <= VerifiedPrefixLen(t) /\ StartPos(t, n) \in Nat
        /\ VerifiedPrefixLen(t) \in Nat
    BY <1>6 DEF StartPos, VerifiedPrefixLen
  <2>6. p < StartPos(t, n) => p < VerifiedPrefixLen(t)
    BY <2>5
  <2> QED
    BY <2>2, <2>3, <2>4, <2>5, <2>6 DEF VerifiedPrefixLen
<1>8. ASSUME NEW p \in 0 .. n - 1
      PROVE  /\ (p \div BlockSize) + 1 \in DOMAIN t
             /\ SlotOf(t, p) = SlotOf(table[r], p)
  BY <1>2, PositionInBlocks DEF SlotOf
<1> QED
  BY <1>2, <1>7, <1>8 DEF Covered, SeqWritten, t

\* Remembering a covered prefix keeps every remembered prefix covered.
LEMMA RememberCovered ==
  ASSUME TypeOK, VerifiedPrefixesAreWritten, UNCHANGED written,
         NEW t \in Tables, NEW n \in Nat, Covered(t, n), RememberPrefix(t, n)
  PROVE  VerifiedPrefixesAreWritten'
<1>1. verified \in Seq(Entry) /\ Len(verified) <= MaxVerified
  BY DEF TypeOK
<1>2. ASSUME NEW i \in DOMAIN verified'
      PROVE  \/ verified'[i] = [blocks |-> t, upto |-> n]
             \/ \E j \in DOMAIN verified : verified'[i] = verified[j]
  BY <1>1, RememberProps
<1>3. ASSUME NEW i \in DOMAIN verified',
             NEW p \in 0 .. verified'[i].upto - 1
      PROVE  /\ (p \div BlockSize) + 1 \in DOMAIN verified'[i].blocks
             /\ SlotOf(verified'[i].blocks, p) \in written
  <2>1. CASE verified'[i] = [blocks |-> t, upto |-> n]
    BY <2>1, <1>3 DEF Covered
  <2>2. CASE \E j \in DOMAIN verified : verified'[i] = verified[j]
    BY <2>2, <1>3 DEF VerifiedPrefixesAreWritten
  <2> QED BY <1>2, <2>1, <2>2
<1> QED
  BY <1>3 DEF VerifiedPrefixesAreWritten, SlotOf

\* slot_mapping names slots of the cache.
LEMMA StepSlotsInCache ==
  ASSUME TypeOK, BatchOK
  PROVE  StepSlots \subseteq Slot
<1> SUFFICES ASSUME NEW r \in InBatch, NEW p \in (len[r] - new[r]) .. (len[r] - 1)
             PROVE  SlotOf(table[r], p) \in Slot
  BY DEF StepSlots
<1>1. r \in Req
  BY ElementOfSeq, LenProperties DEF InBatch, TypeOK
<1>2. /\ len[r] \in Nat /\ new[r] \in Nat /\ new[r] <= len[r]
      /\ table[r] \in Tables
      /\ NeededBlocks(len[r]) <= Len(table[r])
  BY <1>1 DEF TypeOK, BatchOK
<1>3. p \in 0 .. len[r] - 1
  BY <1>2
<1> QED
  BY <1>2, <1>3, SlotInCache

\* The newest token of every request of the batch goes to one of this
\* forward's slots.
LEMMA NewestInStep ==
  ASSUME TypeOK, BatchOK, NEW j \in DOMAIN order
  PROVE  /\ len[order[j]] \in Nat \ {0}
         /\ SlotOf(table[order[j]], len[order[j]] - 1) \in StepSlots
<1>1. order[j] \in Req /\ order[j] \in InBatch
  BY ElementOfSeq, LenProperties DEF InBatch, TypeOK
<1>2. /\ len[order[j]] \in Nat /\ new[order[j]] \in Nat
      /\ new[order[j]] <= len[order[j]] /\ new[order[j]] >= 1
  BY <1>1 DEF TypeOK, BatchOK
<1>3. len[order[j]] - 1 \in (len[order[j]] - new[order[j]]) .. (len[order[j]] - 1)
  BY <1>2
<1> QED
  BY <1>1, <1>2, <1>3 DEF StepSlots

-----------------------------------------------------------------------------
(* The initial states *)

\* No tokens, no blocks.
LEMMA NeededBlocksZero == NeededBlocks(0) = 0
<1>1. BlockSize \in Nat \ {0} /\ NeededBlocks(0) = (BlockSize - 1) \div BlockSize
  BY MirrorAssumption DEF NeededBlocks
<1> QED
  BY <1>1

\* The empty row is a block table.
LEMMA EmptyTable == <<>> \in Tables /\ Len(<<>>) = 0
<1>1. <<>> \in Seq(Block) /\ Len(<<>>) = 0
  BY EmptySeq
<1>2. Len(<<>>) <= MaxBlocks
  BY <1>1, MirrorAssumption
<1> QED BY <1>1, <1>2, TableIsSeq

\* The inductive invariant holds initially.
LEMMA InitIndInv == Init => IndInv
<1> SUFFICES ASSUME Init PROVE IndInv
  OBVIOUS
<1>1. TypeOK
  <2>1. table \in [Req -> Tables] /\ len \in [Req -> Nat]
    BY EmptyTable DEF Init
  <2>2. \A r \in Req : NeededBlocks(len[r]) <= Len(table[r])
    BY EmptyTable, NeededBlocksZero DEF Init
  <2>3. /\ verified \in Seq(Entry) /\ Len(verified) <= MaxVerified
        /\ order \in Seq(Req)
    BY EmptySeq, MirrorAssumption DEF Init
  <2>4. /\ cpu \in [Slot -> Val \cup {Zero}] /\ gpu \in [Slot -> Val \cup {Zero}]
        /\ new \in [Req -> Nat]
    BY DEF Init
  <2>5. free \subseteq Block /\ written \subseteq Slot
    BY DEF Init
  <2>6. used \in BOOLEAN /\ sdpa \in BOOLEAN
    BY Zenon DEF Init
  <2>7. scan \in Nat \ {0} /\ pc = "idle"
    BY DEF Init
  <2> QED
    BY <2>1, <2>2, <2>3, <2>4, <2>5, <2>6, <2>7 DEF TypeOK
<1>2. BatchOK /\ ChecksOK
  BY DEF Init, BatchOK, ChecksOK
<1>3. VerifiedPrefixesAreWritten
  BY DEF Init, VerifiedPrefixesAreWritten
<1> QED BY <1>1, <1>2, <1>3 DEF IndInv

-----------------------------------------------------------------------------
(* The scheduler's steps *)

\* Giving a request a block keeps the inductive invariant.
LEMMA AllocateIndInv ==
  ASSUME IndInv, NEW r \in Req, NEW b \in Block, Allocate(r, b)
  PROVE  IndInv'
<1> USE DEF IndInv
<1>1. /\ table[r] \in Seq(Block) /\ Len(table[r]) \in Nat
      /\ Append(table[r], b) \in Seq(Block)
      /\ Len(Append(table[r], b)) = Len(table[r]) + 1
      /\ Len(table[r]) < MaxBlocks
  BY TableIsSeq, LenProperties, AppendProperties DEF TypeOK, Allocate
<1>2. Append(table[r], b) \in Tables
  <2>1. Len(Append(table[r], b)) <= MaxBlocks
    BY <1>1, MirrorAssumption
  <2> QED BY <1>1, <2>1, TableIsSeq
<1>3. table' \in [Req -> Tables]
  BY <1>2 DEF TypeOK, Allocate
<1>4. ASSUME NEW q \in Req
      PROVE  NeededBlocks(len'[q]) <= Len(table'[q])
  <2>1. /\ len' = len /\ NeededBlocks(len[q]) \in Nat
        /\ NeededBlocks(len[q]) <= Len(table[q])
    BY NeededBlocksNat DEF TypeOK, Allocate, entryVars, stepVars
  <2>2. CASE q = r
    BY <1>1, <2>1, <2>2 DEF TypeOK, Allocate
  <2>3. CASE q # r
    BY <2>1, <2>3 DEF TypeOK, Allocate
  <2> QED BY <2>2, <2>3
<1>5. TypeOK'
  BY <1>3, <1>4 DEF TypeOK, Allocate, entryVars, stepVars, NeededBlocks
<1>6. BatchOK'
  BY DEF BatchOK, Allocate, stepVars
<1>7. VerifiedPrefixesAreWritten'
  BY DEF VerifiedPrefixesAreWritten, Allocate, entryVars, SlotOf
<1>8. ChecksOK'
  BY DEF ChecksOK, BatchOK, Allocate, stepVars, SeqWritten
<1> QED BY <1>5, <1>6, <1>7, <1>8

\* Starting a request on another one's full blocks keeps it.
LEMMA SharePrefixIndInv ==
  ASSUME IndInv, NEW q \in Req, NEW r \in Req, NEW n \in 1 .. len[q],
         SharePrefix(q, r, n)
  PROVE  IndInv'
<1> USE DEF IndInv
<1>1. /\ len[q] \in Nat /\ n \in Nat /\ n <= len[q]
      /\ table[q] \in Tables /\ NeededBlocks(len[q]) <= Len(table[q])
  BY DEF TypeOK
<1>2. NeededBlocks(n) \in 0 .. Len(table[q])
  BY <1>1, NeededBlocksMono, NeededBlocksNat, TableIsSeq, LenProperties
<1>3. ActiveBlocks(q, n) \in Tables /\ Len(ActiveBlocks(q, n)) = NeededBlocks(n)
  BY <1>1, <1>2, TablePrefix DEF ActiveBlocks
<1>4. /\ table' = [table EXCEPT ![r] = ActiveBlocks(q, n)]
      /\ len' = [len EXCEPT ![r] = n]
      /\ UNCHANGED <<free, cpu, gpu, written, verified, used, pc, order, new, sdpa, scan>>
  BY DEF SharePrefix, entryVars, stepVars
<1>5. table' \in [Req -> Tables] /\ len' \in [Req -> Nat]
  BY <1>1, <1>3, <1>4 DEF TypeOK
<1>6. ASSUME NEW x \in Req
      PROVE  NeededBlocks(len'[x]) <= Len(table'[x])
  <2>1. CASE x = r
    BY <1>2, <1>3, <1>4, <2>1 DEF TypeOK
  <2>2. CASE x # r
    BY <1>4, <2>2 DEF TypeOK
  <2> QED BY <2>1, <2>2
<1>7. TypeOK'
  BY <1>4, <1>5, <1>6 DEF TypeOK, NeededBlocks
<1>8. pc = "idle" /\ order = <<>> /\ new = [x \in Req |-> 0]
  BY DEF SharePrefix, BatchOK
<1>9. BatchOK'
  BY <1>4, <1>5, <1>8 DEF BatchOK
<1>10. VerifiedPrefixesAreWritten'
  BY <1>4 DEF VerifiedPrefixesAreWritten, SlotOf
<1>11. ChecksOK'
  BY <1>4, <1>8 DEF ChecksOK, SeqWritten
<1> QED BY <1>7, <1>9, <1>10, <1>11

\* Taking a request's blocks back keeps it.
LEMMA ReleaseIndInv ==
  ASSUME IndInv, NEW r \in Req, Release(r)
  PROVE  IndInv'
<1> USE DEF IndInv
<1>1. /\ table' = [table EXCEPT ![r] = <<>>]
      /\ len' = [len EXCEPT ![r] = 0]
      /\ UNCHANGED <<cpu, gpu, written, verified, used, pc, order, new, sdpa, scan>>
  BY DEF Release, entryVars, stepVars
<1>2. free' \subseteq Block
  <2>1. BlocksOf(r) \subseteq Block
    BY TableIsSeq, ElementOfSeq, LenProperties DEF BlocksOf, TypeOK
  <2> QED BY <2>1 DEF Release, TypeOK
<1>3. table' \in [Req -> Tables] /\ len' \in [Req -> Nat]
  BY <1>1, EmptyTable DEF TypeOK
<1>4. ASSUME NEW x \in Req
      PROVE  NeededBlocks(len'[x]) <= Len(table'[x])
  <2>1. CASE x = r
    BY <1>1, <2>1, EmptyTable, NeededBlocksZero DEF TypeOK
  <2>2. CASE x # r
    BY <1>1, <2>2 DEF TypeOK
  <2> QED BY <2>1, <2>2
<1>5. TypeOK'
  BY <1>1, <1>2, <1>3, <1>4 DEF TypeOK, NeededBlocks
<1>6. pc = "idle" /\ order = <<>> /\ new = [x \in Req |-> 0]
  BY DEF Release, BatchOK
<1>7. BatchOK'
  BY <1>1, <1>3, <1>6 DEF BatchOK
<1>8. VerifiedPrefixesAreWritten'
  BY <1>1 DEF VerifiedPrefixesAreWritten, SlotOf
<1>9. ChecksOK'
  BY <1>1, <1>6 DEF ChecksOK, SeqWritten
<1> QED BY <1>5, <1>7, <1>8, <1>9

-----------------------------------------------------------------------------
(* The steps of forward() *)

\* The CPU write that starts a forward keeps it.
LEMMA ForwardIndInv ==
  ASSUME IndInv, NEW o \in Orders, NEW n \in [Req -> 0 .. MaxNew],
         NEW s \in BOOLEAN, NEW v \in Val, Forward(o, n, s, v)
  PROVE  IndInv'
<1> USE DEF IndInv
<1>1. /\ order' = o /\ new' = n /\ sdpa' = s /\ used' = FALSE /\ scan' = 1
      /\ len' = [r \in Req |-> len[r] + n[r]]
      /\ cpu' = [x \in Slot |-> IF x \in StepSlots' THEN v ELSE cpu[x]]
      /\ pc' \in {"checkPrior", "mirror"}
      /\ UNCHANGED <<free, table, gpu, written, verified>>
      /\ \A r \in Req : /\ n[r] > 0 <=> \E i \in DOMAIN o : o[i] = r
                        /\ NeededBlocks(len[r] + n[r]) <= Len(table[r])
  BY DEF Forward, entryVars
<1>2. o \in Seq(Req)
  <2>1. PICK k \in 1 .. Cardinality(Req) : o \in [1 .. k -> Req]
    BY DEF Orders
  <2>2. k \in Nat
    BY <2>1
  <2> QED BY <2>1, <2>2, IsASeq
<1>3. \A r \in Req : len[r] \in Nat /\ n[r] \in Nat /\ len[r] + n[r] \in Nat
  BY MirrorAssumption DEF TypeOK
<1>4. cpu' \in [Slot -> Val \cup {Zero}]
  BY <1>1 DEF TypeOK
<1>5. TypeOK'
  <2>1. \A r \in Req : len'[r] = len[r] + n[r] /\ table'[r] = table[r]
    BY <1>1
  <2>2. \A r \in Req : NeededBlocks(len'[r]) <= Len(table'[r])
    BY <1>1, <2>1
  <2>3. len' \in [Req -> Nat] /\ new' \in [Req -> Nat]
    BY <1>1, <1>3
  <2>4. \A r \in Req : (NeededBlocks(len[r]) <= Len(table[r]))'
    BY <2>2 DEF NeededBlocks
  <2>5. used' \in BOOLEAN /\ sdpa' \in BOOLEAN
    BY <1>1, Zenon
  <2> QED
    BY <1>1, <1>2, <1>4, <2>3, <2>4, <2>5 DEF TypeOK
<1>6. BatchOK'
  <2>1. ASSUME NEW j \in DOMAIN o
        PROVE  n[o[j]] >= 1
    <3>1. o[j] \in Req
      BY <1>2, ElementOfSeq, LenProperties
    <3>2. n[o[j]] > 0 /\ n[o[j]] \in Nat
      BY <1>1, <1>3, <3>1
    <3> QED BY <3>2
  <2> QED BY <1>1, <1>3, <2>1 DEF BatchOK
<1>7. VerifiedPrefixesAreWritten'
  BY <1>1 DEF VerifiedPrefixesAreWritten, SlotOf
<1>8. ChecksOK'
  BY <1>1, <1>2, LenProperties DEF ChecksOK
<1> QED BY <1>5, <1>6, <1>7, <1>8

\* A step that leaves the scheduler, the batch and the bookkeeping of slots
\* alone keeps the parts of the invariant that speak of them only.
LEMMA FrameIndInv ==
  ASSUME IndInv, UNCHANGED <<free, table, len, cpu, order, new, sdpa>>,
         pc # "idle", pc' \in {"checkPrior", "reverify", "mirror", "checkAll", "cpu", "done"},
         scan' \in Nat \ {0}, used' \in BOOLEAN,
         gpu' \in [Slot -> Val \cup {Zero}],
         written' \subseteq Slot,
         verified' \in Seq(Entry), Len(verified') <= MaxVerified
  PROVE  TypeOK' /\ BatchOK'
<1>1. TypeOK'
  BY DEF IndInv, TypeOK, NeededBlocks
<1>2. BatchOK'
  BY DEF IndInv, BatchOK
<1> QED BY <1>1, <1>2

\* Growing written_slots keeps remembered prefixes written.
LEMMA GrowVerified ==
  ASSUME VerifiedPrefixesAreWritten, UNCHANGED verified, written \subseteq written'
  PROVE  VerifiedPrefixesAreWritten'
  BY DEF VerifiedPrefixesAreWritten, SlotOf

\* A request under check is a request, with its length and block table.
LEMMA ScanRequest ==
  ASSUME TypeOK, scan <= Len(order)
  PROVE  /\ scan \in DOMAIN order
         /\ order[scan] \in Req
         /\ len[order[scan]] \in Nat
<1>1. scan \in DOMAIN order
  BY LenProperties DEF TypeOK
<1> QED
  BY <1>1, ElementOfSeq, LenProperties DEF TypeOK

\* The check before the merged write keeps the inductive invariant.
LEMMA CheckPriorIndInv ==
  ASSUME IndInv, CheckPrior
  PROVE  IndInv'
<1> USE DEF IndInv
<1> DEFINE r == order[scan]
           n == len[r] - 1
<1>1. /\ UNCHANGED <<free, table, len, cpu, gpu, written, used, order, new, sdpa>>
      /\ pc = "checkPrior" /\ scan <= Len(order) /\ scan \in Nat \ {0}
  BY DEF CheckPrior, schedulerVars, stepVars, TypeOK
<1>2. /\ scan \in DOMAIN order /\ r \in Req /\ len[r] \in Nat /\ len[r] \in Int
  BY <1>1, ScanRequest
<1>3. /\ gpu' \in [Slot -> Val \cup {Zero}] /\ written' \subseteq Slot
      /\ verified \in Seq(Entry) /\ Len(verified) <= MaxVerified
  BY <1>1 DEF TypeOK
<1>4. used' \in BOOLEAN
  BY <1>1, Zenon DEF TypeOK
<1>5. ASSUME NEW j \in DOMAIN order, j < scan
      PROVE  SeqWritten(order[j], len[order[j]] - 1)
  BY <1>1, <1>5 DEF ChecksOK
<1>6. ~used
  BY <1>1 DEF ChecksOK
<1>7. ASSUME scan' = scan + 1, UNCHANGED pc, SeqWritten(r, n)
      PROVE  ChecksOK'
  <2>1. ASSUME NEW j \in DOMAIN order, j < scan + 1
        PROVE  SeqWritten(order[j], len[order[j]] - 1)
    <3>1. j \in Nat
      BY LenProperties DEF TypeOK
    <3>2. j < scan \/ j = scan
      BY <1>1, <2>1, <3>1
    <3> QED BY <1>5, <1>7, <3>2
  <2> QED
    BY <1>1, <1>6, <1>7, <2>1 DEF ChecksOK, SeqWritten, SlotOf
<1>8. CASE n <= 0 /\ scan' = scan + 1 /\ UNCHANGED <<verified, pc>>
  <2>1. SeqWritten(r, n)
    BY <1>2, <1>8 DEF SeqWritten
  <2>2. ChecksOK'
    BY <1>7, <1>8, <2>1
  <2>3. TypeOK' /\ BatchOK'
    BY <1>1, <1>3, <1>4, <1>8, FrameIndInv
  <2>4. VerifiedPrefixesAreWritten'
    BY <1>1, <1>8, GrowVerified
  <2> QED BY <2>2, <2>3, <2>4
<1>9. CASE /\ n > 0 /\ PassesCheck(r, n) /\ RememberPrefix(ActiveBlocks(r, n), n)
           /\ scan' = scan + 1 /\ UNCHANGED pc
  <2>1. n \in Nat
    BY <1>2, <1>9
  <2>2. /\ ActiveBlocks(r, n) \in Tables
        /\ Covered(ActiveBlocks(r, n), n)
        /\ SeqWritten(r, n)
    BY <1>2, <1>9, <2>1, CheckIsSound
  <2>3. verified' \in Seq(Entry) /\ Len(verified') <= MaxVerified
    BY <1>3, <1>9, <2>1, <2>2, RememberProps
  <2>4. TypeOK' /\ BatchOK'
    BY <1>1, <1>3, <1>4, <1>9, <2>3, FrameIndInv
  <2>5. VerifiedPrefixesAreWritten'
    BY <1>1, <1>9, <2>1, <2>2, RememberCovered
  <2>6. ChecksOK'
    BY <1>7, <1>9, <2>2
  <2> QED BY <2>4, <2>5, <2>6
<1>10. CASE pc' = "mirror" /\ scan' = 1 /\ UNCHANGED verified
  <2>1. TypeOK' /\ BatchOK'
    BY <1>1, <1>3, <1>4, <1>10, FrameIndInv
  <2>2. VerifiedPrefixesAreWritten'
    BY <1>1, <1>10, GrowVerified
  <2>3. ChecksOK'
    BY <1>1, <1>6, <1>10 DEF ChecksOK
  <2> QED BY <2>1, <2>2, <2>3
<1> QED
  BY <1>8, <1>9, <1>10 DEF CheckPrior

\* The mirror write changes the mirror within its type.
LEMMA MirrorWriteType ==
  ASSUME TypeOK, MirrorWrite
  PROVE  gpu' \in [Slot -> Val \cup {Zero}]
  BY DEF TypeOK, MirrorWrite

\* The merged write and decode keeps the inductive invariant: what the check
\* found and what the write adds make up the whole sequences.
LEMMA WriteAndDecodeIndInv ==
  ASSUME IndInv, WriteAndDecode
  PROVE  IndInv'
<1> USE DEF IndInv
<1>1. /\ UNCHANGED <<free, table, len, cpu, verified, used, order, new, sdpa>>
      /\ pc = "checkPrior" /\ scan > Len(order)
      /\ pc' = "reverify" /\ scan' = 1 /\ MirrorWrite
      /\ written' = written \cup StepSlots
  BY DEF WriteAndDecode, schedulerVars, stepVars
<1>2. /\ gpu' \in [Slot -> Val \cup {Zero}] /\ written' \subseteq Slot
      /\ verified' \in Seq(Entry) /\ Len(verified') <= MaxVerified
  BY <1>1, MirrorWriteType, StepSlotsInCache DEF TypeOK
<1>3. used' \in BOOLEAN
  BY <1>1, Zenon DEF TypeOK
<1>4. TypeOK' /\ BatchOK'
  BY <1>1, <1>2, <1>3, FrameIndInv
<1>5. VerifiedPrefixesAreWritten'
  BY <1>1, GrowVerified
<1>6. ASSUME NEW j \in DOMAIN order, NEW p \in 0 .. len[order[j]] - 1
      PROVE  SlotOf(table[order[j]], p) \in written \cup StepSlots
  <2>1. /\ len[order[j]] \in Nat \ {0}
        /\ SlotOf(table[order[j]], len[order[j]] - 1) \in StepSlots
    BY NewestInStep
  <2>2. j < scan
    BY <1>1, LenProperties DEF TypeOK
  <2>3. SeqWritten(order[j], len[order[j]] - 1)
    BY <1>1, <2>2 DEF ChecksOK
  <2>4. p = len[order[j]] - 1 \/ p \in 0 .. (len[order[j]] - 1) - 1
    BY <2>1
  <2> QED BY <2>1, <2>3, <2>4 DEF SeqWritten
<1>7. ~used
  BY <1>1 DEF ChecksOK
<1>8. ChecksOK'
  BY <1>1, <1>6, <1>7 DEF ChecksOK, SeqWritten, SlotOf
<1> QED BY <1>4, <1>5, <1>8

\* A forward that leaves the merged path, or whose mirror write has been
\* tried with any outcome, keeps the inductive invariant.
LEMMA LeaveIndInv ==
  ASSUME IndInv,
         UNCHANGED <<free, table, len, cpu, verified, used, order, new, sdpa>>,
         pc \in {"checkPrior", "mirror", "checkAll"},
         \/ pc' = "mirror" /\ scan' = 1
         \/ pc' = "cpu" /\ scan' = scan
         \/ pc = "mirror" /\ pc' = "checkAll" /\ scan' = scan,
         MirrorWrite \/ UNCHANGED gpu,
         written' = written \/ written' = written \cup StepSlots
  PROVE  IndInv'
<1> USE DEF IndInv
<1>1. gpu' \in [Slot -> Val \cup {Zero}]
  BY MirrorWriteType DEF TypeOK
<1>2. written' \subseteq Slot
  BY StepSlotsInCache DEF TypeOK
<1>3. /\ verified' \in Seq(Entry) /\ Len(verified') <= MaxVerified
      /\ scan' \in Nat \ {0}
  BY DEF TypeOK
<1>4. used' \in BOOLEAN
  BY Zenon DEF TypeOK
<1>5. TypeOK' /\ BatchOK'
  BY <1>1, <1>2, <1>3, <1>4, FrameIndInv
<1>6. VerifiedPrefixesAreWritten'
  BY GrowVerified
<1>7. ~used' /\ (pc = "mirror" => scan = 1)
  BY DEF ChecksOK
<1>8. DOMAIN order' = 1 .. Len(order') /\ Len(order') \in Nat
  BY <1>5, LenProperties DEF TypeOK
<1>9. ChecksOK'
  BY <1>7, <1>8 DEF ChecksOK
<1> QED BY <1>5, <1>6, <1>9

\* The re-verification after the merged write keeps the inductive invariant.
LEMMA ReverifyIndInv ==
  ASSUME IndInv, Reverify
  PROVE  IndInv'
<1> USE DEF IndInv
<1>1. /\ UNCHANGED <<free, table, len, cpu, gpu, written, order, new, sdpa>>
      /\ pc = "reverify" /\ scan \in Nat \ {0}
  BY DEF Reverify, schedulerVars, stepVars, TypeOK
<1>2. /\ gpu' \in [Slot -> Val \cup {Zero}] /\ written' \subseteq Slot
      /\ verified \in Seq(Entry) /\ Len(verified) <= MaxVerified
  BY <1>1 DEF TypeOK
<1>3. \A j \in DOMAIN order : SeqWritten(order[j], len[order[j]])
  BY <1>1 DEF ChecksOK
<1>4. ~used /\ used \in BOOLEAN
  BY <1>1, Zenon DEF ChecksOK, TypeOK
<1> DEFINE r == order[scan]
<1>5. CASE scan <= Len(order) /\ PassesCheck(r, len[r])
  <2>1. /\ RememberPrefix(ActiveBlocks(r, len[r]), len[r])
        /\ scan' = scan + 1 /\ UNCHANGED <<used, pc>>
    BY <1>5 DEF Reverify
  <2>2. r \in Req /\ len[r] \in Nat
    BY <1>5, ScanRequest
  <2>3. /\ ActiveBlocks(r, len[r]) \in Tables
        /\ Covered(ActiveBlocks(r, len[r]), len[r])
    BY <1>5, <2>2, CheckIsSound
  <2>4. verified' \in Seq(Entry) /\ Len(verified') <= MaxVerified
    BY <1>2, <2>1, <2>2, <2>3, RememberProps
  <2>5. TypeOK' /\ BatchOK'
    BY <1>1, <1>2, <1>4, <2>1, <2>4, FrameIndInv
  <2>6. VerifiedPrefixesAreWritten'
    BY <1>1, <2>1, <2>2, <2>3, RememberCovered
  <2>7. ChecksOK'
    BY <1>1, <1>3, <1>4, <2>1 DEF ChecksOK, SeqWritten, SlotOf
  <2> QED BY <2>5, <2>6, <2>7
<1>6. CASE ~(scan <= Len(order) /\ PassesCheck(r, len[r]))
  <2>1. used' = TRUE /\ pc' = "done" /\ UNCHANGED <<verified, scan>>
    BY <1>6 DEF Reverify
  <2>2. used' \in BOOLEAN
    BY <2>1, Zenon
  <2>3. TypeOK' /\ BatchOK'
    BY <1>1, <1>2, <2>1, <2>2, FrameIndInv
  <2>4. VerifiedPrefixesAreWritten'
    BY <1>1, <2>1, GrowVerified
  <2>5. ChecksOK'
    BY <1>1, <1>3, <2>1 DEF ChecksOK, SeqWritten, SlotOf
  <2> QED BY <2>3, <2>4, <2>5
<1> QED BY <1>5, <1>6

\* The check before a separate decode keeps it.
LEMMA CheckAllIndInv ==
  ASSUME IndInv, CheckAll
  PROVE  IndInv'
<1> USE DEF IndInv
<1> DEFINE r == order[scan]
<1>1. /\ UNCHANGED <<free, table, len, cpu, gpu, written, used, order, new, sdpa>>
      /\ pc = "checkAll" /\ scan <= Len(order) /\ scan \in Nat \ {0}
  BY DEF CheckAll, schedulerVars, stepVars, TypeOK
<1>2. r \in Req /\ len[r] \in Nat
  BY <1>1, ScanRequest
<1>3. CASE ~PassesCheck(r, len[r])
  <2>1. pc' = "cpu" /\ UNCHANGED <<verified, scan>>
    BY <1>3 DEF CheckAll
  <2> QED
    BY <1>1, <2>1, LeaveIndInv
<1>4. CASE PassesCheck(r, len[r])
  <2>1. /\ RememberPrefix(ActiveBlocks(r, len[r]), len[r])
        /\ scan' = scan + 1 /\ UNCHANGED pc
    BY <1>4 DEF CheckAll
  <2>2. /\ ActiveBlocks(r, len[r]) \in Tables
        /\ Covered(ActiveBlocks(r, len[r]), len[r])
        /\ SeqWritten(r, len[r])
    BY <1>2, <1>4, CheckIsSound
  <2>3. verified' \in Seq(Entry) /\ Len(verified') <= MaxVerified
    BY <1>2, <2>1, <2>2, RememberProps DEF TypeOK
  <2>4. used' \in BOOLEAN
    BY <1>1, Zenon DEF TypeOK
  <2>5. gpu' \in [Slot -> Val \cup {Zero}] /\ written' \subseteq Slot
    BY <1>1 DEF TypeOK
  <2>6. TypeOK' /\ BatchOK'
    BY <1>1, <2>1, <2>3, <2>4, <2>5, FrameIndInv
  <2>7. VerifiedPrefixesAreWritten'
    BY <1>1, <1>2, <2>1, <2>2, RememberCovered
  <2>8. ASSUME NEW j \in DOMAIN order, j < scan + 1
        PROVE  SeqWritten(order[j], len[order[j]])
    <3>1. j \in Nat
      BY LenProperties DEF TypeOK
    <3>2. j < scan \/ j = scan
      BY <1>1, <2>8, <3>1
    <3> QED BY <1>1, <2>2, <3>2 DEF ChecksOK
  <2>9. ~used
    BY <1>1 DEF ChecksOK
  <2>10. ChecksOK'
    BY <1>1, <2>1, <2>8, <2>9 DEF ChecksOK, SeqWritten, SlotOf
  <2> QED BY <2>6, <2>7, <2>10
<1> QED BY <1>3, <1>4

\* Reaching the end of forward() keeps it: by a decode on the mirror, whose
\* whole batch has been checked, or by CPU_ATTN.
LEMMA FinishIndInv ==
  ASSUME IndInv, Decode \/ CpuAttention
  PROVE  IndInv'
<1> USE DEF IndInv
<1>1. /\ UNCHANGED <<free, table, len, cpu, gpu, written, verified, order, new, sdpa, scan>>
      /\ pc' = "done"
      /\ \/ pc = "checkAll" /\ scan > Len(order) /\ used' = TRUE
         \/ pc = "cpu" /\ UNCHANGED used
  BY DEF Decode, CpuAttention, schedulerVars, entryVars, stepVars
<1>2. /\ gpu' \in [Slot -> Val \cup {Zero}] /\ written' \subseteq Slot
      /\ verified' \in Seq(Entry) /\ Len(verified') <= MaxVerified
      /\ scan' \in Nat \ {0}
  BY <1>1 DEF TypeOK
<1>3. used' \in BOOLEAN
  <2>1. used' = TRUE \/ used' = used
    BY <1>1
  <2> QED BY <2>1, Zenon DEF TypeOK
<1>4. TypeOK' /\ BatchOK'
  BY <1>1, <1>2, <1>3, FrameIndInv
<1>5. VerifiedPrefixesAreWritten'
  BY <1>1, GrowVerified
<1>6. CASE pc = "checkAll" /\ scan > Len(order)
  <2>1. \A j \in DOMAIN order : j < scan
    BY <1>6, LenProperties DEF TypeOK
  <2>2. \A j \in DOMAIN order : SeqWritten(order[j], len[order[j]])
    BY <1>6, <2>1 DEF ChecksOK
  <2>3. ChecksOK'
    BY <1>1, <2>2 DEF ChecksOK, SeqWritten, SlotOf
  <2> QED BY <1>4, <1>5, <2>3
<1>7. CASE pc = "cpu" /\ UNCHANGED used
  <2>1. ~used'
    BY <1>7 DEF ChecksOK
  <2>2. ChecksOK'
    BY <1>1, <2>1 DEF ChecksOK
  <2> QED BY <1>4, <1>5, <2>2
<1> QED BY <1>1, <1>6, <1>7

\* Returning to the caller keeps it.
LEMMA ReturnIndInv ==
  ASSUME IndInv, Return
  PROVE  IndInv'
<1> USE DEF IndInv
<1>1. /\ UNCHANGED <<free, table, len, cpu, gpu, written, verified, used>>
      /\ pc' = "idle" /\ order' = <<>> /\ new' = [r \in Req |-> 0]
      /\ sdpa' = FALSE /\ scan' = 1
  BY DEF Return, schedulerVars, entryVars
<1>2. sdpa' \in BOOLEAN /\ used' \in BOOLEAN
  BY <1>1, Zenon DEF TypeOK
<1>3. order' \in Seq(Req) /\ new' \in [Req -> Nat] /\ DOMAIN order' = {}
  BY <1>1, EmptySeq
<1>4. \A r \in Req : (NeededBlocks(len[r]) <= Len(table[r]))'
  BY <1>1 DEF TypeOK, NeededBlocks
<1>5. TypeOK'
  BY <1>1, <1>2, <1>3, <1>4 DEF TypeOK
<1>6. BatchOK'
  BY <1>1, <1>3 DEF BatchOK, TypeOK
<1>7. VerifiedPrefixesAreWritten'
  BY <1>1, GrowVerified
<1>8. ChecksOK'
  BY <1>1, <1>3 DEF ChecksOK
<1> QED BY <1>5, <1>6, <1>7, <1>8

-----------------------------------------------------------------------------
(* The theorems *)

\* Every step keeps the inductive invariant.
LEMMA NextIndInv == IndInv /\ [Next]_vars => IndInv'
<1> SUFFICES ASSUME IndInv, [Next]_vars PROVE IndInv'
  OBVIOUS
<1>1. ASSUME NEW r \in Req, NEW b \in Block, Allocate(r, b) PROVE IndInv'
  BY <1>1, AllocateIndInv
<1>2. ASSUME NEW q \in Req, NEW r \in Req, NEW n \in 1 .. len[q], SharePrefix(q, r, n)
      PROVE  IndInv'
  BY <1>2, SharePrefixIndInv
<1>3. ASSUME NEW r \in Req, Release(r) PROVE IndInv'
  BY <1>3, ReleaseIndInv
<1>4. ASSUME NEW o \in Orders, NEW n \in [Req -> 0 .. MaxNew], NEW s \in BOOLEAN,
             NEW v \in Val, Forward(o, n, s, v)
      PROVE  IndInv'
  BY <1>4, ForwardIndInv
<1>5. CASE CheckPrior
  BY <1>5, CheckPriorIndInv
<1>6. CASE WriteAndDecode
  BY <1>6, WriteAndDecodeIndInv
<1>7. CASE MergedFailsBefore
  BY <1>7, LeaveIndInv DEF MergedFailsBefore, schedulerVars, entryVars, stepVars
<1>8. CASE MergedFailsAfter
  BY <1>8, LeaveIndInv DEF MergedFailsAfter, schedulerVars, stepVars
<1>9. CASE Reverify
  BY <1>9, ReverifyIndInv
<1>10. CASE Mirror
  BY <1>10, LeaveIndInv DEF Mirror, AfterMirror, schedulerVars, stepVars
<1>11. CASE MirrorFailsBefore
  BY <1>11, LeaveIndInv DEF MirrorFailsBefore, AfterMirror, schedulerVars, entryVars, stepVars
<1>12. CASE MirrorFailsAfter
  BY <1>12, LeaveIndInv DEF MirrorFailsAfter, AfterMirror, schedulerVars, stepVars
<1>13. CASE CheckAll
  BY <1>13, CheckAllIndInv
<1>14. CASE Decode \/ CpuAttention
  BY <1>14, FinishIndInv
<1>15. CASE DecodeFails
  BY <1>15, LeaveIndInv DEF DecodeFails, schedulerVars, entryVars, stepVars
<1>16. CASE Return
  BY <1>16, ReturnIndInv
<1>17. CASE UNCHANGED vars
  <2>1. TypeOK' /\ BatchOK'
    BY <1>17, Zenon DEF IndInv, TypeOK, BatchOK, vars, NeededBlocks
  <2>2. VerifiedPrefixesAreWritten' /\ ChecksOK'
    BY <1>17 DEF IndInv, VerifiedPrefixesAreWritten, ChecksOK, SeqWritten, SlotOf, vars
  <2> QED BY <2>1, <2>2 DEF IndInv
<1> QED
  BY <1>1, <1>2, <1>3, <1>4, <1>5, <1>6, <1>7, <1>8, <1>9, <1>10, <1>11, <1>12,
     <1>13, <1>14, <1>15, <1>16, <1>17 DEF Next, Step

\* The inductive invariant holds in every reachable state.
LEMMA AlwaysIndInv == Spec => []IndInv
  BY InitIndInv, NextIndInv, PTL DEF Spec

\* Type correctness, and the bound on the memory of verified prefixes that
\* _remember_verified_prefix maintains.
THEOREM TypeCorrect == Spec => []TypeOK
<1>1. IndInv => TypeOK
  BY DEF IndInv
<1> QED BY <1>1, AlwaysIndInv, PTL

\* A remembered prefix is written, whatever calls fail and however blocks are
\* shared and handed out again (_verified_prefix_len may be trusted).
THEOREM VerifiedPrefixesCorrect == Spec => []VerifiedPrefixesAreWritten
<1>1. IndInv => VerifiedPrefixesAreWritten
  BY DEF IndInv
<1> QED BY <1>1, AlwaysIndInv, PTL

\* The unchecked re-verification of _try_write_and_decode_vulkan passes.
THEOREM ReverifyCorrect == Spec => []ReverifyPasses
<1>1. IndInv => ReverifyPasses
  <2> SUFFICES ASSUME IndInv, pc = "reverify", scan <= Len(order)
               PROVE  PassesCheck(order[scan], len[order[scan]])
    BY DEF ReverifyPasses
  <2> USE DEF IndInv
  <2> DEFINE r == order[scan]
             n == len[r]
             t == ActiveBlocks(r, n)
  <2>1. scan \in DOMAIN order /\ r \in Req /\ n \in Nat
    BY ScanRequest
  <2>2. table[r] \in Tables /\ NeededBlocks(n) \in 0 .. Len(table[r])
    BY <2>1, NeededBlocksNat, TableIsSeq, LenProperties DEF TypeOK
  <2>3. DOMAIN t = 1 .. NeededBlocks(n) /\ \A i \in 1 .. NeededBlocks(n) : t[i] = table[r][i]
    BY <2>2, TablePrefix DEF ActiveBlocks
  <2>4. SeqWritten(r, n)
    BY <2>1 DEF ChecksOK
  <2>5. ASSUME NEW p \in 0 .. n - 1
        PROVE  SlotOf(t, p) \in written
    <3>1. SlotOf(t, p) = SlotOf(table[r], p)
      BY <2>1, <2>3, PositionInBlocks DEF SlotOf
    <3> QED BY <2>4, <3>1 DEF SeqWritten
  <2>6. \A k : Knows(k) => UpTo(k) \in Nat
    <3> SUFFICES ASSUME NEW k, Knows(k) PROVE UpTo(k) \in Nat
      OBVIOUS
    <3> DEFINE S == {verified[j] : j \in DOMAIN verified}
               e == CHOOSE x \in S : x.blocks = k
    <3>1. e \in S
      BY DEF Knows
    <3>2. S \subseteq Entry
      BY ElementOfSeq, LenProperties DEF TypeOK
    <3>3. UpTo(k) = e.upto
      BY DEF UpTo
    <3> HIDE DEF e, S
    <3> QED BY <3>1, <3>2, <3>3 DEF Entry
  <2>7. StartPos(t, n) \in Nat
    BY <2>1, <2>6 DEF StartPos, VerifiedPrefixLen
  <2>8. Scanned(t, n)
    BY <2>1, <2>5, <2>7 DEF Scanned
  <2> QED BY <2>2, <2>8 DEF PassesCheck
<1> QED BY <1>1, AlwaysIndInv, PTL

-----------------------------------------------------------------------------
(* The mirror, when no GPU call fails *)

\* A written slot agrees with vLLM's cache, but for the slots of the running
\* forward() between the CPU write and the mirror write.
CohInv ==
  \A x \in written :
    gpu[x] = cpu[x] \/ (x \in StepSlots /\ pc \in {"checkPrior", "mirror"})

\* A step that touches neither cache, nor the bitmap, nor the batch.
LEMMA CohFrame ==
  ASSUME CohInv, UNCHANGED <<table, len, cpu, gpu, written, order, new>>,
         pc \in {"checkPrior", "mirror"} => pc' \in {"checkPrior", "mirror"}
  PROVE  CohInv'
  BY DEF CohInv, StepSlots, InBatch, SlotOf

\* Copying this forward's slots makes all written slots agree.
LEMMA CohWrite ==
  ASSUME IndInv, CohInv, MirrorWrite, UNCHANGED cpu,
         written' = written \cup StepSlots
  PROVE  CohInv'
<1>1. ASSUME NEW x \in written'
      PROVE  gpu'[x] = cpu[x]
  <2>1. x \in Slot
    BY StepSlotsInCache DEF IndInv, TypeOK
  <2>2. gpu'[x] = IF x \in StepSlots THEN cpu[x] ELSE gpu[x]
    BY <2>1 DEF MirrorWrite
  <2> QED BY <2>2 DEF CohInv
<1> QED BY <1>1 DEF CohInv

\* Every step keeps the agreement when no GPU call fails.
LEMMA NextCohInv ==
  ASSUME Failures = {}
  PROVE  IndInv /\ CohInv /\ [Next]_vars => CohInv'
<1> SUFFICES ASSUME IndInv, CohInv, [Next]_vars PROVE CohInv'
  OBVIOUS
<1>1. ASSUME pc = "idle", pc' = "idle", UNCHANGED <<cpu, gpu, written>> PROVE CohInv'
  BY <1>1 DEF CohInv
<1>2. ASSUME NEW r \in Req, NEW b \in Block, Allocate(r, b) PROVE CohInv'
  BY <1>1, <1>2 DEF Allocate, entryVars
<1>3. ASSUME NEW q \in Req, NEW r \in Req, NEW n \in 1 .. len[q], SharePrefix(q, r, n)
      PROVE  CohInv'
  BY <1>1, <1>3 DEF SharePrefix, entryVars
<1>4. ASSUME NEW r \in Req, Release(r) PROVE CohInv'
  BY <1>1, <1>4 DEF Release, entryVars
<1>5. ASSUME NEW o \in Orders, NEW n \in [Req -> 0 .. MaxNew], NEW s \in BOOLEAN,
             NEW v \in Val, Forward(o, n, s, v)
      PROVE  CohInv'
  <2>1. /\ pc = "idle" /\ pc' \in {"checkPrior", "mirror"}
        /\ UNCHANGED <<gpu, written>>
        /\ cpu' = [x \in Slot |-> IF x \in StepSlots' THEN v ELSE cpu[x]]
    BY <1>5 DEF Forward, entryVars
  <2>2. ASSUME NEW x \in written, x \notin StepSlots'
        PROVE  gpu'[x] = cpu'[x]
    BY <2>1, <2>2 DEF CohInv, IndInv, TypeOK
  <2> QED BY <2>1, <2>2 DEF CohInv
<1>6. CASE CheckPrior
  BY <1>6, CohFrame DEF CheckPrior, schedulerVars, stepVars
<1>7. CASE WriteAndDecode
  BY <1>7, CohWrite DEF WriteAndDecode
<1>8. CASE Mirror
  BY <1>8, CohWrite DEF Mirror
<1>9. CASE Reverify
  BY <1>9, CohFrame DEF Reverify, schedulerVars, stepVars
<1>10. CASE CheckAll
  BY <1>10, CohFrame DEF CheckAll, schedulerVars, stepVars
<1>11. CASE Decode \/ CpuAttention
  BY <1>11, CohFrame DEF Decode, CpuAttention, schedulerVars, entryVars, stepVars
<1>12. CASE Return
  <2>1. pc = "done" /\ pc' = "idle" /\ UNCHANGED <<cpu, gpu, written>>
    BY <1>12 DEF Return, entryVars
  <2> QED BY <2>1 DEF CohInv
<1>13. ~(MergedFailsBefore \/ MergedFailsAfter \/ MirrorFailsBefore \/ MirrorFailsAfter
         \/ DecodeFails)
  BY DEF MergedFailsBefore, MergedFailsAfter, MirrorFailsBefore, MirrorFailsAfter, DecodeFails
<1>14. CASE UNCHANGED vars
  BY <1>14, CohFrame DEF vars
<1> QED
  BY <1>2, <1>3, <1>4, <1>5, <1>6, <1>7, <1>8, <1>9, <1>10, <1>11, <1>12, <1>13, <1>14
  DEF Next, Step

\* The agreement holds in every reachable state when no GPU call fails.
LEMMA AlwaysCohInv ==
  ASSUME Failures = {}
  PROVE  Spec => [](IndInv /\ CohInv)
<1>1. Init => CohInv
  BY DEF Init, CohInv
<1> QED
  BY <1>1, InitIndInv, NextIndInv, NextCohInv, PTL DEF Spec

\* Between two calls the mirror agrees with vLLM's KV cache on every slot
\* marked as written, when no GPU call fails.
THEOREM MirrorCoherentWhenReliable ==
  ASSUME Failures = {}
  PROVE  Spec => []MirrorCoherent
<1>1. IndInv /\ CohInv => MirrorCoherent
  BY DEF CohInv, MirrorCoherent
<1> QED BY <1>1, AlwaysCohInv, PTL

\* A Vulkan decode reads, for every request and position of its batch, what
\* CPU_ATTN would have read, when no GPU call fails: for every sharing and
\* handing out of blocks, every batch order and every block size.
THEOREM DecodeCorrectWhenReliable ==
  ASSUME Failures = {}
  PROVE  Spec => []DecodeReadsWhatCpuHolds
<1>1. IndInv /\ CohInv => DecodeReadsWhatCpuHolds
  <2> SUFFICES ASSUME IndInv, CohInv, pc = "done", used, NEW r \in InBatch
               PROVE  ReadBy(gpu, r) = ReadBy(cpu, r)
    BY DEF DecodeReadsWhatCpuHolds
  <2>1. SeqWritten(r, len[r])
    BY DEF InBatch, IndInv, ChecksOK
  <2>2. \A p \in 0 .. len[r] - 1 : gpu[SlotOf(table[r], p)] = cpu[SlotOf(table[r], p)]
    BY <2>1 DEF SeqWritten, CohInv
  <2> QED BY <2>2 DEF ReadBy
<1> QED BY <1>1, AlwaysCohInv, PTL

-----------------------------------------------------------------------------
(* The mirror, when blocks are not handed out again *)

Offset == 0 .. BlockSize - 1

\* The first position of a request in the i-th block of its table.
Base(i) == (i - 1) * BlockSize

\* The i-th block of request r has room for tokens still to come.
HasRoom(r, i) == Base(i) + BlockSize > len[r]

\* Blocks with room are held once, at one place of one table.
Exclusive ==
  /\ \A r \in Req : \A i \in DOMAIN table[r] : table[r][i] \notin free
  /\ \A r, q \in Req : \A i \in DOMAIN table[r], j \in DOMAIN table[q] :
       HasRoom(r, i) /\ table[q][j] = table[r][i] => q = r /\ j = i

\* What no token has been put in is not marked as written.
Unwritten ==
  /\ \A b \in free : \A o \in Offset : <<b, o>> \notin written
  /\ \A r \in Req : \A i \in DOMAIN table[r] : \A o \in Offset :
       Base(i) + o >= len[r] => <<table[r][i], o>> \notin written

OnceInv ==
  /\ Exclusive
  /\ Unwritten
  /\ \A x \in written : gpu[x] = cpu[x]

\* A position, from its block and its offset.
LEMMA PositionParts ==
  ASSUME NEW p \in Nat
  PROVE  /\ p = Base((p \div BlockSize) + 1) + (p % BlockSize)
         /\ p % BlockSize \in Offset
         /\ (p \div BlockSize) + 1 \in Nat \ {0}
<1> DEFINE d == p \div BlockSize
           m == p % BlockSize
<1>1. BlockSize \in Nat \ {0}
  BY MirrorAssumption
<1>2. p = d * BlockSize + m /\ d \in Nat /\ m \in 0 .. BlockSize - 1
  BY <1>1
<1> HIDE DEF d, m
<1>3. (d + 1) - 1 = d
  BY <1>2
<1>4. Base(d + 1) = d * BlockSize
  BY <1>3 DEF Base
<1>5. p = Base(d + 1) + m /\ m \in Offset /\ d + 1 \in Nat \ {0}
  BY <1>2, <1>4 DEF Offset
<1> QED
  BY <1>5 DEF d, m

LEMMA BaseInt ==
  ASSUME NEW i \in Int
  PROVE  Base(i) \in Int
BY MirrorAssumption DEF Base

\* The blocks that hold a whole number of blocks of tokens are full.
LEMMA SharedAreFull ==
  ASSUME NEW n \in Nat, n % BlockSize = 0, NEW i \in 1 .. NeededBlocks(n)
  PROVE  Base(i) + BlockSize <= n
<1> DEFINE d == n \div BlockSize
<1>1. BlockSize \in Nat \ {0}
  BY MirrorAssumption
<1>2. n = d * BlockSize /\ d \in Nat
  BY <1>1
<1> HIDE DEF d
<1> DEFINE a == n + BlockSize - 1
           e == a \div BlockSize
<1>3. e <= d
  <2>1. a \in Nat
    BY <1>1
  <2> HIDE DEF a
  <2>2. e * BlockSize <= a /\ e \in Nat
    BY <1>1, <2>1
  <2> HIDE DEF e
  <2>3. SUFFICES ASSUME e >= d + 1 PROVE FALSE
    BY <1>2, <2>2
  <2>4. (d + 1) * BlockSize <= e * BlockSize
    BY <1>1, <1>2, <2>2, <2>3
  <2>5. (d + 1) * BlockSize = n + BlockSize
    BY <1>1, <1>2
  <2>6. a < n + BlockSize /\ a \in Nat
    BY <1>1, <2>1 DEF a
  <2>7. e * BlockSize \in Nat
    BY <1>1, <2>2
  <2> QED
    BY <1>1, <2>2, <2>4, <2>5, <2>6, <2>7
<1>4. i \in Nat \ {0} /\ i <= d
  <2>1. NeededBlocks(n) = e /\ NeededBlocks(n) \in Nat
    BY NeededBlocksNat DEF NeededBlocks
  <2> HIDE DEF e
  <2> QED
    BY <1>2, <1>3, <2>1
<1> HIDE DEF a, e
<1>5. i * BlockSize <= d * BlockSize
  BY <1>1, <1>2, <1>4
<1>6. Base(i) + BlockSize = i * BlockSize
  BY <1>1, <1>4 DEF Base
<1> QED
  BY <1>2, <1>5, <1>6

\* A token's slot is in a block of its request's table.
LEMMA TokenInTable ==
  ASSUME TypeOK, NEW r \in Req, NEW p \in 0 .. len[r] - 1
  PROVE  (p \div BlockSize) + 1 \in DOMAIN table[r]
<1>1. len[r] \in Nat /\ table[r] \in Seq(Block) /\ NeededBlocks(len[r]) <= Len(table[r])
  BY TableIsSeq DEF TypeOK
<1>2. (p \div BlockSize) + 1 \in 1 .. NeededBlocks(len[r])
  BY <1>1, PositionInBlocks
<1>3. NeededBlocks(len[r]) \in Nat /\ Len(table[r]) \in Nat /\ DOMAIN table[r] = 1 .. Len(table[r])
  BY <1>1, NeededBlocksNat, LenProperties
<1> QED
  BY <1>1, <1>2, <1>3

\* The slots of this forward's tokens are of no free block, and of no place where
\* tokens are still to come.
LEMMA StepSlotsFilled ==
  ASSUME TypeOK, BatchOK, Exclusive, NEW x \in StepSlots
  PROVE  /\ \A b \in free : \A o \in Offset : x # <<b, o>>
         /\ \A r \in Req : \A i \in DOMAIN table[r] : \A o \in Offset :
              Base(i) + o >= len[r] => x # <<table[r][i], o>>
<1>1. PICK q \in InBatch : \E p \in (len[q] - new[q]) .. (len[q] - 1) : x = SlotOf(table[q], p)
  BY DEF StepSlots
<1>2. q \in Req
  BY <1>1, ElementOfSeq, LenProperties DEF InBatch, TypeOK
<1>3. PICK p \in 0 .. len[q] - 1 : x = SlotOf(table[q], p)
  <2>1. len[q] \in Nat /\ new[q] \in Nat /\ new[q] <= len[q]
    BY <1>2 DEF TypeOK, BatchOK
  <2> QED
    BY <1>1, <2>1
<1> DEFINE j == (p \div BlockSize) + 1
           u == p % BlockSize
<1>4. x = <<table[q][j], u>>
  BY <1>3 DEF SlotOf
<1>5. /\ p \in Nat /\ p < len[q] /\ len[q] \in Nat
      /\ j \in DOMAIN table[q] /\ p = Base(j) + u /\ u \in Offset /\ j \in Nat \ {0}
  <2>1. len[q] \in Nat /\ p \in Nat /\ p < len[q]
    BY <1>2 DEF TypeOK
  <2>2. j \in DOMAIN table[q]
    BY <1>2, TokenInTable
  <2> QED
    BY <2>1, <2>2, PositionParts
<1> HIDE DEF j, u
<1>6. \A b \in free : \A o \in Offset : x # <<b, o>>
  BY <1>2, <1>4, <1>5 DEF Exclusive
<1>7. ASSUME NEW r \in Req, NEW i \in DOMAIN table[r], NEW o \in Offset,
             Base(i) + o >= len[r], x = <<table[r][i], o>>
      PROVE  FALSE
  <2>1. table[q][j] = table[r][i] /\ u = o
    BY <1>4, <1>7
  <2>2. i \in Int
    BY TableIsSeq, LenProperties DEF TypeOK
  <2>3. HasRoom(r, i)
    <3>1. Base(i) \in Int /\ o \in Int /\ o < BlockSize /\ len[r] \in Nat /\ BlockSize \in Nat
      BY <2>2, BaseInt, MirrorAssumption DEF Offset, TypeOK
    <3> QED
      BY <1>7, <3>1 DEF HasRoom
  <2>4. q = r /\ j = i
    BY <1>2, <1>5, <2>1, <2>3 DEF Exclusive
  <2>5. Base(i) + o < len[r]
    BY <1>5, <2>1, <2>4
  <2>6. Base(i) + o \in Int /\ len[r] \in Int
    BY <2>2, BaseInt DEF Offset, TypeOK
  <2> QED
    BY <1>7, <2>5, <2>6
<1> QED
  BY <1>6, <1>7

\* Steps of forward() that leave the tables alone keep them exclusive.
LEMMA ExclusiveFrame ==
  ASSUME Exclusive, UNCHANGED <<free, table, len>>
  PROVE  Exclusive'
BY DEF Exclusive, HasRoom, Base

\* A mirror write, marked or not.
LEMMA OnceWrite ==
  ASSUME IndInv, OnceInv, UNCHANGED <<free, table, len, cpu>>, MirrorWrite,
         written' \in {written, written \cup StepSlots}
  PROVE  OnceInv'
<1>1. Exclusive'
  BY ExclusiveFrame DEF OnceInv
<1>2. ASSUME NEW x \in written' PROVE gpu'[x] = cpu'[x]
  <2>1. x \in Slot
    BY StepSlotsInCache DEF IndInv, TypeOK
  <2>2. gpu'[x] = IF x \in StepSlots THEN cpu[x] ELSE gpu[x]
    BY <2>1 DEF MirrorWrite
  <2> QED
    BY <2>2 DEF OnceInv
<1>3. Unwritten'
  <2>1. \A x : x \in written' => x \in written \/ x \in StepSlots
    OBVIOUS
  <2>2. \A b \in free : \A o \in Offset : <<b, o>> \notin written'
    BY <2>1, StepSlotsFilled DEF OnceInv, Unwritten, IndInv
  <2>3. \A r \in Req : \A i \in DOMAIN table[r] : \A o \in Offset :
          Base(i) + o >= len[r] => <<table[r][i], o>> \notin written'
    BY <2>1, StepSlotsFilled DEF OnceInv, Unwritten, IndInv
  <2> QED
    BY <2>2, <2>3 DEF Unwritten, Offset, Base
<1> QED
  BY <1>1, <1>2, <1>3 DEF OnceInv

\* A step that touches neither caches, nor the bitmap, nor tables.
LEMMA OnceFrame ==
  ASSUME OnceInv, UNCHANGED <<free, table, len, cpu, gpu, written>>
  PROVE  OnceInv'
<1>1. Exclusive'
  BY ExclusiveFrame DEF OnceInv
<1>2. Unwritten'
  BY DEF OnceInv, Unwritten, Offset, Base
<1> QED
  BY <1>1, <1>2 DEF OnceInv

\* A fresh block is held by nobody and not written.
LEMMA AllocateOnce ==
  ASSUME IndInv, OnceInv, NEW r \in Req, NEW b \in Block, Allocate(r, b)
  PROVE  OnceInv'
<1>1. /\ b \in free /\ free' = free \ {b} /\ len' = len
      /\ UNCHANGED <<cpu, gpu, written>>
      /\ table'[r] = Append(table[r], b) /\ \A q \in Req \ {r} : table'[q] = table[q]
  BY DEF Allocate, entryVars, IndInv, TypeOK
<1>2. table[r] \in Seq(Block)
  BY TableIsSeq DEF IndInv, TypeOK
<1> DEFINE n == Len(table[r])
<1>3. /\ n \in Nat /\ DOMAIN table[r] = 1 .. n /\ DOMAIN table'[r] = 1 .. n + 1
      /\ table'[r][n + 1] = b /\ \A i \in 1 .. n : table'[r][i] = table[r][i]
  BY <1>1, <1>2, LenProperties, AppendProperties
<1> HIDE DEF n
<1>4. \A q \in Req : \A i \in DOMAIN table'[q] :
        \/ i \in DOMAIN table[q] /\ table'[q][i] = table[q][i]
        \/ q = r /\ i = n + 1 /\ table'[q][i] = b
  <2>1. \A i \in 1 .. n + 1 : i \in 1 .. n \/ i = n + 1
    BY <1>3
  <2> QED
    BY <1>1, <1>3, <2>1
<1>5. \A q \in Req : \A i \in DOMAIN table[q] : table[q][i] # b
  BY <1>1 DEF OnceInv, Exclusive
<1>6. Exclusive'
  <2>1. \A q \in Req : \A i \in DOMAIN table'[q] : table'[q][i] \notin free'
    BY <1>1, <1>4 DEF OnceInv, Exclusive
  <2>2. ASSUME NEW p \in Req, NEW q \in Req, NEW i \in DOMAIN table'[p], NEW j \in DOMAIN table'[q],
               HasRoom(p, i)', table'[q][j] = table'[p][i]
        PROVE  q = p /\ j = i
    <3>1. HasRoom(p, i)
      BY <1>1, <2>2 DEF HasRoom, Base
    <3>2. CASE table'[p][i] = b
      BY <1>4, <1>5, <2>2, <3>2
    <3>3. CASE table'[p][i] # b
      BY <1>4, <2>2, <3>1, <3>3 DEF OnceInv, Exclusive
    <3> QED
      BY <3>2, <3>3
  <2> QED
    BY <2>1, <2>2 DEF Exclusive
<1>7. Unwritten'
  <2>1. \A c \in free' : \A o \in Offset : <<c, o>> \notin written'
    BY <1>1 DEF OnceInv, Unwritten
  <2>2. \A q \in Req : \A i \in DOMAIN table'[q] : \A o \in Offset :
          Base(i) + o >= len'[q] => <<table'[q][i], o>> \notin written'
    BY <1>1, <1>4 DEF OnceInv, Unwritten
  <2> QED
    BY <2>1, <2>2 DEF Unwritten, Offset, Base
<1> QED
  BY <1>1, <1>6, <1>7 DEF OnceInv

\* Shared blocks are full for both requests.
LEMMA SharePrefixOnce ==
  ASSUME IndInv, OnceInv, NEW q \in Req, NEW r \in Req, NEW n \in 1 .. len[q],
         SharePrefix(q, r, n)
  PROVE  OnceInv'
<1>1. /\ free' = free /\ UNCHANGED <<cpu, gpu, written>> /\ n % BlockSize = 0
      /\ table'[r] = ActiveBlocks(q, n) /\ \A x \in Req \ {r} : table'[x] = table[x]
      /\ len'[r] = n /\ \A x \in Req \ {r} : len'[x] = len[x]
  BY DEF SharePrefix, entryVars, IndInv, TypeOK
<1>2. /\ len[q] \in Nat /\ n \in Nat /\ n <= len[q]
      /\ table[q] \in Tables /\ NeededBlocks(len[q]) <= Len(table[q])
  BY DEF IndInv, TypeOK
<1>3. NeededBlocks(n) \in 0 .. Len(table[q])
  BY <1>2, NeededBlocksMono, NeededBlocksNat, TableIsSeq, LenProperties
<1>4. /\ DOMAIN table'[r] = 1 .. NeededBlocks(n)
      /\ \A i \in 1 .. NeededBlocks(n) : i \in DOMAIN table[q] /\ table'[r][i] = table[q][i]
  <2>1. DOMAIN table[q] = 1 .. Len(table[q]) /\ Len(table[q]) \in Nat
    BY <1>2, TableIsSeq, LenProperties
  <2>2. \A i \in 1 .. NeededBlocks(n) : i \in DOMAIN table[q]
    BY <1>3, <2>1
  <2> QED
    BY <1>1, <1>2, <1>3, <2>2, TablePrefix DEF ActiveBlocks
<1>5. \A i \in DOMAIN table'[r] : Base(i) + BlockSize <= n
  BY <1>1, <1>2, <1>4, SharedAreFull
<1>6. \A i \in DOMAIN table'[r] : Base(i) \in Int /\ BlockSize \in Int
  <2>1. \A i \in DOMAIN table'[r] : i \in Int
    BY <1>4
  <2> QED
    BY <2>1, BaseInt, MirrorAssumption
<1>7. \A i \in DOMAIN table'[r] : ~HasRoom(q, i)
  BY <1>2, <1>5, <1>6 DEF HasRoom
<1>8. \A x \in Req : \A i : HasRoom(x, i)' => x # r \/ i \notin DOMAIN table'[r]
  BY <1>1, <1>2, <1>5, <1>6 DEF HasRoom, Base
<1>9. Exclusive'
  <2>1. \A x \in Req : \A i \in DOMAIN table'[x] : table'[x][i] \notin free'
    BY <1>1, <1>4 DEF OnceInv, Exclusive
  <2>2. ASSUME NEW p \in Req, NEW x \in Req, NEW i \in DOMAIN table'[p], NEW j \in DOMAIN table'[x],
               HasRoom(p, i)', table'[x][j] = table'[p][i]
        PROVE  x = p /\ j = i
    <3>1. p # r
      BY <1>8, <2>2
    <3>2. HasRoom(p, i) /\ i \in DOMAIN table[p] /\ table'[p][i] = table[p][i]
      BY <1>1, <2>2, <3>1 DEF HasRoom, Base
    <3>3. CASE x = r
      <4>1. j \in DOMAIN table[q] /\ table[q][j] = table[p][i]
        BY <1>4, <2>2, <3>2, <3>3
      <4>2. q = p /\ j = i
        BY <3>2, <4>1 DEF OnceInv, Exclusive
      <4> QED
        BY <1>7, <2>2, <3>2, <3>3, <4>2
    <3>4. CASE x # r
      BY <1>1, <2>2, <3>2, <3>4 DEF OnceInv, Exclusive
    <3> QED
      BY <3>3, <3>4
  <2> QED
    BY <2>1, <2>2 DEF Exclusive
<1>10. Unwritten'
  <2>1. \A c \in free' : \A o \in Offset : <<c, o>> \notin written'
    BY <1>1 DEF OnceInv, Unwritten
  <2>2. ASSUME NEW x \in Req, NEW i \in DOMAIN table'[x], NEW o \in Offset, Base(i) + o >= len'[x]
        PROVE  <<table'[x][i], o>> \notin written'
    <3>1. CASE x = r
      <4>1. Base(i) \in Int /\ o \in Int /\ o < BlockSize /\ BlockSize \in Int
        BY <1>6, <3>1 DEF Offset
      <4> QED
        BY <1>1, <1>2, <1>5, <2>2, <3>1, <4>1
    <3>2. CASE x # r
      BY <1>1, <2>2, <3>2 DEF OnceInv, Unwritten
    <3> QED
      BY <3>1, <3>2
  <2> QED
    BY <2>1, <2>2 DEF Unwritten, Offset, Base
<1> QED
  BY <1>1, <1>9, <1>10 DEF OnceInv

\* A request that ends leaves its blocks to nobody.
LEMMA ReleaseOnce ==
  ASSUME ~Reuse, IndInv, OnceInv, NEW r \in Req, Release(r)
  PROVE  OnceInv'
<1>1. /\ free' = free /\ UNCHANGED <<cpu, gpu, written>>
      /\ table'[r] = <<>> /\ \A x \in Req \ {r} : table'[x] = table[x]
      /\ \A x \in Req \ {r} : len'[x] = len[x]
  BY DEF Release, entryVars, IndInv, TypeOK
<1>2. DOMAIN table'[r] = {}
  BY <1>1
<1>3. Exclusive'
  BY <1>1, <1>2 DEF OnceInv, Exclusive, HasRoom, Base
<1>4. Unwritten'
  BY <1>1, <1>2 DEF OnceInv, Unwritten, Offset, Base
<1> QED
  BY <1>1, <1>3, <1>4 DEF OnceInv

\* A forward writes vLLM's cache only where nothing has been mirrored.
LEMMA ForwardOnce ==
  ASSUME IndInv, OnceInv, NEW o \in Orders, NEW n \in [Req -> 0 .. MaxNew],
         NEW s \in BOOLEAN, NEW v \in Val, Forward(o, n, s, v)
  PROVE  OnceInv'
<1>1. /\ free' = free /\ table' = table /\ UNCHANGED <<gpu, written>>
      /\ new' = n /\ order' = o
      /\ \A r \in Req : len'[r] = len[r] + n[r]
      /\ cpu' = [x \in Slot |-> IF x \in StepSlots' THEN v ELSE cpu[x]]
  BY DEF Forward, entryVars
<1>2. \A r \in Req : len[r] \in Nat /\ n[r] \in Nat
  BY MirrorAssumption DEF IndInv, TypeOK
<1>3. IndInv'
  BY ForwardIndInv
<1>4. \A r \in Req : \A i \in DOMAIN table[r] : i \in Int /\ Base(i) \in Int
  <2>1. \A r \in Req : \A i \in DOMAIN table[r] : i \in Int
    BY TableIsSeq, LenProperties DEF IndInv, TypeOK
  <2> QED
    BY <2>1, BaseInt
<1>5. Exclusive'
  <2>1. ASSUME NEW r \in Req, NEW i \in DOMAIN table[r], HasRoom(r, i)'
        PROVE  HasRoom(r, i)
    <3>1. Base(i) + BlockSize > len[r] + n[r] /\ Base(i) \in Int /\ BlockSize \in Int
      BY <1>1, <1>4, <2>1, MirrorAssumption DEF HasRoom, Base
    <3>2. len[r] \in Nat /\ n[r] \in Nat
      BY <1>2
    <3> QED
      BY <3>1, <3>2 DEF HasRoom
  <2> QED
    BY <1>1, <2>1 DEF OnceInv, Exclusive
<1>6. Unwritten'
  <2>1. ASSUME NEW r \in Req, NEW i \in DOMAIN table[r], NEW u \in Offset, Base(i) + u >= len'[r]
        PROVE  <<table[r][i], u>> \notin written
    <3>1. Base(i) \in Int /\ u \in Int /\ len[r] \in Nat /\ n[r] \in Nat
      BY <1>2, <1>4 DEF Offset
    <3>2. Base(i) + u >= len[r]
      BY <1>1, <2>1, <3>1
    <3> QED
      BY <3>2 DEF OnceInv, Unwritten
  <2> QED
    BY <1>1, <2>1 DEF OnceInv, Unwritten, Offset, Base
<1>7. ASSUME NEW x \in StepSlots' PROVE x \notin written
  <2>1. PICK q \in InBatch' : \E p \in (len'[q] - new'[q]) .. (len'[q] - 1) : x = SlotOf(table'[q], p)
    BY DEF StepSlots, SlotOf
  <2>2. q \in Req
    <3>1. order' \in Seq(Req)
      BY <1>3 DEF IndInv, TypeOK
    <3> QED
      BY <2>1, <3>1, ElementOfSeq, LenProperties DEF InBatch
  <2>3. PICK p \in len[q] .. len'[q] - 1 : x = SlotOf(table[q], p)
    BY <1>1, <1>2, <2>1, <2>2
  <2> DEFINE j == (p \div BlockSize) + 1
             u == p % BlockSize
  <2>4. x = <<table[q][j], u>>
    BY <2>3 DEF SlotOf
  <2>5. p \in Nat /\ p >= len[q] /\ p \in 0 .. len'[q] - 1
    BY <1>1, <1>2, <2>2
  <2>6. j \in DOMAIN table[q]
    <3>1. len'[q] \in Nat /\ NeededBlocks(len'[q]) <= Len(table[q]) /\ table[q] \in Seq(Block)
      BY <1>1, <1>2, <2>2, TableIsSeq DEF Forward, IndInv, TypeOK
    <3>2. j \in 1 .. NeededBlocks(len'[q])
      BY <2>5, <3>1, PositionInBlocks
    <3>3. /\ NeededBlocks(len'[q]) \in Nat /\ Len(table[q]) \in Nat
          /\ DOMAIN table[q] = 1 .. Len(table[q])
      BY <3>1, NeededBlocksNat, LenProperties
    <3> QED
      BY <3>1, <3>2, <3>3
  <2>7. p = Base(j) + u /\ u \in Offset
    BY <2>5, PositionParts
  <2> HIDE DEF j, u
  <2> QED
    BY <2>2, <2>4, <2>5, <2>6, <2>7 DEF OnceInv, Unwritten
<1>8. \A x \in written : gpu'[x] = cpu'[x]
  <2>1. \A x \in written : x \in Slot /\ x \notin StepSlots'
    BY <1>7 DEF IndInv, TypeOK
  <2> QED
    BY <1>1, <2>1 DEF OnceInv
<1> QED
  BY <1>1, <1>5, <1>6, <1>8 DEF OnceInv

\* Every step keeps the agreement when no block is handed out again.
LEMMA NextOnce ==
  ASSUME ~Reuse, IndInv, OnceInv, [Next]_vars
  PROVE  OnceInv'
<1>1. ASSUME NEW r \in Req, NEW b \in Block, Allocate(r, b) PROVE OnceInv'
  BY <1>1, AllocateOnce
<1>2. ASSUME NEW q \in Req, NEW r \in Req, NEW n \in 1 .. len[q], SharePrefix(q, r, n)
      PROVE  OnceInv'
  BY <1>2, SharePrefixOnce
<1>3. ASSUME NEW r \in Req, Release(r) PROVE OnceInv'
  BY <1>3, ReleaseOnce
<1>4. ASSUME NEW o \in Orders, NEW n \in [Req -> 0 .. MaxNew], NEW s \in BOOLEAN,
             NEW v \in Val, Forward(o, n, s, v)
      PROVE  OnceInv'
  BY <1>4, ForwardOnce
<1>5. CASE WriteAndDecode \/ Mirror \/ MergedFailsAfter \/ MirrorFailsAfter
  <2>1. /\ UNCHANGED <<free, table, len, cpu>> /\ MirrorWrite
        /\ written' \in {written, written \cup StepSlots}
    BY <1>5 DEF WriteAndDecode, Mirror, MergedFailsAfter, MirrorFailsAfter, schedulerVars
  <2> QED
    BY <2>1, OnceWrite
<1>6. CASE \/ CheckPrior \/ MergedFailsBefore \/ Reverify \/ MirrorFailsBefore
           \/ CheckAll \/ Decode \/ DecodeFails \/ CpuAttention \/ Return
  <2>1. UNCHANGED <<free, table, len, cpu, gpu, written>>
    BY <1>6 DEF CheckPrior, MergedFailsBefore, Reverify, MirrorFailsBefore, CheckAll, Decode,
       DecodeFails, CpuAttention, Return, schedulerVars, entryVars
  <2> QED
    BY <2>1, OnceFrame
<1>7. CASE UNCHANGED vars
  BY <1>7, OnceFrame DEF vars
<1> QED
  BY <1>1, <1>2, <1>3, <1>4, <1>5, <1>6, <1>7 DEF Next, Step

\* The agreement holds in every reachable state when no block is handed out again.
LEMMA AlwaysOnce ==
  ASSUME ~Reuse
  PROVE  Spec => [](IndInv /\ OnceInv)
<1>1. ASSUME Init PROVE OnceInv
  <2>1. \A r \in Req : DOMAIN table[r] = {}
    BY <1>1 DEF Init
  <2> QED
    BY <1>1, <2>1 DEF Init, OnceInv, Exclusive, Unwritten
<1>2. IndInv /\ OnceInv /\ [Next]_vars => OnceInv'
  BY NextOnce
<1> QED
  BY <1>1, <1>2, InitIndInv, NextIndInv, PTL DEF Spec

\* What _vulkan_cache_has_sequences promises holds however GPU calls fail, when
\* blocks are not handed out again: a batch that passed the check of its full
\* sequences finds in the mirror what vLLM's cache holds.
THEOREM CheckedCorrectWithoutReuse ==
  ASSUME ~Reuse
  PROVE  Spec => []CheckedTokensAreThere
<1>1. IndInv /\ OnceInv => CheckedTokensAreThere
  <2> SUFFICES ASSUME IndInv, OnceInv, pc = "checkAll", scan > Len(order), NEW r \in InBatch
               PROVE  ReadBy(gpu, r) = ReadBy(cpu, r)
    BY DEF CheckedTokensAreThere
  <2>1. PICK j \in DOMAIN order : r = order[j]
    BY DEF InBatch
  <2>2. j < scan
    BY LenProperties DEF IndInv, TypeOK
  <2>3. SeqWritten(r, len[r])
    BY <2>1, <2>2 DEF IndInv, ChecksOK
  <2>4. \A p \in 0 .. len[r] - 1 : gpu[SlotOf(table[r], p)] = cpu[SlotOf(table[r], p)]
    BY <2>3 DEF SeqWritten, OnceInv
  <2> QED
    BY <2>4 DEF ReadBy
<1> QED
  BY <1>1, AlwaysOnce, PTL

\* And so a Vulkan decode reads what CPU_ATTN would have read, however GPU calls
\* fail, when blocks are not handed out again.
THEOREM DecodeCorrectWithoutReuse ==
  ASSUME ~Reuse
  PROVE  Spec => []DecodeReadsWhatCpuHolds
<1>1. IndInv /\ OnceInv => DecodeReadsWhatCpuHolds
  <2> SUFFICES ASSUME IndInv, OnceInv, pc = "done", used, NEW r \in InBatch
               PROVE  ReadBy(gpu, r) = ReadBy(cpu, r)
    BY DEF DecodeReadsWhatCpuHolds
  <2>1. SeqWritten(r, len[r])
    BY DEF InBatch, IndInv, ChecksOK
  <2>2. \A p \in 0 .. len[r] - 1 : gpu[SlotOf(table[r], p)] = cpu[SlotOf(table[r], p)]
    BY <2>1 DEF SeqWritten, OnceInv
  <2> QED
    BY <2>2 DEF ReadBy
<1> QED
  BY <1>1, AlwaysOnce, PTL

=============================================================================
