---------------------------- MODULE KVLayoutProofs ----------------------------
(***************************************************************************)
(* That the layout, the write shader and the decode shaders agree on where *)
(* a scalar of the paged KV cache lies, and that no two scalars of a layer *)
(* share a place.                                                          *)
(***************************************************************************)
EXTENDS KVLayout, TLAPS

-----------------------------------------------------------------------------
(* Arithmetic *)

\* Multiplication by a natural number keeps the order.
LEMMA TimesMonotone ==
  ASSUME NEW n \in Nat, NEW a \in Int, NEW b \in Int, a <= b
  PROVE  a * n <= b * n
<1>1. (b - a) * n >= 0
  <2>1. b - a \in Nat
    OBVIOUS
  <2>. QED
    BY <2>1
<1>. QED
  BY <1>1

\* A number has one quotient and one remainder.
LEMMA OneQuotient ==
  ASSUME NEW n \in Nat \ {0}, NEW a \in Int, NEW c \in Int,
         NEW b \in 0 .. n - 1, NEW d \in 0 .. n - 1,
         a * n + b = c * n + d
  PROVE  a = c /\ b = d
<1>1. ~(a < c)
  <2>1. SUFFICES ASSUME a < c PROVE FALSE
    OBVIOUS
  <2>2. (a + 1) * n <= c * n
    BY <2>1, TimesMonotone
  <2>3. (a + 1) * n = a * n + n
    OBVIOUS
  <2>4. a * n \in Int /\ c * n \in Int
    OBVIOUS
  <2>. QED
    BY <2>2, <2>3, <2>4
<1>2. ~(c < a)
  <2>1. SUFFICES ASSUME c < a PROVE FALSE
    OBVIOUS
  <2>2. (c + 1) * n <= a * n
    BY <2>1, TimesMonotone
  <2>3. (c + 1) * n = c * n + n
    OBVIOUS
  <2>4. a * n \in Int /\ c * n \in Int
    OBVIOUS
  <2>. QED
    BY <2>2, <2>3, <2>4
<1>3. a = c
  BY <1>1, <1>2
<1>4. a * n \in Int /\ a * n = c * n
  BY <1>3
<1>. QED
  BY <1>3, <1>4

\* Division with remainder.
LEMMA Division ==
  ASSUME NEW n \in Nat \ {0}, NEW a \in Nat
  PROVE  /\ (a \div n) \in Nat /\ (a % n) \in 0 .. n - 1
         /\ a = (a \div n) * n + (a % n)
<1>1. (a \div n) \in Int /\ (a % n) \in 0 .. n - 1 /\ a = (a \div n) * n + (a % n)
  BY Z3
<1>2. (a \div n) >= 0
  <2>1. SUFFICES ASSUME (a \div n) <= -1 PROVE FALSE
    BY <1>1
  <2>2. (a \div n) * n <= (-1) * n
    BY <1>1, <2>1, TimesMonotone
  <2>. QED
    BY <1>1, <2>2
<1>. QED
  BY <1>1, <1>2

\* What is divided and what remains of a sum whose last term is small.
LEMMA DivideSum ==
  ASSUME NEW n \in Nat \ {0}, NEW a \in Nat, NEW b \in 0 .. n - 1
  PROVE  /\ ((a * n + b) \div n) = a
         /\ ((a * n + b) % n) = b
<1>1. a * n + b \in Nat
  OBVIOUS
<1>. DEFINE x == a * n + b
<1>2. /\ (x \div n) \in Nat /\ (x % n) \in 0 .. n - 1
      /\ x = (x \div n) * n + (x % n)
  BY <1>1, Division
<1>. QED
  BY <1>2, OneQuotient
-----------------------------------------------------------------------------
(* The numbers of a layer *)

LEMMA LayerFields ==
  ASSUME NEW s \in LayerSpecs
  PROVE  /\ s.heads \in Nat \ {0} /\ s.headSize \in Nat \ {0}
         /\ s.blockSize \in Nat \ {0} /\ s.dtypeSize \in Nat \ {0}
  BY DEF LayerSpecs

LEMMA Product ==
  ASSUME NEW m \in Nat \ {0}, NEW n \in Nat \ {0}
  PROVE  m * n \in Nat \ {0}
  OBVIOUS

\* The elements of one plane of a block.
PlaneElems(s) == s.blockSize * ElementsPerToken(s)

LEMMA Positive ==
  ASSUME NEW s \in LayerSpecs
  PROVE  ElementsPerToken(s) \in Nat \ {0} /\ PlaneElems(s) \in Nat \ {0}
<1>1. ElementsPerToken(s) \in Nat \ {0}
  BY LayerFields, Product DEF ElementsPerToken
<1>. QED
  BY <1>1, LayerFields, Product DEF PlaneElems

\* The bytes of a plane and of a block are whole numbers of elements.
LEMMA BytesAndElements ==
  ASSUME NEW s \in LayerSpecs
  PROVE  /\ PlaneBytesPerBlock(s) = PlaneElems(s) * s.dtypeSize
         /\ BytesPerBlock(s) = (2 * PlaneElems(s)) * s.dtypeSize
         /\ (PlaneBytesPerBlock(s) \div s.dtypeSize) = PlaneElems(s)
         /\ (BytesPerBlock(s) \div s.dtypeSize) = 2 * PlaneElems(s)
<1>. DEFINE d == s.dtypeSize
<1>1. d \in Nat \ {0} /\ 0 \in 0 .. d - 1
  BY LayerFields
<1>2. PlaneElems(s) \in Nat /\ 2 * PlaneElems(s) \in Nat
  BY Positive
<1>3. PlaneBytesPerBlock(s) = PlaneElems(s) * d
  <2>. DEFINE b == s.blockSize  t == ElementsPerToken(s)
  <2>1. b \in Nat /\ t \in Nat
    BY LayerFields, Positive
  <2>2. b * (t * d) = (b * t) * d
    BY <2>1, <1>1
  <2>. QED
    BY <2>2 DEF PlaneBytesPerBlock, PlaneElems
<1>4. BytesPerBlock(s) = (2 * PlaneElems(s)) * d
  BY <1>1, <1>2, <1>3 DEF BytesPerBlock
<1>5. \A n \in Nat : ((n * d) \div d) = n
  <2>. SUFFICES ASSUME NEW n \in Nat PROVE ((n * d) \div d) = n
    OBVIOUS
  <2>1. ((n * d + 0) \div d) = n
    BY <1>1, DivideSum
  <2>2. n * d + 0 = n * d
    BY <1>1
  <2>. QED
    BY <2>1, <2>2
<1>. QED
  BY <1>2, <1>3, <1>4, <1>5

-----------------------------------------------------------------------------
(* The place of a scalar, counted in elements and without overflow *)

PlaneNumber(plane) == IF plane = "v" THEN 1 ELSE 0

\* Within its plane.
InPlane(s, slot, e) == (slot % s.blockSize) * ElementsPerToken(s) + e

\* Within its block.
InBlock(s, slot, e, plane) == PlaneNumber(plane) * PlaneElems(s) + InPlane(s, slot, e)

\* Within its layer.
InLayer(s, slot, e, plane) ==
  (slot \div s.blockSize) * (2 * PlaneElems(s)) + InBlock(s, slot, e, plane)

LEMMA InPlaneBounds ==
  ASSUME NEW s \in LayerSpecs, NEW slot \in Nat, NEW e \in Scalars(s)
  PROVE  InPlane(s, slot, e) \in 0 .. PlaneElems(s) - 1
<1>. DEFINE b == s.blockSize  t == ElementsPerToken(s)  k == slot % b
<1>1. b \in Nat \ {0} /\ t \in Nat \ {0}
  BY LayerFields, Positive
<1>2. k \in 0 .. b - 1
  BY <1>1, Division
<1>3. e \in 0 .. t - 1
  BY <1>1 DEF Scalars
<1>4. (k + 1) * t <= b * t
  BY <1>1, <1>2, TimesMonotone
<1>5. k * t \in Nat /\ b * t \in Nat /\ (k + 1) * t = k * t + t
  BY <1>1, <1>2
<1>. QED
  BY <1>1, <1>3, <1>4, <1>5 DEF InPlane, PlaneElems

LEMMA InBlockBounds ==
  ASSUME NEW s \in LayerSpecs, NEW slot \in Nat, NEW e \in Scalars(s), NEW plane \in Plane
  PROVE  InBlock(s, slot, e, plane) \in 0 .. 2 * PlaneElems(s) - 1
<1>1. PlaneElems(s) \in Nat \ {0}
  BY Positive
<1>2. PlaneNumber(plane) \in {0, 1}
  BY DEF PlaneNumber
<1>. QED
  BY <1>1, <1>2, InPlaneBounds DEF InBlock

LEMMA InLayerBounds ==
  ASSUME NEW s \in LayerSpecs, NEW numBlocks \in Nat, NEW slot \in Slots(s, numBlocks),
         NEW e \in Scalars(s), NEW plane \in Plane
  PROVE  InLayer(s, slot, e, plane) \in 0 .. numBlocks * (2 * PlaneElems(s)) - 1
<1>. DEFINE b == s.blockSize  n == 2 * PlaneElems(s)  q == slot \div b
<1>1. b \in Nat \ {0} /\ n \in Nat \ {0} /\ slot \in Nat /\ slot < numBlocks * b
  BY LayerFields, Positive DEF Slots
<1>2. q \in Nat /\ (slot % b) \in 0 .. b - 1 /\ slot = q * b + (slot % b)
  BY <1>1, Division
<1>3. q < numBlocks
  <2>. SUFFICES ASSUME numBlocks <= q PROVE FALSE
    BY <1>2
  <2>1. numBlocks * b <= q * b
    BY <1>1, <1>2, TimesMonotone
  <2>2. numBlocks * b \in Int /\ q * b \in Int
    BY <1>1, <1>2
  <2>. QED
    BY <1>1, <1>2, <2>1, <2>2
<1>. DEFINE r == InBlock(s, slot, e, plane)
<1>6. r \in 0 .. n - 1 /\ InLayer(s, slot, e, plane) = q * n + r
  BY <1>1, InBlockBounds DEF InLayer
<1>. HIDE DEF b, n, q, r
<1>4. (q + 1) * n <= numBlocks * n
  <2>1. q + 1 \in Int /\ q + 1 <= numBlocks
    BY <1>2, <1>3
  <2>. QED
    BY <1>1, <2>1, TimesMonotone
<1>5. q * n \in Nat /\ numBlocks * n \in Nat /\ (q + 1) * n = q * n + n
  BY <1>1, <1>2
<1>7. q * n + r \in 0 .. numBlocks * n - 1
  <2>. DEFINE u == q * n  w == numBlocks * n
  <2>1. u \in Nat /\ w \in Nat /\ n \in Nat /\ u + n <= w /\ r \in 0 .. n - 1
    BY <1>1, <1>4, <1>5, <1>6
  <2>2. SUFFICES u + r \in 0 .. w - 1
    OBVIOUS
  <2>. HIDE DEF u, w
  <2>. QED
    BY <2>1
<1>. QED
  BY <1>6, <1>7 DEF n

\* Two scalars in the same place are the same.
LEMMA InLayerOneToOne ==
  ASSUME NEW s \in LayerSpecs,
         NEW slot1 \in Nat, NEW e1 \in Scalars(s), NEW plane1 \in Plane,
         NEW slot2 \in Nat, NEW e2 \in Scalars(s), NEW plane2 \in Plane,
         InLayer(s, slot1, e1, plane1) = InLayer(s, slot2, e2, plane2)
  PROVE  slot1 = slot2 /\ e1 = e2 /\ plane1 = plane2
<1>. DEFINE b == s.blockSize  t == ElementsPerToken(s)  n == PlaneElems(s)
<1>1. b \in Nat \ {0} /\ t \in Nat \ {0} /\ n \in Nat \ {0} /\ 2 * n \in Nat \ {0}
  BY LayerFields, Positive
<1>2. /\ (slot1 \div b) \in Nat /\ (slot1 % b) \in 0 .. b - 1
      /\ slot1 = (slot1 \div b) * b + (slot1 % b)
      /\ (slot2 \div b) \in Nat /\ (slot2 % b) \in 0 .. b - 1
      /\ slot2 = (slot2 \div b) * b + (slot2 % b)
  BY <1>1, Division
<1>3. /\ (slot1 \div b) = (slot2 \div b)
      /\ InBlock(s, slot1, e1, plane1) = InBlock(s, slot2, e2, plane2)
  <2>1. /\ InBlock(s, slot1, e1, plane1) \in 0 .. 2 * n - 1
        /\ InBlock(s, slot2, e2, plane2) \in 0 .. 2 * n - 1
    BY InBlockBounds
  <2>2. (slot1 \div b) * (2 * n) + InBlock(s, slot1, e1, plane1)
          = (slot2 \div b) * (2 * n) + InBlock(s, slot2, e2, plane2)
    BY DEF InLayer
  <2>. DEFINE m == 2 * n  q1 == slot1 \div b  q2 == slot2 \div b
              r1 == InBlock(s, slot1, e1, plane1)  r2 == InBlock(s, slot2, e2, plane2)
  <2>3. /\ m \in Nat \ {0} /\ q1 \in Int /\ q2 \in Int
        /\ r1 \in 0 .. m - 1 /\ r2 \in 0 .. m - 1 /\ q1 * m + r1 = q2 * m + r2
    BY <1>1, <1>2, <2>1, <2>2
  <2>. HIDE DEF m, q1, q2, r1, r2
  <2>4. q1 = q2 /\ r1 = r2
    BY <2>3, OneQuotient
  <2>. QED
    BY <2>4 DEF q1, q2, r1, r2
<1>4. /\ PlaneNumber(plane1) = PlaneNumber(plane2)
      /\ InPlane(s, slot1, e1) = InPlane(s, slot2, e2)
  <2>1. PlaneNumber(plane1) \in Int /\ PlaneNumber(plane2) \in Int
    BY DEF PlaneNumber
  <2>2. InPlane(s, slot1, e1) \in 0 .. n - 1 /\ InPlane(s, slot2, e2) \in 0 .. n - 1
    BY InPlaneBounds
  <2>. QED
    BY <1>1, <1>3, <2>1, <2>2, OneQuotient DEF InBlock
<1>5. plane1 = plane2
  BY <1>4 DEF PlaneNumber, Plane
<1>6. (slot1 % b) = (slot2 % b) /\ e1 = e2
  <2>1. e1 \in 0 .. t - 1 /\ e2 \in 0 .. t - 1
    BY <1>1 DEF Scalars
  <2>. DEFINE k1 == slot1 % b  k2 == slot2 % b
  <2>2. k1 \in Int /\ k2 \in Int /\ k1 * t + e1 = k2 * t + e2
    BY <1>2, <1>4 DEF InPlane
  <2>. HIDE DEF k1, k2, t
  <2>3. k1 = k2 /\ e1 = e2
    BY <1>1, <2>1, <2>2, OneQuotient
  <2>. QED
    BY <2>3 DEF k1, k2
<1>. QED
  BY <1>2, <1>3, <1>5, <1>6

-----------------------------------------------------------------------------
(* The write shader *)

\* In a cache that fits the shaders' integers nothing wraps.
LEMMA StoreIndexIs ==
  ASSUME NEW s \in LayerSpecs, NEW base \in Nat, NEW numBlocks \in Nat,
         Addressable(s, base, numBlocks),
         NEW slot \in Slots(s, numBlocks), NEW e \in Scalars(s), NEW plane \in Plane
  PROVE  /\ (base \div s.dtypeSize) \in Nat
         /\ base = (base \div s.dtypeSize) * s.dtypeSize
         /\ StoreIndex(PushConstants(s, base), slot, e, plane)
              = (base \div s.dtypeSize) + InLayer(s, slot, e, plane)
<1>. DEFINE b == s.blockSize  t == ElementsPerToken(s)  n == PlaneElems(s)
            d == s.dtypeSize  first == base \div d  q == slot \div b
            pc == PushConstants(s, base)
<1>1. /\ b \in Nat \ {0} /\ t \in Nat \ {0} /\ n \in Nat \ {0} /\ d \in Nat \ {0}
      /\ slot \in Nat /\ e \in Nat
  BY LayerFields, Positive DEF Slots, Scalars
<1>2. first \in Nat /\ base = first * d
  <2>1. /\ first \in Nat /\ base = first * d + (base % d)
    BY <1>1, Division
  <2>2. base % d = 0
    BY DEF Addressable
  <2>3. first * d \in Int
    BY <1>1, <2>1
  <2>. QED
    BY <2>1, <2>2, <2>3
<1>3. /\ pc.elementsPerToken = t /\ pc.blockSize = b /\ pc.layerBase = first
      /\ pc.plane = n /\ pc.block = 2 * n
  BY BytesAndElements DEF PushConstants
<1>4. q \in Nat /\ (slot % b) \in 0 .. b - 1 /\ slot - q * b = slot % b
  <2>1. q \in Nat /\ (slot % b) \in 0 .. b - 1 /\ slot = q * b + (slot % b)
    BY <1>1, Division
  <2>2. q * b \in Int
    BY <1>1, <2>1
  <2>. QED
    BY <2>1, <2>2
<1>5. PlaneElements(pc, plane) = PlaneNumber(plane) * n
  BY <1>1, <1>3 DEF PlaneElements, PlaneNumber
<1>. DEFINE sum == first + q * pc.block + (slot - q * b) * t + e + PlaneElements(pc, plane)
<1>6. StoreIndex(pc, slot, e, plane) = sum % Word
  BY <1>3 DEF StoreIndex
<1>7. sum = first + InLayer(s, slot, e, plane)
  <2>1. q * (2 * n) \in Int /\ (slot % b) * t \in Int /\ PlaneNumber(plane) * n \in Int
    BY <1>1, <1>4 DEF PlaneNumber
  <2>2. sum = first + q * (2 * n) + (slot % b) * t + e + PlaneNumber(plane) * n
    BY <1>3, <1>4, <1>5
  <2>. QED
    BY <1>1, <1>2, <2>1, <2>2 DEF InLayer, InBlock, InPlane
<1>8. sum \in 0 .. Word - 1
  <2>. DEFINE size == numBlocks * (2 * n)
  <2>1. InLayer(s, slot, e, plane) \in 0 .. size - 1
    BY InLayerBounds
  <2>2. size \in Nat
    BY <1>1
  <2>3. first + size <= Word
    <3>1. base + numBlocks * ((2 * n) * d) <= Word * d
      BY BytesAndElements DEF Addressable
    <3>2. numBlocks * ((2 * n) * d) = size * d
      BY <1>1
    <3>3. first * d + size * d = (first + size) * d
      BY <1>1, <1>2, <2>2
    <3>4. (first + size) * d <= Word * d
      BY <1>2, <3>1, <3>2, <3>3
    <3>5. SUFFICES ASSUME Word + 1 <= first + size PROVE FALSE
      BY <1>2, <2>2, WordAssumption
    <3>6. (Word + 1) * d <= (first + size) * d
      BY <1>1, <1>2, <2>2, <3>5, WordAssumption, TimesMonotone
    <3>7. /\ (Word + 1) * d = Word * d + d /\ Word * d \in Int
          /\ (first + size) * d \in Int
      BY <1>1, <1>2, <2>2, WordAssumption
    <3>. QED
      BY <1>1, <3>4, <3>6, <3>7
  <2>. QED
    BY <1>2, <1>7, <2>1, <2>2, <2>3, WordAssumption
<1>9. sum % Word = sum
  <2>1. ((0 * Word + sum) % Word) = sum
    BY <1>8, WordAssumption, DivideSum
  <2>2. 0 * Word + sum = sum
    BY <1>8, WordAssumption
  <2>. QED
    BY <2>1, <2>2
<1>. QED
  BY <1>2, <1>6, <1>7, <1>9

\* The write shader stores where the layout says: token_offset and slot_offset of
\* kv_layout.py give, in bytes, the element that paged_kv_write_*.comp addresses.
THEOREM StoreMatchesLayout ==
  ASSUME NEW s \in LayerSpecs, NEW base \in Nat, NEW numBlocks \in Nat,
         Addressable(s, base, numBlocks),
         NEW slot \in Slots(s, numBlocks), NEW e \in Scalars(s), NEW plane \in Plane
  PROVE  StoreIndex(PushConstants(s, base), slot, e, plane) * s.dtypeSize
           = SlotOffset(s, base, slot, e, plane)
<1>. DEFINE b == s.blockSize  t == ElementsPerToken(s)  n == PlaneElems(s)
            d == s.dtypeSize  first == base \div d  q == slot \div b  k == slot % b
            x == PlaneNumber(plane)
<1>1. /\ b \in Nat \ {0} /\ t \in Nat \ {0} /\ n \in Nat \ {0} /\ d \in Nat \ {0}
      /\ slot \in Nat /\ e \in Nat /\ x \in {0, 1}
  BY LayerFields, Positive DEF Slots, Scalars, PlaneNumber
<1>2. q \in Nat /\ k \in Nat
  <2>1. q \in Nat /\ k \in 0 .. b - 1
    BY <1>1, Division
  <2>. HIDE DEF b, q, k
  <2>. QED
    BY <1>1, <2>1
<1>3. /\ first \in Nat /\ base = first * d
      /\ StoreIndex(PushConstants(s, base), slot, e, plane)
           = first + (q * (2 * n) + (x * n + (k * t + e)))
  BY StoreIndexIs DEF InLayer, InBlock, InPlane
<1>4. SlotOffset(s, base, slot, e, plane)
        = base + q * ((2 * n) * d) + x * (n * d) + (k * t + e) * d
  <2>1. /\ BytesPerBlock(s) = (2 * n) * d
        /\ PlaneBytesPerBlock(s) = n * d
    BY BytesAndElements
  <2>2. (IF plane = "v" THEN PlaneBytesPerBlock(s) ELSE 0) = x * (n * d)
    BY <1>1, <2>1 DEF PlaneNumber
  <2>. QED
    BY <2>1, <2>2 DEF SlotOffset, TokenOffset, PlaneBase
<1>5. (first + (q * (2 * n) + (x * n + (k * t + e)))) * d
        = first * d + q * ((2 * n) * d) + x * (n * d) + (k * t + e) * d
  BY <1>1, <1>2, <1>3
<1>. QED
  BY <1>3, <1>4, <1>5

\* No two scalars of a layer share an element of the cache: neither two tokens,
\* heads or elements, nor a key and a value, whatever the sizes.
THEOREM ScalarsApart ==
  ASSUME NEW s \in LayerSpecs, NEW base \in Nat, NEW numBlocks \in Nat,
         Addressable(s, base, numBlocks),
         NEW slot1 \in Slots(s, numBlocks), NEW e1 \in Scalars(s), NEW plane1 \in Plane,
         NEW slot2 \in Slots(s, numBlocks), NEW e2 \in Scalars(s), NEW plane2 \in Plane,
         StoreIndex(PushConstants(s, base), slot1, e1, plane1)
           = StoreIndex(PushConstants(s, base), slot2, e2, plane2)
  PROVE  slot1 = slot2 /\ e1 = e2 /\ plane1 = plane2
<1>1. slot1 \in Nat /\ slot2 \in Nat
  BY DEF Slots
<1>2. /\ InLayer(s, slot1, e1, plane1) \in Int
      /\ InLayer(s, slot2, e2, plane2) \in Int
  BY InLayerBounds
<1>3. InLayer(s, slot1, e1, plane1) = InLayer(s, slot2, e2, plane2)
  BY <1>2, StoreIndexIs
<1>. QED
  BY <1>1, <1>3, InLayerOneToOne

\* The decode shaders read a token where the write shader stored it, when the
\* slot is the one its block table gives.
THEOREM ScanFindsStore ==
  ASSUME NEW s \in LayerSpecs, NEW base \in Nat, NEW table, NEW i \in Nat,
         table[i \div s.blockSize] \in Nat, NEW e, NEW plane
  PROVE  ScanIndex(PushConstants(s, base), table, i, e, plane)
           = StoreIndex(PushConstants(s, base), SlotFor(s, table, i), e, plane)
<1>. DEFINE b == s.blockSize  q == i \div b  k == i % b  slot == SlotFor(s, table, i)
            pc == PushConstants(s, base)
<1>1. b \in Nat \ {0}
  BY LayerFields
<1>2. q \in Nat /\ k \in 0 .. b - 1 /\ i - q * b = k
  <2>1. q \in Nat /\ k \in 0 .. b - 1 /\ i = q * b + k
    BY <1>1, Division
  <2>2. q * b \in Int
    BY <1>1, <2>1
  <2>. QED
    BY <2>1, <2>2
<1>3. slot = table[q] * b + k
  BY DEF SlotFor
<1>4. (slot \div b) = table[q]
  BY <1>1, <1>2, <1>3, DivideSum
<1>5. slot - (slot \div b) * b = k
  <2>1. table[q] * b \in Int
    BY <1>1
  <2>. QED
    BY <1>2, <1>3, <1>4, <2>1
<1>6. pc.blockSize = b
  BY DEF PushConstants
<1>7. ScanIndex(pc, table, i, e, plane)
        = (pc.layerBase + table[q] * pc.block + k * pc.elementsPerToken + e
             + PlaneElements(pc, plane)) % Word
  BY <1>2, <1>6 DEF ScanIndex
<1>8. StoreIndex(pc, slot, e, plane)
        = (pc.layerBase + table[q] * pc.block + k * pc.elementsPerToken + e
             + PlaneElements(pc, plane)) % Word
  BY <1>4, <1>5, <1>6 DEF StoreIndex
<1>. QED
  BY <1>7, <1>8

=============================================================================
