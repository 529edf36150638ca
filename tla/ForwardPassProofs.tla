-------------------------- MODULE ForwardPassProofs --------------------------
(***************************************************************************)
(* Proofs about ForwardPass, for every configuration of the model, every   *)
(* set of uploads that may fail, and any number of tokens.                 *)
(***************************************************************************)
EXTENDS ForwardPass, SequenceTheorems, WellFoundedInduction,
  NaturalsInduction, TLAPS

-----------------------------------------------------------------------------
(* Submissions *)

\* No dispatch is recorded twice, no slot written twice, and what a dispatch reads
\* is not written by itself, beside it or after it.
Ordered(c) ==
  \A i, j \in DOMAIN c : \A d \in c[i], e \in c[j] :
    /\ d.to = e.to => d = e /\ i = j
    /\ i <= j => \A x \in DOMAIN d.in : d.in[x][1] # e.to

\* A table says what the slots of a submission hold once they are written; dispatch
\* d computes its slot of the table from the others.
Computes(table, d) ==
  /\ d.to \in DOMAIN table
  /\ \A x \in DOMAIN d.in : /\ d.in[x][1] \in DOMAIN table
                            /\ table[d.in[x][1]][2] = d.in[x][2]
  /\ table[d.to] =
       <<<<d.op, d.w>> \o [x \in DOMAIN d.in |-> table[d.in[x][1]][1]], d.n>>

\* No operand of dispatch d, and not its result, is longer than its slot.
Fits(d) ==
  /\ d.n <= SlotSize(d.to)
  /\ \A x \in DOMAIN d.in : d.in[x][2] <= SlotSize(d.in[x][1])

\* What init_act_bufs() writes and no dispatch does.
Scalars == {"INV_CAP", "CAP"}

\* A dispatch as every submission has them.
Good(table, d) == Computes(table, d) /\ Fits(d) /\ d.to \in Slots \ Scalars

AllGood(table, c) == \A i \in DOMAIN c : \A d \in c[i] : Good(table, d)

\* A submission whose dispatches compute its table, in an order that allows it.
Sound(c, table) == Ordered(c) /\ AllGood(table, c) /\ DOMAIN table \subseteq Slots

\* Slot s has still to be written.
Awaited(c, s) == \E i \in DOMAIN c : \E d \in c[i] : d.to = s

\* Every other slot of the table has been.
Holds(c, bufs, table) == \A s \in DOMAIN table : Awaited(c, s) \/ bufs[s] = table[s]

\* Of segments of whatever type.
IsSequence(c) == \E S : c \in Seq(S)

\* A submission that writes every slot of its table but the inputs.
Program(c, table, inputs) ==
  /\ IsSequence(c)
  /\ Sound(c, table)
  /\ \A s \in DOMAIN table \ inputs : Awaited(c, s)

\* The submission that is under way computes this table.
Running(table) == Sound(cmd, table) /\ Holds(cmd, act, table)

-----------------------------------------------------------------------------
(* The tables *)

\* Submit 1 of layer l with input x, with three matrices and with one.
SplitQkvTable(l, x) ==
  LET n == Norm(W(l, "input_layernorm"), x)
  IN  [RAW_HIDDEN |-> <<x, H>>,
       QKV_IN |-> <<n, H>>,
       Q_OUT |-> <<Matvec(W(l, "q_proj"), n), QDim(l)>>,
       K_OUT |-> <<Matvec(W(l, "k_proj"), n), KvDim(l)>>,
       V_OUT |-> <<Matvec(W(l, "v_proj"), n), KvDim(l)>>]

FusedQkvTable(l, x) ==
  LET n == Norm(W(l, "input_layernorm"), x)
  IN  [RAW_HIDDEN |-> <<x, H>>,
       QKV_IN |-> <<n, H>>,
       QKV_OUT |-> <<Matvec(W(l, "qkv_proj"), n), QDim(l) + 2 * KvDim(l)>>]

\* The submission of o_proj, on what attention returned.
OProjTable(l, at) ==
  [O_IN |-> <<at, QDim(l)>>,
   O_OUT |-> <<Matvec(W(l, "o_proj"), at), H>>]

\* The submission of the FFN, on the first residual.
FfnTable(l, r) ==
  LET x == FfIn(l, r)
      gate == Matvec(W(l, "gate_proj"), x)
      up == Matvec(W(l, "up_proj"), x)
      n == FfnInter(l)
  IN  [FFIN |-> <<x, H>>,
       GATE |-> <<gate, n>>,
       UP |-> <<up, n>>,
       GELU |-> <<Gelu(gate), n>>,
       MID |-> <<Mul(Gelu(gate), up), n>>,
       DOWN |-> <<CpuFfn(l, r), H>>]

\* The submission of the per-layer embedding, on the second residual.
PleTable(l, r, ple) ==
  LET gate == Matvec(W(l, "per_layer_input_gate"), r)
      n == Config.ple_dim
  IN  [FFIN |-> <<r, H>>,
       PLE_LAYER |-> <<ple, n>>,
       PLE_G |-> <<gate, n>>,
       PLE_GELU |-> <<Gelu(gate), n>>,
       PLE_MID |-> <<Mul(Gelu(gate), ple), n>>,
       PLE_C |-> <<CpuPle(l, r, ple), H>>]

\* fused_post_attention(), on the input of the layer and what attention returned.
FusedTable(l, hid, at, ple) ==
  LET o == Matvec(W(l, "o_proj"), at)
      r2 == Residual2(l, hid, o)
      x == FfIn(l, r2)
      gate == Matvec(W(l, "gate_proj"), x)
      up == Matvec(W(l, "up_proj"), x)
      n == FfnInter(l)
      down == CpuFfn(l, r2)
      r3 == Residual3(l, r2, down)
      pgate == Matvec(W(l, "per_layer_input_gate"), r3)
      p == Config.ple_dim
      c == CpuPle(l, r3, ple)
      cn == Norm(W(l, "post_per_layer_input_norm"), c)
  IN  [O_IN |-> <<at, QDim(l)>>,
       RESIDUAL |-> <<hid, H>>,
       PLE_LAYER |-> <<ple, p>>,
       O_OUT |-> <<o, H>>,
       PA_NORMED |-> <<Norm(W(l, "post_attention_layernorm"), o), H>>,
       HIDDEN2 |-> <<r2, H>>,
       FFIN |-> <<x, H>>,
       GATE |-> <<gate, n>>,
       UP |-> <<up, n>>,
       GELU |-> <<Gelu(gate), n>>,
       MID |-> <<Mul(Gelu(gate), up), n>>,
       DOWN |-> <<down, H>>,
       FF_NORMED |-> <<Norm(W(l, "post_feedforward_layernorm"), down), H>>,
       HIDDEN3A |-> <<r3, H>>,
       PLE_G |-> <<pgate, p>>,
       PLE_GELU |-> <<Gelu(pgate), p>>,
       PLE_MID |-> <<Mul(Gelu(pgate), ple), p>>,
       PLE_C |-> <<c, H>>,
       CONTRIB_NORMED |-> <<cn, H>>,
       HIDDEN3B |-> <<Add(r3, cn), H>>,
       HIDDEN3_FINAL |-> <<LayerOut(l, r3, c), H>>]

\* The LM head.
HeadTable(hid) ==
  LET x == Norm(W(L, "norm"), hid)
      raw == Matvec(W(L, "embed_tokens"), x)
      n == Config.vocab_size
  IN  [RAW_HIDDEN |-> <<hid, H>>,
       INV_CAP |-> <<InvCap, 1>>,
       CAP |-> <<Cap, 1>>,
       QKV_IN |-> <<x, H>>,
       LOGIT_RAW |-> <<raw, n>>,
       LOGIT_SCALED |-> <<Mul(raw, InvCap), n>>,
       LOGIT_TANH |-> <<Tanh(Mul(raw, InvCap)), n>>,
       LOGIT_FINAL |-> <<RefLogits(hid), n>>]

-----------------------------------------------------------------------------
(* The invariant *)

\* What the reference computes in layer l for token t.
RefAttn(l, t) ==
  Sdpa(l, Query(l, CpuQkv(l, "q_proj", Leaf("hidden", t, l))), RefRows(CacheOf(l), t))

RefResidual2(l, t) ==
  Residual2(l, Leaf("hidden", t, l), Matvec(W(l, "o_proj"), RefAttn(l, t)))

RefResidual3(l, t) ==
  Residual3(l, RefResidual2(l, t), CpuFfn(l, RefResidual2(l, t)))

\* Of the submission this layer makes first.
QkvTable ==
  IF HasFusedQkv(layer) THEN FusedQkvTable(layer, hidden) ELSE SplitQkvTable(layer, hidden)

\* The caches of the layers below n have this token's row.
RowsBelow(n) ==
  \A l \in 0..L - 1 :
    kv[l] = IF IsShared(l) THEN <<>>
            ELSE RefRows(l, IF l < n THEN token ELSE token - 1)

\* In a layer, with the input the reference has there.
AtLayer(n) ==
  /\ layer \in 0..L - 1
  /\ token \in Nat \ {0}
  /\ hidden = Leaf("hidden", token, layer)
  /\ RowsBelow(n)

\* The product value is there, or will be when the submission has run.
Delivered(value, slot, table) ==
  \/ cmd = <<>> /\ out = Owned(value)
  \/ gpu /\ Running(table) /\ out = Borrowed(slot)

\* All buffers are there, with the two scalars that nothing writes again.
Allocated(bufs) ==
  DOMAIN bufs = Slots /\ bufs["INV_CAP"] = <<InvCap, 1>> /\ bufs["CAP"] = <<Cap, 1>>

\* A layer on the GPU, or a submission, has its buffers.
Buffers ==
  /\ gpu \/ cmd # <<>> => act # NoBufs
  /\ act # NoBufs => Allocated(act)

\* What is known at each stage of the thread.
LoadingStage == cmd = <<>> /\ token = 0 /\ RowsBelow(L)

IdleStage ==
  /\ cmd = <<>>
  /\ RowsBelow(L)
  /\ token > 0 => logits = RefLogits(Leaf("hidden", token, L))

QkvStage == cmd = <<>> /\ AtLayer(layer)

AttendStage == AtLayer(layer) /\ IF gpu THEN Running(QkvTable) ELSE cmd = <<>>

FusedStage ==
  /\ AtLayer(layer + 1)
  /\ Running(FusedTable(layer, hidden, RefAttn(layer, token), Leaf("ple", token, layer)))

FfnStage ==
  /\ AtLayer(layer + 1)
  /\ Delivered(Matvec(W(layer, "o_proj"), RefAttn(layer, token)), "O_OUT",
               OProjTable(layer, RefAttn(layer, token)))

PleStage ==
  /\ AtLayer(layer + 1)
  /\ residual = RefResidual2(layer, token)
  /\ Delivered(CpuFfn(layer, residual), "DOWN", FfnTable(layer, residual))

LastStage ==
  /\ AtLayer(layer + 1)
  /\ residual = RefResidual3(layer, token)
  /\ Delivered(CpuPle(layer, residual, Leaf("ple", token, layer)), "PLE_C",
               PleTable(layer, residual, Leaf("ple", token, layer)))

\* After the last layer.
AtHead ==
  /\ layer = L
  /\ token \in Nat \ {0}
  /\ hidden = Leaf("hidden", token, L)
  /\ RowsBelow(L)

HeadStage == cmd = <<>> /\ AtHead

LogitsStage == AtHead /\ Running(HeadTable(hidden))

\* The part of the invariant that depends on the stage.
Stage ==
  /\ pc = "loading" => LoadingStage
  /\ pc = "idle" => IdleStage
  /\ pc = "qkv" => QkvStage
  /\ pc = "attend" => AttendStage
  /\ pc = "fused" => FusedStage
  /\ pc = "ffn" => FfnStage
  /\ pc = "ple" => PleStage
  /\ pc = "last" => LastStage
  /\ pc = "head" => HeadStage
  /\ pc = "logits" => LogitsStage
  /\ pc = "panicked" => cmd = <<>>

\* The inductive invariant.
IndInv == TypeOK /\ Buffers /\ IsSequence(cmd) /\ Stage

-----------------------------------------------------------------------------
(* Sizes *)

\* The sizes are natural numbers, and some layer has a cache of its own.
LEMMA Sizes ==
  /\ L \in Nat /\ H \in Nat /\ FirstShared \in Nat \ {0} /\ FirstShared <= L
  /\ Config.ple_dim \in Nat /\ Config.vocab_size \in Nat
  /\ Config.full_every \in Nat \ {0}
  BY ConfigAssumption DEF L, H, FirstShared

\* Products of natural numbers.
LEMMA ProductMono ==
  ASSUME NEW a \in Nat, NEW b \in Nat, NEW c \in Nat, b <= c
  PROVE  a * b \in Nat /\ a * c \in Nat /\ a * b <= a * c
  OBVIOUS

LEMMA ProductPositive ==
  ASSUME NEW a \in Nat \ {0}, NEW b \in Nat \ {0}
  PROVE  a * b \in Nat \ {0}
  OBVIOUS

\* No layer is larger than the buffers of its kind.
LEMMA LayerSizes ==
  ASSUME NEW l \in Nat
  PROVE  /\ QDim(l) \in Nat /\ QDim(l) <= QSize /\ QSize \in Nat
         /\ KvDim(l) \in Nat \ {0} /\ KvDim(l) <= KvSize /\ KvSize \in Nat
         /\ FfnInter(l) \in Nat /\ FfnInter(l) <= FfnSize /\ FfnSize \in Nat
<1>1. HeadDim(l) \in Nat \ {0} /\ HeadDim(l) <= Config.global_head_dim
  BY ConfigAssumption DEF HeadDim
<1>2. /\ Config.num_attention_heads \in Nat /\ Config.num_key_value_heads \in Nat \ {0}
      /\ Config.global_head_dim \in Nat /\ Config.intermediate_size \in Nat
  BY ConfigAssumption
<1>3. QDim(l) \in Nat /\ QDim(l) <= QSize /\ QSize \in Nat
  BY <1>1, <1>2, ProductMono DEF QDim, QSize
<1>4. KvDim(l) \in Nat /\ KvDim(l) <= KvSize /\ KvSize \in Nat
  BY <1>1, <1>2, ProductMono DEF KvDim, KvSize
<1>5. KvDim(l) # 0
  BY <1>1, <1>2, ProductPositive DEF KvDim
<1> QED
  BY <1>2, <1>3, <1>4, <1>5 DEF FfnInter, FfnSize

\* Every slot has the size of its kind.
LEMMA SizeOfKind ==
  ASSUME NEW k \in DOMAIN Size, NEW s \in SlotsOfSize[k]
  PROVE  s \in Slots /\ SlotSize(s) = Size[k]
<1>1. DOMAIN Size = {"h", "q", "kv", "qkv", "ffn", "ple", "vocab", "one"}
      /\ DOMAIN SlotsOfSize = DOMAIN Size
  BY DEF Size, SlotsOfSize
<1>2. \A k1, k2 \in DOMAIN Size :
        \A z : z \in SlotsOfSize[k1] /\ z \in SlotsOfSize[k2] => k1 = k2
  BY <1>1 DEF SlotsOfSize
<1>3. SlotSize(s) = Size[k]
  BY <1>2 DEF SlotSize
<1>4. s \in Slots
  BY <1>1 DEF Slots
<1> QED
  BY <1>3, <1>4

\* The slots of the size of a hidden vector.
HiddenSlots ==
  {"QKV_IN", "O_OUT", "FFIN", "DOWN", "PLE_C", "RESIDUAL", "PA_NORMED", "HIDDEN2",
   "FF_NORMED", "HIDDEN3A", "CONTRIB_NORMED", "HIDDEN3B", "HIDDEN3_FINAL", "RAW_HIDDEN"}

\* The size of each slot.
LEMMA SlotSizes ==
  /\ \A s \in HiddenSlots : s \in Slots /\ SlotSize(s) = H
  /\ \A s \in {"Q_OUT", "O_IN"} : s \in Slots /\ SlotSize(s) = QSize
  /\ \A s \in {"K_OUT", "V_OUT"} : s \in Slots /\ SlotSize(s) = KvSize
  /\ "QKV_OUT" \in Slots /\ SlotSize("QKV_OUT") = QSize + 2 * KvSize
  /\ \A s \in {"GATE", "UP", "MID", "GELU"} : s \in Slots /\ SlotSize(s) = FfnSize
  /\ \A s \in {"PLE_G", "PLE_LAYER", "PLE_GELU", "PLE_MID"} :
       s \in Slots /\ SlotSize(s) = Config.ple_dim
  /\ \A s \in {"LOGIT_RAW", "LOGIT_SCALED", "LOGIT_TANH", "LOGIT_FINAL"} :
       s \in Slots /\ SlotSize(s) = Config.vocab_size
  /\ \A s \in Scalars : s \in Slots /\ SlotSize(s) = 1
<1>1. DOMAIN Size = {"h", "q", "kv", "qkv", "ffn", "ple", "vocab", "one"}
  BY DEF Size
<1>2. /\ Size.h = H /\ Size.q = QSize /\ Size.kv = KvSize /\ Size.qkv = QSize + 2 * KvSize
      /\ Size.ffn = FfnSize /\ Size.ple = Config.ple_dim /\ Size.vocab = Config.vocab_size
      /\ Size.one = 1
  BY DEF Size
<1>3. /\ SlotsOfSize.h = HiddenSlots /\ SlotsOfSize.q = {"Q_OUT", "O_IN"}
      /\ SlotsOfSize.kv = {"K_OUT", "V_OUT"} /\ SlotsOfSize.qkv = {"QKV_OUT"}
      /\ SlotsOfSize.ffn = {"GATE", "UP", "MID", "GELU"}
      /\ SlotsOfSize.ple = {"PLE_G", "PLE_LAYER", "PLE_GELU", "PLE_MID"}
      /\ SlotsOfSize.vocab = {"LOGIT_RAW", "LOGIT_SCALED", "LOGIT_TANH", "LOGIT_FINAL"}
      /\ SlotsOfSize.one = Scalars
  BY DEF SlotsOfSize, HiddenSlots, Scalars
<1> QED
  BY <1>1, <1>2, <1>3, SizeOfKind

-----------------------------------------------------------------------------
(* The cache a layer attends to *)

\* The order of the natural numbers, written as the library has it.
LEMMA LessThanWellFounded ==
  IsWellFoundedOn({ss \in Nat \X Nat : ss[1] < ss[2]}, Nat)
<1>1. OpToRel(<, Nat) = {ss \in Nat \X Nat : ss[1] < ss[2]}
  BY Zenon DEF OpToRel
<1> QED
  BY <1>1, NatLessThanWellFounded, Zenon

\* A set of natural numbers below a bound has a largest one.
LEMMA HasMaximum ==
  ASSUME NEW n \in Nat, NEW S \in SUBSET (0..n), S # {}
  PROVE  \E i \in S : \A j \in S : j <= i
<1> DEFINE R == {ss \in Nat \X Nat : ss[1] < ss[2]}
           D == {n - i : i \in S}
<1>1. \A i \in S : i \in Nat /\ n - i \in Nat
  OBVIOUS
<1>2. D \subseteq Nat /\ D # {}
  BY <1>1
<1>3. PICK x \in D : \A y \in D : <<y, x>> \notin R
  <2> HIDE DEF D
  <2> QED
    BY <1>2, LessThanWellFounded, WFMin
<1>4. PICK i \in S : x = n - i
  OBVIOUS
<1>5. \A j \in S : ~(n - j < n - i)
  BY <1>1, <1>3, <1>4
<1> QED
  BY <1>1, <1>5

\* A layer that shares its cache shares that of an earlier layer that has its own.
LEMMA CacheOfOwner ==
  ASSUME NEW l \in 0..L - 1
  PROVE  /\ CacheOf(l) \in 0..L - 1 /\ ~IsShared(CacheOf(l))
         /\ ~IsShared(l) => CacheOf(l) = l
         /\ IsShared(l) => CacheOf(l) < l
<1>1. CASE ~IsShared(l)
  BY <1>1 DEF CacheOf
<1>2. CASE IsShared(l)
  <2> DEFINE like == {i \in 0..FirstShared - 1 : IsFull(i) = IsFull(l)}
  <2>1. CacheOf(l) \in 0..FirstShared - 1
    <3>1. CASE like = {}
      BY <1>2, <3>1, Sizes DEF CacheOf
    <3>2. CASE like # {}
      <4>1. FirstShared - 1 \in Nat /\ like \in SUBSET (0..FirstShared - 1)
        BY Sizes
      <4>2. \E i \in like : \A j \in like : j <= i
        <5> HIDE DEF like
        <5> QED
          BY <3>2, <4>1, HasMaximum
      <4>3. CacheOf(l) = CHOOSE i \in like : \A j \in like : j <= i
        BY <1>2, <3>2 DEF CacheOf
      <4> QED
        BY <4>2, <4>3
    <3> QED
      BY <3>1, <3>2
  <2> QED
    BY <1>2, <2>1, Sizes DEF IsShared
<1> QED
  BY <1>1, <1>2

\* The rows of t tokens are those of t - 1 and the last one's.
LEMMA RefRowsGrow ==
  ASSUME NEW l \in Nat, NEW t \in Nat \ {0}
  PROVE  RefRows(l, t) =
           Append(RefRows(l, t - 1),
                  Row(l, CpuQkv(l, "k_proj", Leaf("hidden", t, l)),
                         CpuQkv(l, "v_proj", Leaf("hidden", t, l))))
<1> DEFINE F(i) == Row(l, CpuQkv(l, "k_proj", Leaf("hidden", i, l)),
                          CpuQkv(l, "v_proj", Leaf("hidden", i, l)))
           old == [i \in 1..t - 1 |-> F(i)]
           new == [i \in 1..t |-> F(i)]
<1>1. RefRows(l, t) = new /\ RefRows(l, t - 1) = old
  BY DEF RefRows
<1>2. new = Append(old, F(t))
  <2> HIDE DEF F
  <2> QED
    OBVIOUS
<1> QED
  BY <1>1, <1>2

\* Before the first token there are no rows.
LEMMA RefRowsEmpty ==
  ASSUME NEW l \in Nat
  PROVE  RefRows(l, 0) = <<>>
  BY DEF RefRows

-----------------------------------------------------------------------------
(* The programs *)

\* The segment of its submission that writes a slot, counted from the first of the
\* fused submission for the slots of that one; 0 for what the thread writes.
Depth ==
  [RAW_HIDDEN |-> 0, O_IN |-> 0, RESIDUAL |-> 0, PLE_LAYER |-> 0, INV_CAP |-> 0, CAP |-> 0,
   QKV_IN |-> 1, Q_OUT |-> 2, K_OUT |-> 2, V_OUT |-> 2, QKV_OUT |-> 2,
   LOGIT_RAW |-> 2, LOGIT_SCALED |-> 3, LOGIT_TANH |-> 4, LOGIT_FINAL |-> 5,
   O_OUT |-> 1, PA_NORMED |-> 2, HIDDEN2 |-> 3, FFIN |-> 4, GATE |-> 5, UP |-> 5,
   GELU |-> 6, MID |-> 7, DOWN |-> 8, FF_NORMED |-> 9, HIDDEN3A |-> 10, PLE_G |-> 11,
   PLE_GELU |-> 12, PLE_MID |-> 13, PLE_C |-> 14, CONTRIB_NORMED |-> 15,
   HIDDEN3B |-> 16, HIDDEN3_FINAL |-> 17]

\* From segment k + 1 on, every dispatch writes a slot of its segment's depth and
\* reads less deep ones.
Deep(c, k) ==
  \A i \in DOMAIN c : \A d \in c[i] :
    /\ Depth[d.to] = i + k
    /\ \A x \in DOMAIN d.in : Depth[d.in[x][1]] \in 0..i + k - 1
    /\ \A e \in c[i] : e.to = d.to => e = d

\* A submission of n segments, or a part of the fused one from segment k + 1 on,
\* that writes the slots in to.
Part(table, c, k, n, to) ==
  /\ IsSequence(c) /\ Len(c) = n /\ Deep(c, k) /\ AllGood(table, c)
  /\ \A s \in to : Awaited(c, s)

\* A submission whose segments write ever deeper slots is in order.
LEMMA DeepIsOrdered ==
  ASSUME NEW c, NEW k \in Nat, IsSequence(c), Deep(c, k)
  PROVE  Ordered(c)
<1> SUFFICES ASSUME NEW i \in DOMAIN c, NEW j \in DOMAIN c, NEW d \in c[i], NEW e \in c[j]
             PROVE  /\ d.to = e.to => d = e /\ i = j
                    /\ i <= j => \A x \in DOMAIN d.in : d.in[x][1] # e.to
  BY DEF Ordered
<1>1. i \in Nat /\ j \in Nat
  BY DEF IsSequence
<1>2. Depth[d.to] = i + k /\ Depth[e.to] = j + k
  BY DEF Deep
<1>3. ASSUME d.to = e.to
      PROVE  d = e /\ i = j
  <2>1. i + k = j + k
    BY <1>2, <1>3
  <2>2. i = j
    BY <1>1, <2>1
  <2>3. e \in c[i]
    BY <2>2
  <2> QED
    BY <1>3, <2>2, <2>3 DEF Deep
<1>4. ASSUME i <= j, NEW x \in DOMAIN d.in, d.in[x][1] = e.to
      PROVE  FALSE
  BY <1>1, <1>2, <1>4 DEF Deep
<1> QED
  BY <1>3, <1>4

\* One submission after another.
LEMMA Composed ==
  ASSUME NEW table, NEW s, NEW t, NEW m \in Nat, NEW n \in Nat, NEW to1, NEW to2,
         Part(table, s, 0, m, to1), Part(table, t, m, n, to2)
  PROVE  Part(table, s \o t, 0, m + n, to1 \cup to2)
<1> USE DEF Part
<1>1. PICK S1 : s \in Seq(S1)
  BY DEF IsSequence
<1>2. PICK S2 : t \in Seq(S2)
  BY DEF IsSequence
<1> DEFINE S == S1 \cup S2
           c == s \o t
<1>3. s \in Seq(S) /\ t \in Seq(S)
  BY <1>1, <1>2
<1>4. n = Len(t) /\ DOMAIN s = 1..m /\ DOMAIN t = 1..Len(t)
  BY <1>3
<1>5. /\ c \in Seq(S) /\ Len(c) = m + Len(t)
      /\ \A i \in 1..m + Len(t) : c[i] = IF i <= m THEN s[i] ELSE t[i - m]
  <2> HIDE DEF S
  <2> QED
    BY <1>3, ConcatProperties
<1> HIDE DEF S, c
<1>6. DOMAIN c = 1..m + Len(t)
  BY <1>4, <1>5
<1>7. ASSUME NEW i \in DOMAIN c
      PROVE  \/ i \in DOMAIN s /\ c[i] = s[i]
             \/ i - m \in DOMAIN t /\ c[i] = t[i - m] /\ i \in Nat
  BY <1>4, <1>5, <1>6
<1>8. AllGood(table, c)
  BY <1>7 DEF AllGood
<1>9. Deep(c, 0)
  <2> SUFFICES ASSUME NEW i \in DOMAIN c, NEW d \in c[i]
               PROVE  /\ Depth[d.to] = i + 0
                      /\ \A x \in DOMAIN d.in : Depth[d.in[x][1]] \in 0..i + 0 - 1
                      /\ \A e \in c[i] : e.to = d.to => e = d
    BY DEF Deep
  <2>1. CASE i \in DOMAIN s /\ c[i] = s[i]
    BY <2>1 DEF Deep
  <2>2. CASE i - m \in DOMAIN t /\ c[i] = t[i - m] /\ i \in Nat
    <3>1. i - m + m = i + 0
      BY <2>2
    <3> QED
      BY <2>2, <3>1 DEF Deep
  <2> QED
    BY <1>7, <2>1, <2>2
<1>10. ASSUME NEW x \in to1 \cup to2
       PROVE  Awaited(c, x)
  <2>1. CASE Awaited(s, x)
    <3>1. PICK i \in DOMAIN s : \E d \in s[i] : d.to = x
      BY <2>1 DEF Awaited
    <3>2. i \in DOMAIN c /\ c[i] = s[i]
      BY <1>4, <1>5, <1>6
    <3> QED
      BY <3>1, <3>2 DEF Awaited
  <2>2. CASE Awaited(t, x)
    <3>1. PICK i \in DOMAIN t : \E d \in t[i] : d.to = x
      BY <2>2 DEF Awaited
    <3>2. i + m \in DOMAIN c /\ c[i + m] = t[i]
      BY <1>4, <1>5, <1>6
    <3> QED
      BY <3>1, <3>2 DEF Awaited
  <2> QED
    BY <2>1, <2>2
<1> QED
  BY <1>5, <1>8, <1>9, <1>10 DEF c, IsSequence

\* A sequence that begins with s and goes on with t.
LEMMA TermConcat ==
  ASSUME NEW S, NEW s \in Seq(S), NEW t \in Seq(S), NEW r \in Seq(S),
         Len(r) = Len(s) + Len(t),
         \A i \in 1..Len(s) : r[i] = s[i],
         \A i \in 1..Len(t) : r[Len(s) + i] = t[i]
  PROVE  s \o t = r
<1> DEFINE c == s \o t
<1>1. /\ c \in Seq(S) /\ Len(c) = Len(r)
      /\ \A i \in 1..Len(s) + Len(t) : c[i] = IF i <= Len(s) THEN s[i] ELSE t[i - Len(s)]
  BY ConcatProperties
<1>2. Len(s) \in Nat /\ Len(t) \in Nat /\ Len(r) \in Nat
  BY LenProperties
<1>3. \A i \in 1..Len(r) : c[i] = r[i]
  <2> TAKE i \in 1..Len(r)
  <2>1. CASE i <= Len(s)
    BY <1>1, <1>2, <2>1
  <2>2. CASE ~(i <= Len(s))
    <3>1. i - Len(s) \in 1..Len(t) /\ Len(s) + (i - Len(s)) = i
      BY <1>2, <2>2
    <3>2. r[Len(s) + (i - Len(s))] = t[i - Len(s)]
      BY <3>1
    <3> QED
      BY <1>1, <1>2, <2>2, <3>1, <3>2
  <2> QED
    BY <2>1, <2>2
<1>4. c = r
  <2> HIDE DEF c
  <2> QED
    BY <1>1, <1>3, SeqEqual
<1> QED
  BY <1>4

\* The term of a dispatch with one operand, and with two.
LEMMA TermOfOne ==
  ASSUME NEW a, NEW b, NEW x
  PROVE  <<a, b>> \o <<x>> = <<a, b, x>>
<1> DEFINE S == {a, b, x}
           s == <<a, b>>
           t == <<x>>
           r == <<a, b, x>>
<1>1. /\ s \in Seq(S) /\ t \in Seq(S) /\ r \in Seq(S)
      /\ Len(s) = 2 /\ Len(t) = 1 /\ Len(r) = 3
  OBVIOUS
<1>2. (\A i \in 1..2 : r[i] = s[i]) /\ (\A i \in 1..1 : r[2 + i] = t[i])
  OBVIOUS
<1> HIDE DEF S, s, t, r
<1>3. /\ Len(r) = Len(s) + Len(t) /\ \A i \in 1..Len(s) : r[i] = s[i]
      /\ \A i \in 1..Len(t) : r[Len(s) + i] = t[i]
  BY <1>1, <1>2
<1>4. s \o t = r
  BY <1>1, <1>3, TermConcat
<1> QED
  BY <1>4 DEF s, t, r

LEMMA TermOfTwo ==
  ASSUME NEW a, NEW b, NEW x, NEW y
  PROVE  <<a, b>> \o <<x, y>> = <<a, b, x, y>>
<1> DEFINE S == {a, b, x, y}
           s == <<a, b>>
           t == <<x, y>>
           r == <<a, b, x, y>>
<1>1. /\ s \in Seq(S) /\ t \in Seq(S) /\ r \in Seq(S)
      /\ Len(s) = 2 /\ Len(t) = 2 /\ Len(r) = 4
  OBVIOUS
<1>2. (\A i \in 1..2 : r[i] = s[i]) /\ (\A i \in 1..2 : r[2 + i] = t[i])
  OBVIOUS
<1> HIDE DEF S, s, t, r
<1>3. /\ Len(r) = Len(s) + Len(t) /\ \A i \in 1..Len(s) : r[i] = s[i]
      /\ \A i \in 1..Len(t) : r[Len(s) + i] = t[i]
  BY <1>1, <1>2
<1>4. s \o t = r
  BY <1>1, <1>3, TermConcat
<1> QED
  BY <1>4 DEF s, t, r

\* A dispatch of one and of two operands.
LEMMA ComputesOne ==
  ASSUME NEW table, NEW d, NEW from, NEW k, d.in = <<<<from, k>>>>,
         d.to \in DOMAIN table, from \in DOMAIN table, table[from][2] = k,
         table[d.to] = <<<<d.op, d.w, table[from][1]>>, d.n>>
  PROVE  Computes(table, d)
<1> DEFINE f == [x \in DOMAIN d.in |-> table[d.in[x][1]][1]]
<1>1. f = <<table[from][1]>>
  OBVIOUS
<1> HIDE DEF f
<1>2. <<d.op, d.w>> \o f = <<d.op, d.w, table[from][1]>>
  BY <1>1, TermOfOne
<1>3. table[d.to] = <<<<d.op, d.w>> \o f, d.n>>
  BY <1>2
<1> QED
  BY <1>3 DEF Computes, f

LEMMA ComputesTwo ==
  ASSUME NEW table, NEW d, NEW a, NEW k, NEW b, NEW m, d.in = <<<<a, k>>, <<b, m>>>>,
         d.to \in DOMAIN table, a \in DOMAIN table, b \in DOMAIN table,
         table[a][2] = k, table[b][2] = m,
         table[d.to] = <<<<d.op, d.w, table[a][1], table[b][1]>>, d.n>>
  PROVE  Computes(table, d)
<1> DEFINE f == [x \in DOMAIN d.in |-> table[d.in[x][1]][1]]
<1>1. f = <<table[a][1], table[b][1]>>
  OBVIOUS
<1> HIDE DEF f
<1>2. <<d.op, d.w>> \o f = <<d.op, d.w, table[a][1], table[b][1]>>
  BY <1>1, TermOfTwo
<1>3. table[d.to] = <<<<d.op, d.w>> \o f, d.n>>
  BY <1>2
<1> QED
  BY <1>3 DEF Computes, f

\* Each program computes the slots of every table that has the right values.
LEMMA OProjGood ==
  ASSUME NEW l \in Nat, NEW at, NEW T, {"O_IN", "O_OUT"} \subseteq DOMAIN T,
         T["O_IN"] = <<at, QDim(l)>>, T["O_OUT"] = <<Matvec(W(l, "o_proj"), at), H>>
  PROVE  Part(T, OProjProgram(l), 0, 1, {"O_OUT"})
<1> DEFINE d == Mv(TRUE, W(l, "o_proj"), "O_IN", QDim(l), "O_OUT", H)
<1>1. OProjProgram(l) = <<{d}>>
  BY DEF OProjProgram
<1>2. /\ d.op = "matvec" /\ d.w = W(l, "o_proj") /\ d.in = <<<<"O_IN", QDim(l)>>>>
      /\ d.to = "O_OUT" /\ d.n = H
  BY DEF Mv, W, IsMatvecWeight, Dispatch
<1> HIDE DEF d
<1>3. Computes(T, d)
  BY <1>2, ComputesOne DEF Matvec
<1>4. Fits(d) /\ d.to \in Slots \ Scalars
  BY <1>2, SlotSizes, LayerSizes, Sizes DEF Fits, HiddenSlots, Scalars
<1>5. AllGood(T, OProjProgram(l))
  BY <1>1, <1>3, <1>4 DEF AllGood, Good
<1>6. Deep(OProjProgram(l), 0)
  <2>1. Depth["O_IN"] = 0 /\ Depth["O_OUT"] = 1
    BY DEF Depth
  <2> QED
    BY <1>1, <1>2, <2>1 DEF Deep
<1>7. OProjProgram(l) \in Seq({{d}}) /\ Len(OProjProgram(l)) = 1
  BY <1>1
<1>8. \A s \in {"O_OUT"} : Awaited(OProjProgram(l), s)
  BY <1>1, <1>2 DEF Awaited
<1> QED
  BY <1>5, <1>6, <1>7, <1>8 DEF Part, IsSequence

\* The FFN, in both tiers that have it on the GPU.
LEMMA FfnGood ==
  ASSUME NEW l \in Nat, NEW x, NEW g, NEW u, NEW T,
         g = Matvec(W(l, "gate_proj"), x), u = Matvec(W(l, "up_proj"), x),
         {"FFIN", "GATE", "UP", "GELU", "MID", "DOWN"} \subseteq DOMAIN T,
         T["FFIN"] = <<x, H>>, T["GATE"] = <<g, FfnInter(l)>>, T["UP"] = <<u, FfnInter(l)>>,
         T["GELU"] = <<Gelu(g), FfnInter(l)>>, T["MID"] = <<Mul(Gelu(g), u), FfnInter(l)>>,
         T["DOWN"] = <<Matvec(W(l, "down_proj"), Mul(Gelu(g), u)), H>>
  PROVE  Part(T, FfnProgram(l), 4, 4, {"GATE", "UP", "GELU", "MID", "DOWN"})
<1> DEFINE n == FfnInter(l)
           gate == Mv(TRUE, W(l, "gate_proj"), "FFIN", H, "GATE", n)
           up == Mv(TRUE, W(l, "up_proj"), "FFIN", H, "UP", n)
           gelu == Unary("gelu", "GATE", "GELU", n)
           mid == Binary("mul", "GELU", "UP", "MID", n)
           down == Mv(TRUE, W(l, "down_proj"), "MID", n, "DOWN", H)
<1>1. FfnProgram(l) = <<{gate, up}, {gelu}, {mid}, {down}>>
  BY DEF FfnProgram
<1>2. /\ gate.op = "matvec" /\ gate.w = W(l, "gate_proj") /\ gate.in = <<<<"FFIN", H>>>>
      /\ gate.to = "GATE" /\ gate.n = n
      /\ up.op = "matvec" /\ up.w = W(l, "up_proj") /\ up.in = <<<<"FFIN", H>>>>
      /\ up.to = "UP" /\ up.n = n
      /\ down.op = "matvec" /\ down.w = W(l, "down_proj") /\ down.in = <<<<"MID", n>>>>
      /\ down.to = "DOWN" /\ down.n = H
  BY DEF Mv, W, IsMatvecWeight, Dispatch
<1>3. /\ gelu.op = "gelu" /\ gelu.w = None /\ gelu.in = <<<<"GATE", n>>>>
      /\ gelu.to = "GELU" /\ gelu.n = n
      /\ mid.op = "mul" /\ mid.w = None /\ mid.in = <<<<"GELU", n>>, <<"UP", n>>>>
      /\ mid.to = "MID" /\ mid.n = n
  BY DEF Unary, Binary, Dispatch
<1> HIDE DEF gate, up, gelu, mid, down
<1>4. Computes(T, gate) /\ Computes(T, up) /\ Computes(T, down)
  BY <1>2, ComputesOne DEF Matvec
<1>5. Computes(T, gelu)
  BY <1>3, ComputesOne DEF Gelu
<1>6. Computes(T, mid)
  BY <1>3, ComputesTwo DEF Mul
<1>7. \A d \in {gate, up, gelu, mid, down} : Fits(d) /\ d.to \in Slots \ Scalars
  BY <1>2, <1>3, SlotSizes, LayerSizes, Sizes DEF Fits, HiddenSlots, Scalars
<1>8. AllGood(T, FfnProgram(l))
  BY <1>1, <1>4, <1>5, <1>6, <1>7 DEF AllGood, Good
<1>9. Deep(FfnProgram(l), 4)
  <2>1. /\ Depth["FFIN"] = 4 /\ Depth["GATE"] = 5 /\ Depth["UP"] = 5 /\ Depth["GELU"] = 6
        /\ Depth["MID"] = 7 /\ Depth["DOWN"] = 8
    BY DEF Depth
  <2> QED
    BY <1>1, <1>2, <1>3, <2>1 DEF Deep
<1>10. FfnProgram(l) \in Seq({{gate, up}, {gelu}, {mid}, {down}}) /\ Len(FfnProgram(l)) = 4
  BY <1>1
<1>11. \A s \in {"GATE", "UP", "GELU", "MID", "DOWN"} : Awaited(FfnProgram(l), s)
  BY <1>1, <1>2, <1>3 DEF Awaited
<1> QED
  BY <1>8, <1>9, <1>10, <1>11 DEF Part, IsSequence

\* The per-layer embedding, in both tiers.
LEMMA PleGood ==
  ASSUME NEW l \in Nat, NEW r, NEW ple, NEW g, NEW from \in {"FFIN", "HIDDEN3A"}, NEW T,
         g = Matvec(W(l, "per_layer_input_gate"), r),
         {from, "PLE_LAYER", "PLE_G", "PLE_GELU", "PLE_MID", "PLE_C"} \subseteq DOMAIN T,
         T[from] = <<r, H>>, T["PLE_LAYER"] = <<ple, Config.ple_dim>>,
         T["PLE_G"] = <<g, Config.ple_dim>>, T["PLE_GELU"] = <<Gelu(g), Config.ple_dim>>,
         T["PLE_MID"] = <<Mul(Gelu(g), ple), Config.ple_dim>>,
         T["PLE_C"] = <<Matvec(W(l, "per_layer_projection"), Mul(Gelu(g), ple)), H>>
  PROVE  Part(T, PleProgram(l, from), 10, 4, {"PLE_G", "PLE_GELU", "PLE_MID", "PLE_C"})
<1> DEFINE n == Config.ple_dim
           gate == Mv(TRUE, W(l, "per_layer_input_gate"), from, H, "PLE_G", n)
           gelu == Unary("gelu", "PLE_G", "PLE_GELU", n)
           mid == Binary("mul", "PLE_GELU", "PLE_LAYER", "PLE_MID", n)
           proj == Mv(TRUE, W(l, "per_layer_projection"), "PLE_MID", n, "PLE_C", H)
<1>1. PleProgram(l, from) = <<{gate}, {gelu}, {mid}, {proj}>>
  BY DEF PleProgram
<1>2. /\ gate.op = "matvec" /\ gate.w = W(l, "per_layer_input_gate")
      /\ gate.in = <<<<from, H>>>> /\ gate.to = "PLE_G" /\ gate.n = n
      /\ proj.op = "matvec" /\ proj.w = W(l, "per_layer_projection")
      /\ proj.in = <<<<"PLE_MID", n>>>> /\ proj.to = "PLE_C" /\ proj.n = H
  BY DEF Mv, W, IsMatvecWeight, Dispatch
<1>3. /\ gelu.op = "gelu" /\ gelu.w = None /\ gelu.in = <<<<"PLE_G", n>>>>
      /\ gelu.to = "PLE_GELU" /\ gelu.n = n
      /\ mid.op = "mul" /\ mid.w = None /\ mid.in = <<<<"PLE_GELU", n>>, <<"PLE_LAYER", n>>>>
      /\ mid.to = "PLE_MID" /\ mid.n = n
  BY DEF Unary, Binary, Dispatch
<1> HIDE DEF gate, gelu, mid, proj
<1>4. Computes(T, gate) /\ Computes(T, proj)
  BY <1>2, ComputesOne DEF Matvec
<1>5. Computes(T, gelu)
  BY <1>3, ComputesOne DEF Gelu
<1>6. Computes(T, mid)
  BY <1>3, ComputesTwo DEF Mul
<1>7. \A d \in {gate, gelu, mid, proj} : Fits(d) /\ d.to \in Slots \ Scalars
  BY <1>2, <1>3, SlotSizes, Sizes DEF Fits, HiddenSlots, Scalars
<1>8. AllGood(T, PleProgram(l, from))
  BY <1>1, <1>4, <1>5, <1>6, <1>7 DEF AllGood, Good
<1>9. Deep(PleProgram(l, from), 10)
  <2>1. /\ Depth["FFIN"] = 4 /\ Depth["HIDDEN3A"] = 10 /\ Depth["PLE_LAYER"] = 0
        /\ Depth["PLE_G"] = 11 /\ Depth["PLE_GELU"] = 12 /\ Depth["PLE_MID"] = 13
        /\ Depth["PLE_C"] = 14
    BY DEF Depth
  <2> QED
    BY <1>1, <1>2, <1>3, <2>1 DEF Deep
<1>10. /\ PleProgram(l, from) \in Seq({{gate}, {gelu}, {mid}, {proj}})
       /\ Len(PleProgram(l, from)) = 4
  BY <1>1
<1>11. \A s \in {"PLE_G", "PLE_GELU", "PLE_MID", "PLE_C"} : Awaited(PleProgram(l, from), s)
  BY <1>1, <1>2, <1>3 DEF Awaited
<1> QED
  BY <1>8, <1>9, <1>10, <1>11 DEF Part, IsSequence

\* A norm or an addition of hidden vectors, the kinds of dispatch between those of
\* the fused submission.
LEMMA NormGood ==
  ASSUME NEW w, NEW from \in HiddenSlots, NEW to \in HiddenSlots, NEW x, NEW T,
         {from, to} \subseteq DOMAIN T, T[from] = <<x, H>>, T[to] = <<Norm(w, x), H>>
  PROVE  /\ Good(T, RmsNorm(w, from, to))
         /\ RmsNorm(w, from, to).to = to /\ RmsNorm(w, from, to).in = <<<<from, H>>>>
<1> DEFINE d == RmsNorm(w, from, to)
<1>1. /\ d.op = "norm" /\ d.w = w /\ d.in = <<<<from, H>>>> /\ d.to = to /\ d.n = H
  BY DEF RmsNorm, Dispatch
<1> HIDE DEF d
<1>2. Computes(T, d)
  BY <1>1, ComputesOne DEF Norm
<1>3. Fits(d) /\ d.to \in Slots \ Scalars
  BY <1>1, SlotSizes, Sizes DEF Fits, HiddenSlots, Scalars
<1> QED
  BY <1>1, <1>2, <1>3 DEF Good, d

LEMMA AddGood ==
  ASSUME NEW a \in HiddenSlots, NEW b \in HiddenSlots, NEW to \in HiddenSlots,
         NEW x, NEW y, NEW T, {a, b, to} \subseteq DOMAIN T,
         T[a] = <<x, H>>, T[b] = <<y, H>>, T[to] = <<Add(x, y), H>>
  PROVE  /\ Good(T, Binary("add", a, b, to, H))
         /\ Binary("add", a, b, to, H).to = to
         /\ Binary("add", a, b, to, H).in = <<<<a, H>>, <<b, H>>>>
<1> DEFINE d == Binary("add", a, b, to, H)
<1>1. /\ d.op = "add" /\ d.w = None /\ d.in = <<<<a, H>>, <<b, H>>>> /\ d.to = to /\ d.n = H
  BY DEF Binary, Dispatch
<1> HIDE DEF d
<1>2. Computes(T, d)
  BY <1>1, ComputesTwo DEF Add
<1>3. Fits(d) /\ d.to \in Slots \ Scalars
  BY <1>1, SlotSizes, Sizes DEF Fits, HiddenSlots, Scalars
<1> QED
  BY <1>1, <1>2, <1>3 DEF Good, d

\* Between o_proj and the FFN, between the FFN and the per-layer embedding, and at
\* the end of the fused submission.
ToFfn(l) ==
  <<{RmsNorm(W(l, "post_attention_layernorm"), "O_OUT", "PA_NORMED")},
    {Binary("add", "RESIDUAL", "PA_NORMED", "HIDDEN2", H)},
    {RmsNorm(W(l, "pre_feedforward_layernorm"), "HIDDEN2", "FFIN")}>>

ToPle(l) ==
  <<{RmsNorm(W(l, "post_feedforward_layernorm"), "DOWN", "FF_NORMED")},
    {Binary("add", "HIDDEN2", "FF_NORMED", "HIDDEN3A", H)}>>

ToFinal(l) ==
  <<{RmsNorm(W(l, "post_per_layer_input_norm"), "PLE_C", "CONTRIB_NORMED")},
    {Binary("add", "HIDDEN3A", "CONTRIB_NORMED", "HIDDEN3B", H)},
    {Dispatch("mul", W(l, "layer_scalar"), <<<<"HIDDEN3B", H>>>>, "HIDDEN3_FINAL", H)}>>

\* From o_proj to the FFN.
LEMMA ToFfnGood ==
  ASSUME NEW l \in Nat, NEW hid, NEW o, NEW T,
         {"O_OUT", "RESIDUAL", "PA_NORMED", "HIDDEN2", "FFIN"} \subseteq DOMAIN T,
         T["O_OUT"] = <<o, H>>, T["RESIDUAL"] = <<hid, H>>,
         T["PA_NORMED"] = <<Norm(W(l, "post_attention_layernorm"), o), H>>,
         T["HIDDEN2"] = <<Residual2(l, hid, o), H>>,
         T["FFIN"] = <<FfIn(l, Residual2(l, hid, o)), H>>
  PROVE  Part(T, ToFfn(l), 1, 3, {"PA_NORMED", "HIDDEN2", "FFIN"})
<1> DEFINE d1 == RmsNorm(W(l, "post_attention_layernorm"), "O_OUT", "PA_NORMED")
           d2 == Binary("add", "RESIDUAL", "PA_NORMED", "HIDDEN2", H)
           d3 == RmsNorm(W(l, "pre_feedforward_layernorm"), "HIDDEN2", "FFIN")
<1>1. ToFfn(l) = <<{d1}, {d2}, {d3}>>
  BY DEF ToFfn
<1>2. {"O_OUT", "RESIDUAL", "PA_NORMED", "HIDDEN2", "FFIN"} \subseteq HiddenSlots
  BY DEF HiddenSlots
<1>3. Good(T, d1) /\ d1.to = "PA_NORMED" /\ d1.in = <<<<"O_OUT", H>>>>
  BY <1>2, NormGood
<1>4. Good(T, d2) /\ d2.to = "HIDDEN2" /\ d2.in = <<<<"RESIDUAL", H>>, <<"PA_NORMED", H>>>>
  BY <1>2, AddGood DEF Residual2
<1>5. Good(T, d3) /\ d3.to = "FFIN" /\ d3.in = <<<<"HIDDEN2", H>>>>
  BY <1>2, NormGood DEF FfIn
<1> HIDE DEF d1, d2, d3
<1>6. AllGood(T, ToFfn(l))
  BY <1>1, <1>3, <1>4, <1>5 DEF AllGood
<1>7. Deep(ToFfn(l), 1)
  <2>1. /\ Depth["O_OUT"] = 1 /\ Depth["RESIDUAL"] = 0 /\ Depth["PA_NORMED"] = 2
        /\ Depth["HIDDEN2"] = 3 /\ Depth["FFIN"] = 4
    BY DEF Depth
  <2> QED
    BY <1>1, <1>3, <1>4, <1>5, <2>1 DEF Deep
<1>8. ToFfn(l) \in Seq({{d1}, {d2}, {d3}}) /\ Len(ToFfn(l)) = 3
  BY <1>1
<1>9. \A s \in {"PA_NORMED", "HIDDEN2", "FFIN"} : Awaited(ToFfn(l), s)
  BY <1>1, <1>3, <1>4, <1>5 DEF Awaited
<1> QED
  BY <1>6, <1>7, <1>8, <1>9 DEF Part, IsSequence

\* From the FFN to the per-layer embedding.
LEMMA ToPleGood ==
  ASSUME NEW l \in Nat, NEW r, NEW ff, NEW T,
         {"DOWN", "HIDDEN2", "FF_NORMED", "HIDDEN3A"} \subseteq DOMAIN T,
         T["DOWN"] = <<ff, H>>, T["HIDDEN2"] = <<r, H>>,
         T["FF_NORMED"] = <<Norm(W(l, "post_feedforward_layernorm"), ff), H>>,
         T["HIDDEN3A"] = <<Residual3(l, r, ff), H>>
  PROVE  Part(T, ToPle(l), 8, 2, {"FF_NORMED", "HIDDEN3A"})
<1> DEFINE d1 == RmsNorm(W(l, "post_feedforward_layernorm"), "DOWN", "FF_NORMED")
           d2 == Binary("add", "HIDDEN2", "FF_NORMED", "HIDDEN3A", H)
<1>1. ToPle(l) = <<{d1}, {d2}>>
  BY DEF ToPle
<1>2. {"DOWN", "HIDDEN2", "FF_NORMED", "HIDDEN3A"} \subseteq HiddenSlots
  BY DEF HiddenSlots
<1>3. Good(T, d1) /\ d1.to = "FF_NORMED" /\ d1.in = <<<<"DOWN", H>>>>
  <2>1. "DOWN" \in HiddenSlots /\ "FF_NORMED" \in HiddenSlots
    BY <1>2
  <2>2. {"DOWN", "FF_NORMED"} \subseteq DOMAIN T
    OBVIOUS
  <2> QED
    BY <2>1, <2>2, NormGood
<1>4. Good(T, d2) /\ d2.to = "HIDDEN3A" /\ d2.in = <<<<"HIDDEN2", H>>, <<"FF_NORMED", H>>>>
  BY <1>2, AddGood DEF Residual3
<1> HIDE DEF d1, d2
<1>5. AllGood(T, ToPle(l))
  BY <1>1, <1>3, <1>4 DEF AllGood
<1>6. Deep(ToPle(l), 8)
  <2>1. /\ Depth["DOWN"] = 8 /\ Depth["HIDDEN2"] = 3 /\ Depth["FF_NORMED"] = 9
        /\ Depth["HIDDEN3A"] = 10
    BY DEF Depth
  <2> QED
    BY <1>1, <1>3, <1>4, <2>1 DEF Deep
<1>7. ToPle(l) \in Seq({{d1}, {d2}}) /\ Len(ToPle(l)) = 2
  BY <1>1
<1>8. \A s \in {"FF_NORMED", "HIDDEN3A"} : Awaited(ToPle(l), s)
  BY <1>1, <1>3, <1>4 DEF Awaited
<1> QED
  BY <1>5, <1>6, <1>7, <1>8 DEF Part, IsSequence

\* From the per-layer embedding to the layer's output.
LEMMA ToFinalGood ==
  ASSUME NEW l \in Nat, NEW r, NEW c, NEW cn, NEW T,
         cn = Norm(W(l, "post_per_layer_input_norm"), c),
         {"PLE_C", "HIDDEN3A", "CONTRIB_NORMED", "HIDDEN3B", "HIDDEN3_FINAL"} \subseteq DOMAIN T,
         T["PLE_C"] = <<c, H>>, T["HIDDEN3A"] = <<r, H>>, T["CONTRIB_NORMED"] = <<cn, H>>,
         T["HIDDEN3B"] = <<Add(r, cn), H>>, T["HIDDEN3_FINAL"] = <<LayerOut(l, r, c), H>>
  PROVE  Part(T, ToFinal(l), 14, 3, {"CONTRIB_NORMED", "HIDDEN3B", "HIDDEN3_FINAL"})
<1> DEFINE d1 == RmsNorm(W(l, "post_per_layer_input_norm"), "PLE_C", "CONTRIB_NORMED")
           d2 == Binary("add", "HIDDEN3A", "CONTRIB_NORMED", "HIDDEN3B", H)
           d3 == Dispatch("mul", W(l, "layer_scalar"), <<<<"HIDDEN3B", H>>>>,
                          "HIDDEN3_FINAL", H)
<1>1. ToFinal(l) = <<{d1}, {d2}, {d3}>>
  BY DEF ToFinal
<1>2. {"PLE_C", "HIDDEN3A", "CONTRIB_NORMED", "HIDDEN3B", "HIDDEN3_FINAL"} \subseteq HiddenSlots
  BY DEF HiddenSlots
<1>3. Good(T, d1) /\ d1.to = "CONTRIB_NORMED" /\ d1.in = <<<<"PLE_C", H>>>>
  BY <1>2, NormGood
<1>4. /\ Good(T, d2) /\ d2.to = "HIDDEN3B"
      /\ d2.in = <<<<"HIDDEN3A", H>>, <<"CONTRIB_NORMED", H>>>>
  BY <1>2, AddGood
<1>5. /\ d3.op = "mul" /\ d3.w = W(l, "layer_scalar") /\ d3.in = <<<<"HIDDEN3B", H>>>>
      /\ d3.to = "HIDDEN3_FINAL" /\ d3.n = H
  BY DEF Dispatch
<1> HIDE DEF d1, d2, d3
<1>6. Good(T, d3)
  <2>1. Computes(T, d3)
    BY <1>5, ComputesOne DEF LayerOut, Scale
  <2>2. Fits(d3) /\ d3.to \in Slots \ Scalars
    BY <1>5, SlotSizes, Sizes DEF Fits, HiddenSlots, Scalars
  <2> QED
    BY <2>1, <2>2 DEF Good
<1>7. AllGood(T, ToFinal(l))
  BY <1>1, <1>3, <1>4, <1>6 DEF AllGood
<1>8. Deep(ToFinal(l), 14)
  <2>1. /\ Depth["PLE_C"] = 14 /\ Depth["HIDDEN3A"] = 10 /\ Depth["CONTRIB_NORMED"] = 15
        /\ Depth["HIDDEN3B"] = 16 /\ Depth["HIDDEN3_FINAL"] = 17
    BY DEF Depth
  <2> QED
    BY <1>1, <1>3, <1>4, <1>5, <2>1 DEF Deep
<1>9. ToFinal(l) \in Seq({{d1}, {d2}, {d3}}) /\ Len(ToFinal(l)) = 3
  BY <1>1
<1>10. \A s \in {"CONTRIB_NORMED", "HIDDEN3B", "HIDDEN3_FINAL"} : Awaited(ToFinal(l), s)
  BY <1>1, <1>3, <1>4, <1>5 DEF Awaited
<1> QED
  BY <1>7, <1>8, <1>9, <1>10 DEF Part, IsSequence

\* Submit 1 computes its table, with the fused weight.
LEMMA FusedQkvSound ==
  ASSUME NEW l \in Nat, NEW x, HasFusedQkv(l)
  PROVE  Program(QkvProgram(l), FusedQkvTable(l, x), {"RAW_HIDDEN"})
<1> DEFINE n == Norm(W(l, "input_layernorm"), x)
           k == QDim(l) + 2 * KvDim(l)
           T == FusedQkvTable(l, x)
           d1 == RmsNorm(W(l, "input_layernorm"), "RAW_HIDDEN", "QKV_IN")
           d2 == Mv(TRUE, W(l, "qkv_proj"), "QKV_IN", H, "QKV_OUT", k)
<1>1. QkvProgram(l) = <<{d1}, {d2}>>
  BY DEF QkvProgram
<1>2. /\ DOMAIN T = {"RAW_HIDDEN", "QKV_IN", "QKV_OUT"}
      /\ T["RAW_HIDDEN"] = <<x, H>> /\ T["QKV_IN"] = <<n, H>>
      /\ T["QKV_OUT"] = <<Matvec(W(l, "qkv_proj"), n), k>>
  BY DEF FusedQkvTable
<1>3. /\ d2.op = "matvec" /\ d2.w = W(l, "qkv_proj") /\ d2.in = <<<<"QKV_IN", H>>>>
      /\ d2.to = "QKV_OUT" /\ d2.n = k
  BY DEF Mv, W, IsMatvecWeight, Dispatch
<1>4. "RAW_HIDDEN" \in HiddenSlots /\ "QKV_IN" \in HiddenSlots
  BY DEF HiddenSlots
<1> HIDE DEF T
<1>5. Good(T, d1) /\ d1.to = "QKV_IN" /\ d1.in = <<<<"RAW_HIDDEN", H>>>>
  BY <1>2, <1>4, NormGood
<1> HIDE DEF d1, d2
<1>6. Computes(T, d2)
  BY <1>2, <1>3, ComputesOne DEF Matvec
<1>7. Fits(d2) /\ d2.to \in Slots \ Scalars
  BY <1>3, SlotSizes, LayerSizes, Sizes DEF Fits, HiddenSlots, Scalars
<1>8. AllGood(T, QkvProgram(l))
  BY <1>1, <1>5, <1>6, <1>7 DEF AllGood, Good
<1>9. IsSequence(QkvProgram(l))
  <2>1. QkvProgram(l) \in Seq({{d1}, {d2}})
    BY <1>1
  <2> QED
    BY <2>1 DEF IsSequence
<1>10. Deep(QkvProgram(l), 0)
  <2>1. Depth["RAW_HIDDEN"] = 0 /\ Depth["QKV_IN"] = 1 /\ Depth["QKV_OUT"] = 2
    BY DEF Depth
  <2> QED
    BY <1>1, <1>3, <1>5, <2>1 DEF Deep
<1>11. \A s \in DOMAIN T \ {"RAW_HIDDEN"} : Awaited(QkvProgram(l), s)
  BY <1>1, <1>2, <1>3, <1>5 DEF Awaited
<1>12. DOMAIN T \subseteq Slots
  BY <1>2, SlotSizes DEF HiddenSlots, Scalars
<1>13. Program(QkvProgram(l), T, {"RAW_HIDDEN"})
  BY <1>8, <1>9, <1>10, <1>11, <1>12, DeepIsOrdered DEF Part, Program, Sound
<1> QED
  BY <1>13 DEF T

\* Submit 1 computes its table, with three weights.
LEMMA SplitQkvSound ==
  ASSUME NEW l \in Nat, NEW x, ~HasFusedQkv(l)
  PROVE  Program(QkvProgram(l), SplitQkvTable(l, x), {"RAW_HIDDEN"})
<1> DEFINE n == Norm(W(l, "input_layernorm"), x)
           T == SplitQkvTable(l, x)
           d == RmsNorm(W(l, "input_layernorm"), "RAW_HIDDEN", "QKV_IN")
           dq == Mv(TRUE, W(l, "q_proj"), "QKV_IN", H, "Q_OUT", QDim(l))
           dk == Mv(TRUE, W(l, "k_proj"), "QKV_IN", H, "K_OUT", KvDim(l))
           dv == Mv(TRUE, W(l, "v_proj"), "QKV_IN", H, "V_OUT", KvDim(l))
<1>1. QkvProgram(l) = <<{d}, {dq, dk, dv}>>
  BY DEF QkvProgram
<1>2. /\ DOMAIN T = {"RAW_HIDDEN", "QKV_IN", "Q_OUT", "K_OUT", "V_OUT"}
      /\ T["RAW_HIDDEN"] = <<x, H>> /\ T["QKV_IN"] = <<n, H>>
      /\ T["Q_OUT"] = <<Matvec(W(l, "q_proj"), n), QDim(l)>>
      /\ T["K_OUT"] = <<Matvec(W(l, "k_proj"), n), KvDim(l)>>
      /\ T["V_OUT"] = <<Matvec(W(l, "v_proj"), n), KvDim(l)>>
  BY DEF SplitQkvTable
<1>3. /\ dq.op = "matvec" /\ dq.w = W(l, "q_proj") /\ dq.in = <<<<"QKV_IN", H>>>>
      /\ dq.to = "Q_OUT" /\ dq.n = QDim(l)
      /\ dk.op = "matvec" /\ dk.w = W(l, "k_proj") /\ dk.in = <<<<"QKV_IN", H>>>>
      /\ dk.to = "K_OUT" /\ dk.n = KvDim(l)
      /\ dv.op = "matvec" /\ dv.w = W(l, "v_proj") /\ dv.in = <<<<"QKV_IN", H>>>>
      /\ dv.to = "V_OUT" /\ dv.n = KvDim(l)
  BY DEF Mv, W, IsMatvecWeight, Dispatch
<1>4. "RAW_HIDDEN" \in HiddenSlots /\ "QKV_IN" \in HiddenSlots
  BY DEF HiddenSlots
<1> HIDE DEF T
<1>5. Good(T, d) /\ d.to = "QKV_IN" /\ d.in = <<<<"RAW_HIDDEN", H>>>>
  BY <1>2, <1>4, NormGood
<1> HIDE DEF d, dq, dk, dv
<1>6. Computes(T, dq) /\ Computes(T, dk) /\ Computes(T, dv)
  BY <1>2, <1>3, ComputesOne DEF Matvec
<1>7. \A e \in {dq, dk, dv} : Fits(e) /\ e.to \in Slots \ Scalars
  BY <1>3, SlotSizes, LayerSizes, Sizes DEF Fits, HiddenSlots, Scalars
<1>8. AllGood(T, QkvProgram(l))
  BY <1>1, <1>5, <1>6, <1>7 DEF AllGood, Good
<1>9. IsSequence(QkvProgram(l))
  <2>1. QkvProgram(l) \in Seq({{d}, {dq, dk, dv}})
    BY <1>1
  <2> QED
    BY <2>1 DEF IsSequence
<1>10. Deep(QkvProgram(l), 0)
  <2>1. /\ Depth["RAW_HIDDEN"] = 0 /\ Depth["QKV_IN"] = 1 /\ Depth["Q_OUT"] = 2
        /\ Depth["K_OUT"] = 2 /\ Depth["V_OUT"] = 2
    BY DEF Depth
  <2> QED
    BY <1>1, <1>3, <1>5, <2>1 DEF Deep
<1>11. \A s \in DOMAIN T \ {"RAW_HIDDEN"} : Awaited(QkvProgram(l), s)
  BY <1>1, <1>2, <1>3, <1>5 DEF Awaited
<1>12. DOMAIN T \subseteq Slots
  BY <1>2, SlotSizes DEF HiddenSlots, Scalars
<1>13. Program(QkvProgram(l), T, {"RAW_HIDDEN"})
  BY <1>8, <1>9, <1>10, <1>11, <1>12, DeepIsOrdered DEF Part, Program, Sound
<1> QED
  BY <1>13 DEF T

\* The submission of o_proj computes its table.
LEMMA OProjSound ==
  ASSUME NEW l \in Nat, NEW at
  PROVE  Program(OProjProgram(l), OProjTable(l, at), {"O_IN"})
<1> DEFINE T == OProjTable(l, at)
<1>1. /\ DOMAIN T = {"O_IN", "O_OUT"} /\ T["O_IN"] = <<at, QDim(l)>>
      /\ T["O_OUT"] = <<Matvec(W(l, "o_proj"), at), H>>
  BY DEF OProjTable
<1> HIDE DEF T
<1>2. Part(T, OProjProgram(l), 0, 1, {"O_OUT"})
  BY <1>1, OProjGood
<1>3. DOMAIN T \subseteq Slots
  BY <1>1, SlotSizes DEF HiddenSlots, Scalars
<1>4. Program(OProjProgram(l), T, {"O_IN"})
  BY <1>1, <1>2, <1>3, DeepIsOrdered DEF Part, Program, Sound
<1> QED
  BY <1>4 DEF T

\* The submission of the FFN computes its table.
LEMMA FfnSound ==
  ASSUME NEW l \in Nat, NEW r
  PROVE  Program(FfnProgram(l), FfnTable(l, r), {"FFIN"})
<1> DEFINE T == FfnTable(l, r)
           n == FfnInter(l)
           x == FfIn(l, r)
           g == Matvec(W(l, "gate_proj"), x)
           u == Matvec(W(l, "up_proj"), x)
<1>1. /\ DOMAIN T = {"FFIN", "GATE", "UP", "GELU", "MID", "DOWN"}
      /\ T["FFIN"] = <<x, H>> /\ T["GATE"] = <<g, n>> /\ T["UP"] = <<u, n>>
      /\ T["GELU"] = <<Gelu(g), n>> /\ T["MID"] = <<Mul(Gelu(g), u), n>>
      /\ T["DOWN"] = <<Matvec(W(l, "down_proj"), Mul(Gelu(g), u)), H>>
  BY DEF FfnTable, CpuFfn
<1> HIDE DEF T
<1>2. Part(T, FfnProgram(l), 4, 4, {"GATE", "UP", "GELU", "MID", "DOWN"})
  BY <1>1, FfnGood
<1>3. DOMAIN T \subseteq Slots
  BY <1>1, SlotSizes DEF HiddenSlots, Scalars
<1>4. Program(FfnProgram(l), T, {"FFIN"})
  BY <1>1, <1>2, <1>3, DeepIsOrdered DEF Part, Program, Sound
<1> QED
  BY <1>4 DEF T

\* The submission of the per-layer embedding computes its table.
LEMMA PleSound ==
  ASSUME NEW l \in Nat, NEW r, NEW ple
  PROVE  Program(PleProgram(l, "FFIN"), PleTable(l, r, ple), {"FFIN", "PLE_LAYER"})
<1> DEFINE T == PleTable(l, r, ple)
           n == Config.ple_dim
           g == Matvec(W(l, "per_layer_input_gate"), r)
<1>1. /\ DOMAIN T = {"FFIN", "PLE_LAYER", "PLE_G", "PLE_GELU", "PLE_MID", "PLE_C"}
      /\ T["FFIN"] = <<r, H>> /\ T["PLE_LAYER"] = <<ple, n>> /\ T["PLE_G"] = <<g, n>>
      /\ T["PLE_GELU"] = <<Gelu(g), n>> /\ T["PLE_MID"] = <<Mul(Gelu(g), ple), n>>
      /\ T["PLE_C"] = <<Matvec(W(l, "per_layer_projection"), Mul(Gelu(g), ple)), H>>
  BY DEF PleTable, CpuPle
<1> HIDE DEF T
<1>2. Part(T, PleProgram(l, "FFIN"), 10, 4,
          {"PLE_G", "PLE_GELU", "PLE_MID", "PLE_C"})
  BY <1>1, PleGood
<1>3. DOMAIN T \subseteq Slots
  BY <1>1, SlotSizes DEF HiddenSlots, Scalars
<1>4. Program(PleProgram(l, "FFIN"), T, {"FFIN", "PLE_LAYER"})
  BY <1>1, <1>2, <1>3, DeepIsOrdered DEF Part, Program, Sound
<1> QED
  BY <1>4 DEF T

\* fused_post_attention() computes its table, in seventeen segments.
LEMMA FusedSound ==
  ASSUME NEW l \in Nat, NEW hid, NEW at, NEW ple
  PROVE  Program(FusedProgram(l), FusedTable(l, hid, at, ple),
                 {"O_IN", "RESIDUAL", "PLE_LAYER"})
<1> DEFINE T == FusedTable(l, hid, at, ple)
           o == Matvec(W(l, "o_proj"), at)
           r2 == Residual2(l, hid, o)
           x == FfIn(l, r2)
           g == Matvec(W(l, "gate_proj"), x)
           u == Matvec(W(l, "up_proj"), x)
           n == FfnInter(l)
           down == CpuFfn(l, r2)
           r3 == Residual3(l, r2, down)
           pg == Matvec(W(l, "per_layer_input_gate"), r3)
           p == Config.ple_dim
           c == CpuPle(l, r3, ple)
           cn == Norm(W(l, "post_per_layer_input_norm"), c)
<1>1. FusedProgram(l) = OProjProgram(l) \o ToFfn(l) \o FfnProgram(l) \o ToPle(l)
                          \o PleProgram(l, "HIDDEN3A") \o ToFinal(l)
  BY DEF FusedProgram, ToFfn, ToPle, ToFinal
<1>2. /\ DOMAIN T = {"O_IN", "RESIDUAL", "PLE_LAYER", "O_OUT", "PA_NORMED", "HIDDEN2", "FFIN",
                     "GATE", "UP", "GELU", "MID", "DOWN", "FF_NORMED", "HIDDEN3A", "PLE_G",
                     "PLE_GELU", "PLE_MID", "PLE_C", "CONTRIB_NORMED", "HIDDEN3B",
                     "HIDDEN3_FINAL"}
      /\ T["O_IN"] = <<at, QDim(l)>> /\ T["RESIDUAL"] = <<hid, H>>
      /\ T["PLE_LAYER"] = <<ple, p>> /\ T["O_OUT"] = <<o, H>>
      /\ T["PA_NORMED"] = <<Norm(W(l, "post_attention_layernorm"), o), H>>
      /\ T["HIDDEN2"] = <<r2, H>> /\ T["FFIN"] = <<x, H>> /\ T["GATE"] = <<g, n>>
      /\ T["UP"] = <<u, n>> /\ T["GELU"] = <<Gelu(g), n>>
      /\ T["MID"] = <<Mul(Gelu(g), u), n>> /\ T["DOWN"] = <<down, H>>
  BY DEF FusedTable
<1>3. /\ T["FF_NORMED"] = <<Norm(W(l, "post_feedforward_layernorm"), down), H>>
      /\ T["HIDDEN3A"] = <<r3, H>> /\ T["PLE_G"] = <<pg, p>> /\ T["PLE_GELU"] = <<Gelu(pg), p>>
      /\ T["PLE_MID"] = <<Mul(Gelu(pg), ple), p>> /\ T["PLE_C"] = <<c, H>>
      /\ T["CONTRIB_NORMED"] = <<cn, H>> /\ T["HIDDEN3B"] = <<Add(r3, cn), H>>
      /\ T["HIDDEN3_FINAL"] = <<LayerOut(l, r3, c), H>>
  BY DEF FusedTable
<1>4. /\ down = Matvec(W(l, "down_proj"), Mul(Gelu(g), u))
      /\ c = Matvec(W(l, "per_layer_projection"), Mul(Gelu(pg), ple))
  BY DEF CpuFfn, CpuPle
<1> HIDE DEF T, o, r2, x, g, u, n, down, r3, pg, p, c, cn
<1>5. Part(T, OProjProgram(l), 0, 1, {"O_OUT"})
  <2>1. T["O_OUT"] = <<Matvec(W(l, "o_proj"), at), H>>
    BY <1>2 DEF o
  <2> QED
    BY <1>2, <2>1, OProjGood
<1>6. Part(T, ToFfn(l), 1, 3, {"PA_NORMED", "HIDDEN2", "FFIN"})
  BY <1>2, ToFfnGood DEF r2, x
<1>7. Part(T, FfnProgram(l), 4, 4, {"GATE", "UP", "GELU", "MID", "DOWN"})
  <2>1. g = Matvec(W(l, "gate_proj"), x) /\ u = Matvec(W(l, "up_proj"), x) /\ n = FfnInter(l)
    BY DEF g, u, n
  <2> QED
    BY <1>2, <1>4, <2>1, FfnGood
<1>8. Part(T, ToPle(l), 8, 2, {"FF_NORMED", "HIDDEN3A"})
  BY <1>2, <1>3, ToPleGood DEF r3
<1>9. Part(T, PleProgram(l, "HIDDEN3A"), 10, 4,
          {"PLE_G", "PLE_GELU", "PLE_MID", "PLE_C"})
  <2>1. pg = Matvec(W(l, "per_layer_input_gate"), r3) /\ p = Config.ple_dim
    BY DEF pg, p
  <2> QED
    BY <1>2, <1>3, <1>4, <2>1, PleGood
<1>10. Part(T, ToFinal(l), 14, 3, {"CONTRIB_NORMED", "HIDDEN3B", "HIDDEN3_FINAL"})
  <2>1. cn = Norm(W(l, "post_per_layer_input_norm"), c)
    BY DEF cn
  <2> QED
    BY <1>2, <1>3, <2>1, ToFinalGood
<1> DEFINE s1 == OProjProgram(l) \o ToFfn(l)
           s2 == s1 \o FfnProgram(l)
           s3 == s2 \o ToPle(l)
           s4 == s3 \o PleProgram(l, "HIDDEN3A")
           s5 == s4 \o ToFinal(l)
           w1 == {"O_OUT"} \cup {"PA_NORMED", "HIDDEN2", "FFIN"}
           w2 == w1 \cup {"GATE", "UP", "GELU", "MID", "DOWN"}
           w3 == w2 \cup {"FF_NORMED", "HIDDEN3A"}
           w4 == w3 \cup {"PLE_G", "PLE_GELU", "PLE_MID", "PLE_C"}
           w5 == w4 \cup {"CONTRIB_NORMED", "HIDDEN3B", "HIDDEN3_FINAL"}
<1>11. FusedProgram(l) = s5
  BY <1>1
<1>12. DOMAIN T \ {"O_IN", "RESIDUAL", "PLE_LAYER"} \subseteq w5
  BY <1>2
<1>13. Part(T, s1, 0, 4, w1)
  <2>1. Part(T, s1, 0, 1 + 3, w1)
    BY <1>5, <1>6, Composed, Zenon
  <2> QED
    BY <2>1
<1> HIDE DEF s1, w1
<1>14. Part(T, s2, 0, 8, w2)
  <2>1. Part(T, s2, 0, 4 + 4, w2)
    BY <1>13, <1>7, Composed, Zenon
  <2> QED
    BY <2>1
<1> HIDE DEF s2, w2
<1>15. Part(T, s3, 0, 10, w3)
  <2>1. Part(T, s3, 0, 8 + 2, w3)
    BY <1>14, <1>8, Composed, Zenon
  <2> QED
    BY <2>1
<1> HIDE DEF s3, w3
<1>16. Part(T, s4, 0, 14, w4)
  <2>1. Part(T, s4, 0, 10 + 4, w4)
    BY <1>15, <1>9, Composed, Zenon
  <2> QED
    BY <2>1
<1> HIDE DEF s4, w4
<1>17. Part(T, s5, 0, 17, w5)
  <2>1. Part(T, s5, 0, 14 + 3, w5)
    BY <1>16, <1>10, Composed, Zenon
  <2> QED
    BY <2>1
<1> HIDE DEF s5, w5
<1>18. DOMAIN T \subseteq Slots
  BY <1>2, SlotSizes DEF HiddenSlots, Scalars
<1>19. Program(FusedProgram(l), T, {"O_IN", "RESIDUAL", "PLE_LAYER"})
  BY <1>11, <1>12, <1>17, <1>18, DeepIsOrdered DEF Part, Program, Sound
<1> QED
  BY <1>19 DEF T

\* The submission of the LM head computes its table.
LEMMA HeadSound ==
  ASSUME NEW hid
  PROVE  Program(HeadProgram, HeadTable(hid), {"RAW_HIDDEN", "INV_CAP", "CAP"})
<1> DEFINE T == HeadTable(hid)
           n == Config.vocab_size
           x == Norm(W(L, "norm"), hid)
           raw == Matvec(W(L, "embed_tokens"), x)
           d1 == RmsNorm(W(L, "norm"), "RAW_HIDDEN", "QKV_IN")
           d2 == Mv(FALSE, W(L, "embed_tokens"), "QKV_IN", H, "LOGIT_RAW", n)
           d3 == Broadcast("LOGIT_RAW", "INV_CAP", "LOGIT_SCALED", n)
           d4 == Unary("tanh", "LOGIT_SCALED", "LOGIT_TANH", n)
           d5 == Broadcast("LOGIT_TANH", "CAP", "LOGIT_FINAL", n)
<1>1. HeadProgram = <<{d1}, {d2}, {d3}, {d4}, {d5}>>
  BY DEF HeadProgram
<1>2. /\ DOMAIN T = {"RAW_HIDDEN", "INV_CAP", "CAP", "QKV_IN", "LOGIT_RAW", "LOGIT_SCALED",
                     "LOGIT_TANH", "LOGIT_FINAL"}
      /\ T["RAW_HIDDEN"] = <<hid, H>> /\ T["INV_CAP"] = <<InvCap, 1>> /\ T["CAP"] = <<Cap, 1>>
      /\ T["QKV_IN"] = <<x, H>> /\ T["LOGIT_RAW"] = <<raw, n>>
      /\ T["LOGIT_SCALED"] = <<Mul(raw, InvCap), n>>
      /\ T["LOGIT_TANH"] = <<Tanh(Mul(raw, InvCap)), n>>
      /\ T["LOGIT_FINAL"] = <<Mul(Tanh(Mul(raw, InvCap)), Cap), n>>
  BY DEF HeadTable, RefLogits
<1>3. /\ d2.op = "matvec" /\ d2.w = W(L, "embed_tokens") /\ d2.in = <<<<"QKV_IN", H>>>>
      /\ d2.to = "LOGIT_RAW" /\ d2.n = n
  BY DEF Mv, W, IsMatvecWeight, Dispatch
<1>4. /\ d3.op = "mul" /\ d3.w = None /\ d3.in = <<<<"LOGIT_RAW", n>>, <<"INV_CAP", 1>>>>
      /\ d3.to = "LOGIT_SCALED" /\ d3.n = n
      /\ d4.op = "tanh" /\ d4.w = None /\ d4.in = <<<<"LOGIT_SCALED", n>>>>
      /\ d4.to = "LOGIT_TANH" /\ d4.n = n
      /\ d5.op = "mul" /\ d5.w = None /\ d5.in = <<<<"LOGIT_TANH", n>>, <<"CAP", 1>>>>
      /\ d5.to = "LOGIT_FINAL" /\ d5.n = n
  BY DEF Broadcast, Unary, Dispatch
<1>5. "RAW_HIDDEN" \in HiddenSlots /\ "QKV_IN" \in HiddenSlots
  BY DEF HiddenSlots
<1> HIDE DEF T
<1>6. Good(T, d1) /\ d1.to = "QKV_IN" /\ d1.in = <<<<"RAW_HIDDEN", H>>>>
  BY <1>2, <1>5, NormGood
<1> HIDE DEF d1, d2, d3, d4, d5
<1>7. Computes(T, d2)
  BY <1>2, <1>3, ComputesOne DEF Matvec
<1>8. Computes(T, d3) /\ Computes(T, d5)
  BY <1>2, <1>4, ComputesTwo DEF Mul
<1>9. Computes(T, d4)
  BY <1>2, <1>4, ComputesOne DEF Tanh
<1>10. \A d \in {d2, d3, d4, d5} : Fits(d) /\ d.to \in Slots \ Scalars
  BY <1>3, <1>4, SlotSizes, Sizes DEF Fits, HiddenSlots, Scalars
<1>11. AllGood(T, HeadProgram)
  BY <1>1, <1>6, <1>7, <1>8, <1>9, <1>10 DEF AllGood, Good
<1>12. IsSequence(HeadProgram)
  <2>1. HeadProgram \in Seq({{d1}, {d2}, {d3}, {d4}, {d5}})
    BY <1>1
  <2> QED
    BY <2>1 DEF IsSequence
<1>13. Deep(HeadProgram, 0)
  <2>1. /\ Depth["RAW_HIDDEN"] = 0 /\ Depth["QKV_IN"] = 1 /\ Depth["LOGIT_RAW"] = 2
        /\ Depth["INV_CAP"] = 0 /\ Depth["CAP"] = 0 /\ Depth["LOGIT_SCALED"] = 3
        /\ Depth["LOGIT_TANH"] = 4 /\ Depth["LOGIT_FINAL"] = 5
    BY DEF Depth
  <2> QED
    BY <1>1, <1>3, <1>4, <1>6, <2>1 DEF Deep
<1>14. \A s \in DOMAIN T \ {"RAW_HIDDEN", "INV_CAP", "CAP"} : Awaited(HeadProgram, s)
  BY <1>1, <1>2, <1>3, <1>4, <1>6 DEF Awaited
<1>15. DOMAIN T \subseteq Slots
  BY <1>2, SlotSizes DEF HiddenSlots, Scalars
<1>16. Program(HeadProgram, T, {"RAW_HIDDEN", "INV_CAP", "CAP"})
  BY <1>11, <1>12, <1>13, <1>14, <1>15, DeepIsOrdered DEF Part, Program, Sound
<1> QED
  BY <1>16 DEF T


-----------------------------------------------------------------------------
(* The GPU *)

\* A submission whose inputs are there is running its table.
LEMMA Begins ==
  ASSUME NEW c, NEW table, NEW inputs, NEW bufs, Program(c, table, inputs),
         \A s \in DOMAIN table : s \in inputs => bufs[s] = table[s]
  PROVE  IsSequence(c) /\ Sound(c, table) /\ Holds(c, bufs, table)
  BY DEF Program, Holds

\* One sequence before another.
LEMMA Prepended ==
  ASSUME NEW S, NEW x, NEW t \in Seq(S), NEW n \in Nat, Len(t) = n
  PROVE  /\ IsSequence(<<x>> \o t) /\ DOMAIN (<<x>> \o t) = 1..n + 1
         /\ (<<x>> \o t)[1] = x /\ \A i \in 1..n : (<<x>> \o t)[i + 1] = t[i]
<1> DEFINE R == S \cup {x}
           s == <<x>>
           u == s \o t
<1>1. PICK m \in Nat : m = 1
  OBVIOUS
<1>2. s \in Seq(R) /\ Len(s) = m /\ s[1] = x
  BY <1>1
<1>3. t \in Seq(R)
  OBVIOUS
<1> HIDE DEF R, s
<1>4. /\ u \in Seq(R) /\ Len(u) = Len(s) + Len(t)
      /\ \A i \in 1..Len(s) + Len(t) : u[i] = IF i <= Len(s) THEN s[i] ELSE t[i - Len(s)]
  BY <1>2, <1>3, ConcatProperties
<1> HIDE DEF u
<1>5. /\ u \in Seq(R) /\ Len(u) = m + n
      /\ \A i \in 1..m + n : u[i] = IF i <= m THEN s[i] ELSE t[i - m]
  BY <1>2, <1>4
<1>6. DOMAIN u = 1..n + 1
  BY <1>1, <1>5
<1>7. u[1] = x
  BY <1>1, <1>2, <1>5
<1>8. ASSUME NEW i \in 1..n
      PROVE  u[i + 1] = t[i]
  <2>1. i + 1 \in 1..m + n /\ ~(i + 1 <= m) /\ i + 1 - m = i
    BY <1>1
  <2> QED
    BY <1>5, <2>1
<1>9. IsSequence(u)
  BY <1>5 DEF IsSequence
<1> QED
  BY <1>6, <1>7, <1>8, <1>9 DEF u, s

\* What is left of submission c, and of the buffers, when d has executed.
Left(c, d) ==
  IF Head(c) \ {d} = {} THEN Tail(c) ELSE <<Head(c) \ {d}>> \o Tail(c)

Executed(bufs, d) ==
  Write(bufs, d.to,
        <<d.op, d.w>> \o [x \in DOMAIN d.in |-> Read(bufs, d.in[x][1], d.in[x][2])], d.n)

\* The softcap's scalars are as they were.
SameScalars(bufs, new) == \A s \in Scalars : new[s] = bufs[s]

\* What is left in segment i was in segment f[i].
Moved(c, after, rest, f) ==
  /\ \A i \in DOMAIN after : f[i] \in DOMAIN c /\ after[i] \subseteq c[f[i]]
  /\ \A i \in DOMAIN after : f[i] = 1 => after[i] = rest
  /\ \A i, j \in DOMAIN after : (f[i] = f[j] => i = j) /\ (i <= j => f[i] <= f[j])

\* Executing dispatch d of the first segment leaves the other dispatches in their
\* order.
LEMMA WithoutFirst ==
  ASSUME NEW c, IsSequence(c), c # <<>>, NEW d \in Head(c), NEW rest, rest = Head(c) \ {d},
         NEW after, after = Left(c, d)
  PROVE  /\ IsSequence(after) /\ 1 \in DOMAIN c /\ c[1] = Head(c)
         /\ \A i \in DOMAIN c : i \in Nat \ {0}
         /\ \E f : Moved(c, after, rest, f)
         /\ \A i \in DOMAIN c : \A e \in c[i] \ {d} : \E j \in DOMAIN after : e \in after[j]
<1>1. PICK S : c \in Seq(S)
  BY DEF IsSequence
<1>2. PICK n \in Nat : Len(c) = n + 1
  BY <1>1, EmptySeq
<1> DEFINE t == Tail(c)
<1>3. t \in Seq(S) /\ Len(t) = n /\ \A i \in 1..n : t[i] = c[i + 1]
  BY <1>1, <1>2, HeadTailProperties
<1>4. DOMAIN c = 1..n + 1 /\ c[1] = Head(c)
  BY <1>1, <1>2
<1> HIDE DEF t
<1>5. DOMAIN t = 1..n
  BY <1>3
<1>6. CASE rest = {}
  <2>1. after = t
    BY <1>6 DEF t, Left
  <2> DEFINE f == [i \in 1..n |-> i + 1]
  <2>2. \A i \in 1..n : f[i] = i + 1 /\ i + 1 \in 1..n + 1 /\ i + 1 # 1
    OBVIOUS
  <2>3. \A i, j \in 1..n : (i + 1 = j + 1 => i = j) /\ (i <= j => i + 1 <= j + 1)
    OBVIOUS
  <2>4. ASSUME NEW i \in DOMAIN c, NEW e \in c[i] \ {d}
        PROVE  \E j \in 1..n : e \in t[j]
    <3>1. i # 1
      BY <1>4, <1>6
    <3>2. i - 1 \in 1..n /\ i - 1 + 1 = i
      BY <1>4, <3>1
    <3>3. t[i - 1] = c[i]
      BY <1>3, <3>2
    <3> QED
      BY <3>2, <3>3
  <2> HIDE DEF f
  <2>5. IsSequence(after)
    BY <1>3, <2>1 DEF IsSequence
  <2>6. \A i \in 1..n : f[i] \in DOMAIN c /\ t[i] = c[f[i]] /\ f[i] # 1
    BY <1>3, <1>4, <2>2
  <2>7. \A i, j \in 1..n : (f[i] = f[j] => i = j) /\ (i <= j => f[i] <= f[j])
    BY <2>2, <2>3
  <2>8. 1 \in DOMAIN c /\ \A i \in DOMAIN c : i \in Nat \ {0}
    BY <1>4
  <2> QED
    BY <1>4, <1>5, <2>1, <2>4, <2>5, <2>6, <2>7, <2>8 DEF Moved
<1>7. CASE rest # {}
  <2> DEFINE u == <<rest>> \o t
  <2>1. after = u
    BY <1>7 DEF t, Left
  <2>2. /\ IsSequence(u) /\ DOMAIN u = 1..n + 1
        /\ u[1] = rest /\ \A i \in 1..n : u[i + 1] = t[i]
    BY <1>3, Prepended
  <2> HIDE DEF u
  <2>3. ASSUME NEW i \in DOMAIN u
        PROVE  u[i] = IF i = 1 THEN rest ELSE c[i]
    <3>1. CASE i = 1
      BY <2>2, <3>1
    <3>2. CASE i # 1
      <4>1. i - 1 \in 1..n /\ i - 1 + 1 = i
        BY <2>2, <3>2
      <4>2. t[i - 1] = c[i]
        BY <1>3, <4>1
      <4> QED
        BY <2>2, <3>2, <4>2
    <3> QED
      BY <3>1, <3>2
  <2> DEFINE f == [i \in 1..n + 1 |-> i]
  <2>4. \A i \in 1..n + 1 : f[i] = i
    OBVIOUS
  <2> HIDE DEF f
  <2>5. \A i \in DOMAIN u : f[i] \in DOMAIN c /\ u[i] \subseteq c[f[i]]
                            /\ (f[i] = 1 => u[i] = rest)
    BY <1>4, <2>2, <2>3, <2>4
  <2>6. \A i, j \in DOMAIN u : (f[i] = f[j] => i = j) /\ (i <= j => f[i] <= f[j])
    BY <2>2, <2>4
  <2>7. \A i \in DOMAIN c : \A e \in c[i] \ {d} : e \in u[i] /\ i \in DOMAIN u
    BY <1>4, <2>2, <2>3
  <2>8. 1 \in DOMAIN c /\ \A i \in DOMAIN c : i \in Nat \ {0}
    BY <1>4
  <2> QED
    BY <1>4, <2>1, <2>2, <2>5, <2>6, <2>7, <2>8 DEF Moved
<1> QED
  BY <1>6, <1>7

\* A dispatch whose turn has come reads what its table says, whatever the order in
\* which those of its segment ran, and writes what the table says: no barrier is
\* missing.
LEMMA Executes ==
  ASSUME NEW table, NEW c, NEW d \in Head(c), NEW bufs,
         IsSequence(c), c # <<>>, Sound(c, table), Holds(c, bufs, table), DOMAIN bufs = Slots
  PROVE  /\ IsSequence(Left(c, d)) /\ Sound(Left(c, d), table)
         /\ Holds(Left(c, d), Executed(bufs, d), table) /\ DOMAIN Executed(bufs, d) = Slots
         /\ SameScalars(bufs, Executed(bufs, d))
<1> PICK after : after = Left(c, d)
  OBVIOUS
<1> PICK written : written = Executed(bufs, d)
  OBVIOUS
<1> PICK rest : rest = Head(c) \ {d}
  OBVIOUS
<1> DEFINE value == <<<<d.op, d.w>> \o
                        [x \in DOMAIN d.in |-> Read(bufs, d.in[x][1], d.in[x][2])], d.n>>
<1>1. written = [bufs EXCEPT ![d.to] = value]
  BY DEF Executed, Write
<1>2. after = Left(c, d)
  OBVIOUS
<1> HIDE DEF value
<1>3. /\ IsSequence(after) /\ 1 \in DOMAIN c /\ c[1] = Head(c)
      /\ \A i \in DOMAIN c : i \in Nat \ {0}
      /\ \A i \in DOMAIN c : \A e \in c[i] \ {d} : \E j \in DOMAIN after : e \in after[j]
  BY <1>2, WithoutFirst
<1>4. PICK f : Moved(c, after, rest, f)
  BY <1>2, WithoutFirst, Zenon
<1> USE DEF Moved
<1>5. /\ Ordered(c) /\ AllGood(table, c) /\ Holds(c, bufs, table)
      /\ DOMAIN table \subseteq Slots
  BY DEF Sound
<1>6. d \in c[1] /\ Good(table, d)
  BY <1>3, <1>5 DEF AllGood
<1>7. ASSUME NEW i \in DOMAIN after, NEW e \in after[i], e.to = d.to
      PROVE  FALSE
  <2>1. f[i] \in DOMAIN c /\ e \in c[f[i]]
    BY <1>4
  <2>2. f[i] = 1 /\ e = d
    BY <1>3, <1>5, <1>6, <1>7, <2>1 DEF Ordered
  <2> QED
    BY <1>4, <2>2
<1>8. Ordered(after)
  <2> SUFFICES ASSUME NEW i \in DOMAIN after, NEW j \in DOMAIN after,
                      NEW a \in after[i], NEW b \in after[j]
               PROVE  /\ a.to = b.to => a = b /\ i = j
                      /\ i <= j => \A x \in DOMAIN a.in : a.in[x][1] # b.to
    BY DEF Ordered
  <2>1. f[i] \in DOMAIN c /\ f[j] \in DOMAIN c /\ a \in c[f[i]] /\ b \in c[f[j]]
    BY <1>4
  <2>2. a.to = b.to => a = b /\ f[i] = f[j]
    BY <1>5, <2>1 DEF Ordered
  <2>3. f[i] <= f[j] => \A x \in DOMAIN a.in : a.in[x][1] # b.to
    BY <1>5, <2>1 DEF Ordered
  <2> QED
    BY <1>4, <2>2, <2>3
<1>9. AllGood(table, after)
  BY <1>4, <1>5 DEF AllGood
<1>10. \A i \in DOMAIN c : 1 <= i
  BY <1>3
<1>11. \A x \in DOMAIN d.in : ~Awaited(c, d.in[x][1])
  BY <1>3, <1>5, <1>6, <1>10 DEF Awaited, Ordered
<1>12. \A x \in DOMAIN d.in : Read(bufs, d.in[x][1], d.in[x][2]) = table[d.in[x][1]][1]
  BY <1>5, <1>6, <1>11 DEF Good, Computes, Holds, Read
<1>13. value = table[d.to]
  <2>1. [x \in DOMAIN d.in |-> Read(bufs, d.in[x][1], d.in[x][2])]
          = [x \in DOMAIN d.in |-> table[d.in[x][1]][1]]
    BY <1>12
  <2>2. table[d.to] =
          <<<<d.op, d.w>> \o [x \in DOMAIN d.in |-> table[d.in[x][1]][1]], d.n>>
    BY <1>6 DEF Good, Computes
  <2> QED
    BY <2>1, <2>2, Zenon DEF value
<1>14. \A s : Awaited(c, s) /\ s # d.to => Awaited(after, s)
  BY <1>3 DEF Awaited
<1>15. d.to \in Slots \ Scalars
  BY <1>6 DEF Good
<1>16. Holds(after, written, table)
  <2> SUFFICES ASSUME NEW s \in DOMAIN table
               PROVE  Awaited(after, s) \/ written[s] = table[s]
    BY DEF Holds
  <2>1. CASE s = d.to
    BY <1>1, <1>13, <1>15, <2>1
  <2>2. CASE s # d.to
    <3>1. written[s] = bufs[s]
      BY <1>1, <1>5, <2>2
    <3> QED
      BY <1>5, <1>14, <2>2, <3>1 DEF Holds
  <2> QED
    BY <2>1, <2>2
<1>17. Sound(after, table) /\ DOMAIN written = Slots /\ SameScalars(bufs, written)
  BY <1>1, <1>5, <1>8, <1>9, <1>15, SlotSizes DEF Sound, SameScalars
<1> QED
  BY <1>3, <1>16, <1>17

\* The same for a step of the GPU.
LEMMA GpuStep ==
  ASSUME NEW table, IsSequence(cmd), Running(table), DOMAIN act = Slots, Gpu
  PROVE  /\ IsSequence(cmd') /\ Sound(cmd', table) /\ Holds(cmd', act', table)
         /\ DOMAIN act' = Slots /\ SameScalars(act, act')
<1>1. PICK d \in Head(cmd) : Execute(d)
  BY DEF Gpu
<1>2. cmd # <<>> /\ Sound(cmd, table) /\ Holds(cmd, act, table)
  BY DEF Gpu, Running
<1>3. cmd' = Left(cmd, d) /\ act' = Executed(act, d)
  BY <1>1 DEF Execute, Left, Executed
<1>4. IsSequence(cmd) /\ cmd # <<>> /\ d \in Head(cmd) /\ DOMAIN act = Slots
  BY <1>1, <1>2
<1>5. /\ IsSequence(Left(cmd, d)) /\ Sound(Left(cmd, d), table)
      /\ Holds(Left(cmd, d), Executed(act, d), table) /\ DOMAIN Executed(act, d) = Slots
      /\ SameScalars(act, Executed(act, d))
  BY <1>2, <1>4, Executes
<1> QED
  BY <1>3, <1>5

-----------------------------------------------------------------------------
(* The buffers *)

\* There are slots.
LEMMA SlotsNotEmpty == Slots # {}
  BY SlotSizes

\* act_bufs is not empty once the buffers are allocated.
LEMMA BufsAreThere ==
  ASSUME NEW bufs, DOMAIN bufs = Slots
  PROVE  bufs # NoBufs
  BY SlotsNotEmpty DEF NoBufs, None

\* Writing a slot leaves the others, and the scalars.
LEMMA Writes ==
  ASSUME NEW bufs, Allocated(bufs), NEW s \in Slots \ Scalars, NEW value, NEW n
  PROVE  /\ Allocated(Write(bufs, s, value, n))
         /\ Write(bufs, s, value, n)[s] = <<value, n>>
         /\ \A z \in Slots \ {s} : Write(bufs, s, value, n)[z] = bufs[z]
<1>1. "INV_CAP" \in Slots \ {s} /\ "CAP" \in Slots \ {s}
  BY SlotSizes DEF Scalars
<1> QED
  BY <1>1 DEF Allocated, Write

\* init_act_bufs(), when it succeeds, leaves all buffers there.
LEMMA InitBufs ==
  ASSUME act # NoBufs => Allocated(act), NEW bufs \in InitActBufs \ {NoBufs}
  PROVE  Allocated(bufs)
<1>1. CASE act # NoBufs
  BY <1>1 DEF InitActBufs
<1>2. CASE act = NoBufs
  <2>1. bufs = FreshBufs
    BY <1>2 DEF InitActBufs
  <2>2. "INV_CAP" \in Slots /\ "CAP" \in Slots
    BY SlotSizes DEF Scalars
  <2>3. FreshBufs["INV_CAP"] = <<InvCap, 1>> /\ FreshBufs["CAP"] = <<Cap, 1>>
    BY <2>2 DEF FreshBufs
  <2>4. DOMAIN FreshBufs = Slots
    BY DEF FreshBufs
  <2> QED
    BY <2>1, <2>3, <2>4 DEF Allocated
<1> QED
  BY <1>1, <1>2

\* Once its fence is signalled, a submission has written its table.
LEMMA Finished ==
  ASSUME NEW table, Running(table), cmd = <<>>, NEW s \in DOMAIN table
  PROVE  act[s] = table[s]
  BY DEF Running, Holds, Awaited

\* The thread reads the Q, K and V products from the layout its layer used.
LEMMA QkvValues ==
  ASSUME layer \in Nat, cmd = <<>>, gpu \in BOOLEAN, gpu => Running(QkvTable)
  PROVE  /\ QkvRead.q = CpuQkv(layer, "q_proj", hidden)
         /\ QkvRead.k = CpuQkv(layer, "k_proj", hidden)
         /\ QkvRead.v = CpuQkv(layer, "v_proj", hidden)
<1> DEFINE q == QDim(layer)
           n == KvDim(layer)
           x == Norm(W(layer, "input_layernorm"), hidden)
<1>1. CASE ~gpu
  BY <1>1 DEF QkvRead
<1>2. CASE gpu /\ HasFusedQkv(layer)
  <2> DEFINE T == FusedQkvTable(layer, hidden)
  <2>1. Running(T)
    BY <1>2 DEF QkvTable
  <2>2. /\ "QKV_OUT" \in DOMAIN T
        /\ T["QKV_OUT"] = <<Matvec(W(layer, "qkv_proj"), x), q + 2 * n>>
    BY DEF FusedQkvTable
  <2> HIDE DEF T
  <2>3. act["QKV_OUT"] = <<Matvec(W(layer, "qkv_proj"), x), q + 2 * n>>
    BY <2>1, <2>2, Finished
  <2>4. act["QKV_OUT"][1][3] = x
    BY <2>3 DEF Matvec
  <2>5. q \in Nat /\ n \in Nat \ {0}
    BY LayerSizes
  <2> HIDE DEF q, n, x
  <2>6. /\ ReadAt(act, layer, 0, q) = Matvec(W(layer, "q_proj"), x)
        /\ ReadAt(act, layer, q, n) = Matvec(W(layer, "k_proj"), x)
        /\ ReadAt(act, layer, q + n, n) = Matvec(W(layer, "v_proj"), x)
    <3>1. /\ <<q, n>> # <<0, q>> /\ <<q + n, n>> # <<0, q>> /\ <<q + n, n>> # <<q, n>>
      BY <2>5
    <3>2. q = QDim(layer) /\ n = KvDim(layer)
      BY DEF q, n
    <3> QED
      BY <2>4, <3>1, <3>2 DEF ReadAt
  <2>7. QkvRead = [q |-> ReadAt(act, layer, 0, q), k |-> ReadAt(act, layer, q, n),
                   v |-> ReadAt(act, layer, q + n, n)]
    BY <1>2 DEF QkvRead, q, n
  <2> QED
    BY <2>6, <2>7 DEF CpuQkv, x
<1>3. CASE gpu /\ ~HasFusedQkv(layer)
  <2> DEFINE T == SplitQkvTable(layer, hidden)
  <2>1. Running(T)
    BY <1>3 DEF QkvTable
  <2>2. /\ {"Q_OUT", "K_OUT", "V_OUT"} \subseteq DOMAIN T
        /\ T["Q_OUT"] = <<Matvec(W(layer, "q_proj"), x), q>>
        /\ T["K_OUT"] = <<Matvec(W(layer, "k_proj"), x), n>>
        /\ T["V_OUT"] = <<Matvec(W(layer, "v_proj"), x), n>>
    BY DEF SplitQkvTable
  <2> HIDE DEF T
  <2>3. act["Q_OUT"] = T["Q_OUT"] /\ act["K_OUT"] = T["K_OUT"] /\ act["V_OUT"] = T["V_OUT"]
    BY <2>1, <2>2, Finished
  <2>4. QkvRead = [q |-> Read(act, "Q_OUT", q), k |-> Read(act, "K_OUT", n),
                   v |-> Read(act, "V_OUT", n)]
    BY <1>3 DEF QkvRead
  <2> QED
    BY <2>2, <2>3, <2>4 DEF Read, CpuQkv
<1> QED
  BY <1>1, <1>2, <1>3

\* With this token's row in the caches of the layers up to this one, and the row of a
\* sharing layer in the one it shares, attention is that of the reference.
LEMMA Attention ==
  ASSUME AtLayer(layer), cmd = <<>>, gpu \in BOOLEAN, gpu => Running(QkvTable),
         DOMAIN kv = 0..L - 1
  PROVE  /\ AttnOut = RefAttn(layer, token)
         /\ DOMAIN Appended = 0..L - 1
         /\ \A l \in 0..L - 1 : Appended[l] = IF IsShared(l) THEN <<>>
                                ELSE RefRows(l, IF l < layer + 1 THEN token ELSE token - 1)
<1> DEFINE row == Row(layer, QkvRead.k, QkvRead.v)
<1>1. /\ layer \in 0..L - 1 /\ layer \in Nat /\ token \in Nat \ {0}
      /\ hidden = Leaf("hidden", token, layer)
      /\ \A l \in 0..L - 1 :
           kv[l] = IF IsShared(l) THEN <<>>
                   ELSE RefRows(l, IF l < layer THEN token ELSE token - 1)
  BY Sizes DEF AtLayer, RowsBelow
<1>2. /\ QkvRead.q = CpuQkv(layer, "q_proj", hidden)
      /\ QkvRead.k = CpuQkv(layer, "k_proj", hidden)
      /\ QkvRead.v = CpuQkv(layer, "v_proj", hidden)
  BY <1>1, QkvValues
<1>3. ~IsShared(layer) => Append(kv[layer], row) = RefRows(layer, token)
  <2>1. ~IsShared(layer) => kv[layer] = RefRows(layer, token - 1)
    BY <1>1
  <2>2. row = Row(layer, CpuQkv(layer, "k_proj", Leaf("hidden", token, layer)),
                         CpuQkv(layer, "v_proj", Leaf("hidden", token, layer)))
    BY <1>1, <1>2
  <2> HIDE DEF row
  <2> QED
    BY <1>1, <2>1, <2>2, RefRowsGrow
<1>4. Appended = IF IsShared(layer) THEN kv ELSE [kv EXCEPT ![layer] = Append(kv[layer], row)]
  BY DEF Appended
<1> HIDE DEF row
<1>5. \A l \in 0..L - 1 : Appended[l] = IF IsShared(l) THEN <<>>
                          ELSE RefRows(l, IF l < layer + 1 THEN token ELSE token - 1)
  <2> SUFFICES ASSUME NEW l \in 0..L - 1
               PROVE  Appended[l] = IF IsShared(l) THEN <<>>
                        ELSE RefRows(l, IF l < layer + 1 THEN token ELSE token - 1)
    OBVIOUS
  <2>1. CASE l = layer
    <3>1. l < layer + 1
      BY <1>1, <2>1, Sizes
    <3>2. IsShared(layer) => Appended[layer] = <<>>
      BY <1>1, <1>4
    <3>3. ~IsShared(layer) => Appended[layer] = RefRows(layer, token)
      BY <1>1, <1>3, <1>4
    <3> QED
      BY <2>1, <3>1, <3>2, <3>3
  <2>2. CASE l # layer
    <3>1. Appended[l] = kv[l]
      BY <1>4, <2>2
    <3>2. l < layer + 1 <=> l < layer
      BY <1>1, <2>2, Sizes
    <3> QED
      BY <1>1, <3>1, <3>2
  <2> QED
    BY <2>1, <2>2
<1>6. DOMAIN Appended = 0..L - 1
  BY <1>4
<1>7. Appended[CacheOf(layer)] = RefRows(CacheOf(layer), token)
  <2>1. CacheOf(layer) \in 0..L - 1 /\ ~IsShared(CacheOf(layer)) /\ CacheOf(layer) < layer + 1
    BY <1>1, CacheOfOwner
  <2> QED
    BY <1>5, <2>1
<1> QED
  BY <1>1, <1>2, <1>5, <1>6, <1>7 DEF AttnOut, RefAttn

\* The reference's layer, from its parts.
LEMMA RefLayerIs ==
  ASSUME NEW l, NEW t
  PROVE  RefLayer(l, t) = LayerOut(l, RefResidual3(l, t),
                                   CpuPle(l, RefResidual3(l, t), Leaf("ple", t, l)))
  BY DEF RefLayer, RefResidual3, RefResidual2, RefAttn

-----------------------------------------------------------------------------
(* The steps *)

\* A submission with its inputs written: the table will be there when it has run.
LEMMA Submits ==
  ASSUME NEW bufs, NEW program, NEW next, NEW table, NEW inputs, Allocated(bufs),
         Submit(bufs, program, next), Program(program, table, inputs),
         \A s \in inputs : bufs[s] = table[s]
  PROVE  /\ act' = bufs /\ pc' = next
         /\ act' # NoBufs /\ Allocated(act')
         /\ IsSequence(cmd') /\ Sound(cmd', table) /\ Holds(cmd', act', table)
<1>1. bufs # NoBufs
  BY BufsAreThere DEF Allocated
<1>2. act' = bufs /\ cmd' = program /\ pc' = next
  BY <1>1 DEF Submit
<1>3. IsSequence(program) /\ Sound(program, table) /\ Holds(program, bufs, table)
  BY Begins
<1> QED
  BY <1>1, <1>2, <1>3

\* No submission is one.
LEMMA NothingSubmitted == IsSequence(<<>>)
<1>1. <<>> \in Seq({})
  OBVIOUS
<1> QED
  BY <1>1 DEF IsSequence

\* The initial states have the invariant.
LEMMA InitStep == Init => IndInv
<1> SUFFICES ASSUME Init
             PROVE  IndInv
  OBVIOUS
<1>1. uploaded \subseteq AllWeights
  BY DEF Init
<1>2. TypeOK
  <2>1. /\ engine \in BOOLEAN /\ act = NoBufs /\ cmd = <<>> /\ pc = "loading" /\ gpu = FALSE
        /\ token = 0 /\ layer = 0 /\ kv = [l \in 0..L - 1 |-> <<>>]
    BY DEF Init
  <2> QED
    BY <1>1, <2>1, Sizes, BoundsAssumption DEF TypeOK, Stages
<1>3. Buffers /\ IsSequence(cmd)
  BY NothingSubmitted DEF Init, Buffers, NoBufs, None
<1>4. RowsBelow(L)
  <2> SUFFICES ASSUME NEW l \in 0..L - 1
               PROVE  kv[l] = IF IsShared(l) THEN <<>>
                              ELSE RefRows(l, IF l < L THEN token ELSE token - 1)
    BY DEF RowsBelow
  <2>1. kv[l] = <<>> /\ token = 0 /\ l < L /\ l \in Nat
    BY Sizes DEF Init
  <2> QED
    BY <2>1, RefRowsEmpty
<1>5. Stage
  BY <1>4 DEF Init, Stage, LoadingStage
<1> QED
  BY <1>2, <1>3, <1>5 DEF IndInv

\* Loading preserves it.
LEMMA LoadStep ==
  ASSUME IndInv, Load
  PROVE  IndInv'
<1>1. pc = "loading" /\ LoadingStage /\ pc' \in {"panicked", "idle"}
  BY DEF IndInv, Stage, Load
<1>2. UNCHANGED <<engine, uploaded, act, cmd, gpu, token, layer, kv>>
  BY DEF Load
<1>3. TypeOK' /\ Buffers' /\ IsSequence(cmd)'
  BY <1>1, <1>2 DEF IndInv, TypeOK, Stages, Buffers, LoadingStage
<1>4. IdleStage' /\ cmd' = <<>>
  BY <1>1, <1>2 DEF IdleStage, LoadingStage, RowsBelow
<1> QED
  BY <1>1, <1>3, <1>4 DEF IndInv, Stage

\* forward() without an engine preserves it.
LEMMA ForwardOnCpuStep ==
  ASSUME IndInv, ForwardOnCpu
  PROVE  IndInv'
<1>1. /\ pc = "idle" /\ cmd = <<>> /\ token \in 0..MaxTokens /\ token < MaxTokens
      /\ MaxTokens \in Nat
  BY BoundsAssumption DEF IndInv, TypeOK, ForwardOnCpu, At
<1>2. UNCHANGED <<engine, uploaded, act, cmd, pc, gpu, layer>> /\ token' = token + 1
  BY DEF ForwardOnCpu
<1>3. /\ kv' = [l \in 0..L - 1 |-> IF IsShared(l) THEN kv[l] ELSE RefRows(l, token')]
      /\ logits' = RefLogits(Leaf("hidden", token', L))
  BY DEF ForwardOnCpu
<1>4. TypeOK' /\ Buffers' /\ IsSequence(cmd)'
  BY <1>1, <1>2, <1>3 DEF IndInv, TypeOK, Buffers
<1>5. \A l \in 0..L - 1 : IsShared(l) => kv[l] = <<>>
  BY <1>1 DEF IndInv, Stage, IdleStage, RowsBelow
<1>6. RowsBelow(L)'
  <2>1. \A l \in 0..L - 1 : l < L
    BY Sizes
  <2> QED
    BY <1>3, <1>5, <2>1 DEF RowsBelow
<1>7. IdleStage'
  BY <1>1, <1>2, <1>3, <1>6 DEF IdleStage
<1> QED
  BY <1>1, <1>2, <1>4, <1>7 DEF IndInv, Stage

\* The beginning of forward_gpu() preserves it.
LEMMA ForwardOnGpuStep ==
  ASSUME IndInv, ForwardOnGpu
  PROVE  IndInv'
<1>1. pc = "idle" /\ cmd = <<>> /\ token \in 0..MaxTokens /\ token < MaxTokens /\ RowsBelow(L)
  BY DEF IndInv, TypeOK, Stage, IdleStage, ForwardOnGpu, At
<1>2. /\ UNCHANGED <<engine, uploaded, act, cmd, gpu, kv>> /\ token' = token + 1 /\ layer' = 0
      /\ hidden' = Leaf("hidden", token', 0) /\ pc' = "qkv"
  BY DEF ForwardOnGpu
<1>3. TypeOK' /\ Buffers' /\ IsSequence(cmd)'
  BY <1>1, <1>2, Sizes, BoundsAssumption DEF IndInv, TypeOK, Stages, Buffers
<1>4. RowsBelow(layer)'
  <2>1. \A l \in 0..L - 1 : l < L /\ ~(l < 0)
    BY Sizes
  <2>2. token + 1 - 1 = token
    BY <1>1
  <2> QED
    BY <1>1, <1>2, <2>1, <2>2 DEF RowsBelow
<1>5. QkvStage'
  BY <1>1, <1>2, <1>4, Sizes DEF QkvStage, AtLayer
<1> QED
  BY <1>2, <1>3, <1>5 DEF IndInv, Stage

\* Submit 1 preserves it.
LEMMA QkvOnGpuStep ==
  ASSUME IndInv, QkvOnGpu
  PROVE  IndInv'
<1>1. /\ pc = "qkv" /\ cmd = <<>> /\ AtLayer(layer) /\ layer \in Nat
      /\ act # NoBufs => Allocated(act)
  BY Sizes DEF IndInv, Buffers, Stage, QkvStage, QkvOnGpu, At, AtLayer
<1>2. PICK bufs \in InitActBufs \ {NoBufs} :
        Submit(Write(bufs, "RAW_HIDDEN", hidden, H), QkvProgram(layer), "attend")
  BY DEF QkvOnGpu
<1>3. UNCHANGED <<engine, uploaded, token, layer, hidden, kv>> /\ gpu' = TRUE
  BY DEF QkvOnGpu
<1>4. Allocated(bufs)
  BY <1>1, <1>2, InitBufs
<1> DEFINE written == Write(bufs, "RAW_HIDDEN", hidden, H)
           T == QkvTable
<1>5. "RAW_HIDDEN" \in Slots \ Scalars
  BY SlotSizes DEF HiddenSlots, Scalars
<1>6. Allocated(written) /\ written["RAW_HIDDEN"] = <<hidden, H>>
  BY <1>4, <1>5, Writes
<1>7. Program(QkvProgram(layer), T, {"RAW_HIDDEN"})
  BY <1>1, FusedQkvSound, SplitQkvSound DEF QkvTable
<1>8. T["RAW_HIDDEN"] = <<hidden, H>>
  BY DEF QkvTable, FusedQkvTable, SplitQkvTable
<1>9. T' = T
  BY <1>3 DEF QkvTable, HasFusedQkv
<1> HIDE DEF written, T
<1>10. Submit(written, QkvProgram(layer), "attend")
  BY <1>2 DEF written
<1>11. /\ pc' = "attend" /\ act' # NoBufs /\ Allocated(act')
       /\ IsSequence(cmd') /\ Sound(cmd', T) /\ Holds(cmd', act', T)
  BY <1>6, <1>7, <1>8, <1>10, Submits
<1>12. TypeOK' /\ Buffers'
  BY <1>3, <1>11 DEF IndInv, TypeOK, Stages, Buffers, Allocated
<1>13. Running(QkvTable)'
  BY <1>9, <1>11 DEF Running, T
<1>14. AttendStage'
  BY <1>1, <1>3, <1>13 DEF AttendStage, AtLayer, RowsBelow
<1> QED
  BY <1>11, <1>12, <1>14 DEF IndInv, Stage

\* A layer on the CPU preserves it.
LEMMA QkvOnCpuStep ==
  ASSUME IndInv, QkvOnCpu
  PROVE  IndInv'
<1>1. pc = "qkv" /\ cmd = <<>> /\ AtLayer(layer)
  BY DEF IndInv, Stage, QkvStage, QkvOnCpu, At
<1>2. /\ UNCHANGED <<engine, uploaded, act, cmd, token, layer, hidden, kv>>
      /\ gpu' = FALSE /\ pc' = "attend"
  BY DEF QkvOnCpu
<1>3. TypeOK' /\ Buffers' /\ IsSequence(cmd)'
  BY <1>1, <1>2 DEF IndInv, TypeOK, Stages, Buffers
<1>4. AttendStage'
  BY <1>1, <1>2 DEF AttendStage, AtLayer, RowsBelow
<1> QED
  BY <1>2, <1>3, <1>4 DEF IndInv, Stage

\* What the thread has read and cached when it goes on after attention.
LEMMA Attended ==
  ASSUME IndInv, At("attend"), kv' = Appended,
         UNCHANGED <<engine, uploaded, token, layer, hidden>>
  PROVE  /\ AttnOut = RefAttn(layer, token) /\ layer \in Nat /\ AtLayer(layer + 1)'
         /\ gpu => Allocated(act)
         /\ DOMAIN kv' = 0..L - 1
<1>1. /\ pc = "attend" /\ cmd = <<>> /\ AtLayer(layer) /\ gpu \in BOOLEAN
      /\ gpu => Running(QkvTable)
      /\ DOMAIN kv = 0..L - 1
  BY DEF IndInv, TypeOK, Stage, AttendStage, At
<1>2. AttnOut = RefAttn(layer, token) /\ DOMAIN Appended = 0..L - 1
  BY <1>1, Attention
<1>3. \A l \in 0..L - 1 : Appended[l] = IF IsShared(l) THEN <<>>
                          ELSE RefRows(l, IF l < layer + 1 THEN token ELSE token - 1)
  BY <1>1, Attention
<1>4. AtLayer(layer + 1)'
  BY <1>1, <1>3 DEF AtLayer, RowsBelow
<1>5. layer \in Nat
  BY <1>1, Sizes DEF AtLayer
<1> QED
  BY <1>2, <1>4, <1>5 DEF IndInv, Buffers

\* Attention and the fused submission preserve it.
LEMMA AttendThenFusedStep ==
  ASSUME IndInv, AttendThenFused
  PROVE  IndInv'
<1>1. /\ At("attend") /\ gpu = TRUE /\ kv' = Appended
      /\ UNCHANGED <<engine, uploaded, gpu, token, layer, hidden>>
  BY DEF AttendThenFused, IndInv, TypeOK
<1>2. /\ AttnOut = RefAttn(layer, token) /\ layer \in Nat /\ AtLayer(layer + 1)'
      /\ Allocated(act) /\ DOMAIN kv' = 0..L - 1
  BY <1>1, Attended
<1> DEFINE ple == Leaf("ple", token, layer)
           b1 == Write(act, "O_IN", AttnOut, QDim(layer))
           b2 == Write(b1, "RESIDUAL", hidden, H)
           b3 == Write(b2, "PLE_LAYER", ple, Config.ple_dim)
           T == FusedTable(layer, hidden, RefAttn(layer, token), ple)
<1>3. {"O_IN", "RESIDUAL", "PLE_LAYER"} \subseteq Slots \ Scalars
  BY SlotSizes DEF HiddenSlots, Scalars
<1>4. /\ T["O_IN"] = <<AttnOut, QDim(layer)>> /\ T["RESIDUAL"] = <<hidden, H>>
      /\ T["PLE_LAYER"] = <<ple, Config.ple_dim>>
  BY <1>2 DEF FusedTable
<1>5. Program(FusedProgram(layer), T, {"O_IN", "RESIDUAL", "PLE_LAYER"})
  BY <1>2, FusedSound
<1>6. T' = T
  BY <1>1
<1>7. Submit(b3, FusedProgram(layer), "fused")
  BY DEF AttendThenFused, FusedInputs
<1> HIDE DEF T
<1>8. Allocated(b1) /\ b1["O_IN"] = <<AttnOut, QDim(layer)>>
  BY <1>2, <1>3, Writes
<1> HIDE DEF b1
<1>9. Allocated(b2) /\ b2["RESIDUAL"] = <<hidden, H>> /\ b2["O_IN"] = b1["O_IN"]
  BY <1>3, <1>8, Writes
<1> HIDE DEF b2
<1>10. /\ Allocated(b3) /\ b3["PLE_LAYER"] = <<ple, Config.ple_dim>>
       /\ b3["O_IN"] = b2["O_IN"] /\ b3["RESIDUAL"] = b2["RESIDUAL"]
  BY <1>3, <1>9, Writes
<1> HIDE DEF b3
<1>11. \A s \in {"O_IN", "RESIDUAL", "PLE_LAYER"} : b3[s] = T[s]
  BY <1>4, <1>8, <1>9, <1>10
<1>12. /\ pc' = "fused" /\ act' # NoBufs /\ Allocated(act')
       /\ IsSequence(cmd') /\ Sound(cmd', T) /\ Holds(cmd', act', T)
  BY <1>5, <1>7, <1>10, <1>11, Submits
<1>13. TypeOK' /\ Buffers'
  BY <1>1, <1>2, <1>12 DEF IndInv, TypeOK, Stages, Buffers, Allocated
<1>14. FusedStage'
  BY <1>2, <1>6, <1>12 DEF FusedStage, Running, T
<1> QED
  BY <1>12, <1>13, <1>14 DEF IndInv, Stage

\* Attention and o_proj on the GPU preserve it.
LEMMA AttendThenOProjStep ==
  ASSUME IndInv, AttendThenOProj
  PROVE  IndInv'
<1>1. /\ At("attend") /\ gpu = TRUE /\ kv' = Appended /\ out' = Borrowed("O_OUT")
      /\ UNCHANGED <<engine, uploaded, gpu, token, layer, hidden>>
  BY DEF AttendThenOProj, IndInv, TypeOK
<1>2. /\ AttnOut = RefAttn(layer, token) /\ layer \in Nat /\ AtLayer(layer + 1)'
      /\ Allocated(act) /\ DOMAIN kv' = 0..L - 1
  BY <1>1, Attended
<1> DEFINE bufs == Write(act, "O_IN", AttnOut, QDim(layer))
           T == OProjTable(layer, RefAttn(layer, token))
<1>3. "O_IN" \in Slots \ Scalars
  BY SlotSizes DEF Scalars
<1>4. T["O_IN"] = <<AttnOut, QDim(layer)>>
  BY <1>2 DEF OProjTable
<1>5. Program(OProjProgram(layer), T, {"O_IN"})
  BY <1>2, OProjSound
<1>6. T' = T
  BY <1>1
<1>7. Submit(bufs, OProjProgram(layer), "ffn")
  BY DEF AttendThenOProj
<1> HIDE DEF T
<1>8. Allocated(bufs) /\ bufs["O_IN"] = <<AttnOut, QDim(layer)>>
  BY <1>2, <1>3, Writes
<1> HIDE DEF bufs
<1>9. /\ pc' = "ffn" /\ act' # NoBufs /\ Allocated(act')
      /\ IsSequence(cmd') /\ Sound(cmd', T) /\ Holds(cmd', act', T)
  BY <1>4, <1>5, <1>7, <1>8, Submits
<1>10. TypeOK' /\ Buffers'
  BY <1>1, <1>2, <1>9 DEF IndInv, TypeOK, Stages, Buffers, Allocated
<1>11. FfnStage'
  BY <1>1, <1>2, <1>6, <1>9 DEF FfnStage, Delivered, Running, T
<1> QED
  BY <1>9, <1>10, <1>11 DEF IndInv, Stage

\* Attention and o_proj on the CPU preserve it.
LEMMA AttendThenCpuStep ==
  ASSUME IndInv, AttendThenCpu
  PROVE  IndInv'
<1>1. /\ At("attend") /\ kv' = Appended /\ out' = Owned(Matvec(W(layer, "o_proj"), AttnOut))
      /\ pc' = "ffn" /\ UNCHANGED <<engine, uploaded, act, cmd, gpu, token, layer, hidden>>
  BY DEF AttendThenCpu
<1>2. /\ AttnOut = RefAttn(layer, token) /\ AtLayer(layer + 1)' /\ DOMAIN kv' = 0..L - 1
  BY <1>1, Attended
<1>3. TypeOK' /\ Buffers' /\ IsSequence(cmd)'
  BY <1>1, <1>2 DEF IndInv, TypeOK, Stages, Buffers, At
<1>4. FfnStage'
  BY <1>1, <1>2 DEF FfnStage, Delivered, At
<1> QED
  BY <1>1, <1>3, <1>4 DEF IndInv, Stage

\* The product is there once the thread goes on.
LEMMA ProductIs ==
  ASSUME NEW value, NEW slot, NEW table, cmd = <<>>, Delivered(value, slot, table),
         slot \in DOMAIN table, table[slot] = <<value, H>>
  PROVE  Product = value
<1>1. CASE out = Owned(value)
  BY <1>1 DEF Product, Owned
<1>2. CASE Running(table) /\ out = Borrowed(slot)
  <2>1. act[slot] = <<value, H>>
    BY <1>2, Finished
  <2> QED
    BY <1>2, <2>1 DEF Product, Borrowed, Read
<1> QED
  BY <1>1, <1>2 DEF Delivered

\* The residual after attention is that of the reference.
LEMMA FfnResidual ==
  ASSUME IndInv, At("ffn"), residual' = Residual2(layer, hidden, Product)
  PROVE  residual' = RefResidual2(layer, token) /\ AtLayer(layer + 1) /\ layer \in Nat
<1> DEFINE at == RefAttn(layer, token)
           T == OProjTable(layer, at)
<1>1. /\ AtLayer(layer + 1) /\ cmd = <<>>
      /\ Delivered(Matvec(W(layer, "o_proj"), at), "O_OUT", T)
  BY DEF IndInv, Stage, FfnStage, At
<1>2. "O_OUT" \in DOMAIN T /\ T["O_OUT"] = <<Matvec(W(layer, "o_proj"), at), H>>
  BY DEF OProjTable
<1> HIDE DEF T
<1>3. Product = Matvec(W(layer, "o_proj"), at)
  BY <1>1, <1>2, ProductIs
<1> QED
  BY <1>1, <1>3, Sizes DEF RefResidual2, AtLayer

\* The FFN on the GPU preserves it.
LEMMA FfnOnGpuStep ==
  ASSUME IndInv, FfnOnGpu
  PROVE  IndInv'
<1>1. /\ At("ffn") /\ gpu = TRUE /\ residual' = Residual2(layer, hidden, Product)
      /\ out' = Borrowed("DOWN") /\ UNCHANGED <<engine, uploaded, gpu, token, layer, hidden, kv>>
  BY DEF FfnOnGpu, IndInv, TypeOK
<1>2. /\ residual' = RefResidual2(layer, token) /\ layer \in Nat /\ AtLayer(layer + 1)'
      /\ Allocated(act) /\ cmd = <<>>
  BY <1>1, FfnResidual DEF AtLayer, RowsBelow, At, IndInv, Buffers
<1>3. CASE ~Uploaded({"up_proj"})
  <2>1. pc' = "panicked" /\ UNCHANGED <<act, cmd>>
    BY <1>3 DEF FfnOnGpu
  <2>2. TypeOK' /\ Buffers' /\ IsSequence(cmd)'
    BY <1>1, <1>2, <2>1 DEF IndInv, TypeOK, Stages, Buffers
  <2> QED
    BY <1>2, <2>1, <2>2 DEF IndInv, Stage
<1>4. CASE Uploaded({"up_proj"})
  <2> DEFINE r == RefResidual2(layer, token)
             bufs == Write(act, "FFIN", FfIn(layer, r), H)
             T == FfnTable(layer, r)
  <2>1. "FFIN" \in Slots \ Scalars
    BY SlotSizes DEF HiddenSlots, Scalars
  <2>2. T["FFIN"] = <<FfIn(layer, r), H>>
    BY DEF FfnTable
  <2>3. Program(FfnProgram(layer), T, {"FFIN"})
    BY <1>2, FfnSound
  <2>4. FfnTable(layer', residual') = T
    BY <1>1, <1>2
  <2>5. Submit(bufs, FfnProgram(layer), "ple")
    BY <1>2, <1>4 DEF FfnOnGpu
  <2> HIDE DEF T
  <2>6. Allocated(bufs) /\ bufs["FFIN"] = <<FfIn(layer, r), H>>
    BY <1>2, <2>1, Writes
  <2> HIDE DEF bufs
  <2>7. /\ pc' = "ple" /\ act' # NoBufs /\ Allocated(act')
        /\ IsSequence(cmd') /\ Sound(cmd', T) /\ Holds(cmd', act', T)
    BY <2>2, <2>3, <2>5, <2>6, Submits
  <2>8. TypeOK' /\ Buffers'
    BY <1>1, <2>7 DEF IndInv, TypeOK, Stages, Buffers, Allocated
  <2>9. PleStage'
    BY <1>1, <1>2, <2>4, <2>7 DEF PleStage, Delivered, Running
  <2> QED
    BY <2>7, <2>8, <2>9 DEF IndInv, Stage
<1> QED
  BY <1>3, <1>4

\* The FFN on the CPU preserves it.
LEMMA FfnOnCpuStep ==
  ASSUME IndInv, FfnOnCpu
  PROVE  IndInv'
<1>1. /\ At("ffn") /\ residual' = Residual2(layer, hidden, Product)
      /\ out' = Owned(CpuFfn(layer, residual')) /\ pc' = "ple"
      /\ UNCHANGED <<engine, uploaded, act, cmd, gpu, token, layer, hidden, kv>>
  BY DEF FfnOnCpu
<1>2. residual' = RefResidual2(layer, token) /\ AtLayer(layer + 1)' /\ cmd = <<>>
  BY <1>1, FfnResidual DEF AtLayer, RowsBelow, At
<1>3. TypeOK' /\ Buffers' /\ IsSequence(cmd)'
  BY <1>1, <1>2 DEF IndInv, TypeOK, Stages, Buffers
<1>4. PleStage'
  BY <1>1, <1>2 DEF PleStage, Delivered
<1> QED
  BY <1>1, <1>3, <1>4 DEF IndInv, Stage

\* The residual after the FFN is that of the reference.
LEMMA PleResidual ==
  ASSUME IndInv, At("ple"), residual' = Residual3(layer, residual, Product)
  PROVE  residual' = RefResidual3(layer, token) /\ AtLayer(layer + 1) /\ layer \in Nat
<1> DEFINE T == FfnTable(layer, residual)
<1>1. /\ AtLayer(layer + 1) /\ cmd = <<>> /\ residual = RefResidual2(layer, token)
      /\ Delivered(CpuFfn(layer, residual), "DOWN", T)
  BY DEF IndInv, Stage, PleStage, At
<1>2. "DOWN" \in DOMAIN T /\ T["DOWN"] = <<CpuFfn(layer, residual), H>>
  BY DEF FfnTable
<1> HIDE DEF T
<1>3. Product = CpuFfn(layer, residual)
  BY <1>1, <1>2, ProductIs
<1> QED
  BY <1>1, <1>3, Sizes DEF RefResidual3, AtLayer

\* The per-layer embedding on the GPU preserves it.
LEMMA PleOnGpuStep ==
  ASSUME IndInv, PleOnGpu
  PROVE  IndInv'
<1>1. /\ At("ple") /\ gpu = TRUE /\ residual' = Residual3(layer, residual, Product)
      /\ out' = Borrowed("PLE_C")
      /\ UNCHANGED <<engine, uploaded, gpu, token, layer, hidden, kv>>
  BY DEF PleOnGpu, IndInv, TypeOK
<1>2. /\ residual' = RefResidual3(layer, token) /\ layer \in Nat /\ AtLayer(layer + 1)'
      /\ Allocated(act) /\ cmd = <<>>
  BY <1>1, PleResidual DEF AtLayer, RowsBelow, At, IndInv, Buffers
<1> DEFINE r == RefResidual3(layer, token)
           ple == Leaf("ple", token, layer)
           b1 == Write(act, "FFIN", r, H)
           b2 == Write(b1, "PLE_LAYER", ple, Config.ple_dim)
           T == PleTable(layer, r, ple)
<1>3. {"FFIN", "PLE_LAYER"} \subseteq Slots \ Scalars
  BY SlotSizes DEF HiddenSlots, Scalars
<1>4. T["FFIN"] = <<r, H>> /\ T["PLE_LAYER"] = <<ple, Config.ple_dim>>
  BY DEF PleTable
<1>5. Program(PleProgram(layer, "FFIN"), T, {"FFIN", "PLE_LAYER"})
  BY <1>2, PleSound
<1>6. PleTable(layer', residual', Leaf("ple", token', layer')) = T
  BY <1>1, <1>2
<1>7. Submit(b2, PleProgram(layer, "FFIN"), "last")
  BY <1>2 DEF PleOnGpu
<1> HIDE DEF T
<1>8. Allocated(b1) /\ b1["FFIN"] = <<r, H>>
  BY <1>2, <1>3, Writes
<1> HIDE DEF b1
<1>9. /\ Allocated(b2) /\ b2["PLE_LAYER"] = <<ple, Config.ple_dim>>
      /\ b2["FFIN"] = b1["FFIN"]
  BY <1>3, <1>8, Writes
<1> HIDE DEF b2
<1>10. \A s \in {"FFIN", "PLE_LAYER"} : b2[s] = T[s]
  BY <1>4, <1>8, <1>9
<1>11. /\ pc' = "last" /\ act' # NoBufs /\ Allocated(act')
       /\ IsSequence(cmd') /\ Sound(cmd', T) /\ Holds(cmd', act', T)
  BY <1>5, <1>7, <1>9, <1>10, Submits
<1>12. TypeOK' /\ Buffers'
  BY <1>1, <1>11 DEF IndInv, TypeOK, Stages, Buffers, Allocated
<1>13. LastStage'
  BY <1>1, <1>2, <1>6, <1>11 DEF LastStage, Delivered, Running
<1> QED
  BY <1>11, <1>12, <1>13 DEF IndInv, Stage

\* The per-layer embedding on the CPU preserves it.
LEMMA PleOnCpuStep ==
  ASSUME IndInv, PleOnCpu
  PROVE  IndInv'
<1>1. /\ At("ple") /\ residual' = Residual3(layer, residual, Product)
      /\ out' = Owned(CpuPle(layer, residual', Leaf("ple", token, layer))) /\ pc' = "last"
      /\ UNCHANGED <<engine, uploaded, act, cmd, gpu, token, layer, hidden, kv>>
  BY DEF PleOnCpu
<1>2. residual' = RefResidual3(layer, token) /\ AtLayer(layer + 1)' /\ cmd = <<>>
  BY <1>1, PleResidual DEF AtLayer, RowsBelow, At
<1>3. TypeOK' /\ Buffers' /\ IsSequence(cmd)'
  BY <1>1, <1>2 DEF IndInv, TypeOK, Stages, Buffers
<1>4. LastStage'
  BY <1>1, <1>2 DEF LastStage, Delivered
<1> QED
  BY <1>1, <1>3, <1>4 DEF IndInv, Stage

\* The end of a layer preserves it.
LEMMA EndLayerStep ==
  ASSUME IndInv, EndLayer
  PROVE  IndInv'
<1>1. /\ pc \in {"fused", "last"} /\ cmd = <<>> /\ layer' = layer + 1
      /\ pc' = IF layer' = L THEN "head" ELSE "qkv"
      /\ UNCHANGED <<engine, uploaded, act, cmd, gpu, token, kv>>
  BY DEF EndLayer, At
<1>2. AtLayer(layer + 1)
  BY <1>1 DEF IndInv, Stage, FusedStage, LastStage
<1> DEFINE value == IF pc = "fused" THEN Read(act, "HIDDEN3_FINAL", H)
                    ELSE LayerOut(layer, residual, Product)
           ple == Leaf("ple", token, layer)
<1>3. value = RefLayer(layer, token)
  <2>1. CASE pc = "fused"
    <3> DEFINE T == FusedTable(layer, hidden, RefAttn(layer, token), ple)
    <3>1. Running(T)
      BY <2>1 DEF IndInv, Stage, FusedStage
    <3>2. "HIDDEN3_FINAL" \in DOMAIN T /\ T["HIDDEN3_FINAL"] = <<RefLayer(layer, token), H>>
      <4>1. hidden = Leaf("hidden", token, layer)
        BY <1>2 DEF AtLayer
      <4> QED
        BY <4>1, RefLayerIs DEF FusedTable, RefResidual3, RefResidual2
    <3> HIDE DEF T
    <3>3. act["HIDDEN3_FINAL"] = <<RefLayer(layer, token), H>>
      BY <1>1, <3>1, <3>2, Finished
    <3> QED
      BY <2>1, <3>3 DEF Read
  <2>2. CASE pc = "last"
    <3> DEFINE T == PleTable(layer, residual, ple)
               c == CpuPle(layer, residual, ple)
    <3>1. residual = RefResidual3(layer, token) /\ Delivered(c, "PLE_C", T)
      BY <2>2 DEF IndInv, Stage, LastStage
    <3>2. "PLE_C" \in DOMAIN T /\ T["PLE_C"] = <<c, H>>
      BY DEF PleTable
    <3> HIDE DEF T, c
    <3>3. Product = c
      BY <1>1, <3>1, <3>2, ProductIs
    <3> QED
      BY <2>2, <3>1, <3>3, RefLayerIs DEF c
  <2> QED
    BY <1>1, <2>1, <2>2
<1>4. hidden' = Leaf("hidden", token, layer + 1)
  BY <1>3 DEF EndLayer, Named
<1>5. /\ layer \in 0..L - 1 /\ layer + 1 \in 0..L
      /\ layer + 1 # L => layer + 1 \in 0..L - 1
      /\ token \in Nat \ {0} /\ RowsBelow(layer + 1)
  BY <1>2, Sizes DEF AtLayer
<1>6. TypeOK' /\ Buffers' /\ IsSequence(cmd)'
  BY <1>1, <1>5 DEF IndInv, TypeOK, Stages, Buffers
<1>7. CASE layer + 1 = L
  <2>1. HeadStage' /\ pc' = "head"
    BY <1>1, <1>4, <1>5, <1>7 DEF HeadStage, AtHead, RowsBelow
  <2> QED
    BY <1>6, <2>1 DEF IndInv, Stage
<1>8. CASE layer + 1 # L
  <2>1. QkvStage' /\ pc' = "qkv"
    BY <1>1, <1>4, <1>5, <1>8 DEF QkvStage, AtLayer, RowsBelow
  <2> QED
    BY <1>6, <2>1 DEF IndInv, Stage
<1> QED
  BY <1>7, <1>8

\* The LM head on the GPU preserves it.
LEMMA HeadOnGpuStep ==
  ASSUME IndInv, HeadOnGpu
  PROVE  IndInv'
<1>1. /\ AtHead /\ cmd = <<>>
      /\ act # NoBufs => Allocated(act)
      /\ UNCHANGED <<engine, uploaded, gpu, token, layer, hidden, kv>>
  BY DEF IndInv, Buffers, Stage, HeadStage, HeadOnGpu, At
<1>2. PICK bufs \in InitActBufs \ {NoBufs} :
        Submit(Write(bufs, "RAW_HIDDEN", hidden, H), HeadProgram, "logits")
  BY DEF HeadOnGpu, HeadBufs
<1>3. Allocated(bufs)
  BY <1>1, <1>2, InitBufs
<1> DEFINE written == Write(bufs, "RAW_HIDDEN", hidden, H)
           T == HeadTable(hidden)
<1>4. "RAW_HIDDEN" \in Slots \ Scalars
  BY SlotSizes DEF HiddenSlots, Scalars
<1>5. Allocated(written) /\ written["RAW_HIDDEN"] = <<hidden, H>>
  BY <1>3, <1>4, Writes
<1>6. Program(HeadProgram, T, {"RAW_HIDDEN", "INV_CAP", "CAP"})
  BY HeadSound
<1>7. T["RAW_HIDDEN"] = <<hidden, H>> /\ T["INV_CAP"] = <<InvCap, 1>> /\ T["CAP"] = <<Cap, 1>>
  BY DEF HeadTable
<1>8. T' = T
  BY <1>1
<1> HIDE DEF written, T
<1>9. Submit(written, HeadProgram, "logits")
  BY <1>2 DEF written
<1>10. \A s \in {"RAW_HIDDEN", "INV_CAP", "CAP"} : written[s] = T[s]
  BY <1>5, <1>7 DEF Allocated
<1>11. /\ pc' = "logits" /\ act' # NoBufs /\ Allocated(act')
       /\ IsSequence(cmd') /\ Sound(cmd', T) /\ Holds(cmd', act', T)
  BY <1>5, <1>6, <1>9, <1>10, Submits
<1>12. TypeOK' /\ Buffers'
  BY <1>1, <1>11 DEF IndInv, TypeOK, Stages, Buffers, Allocated
<1>13. LogitsStage'
  BY <1>1, <1>8, <1>11 DEF LogitsStage, AtHead, RowsBelow, Running, T
<1> QED
  BY <1>11, <1>12, <1>13 DEF IndInv, Stage

\* The LM head on the CPU preserves it.
LEMMA HeadOnCpuStep ==
  ASSUME IndInv, HeadOnCpu
  PROVE  IndInv'
<1>1. /\ AtHead /\ cmd = <<>> /\ logits' = RefLogits(hidden) /\ pc' = "idle"
      /\ UNCHANGED <<engine, uploaded, act, cmd, gpu, token, layer, hidden, kv>>
  BY DEF IndInv, Stage, HeadStage, HeadOnCpu, At
<1>2. TypeOK' /\ Buffers' /\ IsSequence(cmd)'
  BY <1>1 DEF IndInv, TypeOK, Stages, Buffers
<1>3. IdleStage'
  BY <1>1 DEF IdleStage, AtHead, RowsBelow
<1> QED
  BY <1>1, <1>2, <1>3 DEF IndInv, Stage

\* The end of forward_gpu() preserves it.
LEMMA EndForwardStep ==
  ASSUME IndInv, EndForward
  PROVE  IndInv'
<1>1. /\ AtHead /\ cmd = <<>> /\ Running(HeadTable(hidden)) /\ pc' = "idle"
      /\ logits' = Read(act, "LOGIT_FINAL", Config.vocab_size)
      /\ UNCHANGED <<engine, uploaded, act, cmd, gpu, token, layer, hidden, kv>>
  BY DEF IndInv, Stage, LogitsStage, EndForward, At
<1> DEFINE T == HeadTable(hidden)
<1>2. /\ "LOGIT_FINAL" \in DOMAIN T
      /\ T["LOGIT_FINAL"] = <<RefLogits(hidden), Config.vocab_size>>
  BY DEF HeadTable
<1> HIDE DEF T
<1>3. act["LOGIT_FINAL"] = T["LOGIT_FINAL"]
  BY <1>1, <1>2, Finished DEF T
<1>4. logits' = RefLogits(hidden)
  BY <1>1, <1>2, <1>3 DEF Read
<1>5. TypeOK' /\ Buffers' /\ IsSequence(cmd)'
  BY <1>1 DEF IndInv, TypeOK, Stages, Buffers
<1>6. IdleStage'
  BY <1>1, <1>4 DEF IdleStage, AtHead, RowsBelow
<1> QED
  BY <1>1, <1>5, <1>6 DEF IndInv, Stage


\* A step of the GPU leaves everything but the buffers and what has still to execute.
LEMMA GpuStepInv ==
  ASSUME IndInv, Gpu
  PROVE  IndInv'
<1>1. /\ UNCHANGED <<engine, uploaded, pc, gpu, token, layer, hidden, out, residual, kv, logits>>
      /\ cmd # <<>> /\ Allocated(act)
  BY DEF Gpu, Execute, IndInv, Buffers
<1>2. pc \in {"attend", "fused", "ffn", "ple", "last", "logits"}
  BY <1>1 DEF IndInv, TypeOK
<1> DEFINE Kept(table) ==
      /\ Sound(cmd', table) /\ Holds(cmd', act', table)
      /\ IsSequence(cmd') /\ Allocated(act') /\ act' # NoBufs
<1>3. ASSUME NEW table, Running(table)
      PROVE  Kept(table)
  <2>1. /\ IsSequence(cmd') /\ Sound(cmd', table) /\ Holds(cmd', act', table)
        /\ DOMAIN act' = Slots /\ SameScalars(act, act')
    BY <1>1, <1>3, GpuStep DEF IndInv, Allocated
  <2>2. Allocated(act')
    BY <1>1, <2>1 DEF Allocated, SameScalars, Scalars
  <2> QED
    BY <2>1, <2>2, BufsAreThere DEF Allocated
<1>4. ASSUME IsSequence(cmd'), Allocated(act'), act' # NoBufs, Stage'
      PROVE  IndInv'
  BY <1>1, <1>2, <1>4 DEF IndInv, TypeOK, Buffers, Allocated
<1>5. AtLayer(layer)' = AtLayer(layer) /\ AtLayer(layer + 1)' = AtLayer(layer + 1)
  BY <1>1 DEF AtLayer, RowsBelow
<1> HIDE DEF Kept
<1>6. CASE pc = "attend"
  <2>1. gpu /\ Running(QkvTable) /\ AtLayer(layer)
    BY <1>1, <1>6 DEF IndInv, TypeOK, Stage, AttendStage
  <2>2. Kept(QkvTable)
    BY <1>3, <2>1
  <2>3. QkvTable' = QkvTable
    BY <1>1 DEF QkvTable, HasFusedQkv
  <2>4. AttendStage'
    BY <1>1, <1>5, <2>1, <2>2, <2>3 DEF AttendStage, Running, Kept
  <2> QED
    BY <1>1, <1>4, <1>6, <2>2, <2>4 DEF Stage, Kept
<1>7. CASE pc = "fused"
  <2> DEFINE T == FusedTable(layer, hidden, RefAttn(layer, token), Leaf("ple", token, layer))
  <2>1. Running(T) /\ AtLayer(layer + 1)
    BY <1>7 DEF IndInv, Stage, FusedStage
  <2>2. T' = T
    BY <1>1
  <2> HIDE DEF T
  <2>3. Kept(T)
    BY <1>3, <2>1
  <2>4. FusedStage'
    BY <1>5, <2>1, <2>2, <2>3 DEF FusedStage, Running, Kept, T
  <2> QED
    BY <1>1, <1>4, <1>7, <2>3, <2>4 DEF Stage, Kept
<1>8. CASE pc = "ffn"
  <2> DEFINE at == RefAttn(layer, token)
             T == OProjTable(layer, at)
  <2>1. Running(T) /\ AtLayer(layer + 1) /\ gpu /\ out = Borrowed("O_OUT")
    BY <1>1, <1>8 DEF IndInv, Stage, FfnStage, Delivered
  <2>2. T' = T
    BY <1>1
  <2> HIDE DEF T
  <2>3. Kept(T)
    BY <1>3, <2>1
  <2>4. FfnStage'
    BY <1>1, <1>5, <2>1, <2>2, <2>3 DEF FfnStage, Delivered, Running, Kept, T
  <2> QED
    BY <1>1, <1>4, <1>8, <2>3, <2>4 DEF Stage, Kept
<1>9. CASE pc = "ple"
  <2> DEFINE T == FfnTable(layer, residual)
  <2>1. /\ Running(T) /\ AtLayer(layer + 1) /\ gpu /\ out = Borrowed("DOWN")
        /\ residual = RefResidual2(layer, token)
    BY <1>1, <1>9 DEF IndInv, Stage, PleStage, Delivered
  <2>2. T' = T
    BY <1>1
  <2> HIDE DEF T
  <2>3. Kept(T)
    BY <1>3, <2>1
  <2>4. PleStage'
    BY <1>1, <1>5, <2>1, <2>2, <2>3 DEF PleStage, Delivered, Running, Kept, T
  <2> QED
    BY <1>1, <1>4, <1>9, <2>3, <2>4 DEF Stage, Kept
<1>10. CASE pc = "last"
  <2> DEFINE T == PleTable(layer, residual, Leaf("ple", token, layer))
  <2>1. /\ Running(T) /\ AtLayer(layer + 1) /\ gpu /\ out = Borrowed("PLE_C")
        /\ residual = RefResidual3(layer, token)
    BY <1>1, <1>10 DEF IndInv, Stage, LastStage, Delivered
  <2>2. T' = T
    BY <1>1
  <2> HIDE DEF T
  <2>3. Kept(T)
    BY <1>3, <2>1
  <2>4. LastStage'
    BY <1>1, <1>5, <2>1, <2>2, <2>3 DEF LastStage, Delivered, Running, Kept, T
  <2> QED
    BY <1>1, <1>4, <1>10, <2>3, <2>4 DEF Stage, Kept
<1>11. CASE pc = "logits"
  <2> DEFINE T == HeadTable(hidden)
  <2>1. Running(T) /\ AtHead
    BY <1>11 DEF IndInv, Stage, LogitsStage
  <2>2. T' = T
    BY <1>1
  <2> HIDE DEF T
  <2>3. Kept(T)
    BY <1>3, <2>1
  <2>4. LogitsStage'
    BY <1>1, <2>1, <2>2, <2>3 DEF LogitsStage, AtHead, RowsBelow, Running, Kept, T
  <2> QED
    BY <1>1, <1>4, <1>11, <2>3, <2>4 DEF Stage, Kept
<1> QED
  BY <1>2, <1>6, <1>7, <1>8, <1>9, <1>10, <1>11

\* A step that changes nothing preserves it.
LEMMA StutterStep ==
  ASSUME IndInv, UNCHANGED vars
  PROVE  IndInv'
<1>1. UNCHANGED <<engine, uploaded, act, cmd, pc, gpu, token, layer, hidden, out, residual,
                  kv, logits>>
  BY DEF vars
<1>2. TypeOK' /\ Buffers' /\ IsSequence(cmd)'
  BY <1>1 DEF IndInv, TypeOK, Buffers
<1>3. UNCHANGED <<LoadingStage, IdleStage, QkvStage, AttendStage, FusedStage, FfnStage,
                  PleStage, LastStage, HeadStage, LogitsStage>>
  BY <1>1 DEF LoadingStage, IdleStage, QkvStage, AttendStage, FusedStage, FfnStage, PleStage,
              LastStage, HeadStage, LogitsStage, AtHead, AtLayer, RowsBelow, Running, Delivered,
              QkvTable, HasFusedQkv
<1>4. Stage'
  BY <1>1, <1>3 DEF IndInv, Stage
<1> QED
  BY <1>2, <1>4 DEF IndInv

\* IndInv is inductive.
THEOREM Inductive == Spec => []IndInv
<1>1. Init => IndInv
  BY InitStep
<1>2. IndInv /\ [Next]_vars => IndInv'
  <2> SUFFICES ASSUME IndInv, [Next]_vars
               PROVE  IndInv'
    OBVIOUS
  <2>1. CASE Load
    BY <2>1, LoadStep
  <2>2. CASE ForwardOnCpu
    BY <2>2, ForwardOnCpuStep
  <2>3. CASE ForwardOnGpu
    BY <2>3, ForwardOnGpuStep
  <2>4. CASE QkvOnGpu
    BY <2>4, QkvOnGpuStep
  <2>5. CASE QkvOnCpu
    BY <2>5, QkvOnCpuStep
  <2>6. CASE AttendThenFused
    BY <2>6, AttendThenFusedStep
  <2>7. CASE AttendThenOProj
    BY <2>7, AttendThenOProjStep
  <2>8. CASE AttendThenCpu
    BY <2>8, AttendThenCpuStep
  <2>9. CASE FfnOnGpu
    BY <2>9, FfnOnGpuStep
  <2>10. CASE FfnOnCpu
    BY <2>10, FfnOnCpuStep
  <2>11. CASE PleOnGpu
    BY <2>11, PleOnGpuStep
  <2>12. CASE PleOnCpu
    BY <2>12, PleOnCpuStep
  <2>13. CASE EndLayer
    BY <2>13, EndLayerStep
  <2>14. CASE HeadOnGpu
    BY <2>14, HeadOnGpuStep
  <2>15. CASE HeadOnCpu
    BY <2>15, HeadOnCpuStep
  <2>16. CASE EndForward
    BY <2>16, EndForwardStep
  <2>17. CASE Gpu
    BY <2>17, GpuStepInv
  <2>18. CASE UNCHANGED vars
    BY <2>18, StutterStep
  <2> QED
    BY <2>1, <2>2, <2>3, <2>4, <2>5, <2>6, <2>7, <2>8, <2>9, <2>10, <2>11, <2>12, <2>13,
       <2>14, <2>15, <2>16, <2>17, <2>18 DEF Next
<1> QED
  BY <1>1, <1>2, PTL DEF Spec

-----------------------------------------------------------------------------
(* The properties *)

\* The types of forward_gpu()'s state: the buffers are all there or none is, and a
\* submission is under way only where the thread waits for its fence.
THEOREM TypeCorrect == Spec => []TypeOK
<1>1. IndInv => TypeOK
  BY DEF IndInv
<1> QED
  BY <1>1, Inductive, PTL

\* Whatever was uploaded, whichever tier each layer takes and in whatever order the
\* GPU executes what no barrier orders, every layer's output, every cached row and
\* the logits are those of the CPU model.
THEOREM ReferenceFollowed == Spec => []FollowsReference
<1>1. IndInv => FollowsReference
  <2> SUFFICES ASSUME IndInv
               PROVE  FollowsReference
    OBVIOUS
  <2>1. pc = "qkv" => hidden = Leaf("hidden", token, layer)
    BY DEF IndInv, Stage, QkvStage, AtLayer
  <2>2. pc = "head" => hidden = Leaf("hidden", token, layer)
    BY DEF IndInv, Stage, HeadStage, AtHead
  <2>3. ASSUME pc = "idle", token > 0
        PROVE  /\ logits = RefLogits(Leaf("hidden", token, L))
               /\ \A l \in 0..L - 1 :
                    kv[l] = IF IsShared(l) THEN <<>> ELSE RefRows(l, token)
    <3>1. RowsBelow(L) /\ logits = RefLogits(Leaf("hidden", token, L))
      BY <2>3 DEF IndInv, Stage, IdleStage
    <3>2. \A l \in 0..L - 1 : l < L
      BY Sizes
    <3> QED
      BY <3>1, <3>2 DEF RowsBelow
  <2> QED
    BY <2>1, <2>2, <2>3 DEF FollowsReference
<1> QED
  BY <1>1, Inductive, PTL

\* What is under way is a sound submission.
LEMMA SoundSubmission ==
  ASSUME IndInv, cmd # <<>>
  PROVE  \E table : Sound(cmd, table)
<1>1. pc \in {"attend", "fused", "ffn", "ple", "last", "logits"}
  BY DEF IndInv, TypeOK
<1>2. \E table : Running(table)
  BY <1>1 DEF IndInv, Stage, AttendStage, FusedStage, FfnStage, PleStage, LastStage,
              LogitsStage, Delivered
<1> QED
  BY <1>2 DEF Running

\* In no submission does a dispatch touch a slot that another one of its segment
\* writes: no memory barrier is missing.
THEOREM RaceFree == Spec => []NoRace
<1>1. IndInv => NoRace
  <2> SUFFICES ASSUME IndInv, NEW i \in DOMAIN cmd, NEW d \in cmd[i], NEW e \in cmd[i], d # e
               PROVE  d.to # e.to /\ \A j \in DOMAIN e.in : e.in[j][1] # d.to
    BY DEF NoRace
  <2>1. cmd # <<>> /\ i \in Nat
    BY DEF IndInv, IsSequence
  <2>2. Ordered(cmd)
    BY <2>1, SoundSubmission DEF Sound
  <2> QED
    BY <2>1, <2>2 DEF Ordered
<1> QED
  BY <1>1, Inductive, PTL

\* init_act_bufs() sizes each buffer for the largest layer of its kind: no dispatch
\* of any layer, of whatever configuration, reaches past the end of one.
THEOREM SlotsFit == Spec => []FitsSlots
<1>1. IndInv => FitsSlots
  <2> SUFFICES ASSUME IndInv, NEW i \in DOMAIN cmd, NEW d \in cmd[i]
               PROVE  /\ d.n <= SlotSize(d.to)
                      /\ \A j \in DOMAIN d.in : d.in[j][2] <= SlotSize(d.in[j][1])
    BY DEF FitsSlots
  <2>1. cmd # <<>>
    BY DEF IndInv, IsSequence
  <2>2. PICK table : Sound(cmd, table)
    BY <2>1, SoundSubmission
  <2> QED
    BY <2>2 DEF Sound, AllGood, Good, Fits
<1> QED
  BY <1>1, Inductive, PTL

\* The weights whose loss alone the code has no slower tier for.
Needed == {"up_proj", "k_proj", "v_proj"}

\* Without an engine nothing is uploaded; with one, every layer has these weights.
NeededThere == uploaded = {} \/ \A l \in 0..L - 1 : \A n \in Needed : W(l, n) \in uploaded

\* The model never panics as long as up_proj, k_proj and v_proj of no layer are lost.
\* The hypothesis is necessary: the run in which any upload may fail finds that the
\* code indexes its maps with these names without asking.
THEOREM PanicFree ==
  ASSUME MayFail \cap Needed = {}
  PROVE  Spec => []NeverPanics
<1> DEFINE Safe == NeededThere /\ pc # "panicked"
<1>1. Init => Safe
  <2> SUFFICES ASSUME Init, engine, NEW l \in 0..L - 1, NEW n \in Needed
               PROVE  W(l, n) \in uploaded
    BY DEF Init, NeededThere
  <2>1. PICK lost \in [1..MaxLost -> {w \in AllWeights : w[2] \in MayFail} \cup {None}] :
          uploaded = AllWeights \ {lost[i] : i \in 1..MaxLost}
    BY DEF Init
  <2>2. W(l, n) \in AllWeights
    BY DEF W, AllWeights, LayerWeights, PostAttention, Needed
  <2>3. ASSUME NEW i \in 1..MaxLost, W(l, n) = lost[i]
        PROVE  FALSE
    <3>1. lost[i][2] \in MayFail \/ lost[i] = None
      BY <2>1
    <3>2. W(l, n)[2] = n /\ W(l, n) # None
      BY DEF W, None
    <3> QED
      BY <2>3, <3>1, <3>2
  <2> QED
    BY <2>1, <2>2, <2>3
<1>2. IndInv /\ Safe /\ [Next]_vars => Safe'
  <2> SUFFICES ASSUME IndInv, NeededThere, pc # "panicked", [Next]_vars
               PROVE  Safe'
    OBVIOUS
  <2>1. UNCHANGED uploaded
    BY DEF Next, vars, Load, ForwardOnCpu, ForwardOnGpu, QkvOnGpu, QkvOnCpu, AttendThenFused,
           AttendThenOProj, AttendThenCpu, FfnOnGpu, FfnOnCpu, PleOnGpu, PleOnCpu, EndLayer,
           HeadOnGpu, HeadOnCpu, EndForward, Gpu, Execute
  <2>2. NeededThere'
    BY <2>1 DEF NeededThere
  <2>3. ASSUME NEW bufs, NEW program, NEW next, Allocated(bufs), Submit(bufs, program, next)
        PROVE  pc' = next
    BY <2>3, BufsAreThere DEF Allocated, Submit
  <2>4. CASE Load
    <3>1. ~LoadPanics
      BY DEF LoadPanics, HasGpuWeights, NeededThere, Needed
    <3> QED
      BY <2>2, <2>4, <3>1 DEF Load
  <2>5. CASE QkvOnGpu
    <3>1. PICK bufs \in InitActBufs \ {NoBufs} :
            Submit(Write(bufs, "RAW_HIDDEN", hidden, H), QkvProgram(layer), "attend")
      BY <2>5 DEF QkvOnGpu
    <3>2. "RAW_HIDDEN" \in Slots \ Scalars
      BY SlotSizes DEF HiddenSlots, Scalars
    <3>3. Allocated(Write(bufs, "RAW_HIDDEN", hidden, H))
      BY <3>1, <3>2, InitBufs, Writes DEF IndInv, Buffers
    <3> QED
      BY <2>2, <2>3, <3>1, <3>3
  <2>6. CASE HeadOnGpu
    <3>1. PICK bufs \in InitActBufs \ {NoBufs} :
            Submit(Write(bufs, "RAW_HIDDEN", hidden, H), HeadProgram, "logits")
      BY <2>6 DEF HeadOnGpu, HeadBufs
    <3>2. "RAW_HIDDEN" \in Slots \ Scalars
      BY SlotSizes DEF HiddenSlots, Scalars
    <3>3. Allocated(Write(bufs, "RAW_HIDDEN", hidden, H))
      BY <3>1, <3>2, InitBufs, Writes DEF IndInv, Buffers
    <3> QED
      BY <2>2, <2>3, <3>1, <3>3
  <2>7. gpu => Allocated(act)
    BY DEF IndInv, Buffers
  <2>8. {"O_IN", "FFIN", "PLE_LAYER", "RESIDUAL"} \subseteq Slots \ Scalars
    BY SlotSizes DEF HiddenSlots, Scalars
  <2>9. ASSUME NEW bufs, Allocated(bufs), NEW s \in {"O_IN", "FFIN", "PLE_LAYER", "RESIDUAL"},
               NEW value, NEW n
        PROVE  Allocated(Write(bufs, s, value, n))
    BY <2>8, <2>9, Writes
  <2>10. CASE AttendThenFused
    <3>1. Allocated(FusedInputs(act))
      BY <2>7, <2>9, <2>10 DEF AttendThenFused, FusedInputs
    <3> QED
      BY <2>2, <2>3, <2>10, <3>1 DEF AttendThenFused
  <2>11. CASE AttendThenOProj
    <3>1. Allocated(Write(act, "O_IN", AttnOut, QDim(layer)))
      BY <2>7, <2>9, <2>11 DEF AttendThenOProj
    <3> QED
      BY <2>2, <2>3, <2>11, <3>1 DEF AttendThenOProj
  <2>12. CASE FfnOnGpu
    <3>1. Uploaded({"gate_proj"}) /\ layer \in 0..L - 1
      BY <2>12 DEF FfnOnGpu, Uploaded, At, IndInv, Stage, FfnStage, AtLayer
    <3>2. Uploaded({"up_proj"})
      BY <3>1 DEF Uploaded, NeededThere, Needed
    <3>3. Submit(Write(act, "FFIN", FfIn(layer, residual'), H), FfnProgram(layer), "ple")
      BY <2>12, <3>2 DEF FfnOnGpu
    <3>4. Allocated(Write(act, "FFIN", FfIn(layer, residual'), H))
      BY <2>7, <2>9, <2>12 DEF FfnOnGpu
    <3> QED
      BY <2>2, <2>3, <3>3, <3>4
  <2>13. CASE PleOnGpu
    <3> DEFINE bufs == Write(Write(act, "FFIN", residual', H), "PLE_LAYER",
                             Leaf("ple", token, layer), Config.ple_dim)
    <3>1. Allocated(bufs)
      BY <2>7, <2>9, <2>13 DEF PleOnGpu
    <3>2. Submit(bufs, PleProgram(layer, "FFIN"), "last")
      BY <2>13 DEF PleOnGpu
    <3> QED
      BY <2>2, <2>3, <3>1, <3>2
  <2>14. CASE \/ ForwardOnCpu \/ ForwardOnGpu \/ QkvOnCpu \/ AttendThenCpu \/ FfnOnCpu
              \/ PleOnCpu \/ EndLayer \/ HeadOnCpu \/ EndForward \/ Gpu \/ UNCHANGED vars
    BY <2>2, <2>14 DEF ForwardOnCpu, ForwardOnGpu, QkvOnCpu, AttendThenCpu, FfnOnCpu, PleOnCpu,
       EndLayer, HeadOnCpu, EndForward, Gpu, Execute, vars
  <2> QED
    BY <2>4, <2>5, <2>6, <2>10, <2>11, <2>12, <2>13, <2>14 DEF Next
<1>3. Safe => NeverPanics
  BY DEF NeverPanics
<1> QED
  BY <1>1, <1>2, <1>3, Inductive, PTL DEF Spec
=============================================================================
