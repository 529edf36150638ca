---------------------------- MODULE DecodeServer ----------------------------
(***************************************************************************)
(* The standalone server (vllm_vulkan/server.py) over one VulkanModel      *)
(* (src/lib.rs, src/model.rs).                                             *)
(*                                                                         *)
(* chat_completions() hands every request to a thread of the default       *)
(* executor, where generate() resets the model's KV caches, feeds the      *)
(* prompt one token per call, and then feeds back every token it samples.  *)
(* The model is one object shared by all threads: a call on it is atomic   *)
(* (it holds the GIL throughout), two calls of generate() are not.         *)
(*                                                                         *)
(* A model call appends one row to the KV cache of every layer that owns   *)
(* one and attends over the rows it finds there; a layer that shares its   *)
(* cache reads another layer's.  A row is what its key and value were      *)
(* computed from: the request, the position given to forward(), the token, *)
(* and the head size of the layer's kind.  A call ends by panicking when   *)
(* a cache is full or, if Failures allows it, when a GPU call fails, at    *)
(* whatever layer that happens: the layers below keep their new row.       *)
(***************************************************************************)
EXTENDS Integers, Sequences, FiniteSets, FiniteSetsExt

CONSTANTS
  Request,      \* chat completion requests
  Token,        \* token ids
  StopToken,    \* {eos_token_id, 106}
  NumLayers,    \* num_hidden_layers
  NumKvShared,  \* num_kv_shared_layers
  FullEvery,    \* one layer in FullEvery has full attention (5 in the code)
  Window,       \* sliding_window
  MaxSeqLen,    \* max_seq_len
  MaxPrompt,    \* bound: tokens of a prompt
  MaxNew,       \* bound: max_tokens of a request
  MaxOpen,      \* how many requests the clients have open at a time
  Failures      \* {"device"} when a GPU call may fail, or {}

\* The layer kinds alternate, and both occur below the first shared layer, as
\* they do in Gemma4Config::e2b() (35 layers, 20 shared, full every 5th).
ASSUME ServerAssumption ==
  /\ IsFiniteSet(Request)
  /\ NumLayers \in Nat
  /\ NumKvShared \in Nat
  /\ FullEvery \in Nat \ {0, 1}
  /\ FullEvery + NumKvShared <= NumLayers
  /\ Window \in Nat \ {0}
  /\ MaxSeqLen \in Nat
  /\ MaxPrompt \in Nat
  /\ MaxNew \in Nat
  /\ MaxOpen \in Nat
  /\ Failures \subseteq {"device"}

VARIABLES
  kv,         \* kv_caches: layer -> rows up to seq_len
  phase,      \* where each request is
  prompt,     \* input_ids
  limit,      \* max_new_tokens
  made,       \* model calls generate() has made: the position of the next one
  generated,  \* generated_ids
  cause,      \* what a failed request failed of
  right       \* history: every call of the request attended to the rows of
              \* its own tokens up to the call's position, and to no other

vars == <<kv, phase, prompt, limit, made, generated, cause, right>>

-----------------------------------------------------------------------------
(* Layers (Gemma4Config) *)

Layer == 0 .. NumLayers - 1

FirstKvShared == NumLayers - NumKvShared

IsFullAttention(l) == l % FullEvery = FullEvery - 1

IsKvShared(l) == l >= FirstKvShared

\* The layers that append to a cache of their own.
Owner == {l \in Layer : ~IsKvShared(l)}

SameKindBelow(l) ==
  {i \in 0 .. FirstKvShared - 1 : IsFullAttention(i) = IsFullAttention(l)}

\* Mutant: every shared layer reads the last cache, whatever its kind.
TargetIsLastOwner(l) == FirstKvShared - 1

KvSharedTarget(l) ==
  IF SameKindBelow(l) = {} THEN FirstKvShared - 1 ELSE Max(SameKindBelow(l))

\* target_cache_idx
TargetCache(l) == IF IsKvShared(l) THEN KvSharedTarget(l) ELSE l

-----------------------------------------------------------------------------
(* Requests and rows *)

\* kv_start: the first of n cached rows that layer l attends to.
KvStart(l, n) == IF IsFullAttention(l) \/ n <= Window THEN 0 ELSE n - Window

Prompts == UNION {[1 .. n -> Token] : n \in 1 .. MaxPrompt}

\* What generate() feeds to the model, one token per call.
Fed(r) == prompt[r] \o generated[r]

Row == [by : Request, pos : Nat, tok : Token, full : BOOLEAN]

RowOf(r, p, l) ==
  [by |-> r, pos |-> p, tok |-> Fed(r)[p + 1], full |-> IsFullAttention(l)]

\* The caches once the owners below layer n have appended the row of the call
\* that r makes.
Appended(r, n) ==
  [l \in Layer |-> IF l \in Owner /\ l < n THEN Append(kv[l], RowOf(r, made[r], l))
                   ELSE kv[l]]

\* Mutant: append() accepts one row too many.
FullCachesLate == {l \in Owner : Len(kv[l]) > MaxSeqLen}

\* The owners whose append() would panic.
FullCaches == {l \in Owner : Len(kv[l]) >= MaxSeqLen}

\* What layer l attends to when its target's cache is rows.
Attended(l, rows) == SubSeq(rows, KvStart(l, Len(rows)) + 1, Len(rows))

\* What layer l should attend to at position p: the request's own tokens up to
\* p, and in a sliding layer only the last Window of them.
OwnContext(r, p, l) ==
  LET first == IF IsFullAttention(l) \/ p < Window THEN 0 ELSE p - Window + 1
  IN  [i \in 1 .. p - first + 1 |-> RowOf(r, first + i - 1, l)]

AttendsRight(r, caches) ==
  \A l \in Layer :
    Attended(l, caches[TargetCache(l)]) = OwnContext(r, made[r], l)

Open(r) == phase[r] \in {"reset", "model"}

-----------------------------------------------------------------------------
(* The steps of a request *)

\* main() has run its test forward and reset the caches.
Init ==
  /\ kv = [l \in Layer |-> <<>>]
  /\ phase = [r \in Request |-> "unsent"]
  /\ prompt = [r \in Request |-> <<>>]
  /\ limit = [r \in Request |-> 0]
  /\ made = [r \in Request |-> 0]
  /\ generated = [r \in Request |-> <<>>]
  /\ cause = [r \in Request |-> "none"]
  /\ right = [r \in Request |-> TRUE]

\* chat_completions() gives the request to an executor thread, which applies
\* the chat template and encodes the prompt.
Arrive(r) ==
  /\ phase[r] = "unsent"
  /\ Cardinality({q \in Request : Open(q)}) < MaxOpen
  /\ \E p \in Prompts, n \in 0 .. MaxNew :
       /\ prompt' = [prompt EXCEPT ![r] = p]
       /\ limit' = [limit EXCEPT ![r] = n]
  /\ phase' = [phase EXCEPT ![r] = "reset"]
  /\ UNCHANGED <<kv, made, generated, cause, right>>

\* Mutant: only the cache seq_len() looks at is reset.
ResetFirstOnly(r) ==
  /\ phase[r] = "reset"
  /\ kv' = [kv EXCEPT ![0] = <<>>]
  /\ phase' = [phase EXCEPT ![r] = "model"]
  /\ UNCHANGED <<prompt, limit, made, generated, cause, right>>

\* model.reset_kv_cache()
ResetKvCache(r) ==
  /\ phase[r] = "reset"
  /\ kv' = [l \in Layer |-> <<>>]
  /\ phase' = [phase EXCEPT ![r] = "model"]
  /\ UNCHANGED <<prompt, limit, made, generated, cause, right>>

\* A model call that runs to its end.
Forward(r) ==
  /\ phase[r] = "model"
  /\ FullCaches = {}
  /\ kv' = Appended(r, NumLayers)
  /\ right' = [right EXCEPT ![r] = @ /\ AttendsRight(r, Appended(r, NumLayers))]
  /\ made' = [made EXCEPT ![r] = @ + 1]

\* model.forward() on a token of the prompt but the last; the logits are dropped.
Prefill(r) ==
  /\ Forward(r)
  /\ made[r] + 1 < Len(prompt[r])
  /\ UNCHANGED <<phase, prompt, limit, generated, cause>>

\* Mutant: the loop makes room for one token more.
RoomForOneMore(r) == Len(generated[r]) <= limit[r]

\* The condition of the decode loop.
Room(r) == Len(generated[r]) < limit[r]

\* model.forward_and_sample() on the last token of the prompt or on a token it
\* sampled before, then the loop up to its next model call.  Once the loop has
\* its last token it still makes the call that would sample the next one.
Sample(r) ==
  /\ Forward(r)
  /\ made[r] + 1 >= Len(prompt[r])
  /\ \E t \in Token :
       \/ /\ Room(r)
          /\ generated' = [generated EXCEPT ![r] = Append(@, t)]
          /\ phase' = IF t \in StopToken THEN [phase EXCEPT ![r] = "answered"]
                                         ELSE phase
       \/ /\ ~Room(r)
          /\ phase' = [phase EXCEPT ![r] = "answered"]
          /\ UNCHANGED generated
  /\ UNCHANGED <<prompt, limit, cause>>

\* The request is answered 500 and its thread ends; nothing is undone.
Fails(r, why) ==
  /\ phase' = [phase EXCEPT ![r] = "error"]
  /\ cause' = [cause EXCEPT ![r] = why]
  /\ UNCHANGED <<prompt, limit, made, generated, right>>

\* KvCache::append() finds a cache full; n is the first layer it happens in.
Overflow(r) ==
  /\ phase[r] = "model"
  /\ \E n \in FullCaches :
       /\ \A l \in FullCaches : n <= l
       /\ kv' = Appended(r, n)
  /\ Fails(r, "overflow")

\* Mutant: a request whose GPU work failed starts again, as often as that happens.
DeviceFailsRestarts(r) ==
  /\ phase[r] = "model"
  /\ "device" \in Failures
  /\ \E n \in 0 .. NumLayers :
       /\ \A l \in FullCaches : n <= l
       /\ kv' = Appended(r, n)
  /\ phase' = [phase EXCEPT ![r] = "reset"]
  /\ made' = [made EXCEPT ![r] = 0]
  /\ generated' = [generated EXCEPT ![r] = <<>>]
  /\ UNCHANGED <<prompt, limit, cause, right>>

\* An unwrap() of a GPU call panics: in the PLE projection, in layer n before
\* or in layer n-1 after its append, or in the LM head.
DeviceFails(r) ==
  /\ phase[r] = "model"
  /\ "device" \in Failures
  /\ \E n \in 0 .. NumLayers :
       /\ \A l \in FullCaches : n <= l
       /\ kv' = Appended(r, n)
  /\ Fails(r, "device")

\* Mutant: the stop token is left in the answer.
AnswerUntrimmed(r) == generated[r]

\* The answer: generated_ids without their trailing stop tokens.
Answer(r) ==
  SubSeq(generated[r], 1,
         Max({0} \cup {i \in DOMAIN generated[r] : generated[r][i] \notin StopToken}))

-----------------------------------------------------------------------------

Step(r) ==
  ResetKvCache(r) \/ Prefill(r) \/ Sample(r) \/ Overflow(r) \/ DeviceFails(r)

\* Every client has what it asked for.
Quiet ==
  /\ \A r \in Request : phase[r] \in {"answered", "error"}
  /\ UNCHANGED vars

Next == (\E r \in Request : Arrive(r) \/ Step(r)) \/ Quiet

Spec == Init /\ [][Next]_vars

\* Every executor thread gets the GIL again, and a model call returns or panics.
FairSpec == Spec /\ \A r \in Request : WF_vars(Step(r))

-----------------------------------------------------------------------------
(* Properties *)

\* State types and bounds: no cache ever holds more rows than it has room for,
\* and a layer that shares a cache never writes its own.
TypeOK ==
  /\ kv \in [Layer -> Seq(Row)]
  /\ \A l \in Layer : Len(kv[l]) <= MaxSeqLen
  /\ \A l \in Layer \ Owner : kv[l] = <<>>
  /\ phase \in [Request -> {"unsent", "reset", "model", "answered", "error"}]
  /\ prompt \in [Request -> Seq(Token)]
  /\ limit \in [Request -> 0 .. MaxNew]
  /\ made \in [Request -> Nat]
  /\ generated \in [Request -> Seq(Token)]
  /\ \A r \in Request : Len(generated[r]) <= limit[r]
  /\ cause \in [Request -> {"none", "overflow", "device"}]
  /\ right \in [Request -> BOOLEAN]

\* Every token of an answer was sampled from the request's own tokens, each at
\* its own position, on every layer, windowed and shared ones included: no row
\* of an earlier request, finished or failed half way, is ever attended to.
AnswersFromOwnTokens == \A r \in Request : phase[r] = "answered" => right[r]

\* Between two model calls of a request the owners' caches all hold as many
\* rows as the request has made calls, whatever panic came before it.
CachesLevel ==
  \A r \in Request : phase[r] = "model" =>
    \A l \in Owner : Len(kv[l]) = made[r]

\* A request loses its answer to a full cache only if its prompt and all the
\* tokens it asked for need more rows than there are.
OverflowsOnlyPastTheEnd ==
  \A r \in Request : cause[r] = "overflow" =>
    Len(prompt[r]) + limit[r] > MaxSeqLen

\* An answer with fewer tokens than asked for ended at a stop token, and an
\* answer holds none: the loop breaks at the first one it samples.
ShortAnswersStopped ==
  \A r \in Request : phase[r] = "answered" =>
    /\ \A i \in DOMAIN Answer(r) : Answer(r)[i] \notin StopToken
    /\ Len(Answer(r)) < limit[r] =>
         generated[r] # <<>> /\ generated[r][Len(generated[r])] \in StopToken

\* A row sits at the index that is the position its call was given: forward()
\* takes the position as an argument and append() never looks at it.
RowsAtTheirPositions ==
  \A l \in Owner : \A i \in DOMAIN kv[l] : kv[l][i].pos = i - 1

\* Every request that arrives is answered or refused.
EveryRequestEnds ==
  \A r \in Request : Open(r) ~> ~Open(r)

-----------------------------------------------------------------------------
(* The parts of the inductive invariants *)

\* Nothing of a request has run before its caches are reset.
Fresh ==
  \A r \in Request : phase[r] \in {"unsent", "reset"} =>
    made[r] = 0 /\ generated[r] = <<>> /\ cause[r] = "none"

\* An open request has a token to feed to its next call.
Ahead == \A r \in Request : Open(r) => made[r] < Len(Fed(r))

\* The clients take turns.
OneOpen == \A q, r \in Request : Open(q) /\ Open(r) => q = r

\* While a request runs, the owners' caches hold its rows and no other.
RowsAreOwn ==
  \A r \in Request : phase[r] = "model" => \A l \in Owner :
    /\ Len(kv[l]) = made[r]
    /\ \A i \in 1 .. made[r] : kv[l][i] = RowOf(r, i - 1, l)

\* No call of any request ever attended to anything else.
RightSoFar == \A r \in Request : right[r]
=============================================================================
