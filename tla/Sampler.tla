------------------------------- MODULE Sampler -------------------------------
(***************************************************************************)
(* How a token is drawn from the logits: sample_with_temperature and argmax *)
(* of src/src/model.rs, and temperature_sample of vllm_vulkan/server.py,   *)
(* which they replace.                                                     *)
(*                                                                         *)
(* w[t] is token t's weight, the exponential of its scaled logit; some are *)
(* positive.  top_p and the uniform draw are fractions [num, den].  Sums   *)
(* are exact: the rounding of float32 is left out.                         *)
(***************************************************************************)
EXTENDS Integers, Sequences, FiniteSets, FiniteSetsExt

\* The sum of the weights of the first n tokens of an order.
Mass(w, order, n) == MapThenSumSet(LAMBDA i : w[order[i]], 1 .. n)

\* argmax: the first of the heaviest.
ArgMax(w) ==
  Min({t \in DOMAIN w : \A s \in DOMAIN w : w[s] <= w[t]})

\* sort_unstable_by, descending: tokens of equal weight come in any order.
Orders(w) ==
  {order \in [DOMAIN w -> DOMAIN w] :
     /\ \A i, j \in DOMAIN w : i # j => order[i] # order[j]
     /\ \A i, j \in DOMAIN w : i < j => w[order[i]] >= w[order[j]]}

\* How many tokens top_k leaves.
Kept(w, topK) == IF topK <= 0 THEN Cardinality(DOMAIN w) ELSE Min({topK, Cardinality(DOMAIN w)})

\* The first position up to n whose mass is at least the fraction of that of n.
Reach(w, order, n, fraction) ==
  LET reached == {i \in 1 .. n : Mass(w, order, i) * fraction.den
                                   >= fraction.num * Mass(w, order, n)}
  IN  IF reached = {} THEN n ELSE Min(reached)

NucleusEnd(w, order, topK, topP) == Reach(w, order, Kept(w, topK), topP)

Drawn(w, order, end, draw) == order[Reach(w, order, end, draw)]

\* sample_with_temperature; cold is temperature < 0.01.
SampleWithTemperature(w, cold, topK, topP, draw) ==
  IF cold THEN {ArgMax(w)}
  ELSE {Drawn(w, order, NucleusEnd(w, order, topK, topP), draw) : order \in Orders(w)}

-----------------------------------------------------------------------------
\* Python's sorted(reverse=True) keeps the order of equals.
Stable(w) ==
  CHOOSE order \in Orders(w) :
    \A i, j \in DOMAIN w : i < j /\ w[order[i]] = w[order[j]] => order[i] < order[j]

\* temperature_sample: top-k first, and only if asked for, then a sort of what is
\* left; zero is temperature == 0.0.
TemperatureSample(w, zero, topK, topP, draw) ==
  LET top == IF topK > 0 THEN SubSeq(Stable(w), 1, Kept(w, topK))
             ELSE [i \in DOMAIN w |-> i]
      left == [i \in DOMAIN top |-> w[top[i]]]
      order == Stable(left)
      end == Reach(left, order, Len(top), topP)
  IN  IF zero THEN ArgMax(w) ELSE top[Drawn(left, order, end, draw)]

-----------------------------------------------------------------------------
(* What a sampler promises *)

Heavier(w, t) == {s \in DOMAIN w : w[s] > w[t]}

WeightOf(w, tokens) == MapThenSumSet(LAMBDA t : w[t], tokens)

\* Of the sets of n tokens, what the heaviest weighs.
Heaviest(w, n) == Max({WeightOf(w, tokens) : tokens \in kSubset(n, DOMAIN w)})

\* The token is one of the top_k, and what is heavier falls short of top_p.
InNucleus(w, t, topK, topP) ==
  /\ Cardinality(Heavier(w, t)) < Kept(w, topK)
  /\ \/ Heavier(w, t) = {}
     \/ WeightOf(w, Heavier(w, t)) * topP.den < topP.num * Heaviest(w, Kept(w, topK))

\* Each token of the nucleus is drawn in proportion to its weight, no other is.
Proportional(w, topK, topP) ==
  \A order \in Orders(w) :
    LET end == NucleusEnd(w, order, topK, topP)
        mass == Mass(w, order, end)
    IN  \A i \in DOMAIN w :
          Cardinality({k \in 1 .. mass :
            Drawn(w, order, end, [num |-> k, den |-> mass]) = order[i]})
            = IF i <= end THEN w[order[i]] ELSE 0

=============================================================================
