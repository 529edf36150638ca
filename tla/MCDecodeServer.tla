--------------------------- MODULE MCDecodeServer ---------------------------
(* Instances of DecodeServer for TLC, its constants given in the cfg, and of   *)
(* the sampler.                                                                *)
EXTENDS DecodeServer, Sampler

\* The weights of up to three tokens, some of which underflow to nothing.
Weights == {w \in UNION {[1 .. n -> 0 .. 2] : n \in 1 .. 3} : \E t \in DOMAIN w : w[t] > 0}

\* Nothing, parts, all, and more than all.
Fractions == [num : 0 .. 4, den : {3}]

\* What is drawn belongs to the nucleus, at any temperature that is not cold; the
\* Rust sampler may draw whatever the Python one does.
ASSUME SamplerKeepsToNucleus ==
  \A w \in Weights, topK \in 0 .. 4, topP \in Fractions :
    \A draw \in [num : 0 .. 4, den : {5}] :
      LET drawn == SampleWithTemperature(w, FALSE, topK, topP, draw)
      IN  /\ \A t \in drawn : InNucleus(w, t, topK, topP)
          /\ TemperatureSample(w, FALSE, topK, topP, draw) \in drawn

\* It is drawn in proportion to its weight.
ASSUME SamplerIsProportional ==
  \A w \in Weights, topK \in 0 .. 4, topP \in Fractions : Proportional(w, topK, topP)

\* When cold, or with top_k = 1 or top_p = 0, it is the heaviest.
ASSUME SamplerIsGreedy ==
  \A w \in Weights, draw \in [num : 0 .. 4, den : {5}] :
    /\ SampleWithTemperature(w, TRUE, 0, [num |-> 1, den |-> 1], draw) = {ArgMax(w)}
    /\ \A t \in SampleWithTemperature(w, FALSE, 1, [num |-> 1, den |-> 1], draw)
                  \cup SampleWithTemperature(w, FALSE, 0, [num |-> 0, den |-> 1], draw) :
         Heavier(w, t) = {}

=============================================================================
