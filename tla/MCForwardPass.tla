--------------------------- MODULE MCForwardPass ---------------------------
(* Small instances of ForwardPass. *)
EXTENDS ForwardPass

\* A sliding and a full layer with caches of their own, and one of each kind that
\* shares theirs; the sizes are those of Gemma4-E2B.
MCConfig ==
  [num_hidden_layers |-> 4, num_kv_shared_layers |-> 2, full_every |-> 2,
   hidden_size |-> 1536, num_attention_heads |-> 8, num_key_value_heads |-> 1,
   head_dim |-> 256, global_head_dim |-> 512, intermediate_size |-> 6144,
   vocab_size |-> 262144, ple_dim |-> 256]

\* Uploads whose loss the code has a slower tier for.  Of the norms and the scalar,
\* which decide on one tier all together, only one may fail.
MCTolerated ==
  {"input_layernorm", "q_proj", "qkv_proj", "o_proj", "gate_proj", "down_proj",
   "per_layer_input_gate", "per_layer_projection", "layer_scalar"} \cup ModelWeights

MCAny == LayerWeights \cup ModelWeights
=============================================================================
