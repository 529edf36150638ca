--------------------------- MODULE MCTensorParallel ---------------------------
EXTENDS TensorParallel

Column(bias) == [collective |-> "none", bias |-> bias, mlp |-> FALSE]
Row(bias) == [collective |-> "all_reduce", bias |-> bias, mlp |-> FALSE]
Gather(bias) == [collective |-> "all_gather", bias |-> bias, mlp |-> FALSE]
GateUp == [collective |-> "none", bias |-> FALSE, mlp |-> TRUE]

\* Attention and MLP of one decoder layer and the head, then the first Linears of
\* the next forward pass.
MCModel ==
  <<Column(TRUE), Row(TRUE), GateUp, Row(FALSE), Gather(TRUE), Column(FALSE), Row(TRUE)>>

=============================================================================
