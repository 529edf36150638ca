-------------------------- MODULE MCLinearDispatch --------------------------
EXTENDS LinearDispatch

CONSTANTS gate_up, down, small

AllMlp == {[gate_up |-> gate_up, down |-> down], [gate_up |-> small, down |-> down]}

Env(fuse, bridge, shaders) ==
  [fuse |-> fuse, bridge |-> bridge, shaders |-> shaders]

\* Every shader; no float32 variant; no float16 variant; no fused activation.
Builds ==
  {Shaders,
   Shaders \ {Shader(t, FALSE) : t \in Tokens},
   Shaders \ {Shader("prefill", TRUE)},
   Shaders \ {"swiglu_f32"}}

\* The fused MLP and the bridge are not turned on together.
OneOrTheOther ==
  {Env(fuse, ~fuse, shaders) : fuse \in BOOLEAN, shaders \in Builds}

Both == {Env(TRUE, TRUE, Shaders)}
=============================================================================
