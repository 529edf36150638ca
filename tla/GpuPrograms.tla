----------------------------- MODULE GpuPrograms -----------------------------
(***************************************************************************)
(* The lists of dispatches that the Python operators hand to the compute   *)
(* engine in one call.  An operation binds its inputs in binding order,    *)
(* then its outputs, and may end with a compute-to-compute barrier:        *)
(*   Bytes      fresh bytes, uploaded to a temporary buffer by the call;   *)
(*   Gpu(t)     the persistent GpuTensor t;                                *)
(*   Ref(o, x)  output x of operation o of the same call, both counted     *)
(*              from 0 as in execute_batch's chain references.             *)
(* writes is the set of GpuTensors the shader stores to, outs the number   *)
(* of outputs, and sizes the byte sizes of the buffers the call provides:  *)
(* of its fresh bytes in binding order, then of its outputs.  What a       *)
(* shader computes is left out: only where it reads and where it writes    *)
(* counts.                                                                 *)
(***************************************************************************)
EXTENDS Integers, Sequences, FiniteSets

Bytes == [kind |-> "bytes"]
Gpu(t) == [kind |-> "gpu", tensor |-> t]
Ref(o, x) == [kind |-> "ref", op |-> o, out |-> x]

Op(ins, writes, outs, sizes, barrier) ==
    [ins |-> ins, writes |-> writes, outs |-> outs, sizes |-> sizes,
     barrier |-> barrier, copy |-> FALSE]

(***************************************************************************)
(* upload: one transfer from a staging buffer into the tensor, z bytes.    *)
(***************************************************************************)
Upload(t, z) == <<[Op(<<Bytes>>, {t}, 0, <<z>>, FALSE) EXCEPT !.copy = TRUE]>>

(***************************************************************************)
(* One matrix-vector or matrix-matrix product with a resident weight: x    *)
(* bytes in, y bytes out.                                                  *)
(***************************************************************************)
Linear(w, x, y) == <<Op(<<Gpu(w), Bytes>>, {}, 1, <<x, y>>, FALSE)>>

(***************************************************************************)
(* The write of new keys and values, the scan of one sequence, and the two *)
(* merged into one submission.  Keys and values are of one size (z.rows)   *)
(* beside their slots (z.slots); a sequence's output is as long as its     *)
(* query (z.query), and its block table as long as the sequence (z.blocks).*)
(***************************************************************************)
KVWriteOp(cache, z, barrier) ==
    Op(<<Bytes, Bytes, Bytes, Gpu(cache)>>, {cache}, 0, <<z.rows, z.rows, z.slots>>, barrier)

DecodeOp(cache, z) ==
    Op(<<Bytes, Bytes, Gpu(cache)>>, {}, 1, <<z.query, z.blocks, z.query>>, FALSE)

PagedKVWrite(cache, z) == <<KVWriteOp(cache, z, FALSE)>>

PagedDecode(cache, sequences) ==
    [s \in DOMAIN sequences |-> DecodeOp(cache, sequences[s])]

(* Mutant: the decode does not wait for the write.                       *)
WriteAndDecodeNoBarrier(cache, z, sequences) ==
    <<KVWriteOp(cache, z, FALSE)>> \o PagedDecode(cache, sequences)

WriteAndDecode(cache, z, sequences) ==
    <<KVWriteOp(cache, z, TRUE)>> \o PagedDecode(cache, sequences)

(***************************************************************************)
(* gate_up_proj, SwiGLU and down_proj in one submission.  SwiGLU binds its *)
(* source twice, and gives an output of its own width.                     *)
(***************************************************************************)
FusedSwigluMLP(gateUp, down, z) ==
    << Op(<<Gpu(gateUp), Bytes>>, {}, 1, <<z.x, z.gateUp>>, TRUE),
       Op(<<Ref(0, 0), Ref(0, 0)>>, {}, 1, <<z.swiglu>>, TRUE),
       Op(<<Gpu(down), Ref(1, 0)>>, {}, 1, <<z.down>>, FALSE) >>

=============================================================================
