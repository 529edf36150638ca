---------------------------- MODULE ComputeEngine ----------------------------
(***************************************************************************)
(* The compute engine (src/src/compute.rs) under the calls that Python     *)
(* makes on a VulkanContext (src/src/lib.rs): one persistent command       *)
(* buffer, one fence, a linear supply of descriptor sets, a pool of        *)
(* host-coherent buffers, and a GPU that runs the dispatches of a          *)
(* submission in any order its barriers allow.                             *)
(*                                                                         *)
(* A call holds the GIL from its first line to its return, so calls do not *)
(* overlap; what runs beside the host is the GPU.  A call goes through     *)
(*   bind     allocate and fill every buffer (phase 1 of execute_batch),   *)
(*   record   one dispatch after another into the command buffer,          *)
(*   submit, wait for the fence, reset it and the descriptor cursor,       *)
(*   read     the outputs back and return the buffers to the pool,         *)
(* and an error at any point returns at once: every buffer of the call is  *)
(* dropped, that is destroyed, and nothing else is undone.                 *)
(*                                                                         *)
(* A buffer has one size for life.  The pool keeps a bucket of idle        *)
(* buffers for each size, limits each bucket and never empties one, and a  *)
(* call gets buffers of exactly the sizes it asks for.                     *)
(***************************************************************************)
EXTENDS GpuPrograms, SequencesExt

CONSTANTS
    Sizes,      \* byte sizes of buffers
    Buffers,    \* identities (numbers) of host-coherent buffers
    SizeOf,     \* the size of each: the memory there is for buffers of a size
    Tensors,    \* persistent GpuTensors (weights, KV caches)
    PoolSets,   \* POOL_SETS, the sets of one descriptor pool
    MaxInFlight,\* bound: submissions the queue holds at a time
    Settings    \* the processes considered

Steps == {"alloc", "begin", "record", "submit", "wait", "reset"}

Bindings ==
    [kind : {"bytes"}] \cup [kind : {"gpu"}, tensor : Tensors]
        \cup [kind : {"ref"}, op : Nat, out : Nat]

Operations ==
    [ins : Seq(Bindings), writes : SUBSET Tensors, outs : Nat, sizes : Seq(Sizes),
     barrier : BOOLEAN, copy : BOOLEAN]

ByteBindings(op) == {n \in DOMAIN op.ins : op.ins[n].kind = "bytes"}

(* The number of buffers an operation is given.                            *)
Need(op) == Cardinality(ByteBindings(op)) + op.outs

(* What is handed to the engine in one call: execute_batch's operations,   *)
(* or the one transfer of an upload.                                       *)
IsProgram(p) ==
    /\ p \in Seq(Operations) /\ p # <<>>
    /\ \A i \in DOMAIN p :
          /\ Len(p[i].sizes) = Need(p[i])
          /\ p[i].copy => \E t \in Tensors, z \in Sizes : p = Upload(t, z)

(* What execute_batch asks of its callers: a chain reference names an      *)
(* output of an earlier operation.  Vulkan orders dispatches by barriers   *)
(* only, so there has to be one between that operation and this one, and   *)
(* between two operations one of which writes a tensor that the other      *)
(* reads or writes.  The code does not check either.                       *)
ReferencesExist(p) ==
    \A i \in DOMAIN p : \A n \in DOMAIN p[i].ins :
        LET b == p[i].ins[n]
        IN b.kind = "ref" => b.op + 1 < i /\ b.out < p[b.op + 1].outs

Reads(op, t) == \E n \in DOMAIN op.ins : op.ins[n].kind = "gpu" /\ op.ins[n].tensor = t

DependsOn(p, i, k) ==
    \/ \E n \in DOMAIN p[i].ins : p[i].ins[n].kind = "ref" /\ p[i].ins[n].op + 1 = k
    \/ \E t \in p[k].writes : t \in p[i].writes \/ Reads(p[i], t)
    \/ \E t \in p[i].writes : Reads(p[k], t)

BarriersBetween(p) ==
    \A i \in DOMAIN p : \A k \in 1 .. i - 1 :
        DependsOn(p, i, k) => \E b \in k .. i - 1 : p[b].barrier

IsSynchronized(p) == ReferencesExist(p) /\ BarriersBetween(p)

(***************************************************************************)
(* A process: the operation lists its callers hand over (programs), the    *)
(* driver calls that may fail (failures), POOL_MAX (poolMax), and two      *)
(* bounds: the descriptor sets the driver can supply (maxSets), those of   *)
(* the pool the engine starts with among them, and the buffers             *)
(* alloc_activation has handed out at a time (activations).                *)
(***************************************************************************)
ASSUME EngineAssumption ==
    /\ PoolSets \in Nat \ {0} /\ MaxInFlight \in Nat \ {0}
    /\ \A s \in Settings :
          /\ s.failures \subseteq Steps
          /\ s.poolMax \in Nat /\ s.activations \in Nat
          /\ s.maxSets \in Nat /\ PoolSets <= s.maxSets
          /\ s.programs # {} /\ \A p \in s.programs : IsProgram(p)
    /\ Buffers \subseteq Nat /\ IsFiniteSet(Buffers) /\ Buffers \cap Tensors = {}
    /\ SizeOf \in [Buffers -> Sizes]

VARIABLES
    setting,   \* a process; it does not change
    phase,     \* where the current call stands
    program,   \* its operations
    metas,     \* op_meta: where the buffers of the operations bound so far start
    temps,     \* temp_bufs, flat over all operations
    outs,      \* out_bufs, flat over all operations
    pool,      \* for each size its bucket of idle buffers, the next to hand out last
    held,      \* buffers that back activation GpuTensors
    cmd,       \* state of the one command buffer
    recorded,  \* the dispatches recorded in it
    fence,     \* whether the fence is signalled
    gpu,       \* submissions the GPU has not completed, oldest first
    sets,      \* the descriptor sets: the places each one points at
    cursor,    \* ds_cursor
    data,      \* what each buffer and tensor holds
    answer,    \* what the last call returned
    synced     \* history: no wait for the fence, nor its reset, has failed

host == <<phase, program, metas, temps, outs, pool, held, recorded, sets, cursor, answer,
          synced>>
vars == <<setting, phase, program, metas, temps, outs, pool, held, cmd, recorded, fence, gpu,
          sets, cursor, data, answer, synced>>

-----------------------------------------------------------------------------
(* What a place holds, as far as the current call can tell.                *)

Stale == <<"stale">>                     \* left by an earlier call
Wrong == <<"wrong">>                     \* computed from something else
Given(i, n) == <<"bytes", i, n>>         \* the bytes of binding n of operation i
Result(i, j) == <<"out", i, j>>          \* output j of operation i
Written(i) == <<"written", i>>           \* a tensor after operation i's store

None == [result |-> "none", outputs |-> <<>>]
Error == [result |-> "error", outputs |-> <<>>]
Ok(outputs) == [result |-> "ok", outputs |-> outputs]

-----------------------------------------------------------------------------
(* The buffer pool.                                                        *)

Idle == UNION {ToSet(pool[z]) : z \in Sizes}

CallBuffers == ToSet(temps) \cup ToSet(outs)

Live == Idle \cup held \cup CallBuffers

OfSize(S, z) == {b \in S : SizeOf[b] = z}

Unused(z) == OfSize(Buffers \ Live, z)

(* The n-th least of a set of numbers.                                     *)
Nth(S, n) == CHOOSE b \in S : Cardinality({c \in S : c < b}) = n - 1

(* How many of the first n buffers of an operation are of size z.          *)
Wants(op, n, z) == Cardinality({k \in 1 .. n : op.sizes[k] = z})

(* Mutant: the pool is never drawn from.                                 *)
FromPoolNever(op, n, z) == 0

(* How many of those come from the bucket.  The staging buffer of a copy   *)
(* is allocated outside the pool.                                          *)
FromPool(op, n, z) ==
    IF op.copy THEN 0
    ELSE IF Wants(op, n, z) <= Len(pool[z]) THEN Wants(op, n, z) ELSE Len(pool[z])

CanTake(op) ==
    \A z \in Sizes :
        Wants(op, Need(op), z) - FromPool(op, Need(op), z) <= Cardinality(Unused(z))

(* The buffers of one operation, asked for in binding order: each popped   *)
(* from the end of the bucket of its size, or else newly allocated, which  *)
(* gives the least identity not in use.                                    *)
Taken(op) ==
    [k \in 1 .. Need(op) |->
       LET z == op.sizes[k]
           nth == Wants(op, k, z)
           popped == FromPool(op, k, z)
       IN IF nth <= popped THEN pool[z][Len(pool[z]) + 1 - nth]
          ELSE Nth(Unused(z), nth - popped)]

(* Mutant: a buffer handed out stays in the pool.                        *)
PoolAfterPeek(op, n) == pool

(* The pool when the operation has taken its first n buffers.              *)
PoolAfter(op, n) ==
    [z \in Sizes |-> SubSeq(pool[z], 1, Len(pool[z]) - FromPool(op, n, z))]

(* Mutant: a bucket has no limit.                                        *)
PutUnbounded(bufs) ==
    [z \in Sizes |-> pool[z] \o SelectSeq(bufs, LAMBDA b : SizeOf[b] = z)]

(* BufferPool::put for each buffer in turn: into the bucket of its size,   *)
(* up to the limit of the bucket.                                          *)
Put(bufs) ==
    [z \in Sizes |->
       LET returned == {i \in DOMAIN bufs : SizeOf[bufs[i]] = z}
           room == setting.poolMax - Len(pool[z])
           kept == IF Cardinality(returned) <= room THEN Cardinality(returned) ELSE room
       IN pool[z] \o [n \in 1 .. kept |-> bufs[Nth(returned, n)]]]

-----------------------------------------------------------------------------
(* Bindings.                                                               *)

(* The rank of binding n among the byte bindings of op.                    *)
TempIndex(op, n) == Cardinality({m \in ByteBindings(op) : m <= n})

(* Phase 1 refuses a reference to the operation itself or a later one.     *)
RefsEarlier(i) ==
    \A n \in DOMAIN program[i].ins :
        program[i].ins[n].kind = "ref" => program[i].ins[n].op + 1 < i

(* The index into out_bufs a chain reference resolves to in phase 2: the   *)
(* named operation's first output plus the output index, which nothing     *)
(* compares with that operation's number of outputs.                       *)
RefIndex(b) == metas[b.op + 1].outStart + b.out + 1

RefsInBounds(i) ==
    \A n \in DOMAIN program[i].ins :
        program[i].ins[n].kind = "ref" => RefIndex(program[i].ins[n]) <= Len(outs)

InputPlace(i, n) ==
    LET b == program[i].ins[n]
    IN CASE b.kind = "bytes" -> temps[metas[i].tempStart + TempIndex(program[i], n)]
         [] b.kind = "gpu" -> b.tensor
         [] b.kind = "ref" -> outs[RefIndex(b)]

(* The binding list of operation i: inputs in order, then its outputs.     *)
Places(i) ==
    [n \in 1 .. Len(program[i].ins) |-> InputPlace(i, n)]
        \o SubSeq(outs, metas[i].outStart + 1, metas[i].outStart + program[i].outs)

-----------------------------------------------------------------------------
Init ==
    /\ setting \in Settings
    /\ phase = "idle" /\ program = <<>> /\ metas = <<>> /\ temps = <<>> /\ outs = <<>>
    /\ pool = [z \in Sizes |-> <<>>] /\ held = {}
    /\ cmd = "initial" /\ recorded = <<>> /\ fence = FALSE /\ gpu = <<>>
    /\ sets = [d \in 1 .. PoolSets |-> <<>>] /\ cursor = 0
    /\ data = [p \in Buffers \cup Tensors |-> Stale]
    /\ answer = None /\ synced = TRUE

(* A caller hands over an operation list.  Whatever a place holds now is   *)
(* old from this call's point of view, and so is what an unused descriptor *)
(* set points at.                                                          *)
Call ==
    /\ phase = "idle"
    /\ \E p \in setting.programs : program' = p
    /\ phase' = "bind"
    /\ data' = [p \in DOMAIN data |-> Stale]
    /\ sets' = IF gpu = <<>> THEN [d \in DOMAIN sets |-> <<>>] ELSE sets
    /\ answer' = None
    /\ UNCHANGED <<metas, temps, outs, pool, held, cmd, recorded, fence, gpu, cursor, synced>>

(* The error return: the call's buffers go out of scope.                   *)
Fail ==
    /\ phase' = "idle" /\ program' = <<>>
    /\ metas' = <<>> /\ temps' = <<>> /\ outs' = <<>>
    /\ answer' = Error
    /\ gpu' = [j \in DOMAIN gpu |-> [gpu[j] EXCEPT !.live = FALSE]]

(* What the temporaries filled for operation i hold.                       *)
Filled(i, op, filled) ==
    [p \in DOMAIN data |->
       IF p \in ToSet(filled)
       THEN Given(i, CHOOSE n \in ByteBindings(op) : filled[TempIndex(op, n)] = p)
       ELSE data[p]]

(* Phase 1 for one operation: a temporary for every byte binding, filled   *)
(* at once, and a buffer for every output.                                 *)
Bind ==
    LET i == Len(metas) + 1
        op == program[i]
        n == Cardinality(ByteBindings(op))
        filled == SubSeq(Taken(op), 1, n)
    IN /\ phase = "bind" /\ i <= Len(program)
       /\ RefsEarlier(i)
       /\ CanTake(op)
       /\ metas' = Append(metas, [tempStart |-> Len(temps), outStart |-> Len(outs)])
       /\ temps' = temps \o filled
       /\ outs' = outs \o SubSeq(Taken(op), n + 1, Need(op))
       /\ pool' = PoolAfter(op, Need(op))
       /\ data' = Filled(i, op, filled)
       /\ phase' = IF i = Len(program) THEN "begin" ELSE "bind"
       /\ UNCHANGED <<program, held, cmd, recorded, fence, gpu, sets, cursor, answer, synced>>

(* An allocation fails after some of the operation's buffers were drawn,   *)
(* or a chain reference is refused.                                        *)
BindFails ==
    LET i == Len(metas) + 1
        op == program[i]
    IN /\ phase = "bind" /\ i <= Len(program)
       /\ \/ ~RefsEarlier(i)
          \/ ~CanTake(op)
          \/ "alloc" \in setting.failures
       /\ \E drawn \in 0 .. Need(op) : pool' = PoolAfter(op, drawn)
       /\ Fail
       /\ UNCHANGED <<held, cmd, recorded, fence, sets, cursor, data, synced>>

(* begin_one_shot resets the command buffer whatever it is doing.  When    *)
(* the GPU still runs it, what becomes of that work is undefined: it is    *)
(* lost or it goes on.                                                     *)
Begin ==
    /\ phase = "begin"
    /\ cmd' = "recording" /\ recorded' = <<>>
    /\ gpu' \in IF cmd = "pending" THEN {gpu, <<>>} ELSE {gpu}
    /\ phase' = "record"
    /\ UNCHANGED <<program, metas, temps, outs, pool, held, fence, sets, cursor, data, answer, synced>>

BeginFails ==
    /\ phase = "begin" /\ "begin" \in setting.failures
    /\ Fail
    /\ UNCHANGED <<pool, held, cmd, recorded, fence, sets, cursor, data, synced>>

-----------------------------------------------------------------------------
(* Recording.                                                              *)

(* Mutant: every dispatch takes the same set.                            *)
CursorStuck == cursor

(* next_descriptor_set: the cursor moves before the set is used.           *)
CursorAfter == cursor + 1

(* grow_descriptor_pool runs only when the cursor has used every set.      *)
SetsAfterGrowth ==
    IF cursor < Len(sets) THEN sets ELSE sets \o [d \in 1 .. PoolSets |-> <<>>]

CanGrow == cursor < Len(sets) \/ Len(sets) + PoolSets <= setting.maxSets

NextOp == Len(recorded) + 1

AfterRecord == IF NextOp = Len(program) THEN "submit" ELSE "record"

(* record_to, then the barrier the operation asks for.                     *)
Record ==
    /\ phase = "record" /\ ~program[NextOp].copy
    /\ RefsInBounds(NextOp) /\ CanGrow
    /\ sets' = [SetsAfterGrowth EXCEPT ![cursor + 1] = Places(NextOp)]
    /\ cursor' = CursorAfter
    /\ recorded' = Append(recorded, [set |-> cursor + 1, places |-> <<>>])
    /\ phase' = AfterRecord
    /\ UNCHANGED <<program, metas, temps, outs, pool, held, cmd, fence, gpu, data, answer, synced>>

(* cmd_copy_buffer of upload and download: no descriptor set.              *)
RecordCopy ==
    /\ phase = "record" /\ program[NextOp].copy
    /\ recorded' = Append(recorded, [set |-> 0, places |-> Places(NextOp)])
    /\ phase' = AfterRecord
    /\ UNCHANGED <<program, metas, temps, outs, pool, held, cmd, fence, gpu, sets, cursor,
                   data, answer, synced>>

(* An unknown shader or a failed growth leave the cursor alone; too many   *)
(* buffers are noticed only after a set was taken.  An index beyond        *)
(* out_bufs panics before record_to is entered.                            *)
RecordFails ==
    /\ phase = "record" /\ ~program[NextOp].copy
    /\ \/ (~RefsInBounds(NextOp) \/ ~CanGrow) /\ UNCHANGED <<sets, cursor>>
       \/ "record" \in setting.failures /\ UNCHANGED <<sets, cursor>>
       \/ /\ "record" \in setting.failures /\ CanGrow
          /\ sets' = SetsAfterGrowth /\ cursor' = cursor + 1
    /\ Fail
    /\ UNCHANGED <<pool, held, cmd, recorded, fence, data, synced>>

-----------------------------------------------------------------------------
(* Submission.                                                             *)

Job == [ops |-> program, recorded |-> recorded, done |-> {}, live |-> TRUE]

(* Mutant: the barriers are not recorded.                                *)
SubmitWithoutBarriers ==
    /\ phase = "submit" /\ Len(gpu) < MaxInFlight
    /\ cmd' = "pending" /\ recorded' = <<>>
    /\ gpu' = Append(gpu, [Job EXCEPT !.ops =
                 [i \in DOMAIN program |-> [program[i] EXCEPT !.barrier = FALSE]]])
    /\ phase' = "wait"
    /\ UNCHANGED <<program, metas, temps, outs, pool, held, fence, sets, cursor,
                   data, answer, synced>>

(* Mutant: the fence is not waited for.                                  *)
SubmitEarlyReset ==
    /\ phase = "submit" /\ Len(gpu) < MaxInFlight
    /\ cmd' = "pending" /\ recorded' = <<>>
    /\ gpu' = Append(gpu, Job)
    /\ phase' = "read"
    /\ cursor' = 0
    /\ UNCHANGED <<program, metas, temps, outs, pool, held, fence, sets, data, answer, synced>>

Submit ==
    /\ phase = "submit" /\ Len(gpu) < MaxInFlight
    /\ cmd' = "pending" /\ recorded' = <<>>
    /\ gpu' = Append(gpu, Job)
    /\ phase' = "wait"
    /\ UNCHANGED <<program, metas, temps, outs, pool, held, fence, sets, cursor,
                   data, answer, synced>>

(* end_command_buffer or queue_submit fails.                               *)
SubmitFails ==
    /\ phase = "submit" /\ "submit" \in setting.failures
    /\ cmd' \in {"invalid", "executable"}
    /\ Fail
    /\ UNCHANGED <<pool, held, recorded, fence, sets, cursor, data, synced>>

(* Mutant: the cursor is not moved back.                                 *)
WaitKeepsCursor ==
    /\ phase = "wait" /\ fence
    /\ fence' = FALSE
    /\ phase' = "read"
    /\ UNCHANGED <<program, metas, temps, outs, pool, held, cmd, recorded, gpu, sets, cursor,
                   data, answer, synced>>

(* wait_for_fences returns, reset_fences succeeds, and submit_batch or     *)
(* dispatch moves the cursor back.  upload's end_and_submit does not.      *)
Wait ==
    /\ phase = "wait" /\ fence
    /\ fence' = FALSE
    /\ cursor' = IF program[1].copy THEN cursor ELSE 0
    /\ phase' = "read"
    /\ UNCHANGED <<program, metas, temps, outs, pool, held, cmd, recorded, gpu, sets, data,
                   answer, synced>>

(* wait_for_fences fails with the submission still running, or reset_fences*)
(* fails and leaves the fence signalled.  Bound: once per behaviour.       *)
WaitFails ==
    /\ phase = "wait" /\ synced
    /\ \/ "wait" \in setting.failures
       \/ "reset" \in setting.failures /\ fence
    /\ Fail
    /\ synced' = FALSE
    /\ UNCHANGED <<pool, held, cmd, recorded, fence, sets, cursor, data>>

OutputsOf(i) ==
    [j \in 1 .. program[i].outs |-> data[outs[metas[i].outStart + j]]]

(* Phase 4: read every output, then put temporaries and outputs back.  The *)
(* staging buffer of a copy is dropped.                                    *)
Read ==
    /\ phase = "read"
    /\ answer' = Ok([i \in DOMAIN program |-> OutputsOf(i)])
    /\ pool' = IF program[1].copy THEN pool ELSE Put(temps \o outs)
    /\ phase' = "idle" /\ program' = <<>>
    /\ metas' = <<>> /\ temps' = <<>> /\ outs' = <<>>
    /\ UNCHANGED <<held, cmd, recorded, fence, gpu, sets, cursor, data, synced>>

-----------------------------------------------------------------------------
(* Activation tensors take a pool buffer, as an operation with one output  *)
(* would, and destroy it when Python drops the tensor.                     *)

Activation(z) == Op(<<>>, {}, 1, <<z>>, FALSE)

AllocActivation ==
    /\ phase = "idle" /\ Cardinality(held) < setting.activations
    /\ \E z \in Sizes :
          /\ CanTake(Activation(z))
          /\ held' = held \cup ToSet(Taken(Activation(z)))
          /\ pool' = PoolAfter(Activation(z), 1)
    /\ UNCHANGED <<phase, program, metas, temps, outs, cmd, recorded, fence, gpu, sets, cursor,
                   data, answer, synced>>

DropActivation ==
    /\ phase = "idle"
    /\ \E b \in held : held' = held \ {b}
    /\ UNCHANGED <<phase, program, metas, temps, outs, pool, cmd, recorded, fence, gpu, sets,
                   cursor, data, answer, synced>>

-----------------------------------------------------------------------------
(* The GPU.                                                                *)

(* Dispatches recorded before the last barrier that precedes i.            *)
MustPrecede(job, i) ==
    {k \in 1 .. i - 1 : \E b \in k .. i - 1 : job.ops[b].barrier}

(* A dispatch follows its descriptor set when it runs.                     *)
PlacesOf(rec) == IF rec.set = 0 THEN rec.places ELSE sets[rec.set]

(* What a correct run finds at binding n of operation i: the last store    *)
(* of an earlier operation into the tensor, for a tensor.                  *)
Wanted(ops, i, n) ==
    LET b == ops[i].ins[n]
        stores == {k \in 1 .. i - 1 : b.kind = "gpu" /\ b.tensor \in ops[k].writes}
    IN CASE b.kind = "bytes" -> Given(i, n)
         [] b.kind = "ref" -> Result(b.op + 1, b.out + 1)
         [] b.kind = "gpu" ->
              IF stores = {} THEN Stale
              ELSE Written(CHOOSE k \in stores : \A m \in stores : m <= k)

InputsRight(job, i) ==
    LET at == PlacesOf(job.recorded[i])
    IN \A n \in DOMAIN job.ops[i].ins :
          n \in DOMAIN at /\ data[at[n]] = Wanted(job.ops, i, n)

(* One dispatch runs: it stores its outputs and the tensors it writes.     *)
(* Work whose caller has gone away only spoils what it touches.            *)
Dispatch(j, i) ==
    LET job == gpu[j]
        op == job.ops[i]
        at == PlacesOf(job.recorded[i])
        right == job.live /\ InputsRight(job, i)
        OutputAt(p) == {n \in 1 .. op.outs :
                          Len(op.ins) + n \in DOMAIN at /\ at[Len(op.ins) + n] = p}
    IN /\ i \in DOMAIN job.recorded \ job.done
       /\ MustPrecede(job, i) \subseteq job.done
       /\ data' = [p \in DOMAIN data |->
            CASE p \in op.writes -> IF right THEN Written(i) ELSE Wrong
              [] OutputAt(p) # {} ->
                   IF right THEN Result(i, CHOOSE n \in OutputAt(p) : TRUE) ELSE Wrong
              [] OTHER -> data[p]]
       /\ gpu' = [gpu EXCEPT ![j].done = @ \cup {i}]
       /\ UNCHANGED <<phase, program, metas, temps, outs, pool, held, cmd, recorded, fence, sets,
                      cursor, answer, synced>>

(* Mutant: the fence is not signalled.                                   *)
CompleteSilently ==
    /\ gpu # <<>>
    /\ Head(gpu).done = DOMAIN Head(gpu).recorded
    /\ gpu' = Tail(gpu)
    /\ cmd' = IF cmd = "pending" /\ Len(gpu) = 1 THEN "invalid" ELSE cmd
    /\ UNCHANGED <<host, fence, data>>

(* The oldest submission has run: its fence is signalled and the           *)
(* one-time command buffer leaves the pending state.                       *)
Complete ==
    /\ gpu # <<>>
    /\ Head(gpu).done = DOMAIN Head(gpu).recorded
    /\ gpu' = Tail(gpu)
    /\ fence' = TRUE
    /\ cmd' = IF cmd = "pending" /\ Len(gpu) = 1 THEN "invalid" ELSE cmd
    /\ UNCHANGED <<host, data>>

GpuStep ==
    /\ \/ \E j \in DOMAIN gpu : \E i \in DOMAIN gpu[j].recorded : Dispatch(j, i)
       \/ Complete
    /\ UNCHANGED setting

HostStep ==
    /\ \/ Bind \/ BindFails \/ Begin \/ BeginFails
       \/ Record \/ RecordCopy \/ RecordFails
       \/ Submit \/ SubmitFails \/ Wait \/ WaitFails \/ Read
    /\ UNCHANGED setting

CallerStep == (Call \/ AllocActivation \/ DropActivation) /\ UNCHANGED setting

Next == CallerStep \/ HostStep \/ GpuStep

Spec == Init /\ [][Next]_vars

(* The host runs its call and the driver makes progress on submitted work. *)
FairSpec == Spec /\ WF_vars(HostStep) /\ WF_vars(GpuStep)

-----------------------------------------------------------------------------
(* Properties.                                                             *)

(* How many buffers of size z a call is given.                             *)
BuffersNeeded(ops, z) ==
    Cardinality(UNION {{i} \X {k \in 1 .. Need(ops[i]) : ops[i].sizes[k] = z} :
                       i \in DOMAIN ops})

(* A process whose memory and descriptor sets suffice for each of its      *)
(* calls, whatever the pool and the activations hold.                      *)
Suffices(s) ==
    \A p \in s.programs :
        /\ \A z \in Sizes :
              BuffersNeeded(p, z) + s.activations + 1 <= Cardinality(OfSize(Buffers, z))
        /\ Len(p) + PoolSets <= s.maxSets + 1

(* The shape of the engine's state: in particular the cursor never passes  *)
(* the sets that exist, and a bucket has buffers of its size only and is   *)
(* never longer than POOL_MAX.                                             *)
TypeOK ==
    /\ setting \in Settings
    /\ phase \in {"idle", "bind", "begin", "record", "submit", "wait", "read"}
    /\ program \in setting.programs \cup {<<>>}
    /\ Len(metas) <= Len(program)
    /\ pool \in [Sizes -> Seq(Buffers)]
    /\ \A z \in Sizes : /\ Len(pool[z]) <= setting.poolMax
                        /\ \A b \in ToSet(pool[z]) : SizeOf[b] = z
    /\ temps \in Seq(Buffers) /\ outs \in Seq(Buffers)
    /\ held \subseteq Buffers
    /\ cmd \in {"initial", "recording", "executable", "pending", "invalid"}
    /\ fence \in BOOLEAN
    /\ cursor \in 0 .. Len(sets) /\ Len(sets) <= setting.maxSets
    /\ answer.result \in {"none", "ok", "error"}

(* What a call returns was computed by its own dispatches from its own     *)
(* bytes, each operation after the ones it depends on: neither the order   *)
(* in which the GPU runs dispatches between barriers, nor a buffer or a    *)
(* descriptor set that an earlier call used, shows in an answer            *)
(* (execute_batch, record_barrier_to, next_descriptor_set, BufferPool).    *)
AnswersAreRight ==
    answer.result = "ok" =>
        \A i \in DOMAIN answer.outputs : \A j \in DOMAIN answer.outputs[i] :
            answer.outputs[i][j] = Result(i, j)

(* One buffer has one owner: the idle pool, the running call, or an        *)
(* activation tensor; and the pool never hands the same buffer out twice   *)
(* (BufferPool::get and put, return_to_pool, alloc_activation).            *)
OneOwner ==
    /\ \A z \in Sizes : IsInjective(pool[z] \o (temps \o outs))
    /\ \A y, z \in Sizes : y # z => ToSet(pool[y]) \cap ToSet(pool[z]) = {}
    /\ (Idle \cup CallBuffers) \cap held = {}

(* A buffer that a dispatch the GPU has not run yet will touch belongs to  *)
(* the call that is waiting for it: it is neither in the pool nor          *)
(* destroyed nor an activation (the order of phases 3 and 4), as long as   *)
(* no wait for the fence has failed.                                       *)
InFlightBuffersOwned ==
    synced =>
      \A j \in DOMAIN gpu : \A i \in DOMAIN gpu[j].recorded \ gpu[j].done :
        ToSet(PlacesOf(gpu[j].recorded[i])) \cap Buffers \subseteq CallBuffers

(* A descriptor set that an unfinished dispatch was recorded with is not   *)
(* updated, and no two dispatches of a command buffer share a set          *)
(* (next_descriptor_set, the cursor reset of submit_batch), as long as no  *)
(* wait for the fence has failed.                                          *)
InFlightSetsUntouched ==
    [][synced =>
       \A j \in DOMAIN gpu : \A i \in DOMAIN gpu[j].recorded \ gpu[j].done :
          LET d == gpu[j].recorded[i].set
          IN d # 0 => /\ sets'[d] = sets[d]
                      /\ \A k \in DOMAIN gpu[j].recorded \ {i} :
                            gpu[j].recorded[k].set # d]_vars

(* submit_batch: "reset the cursor so subsequent batches reuse the same    *)
(* pre-allocated pool entries instead of growing the pool indefinitely":   *)
(* there are never more descriptor pools than the longest call needs, when *)
(* calls succeed; those that fail after recording do make it grow.         *)
SetsBounded ==
    setting.failures = {} => \E p \in setting.programs : Len(sets) < Len(p) + PoolSets

(* Of each size, whatever failed before, the buffers alive are those that  *)
(* the call which needs most of that size needs, the activations of the    *)
(* size, and one staging buffer: a call finds its buffers in the bucket    *)
(* before it allocates (BufferPool::get).  Over all sizes there is no such *)
(* bound: a bucket keeps what it has when no call asks for its size again. *)
LiveBounded ==
    \A z \in Sizes : \E p \in setting.programs :
        Cardinality(OfSize(Live, z))
            <= BuffersNeeded(p, z) + Cardinality(OfSize(held, z)) + 1

(* "Only one command buffer is ever in flight at a time ... so a single    *)
(* persistent buffer is always safe to reset here" (cmd_buf): the command  *)
(* buffer is not reset while the GPU runs it, as long as no wait for the   *)
(* fence has failed; none of the other errors leaves it with the GPU.      *)
ResetIdleWhileSynced == [][synced /\ cmd = "pending" => cmd' # "recording"]_vars

(* Seen from Python, a call is answered once, and rightly.                 *)
Verdict ==
    IF answer.result # "ok" THEN answer.result
    ELSE IF AnswersAreRight THEN "right" ELSE "wrong"

Service == INSTANCE BatchService WITH
    pending <- phase # "idle", reply <- Verdict,
    faulty <- setting.failures # {}, lapsed <- ~synced

(* The engine implements the service: whatever the GPU interleaves and     *)
(* whichever driver call fails, every call gets one answer and gets it     *)
(* eventually, refusals only from a driver that fails, and the right one   *)
(* unless a wait for the fence has failed before.                          *)
ImplementsService == Service!FairSpec

=============================================================================
