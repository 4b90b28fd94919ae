------------------------------- MODULE WebGpu -------------------------------
(***************************************************************************)
(* WebGpuBackend (tpt-infer-ops/src/webgpu.rs): threads that share one     *)
(* device call it at the same time.  A call encodes a dispatch, submits    *)
(* it, submits a copy of the result into a staging buffer, asks for that   *)
(* buffer to be mapped, polls the device and blocks on a channel which     *)
(* only the callback of the mapping sends to.                              *)
(*                                                                         *)
(* The device is wgpu's, and external: its queue runs submissions in       *)
(* order; a callback becomes due when the copy has run or the device is    *)
(* lost, and is run by whichever thread's poll finds it due.               *)
(***************************************************************************)
EXTENDS CpuBackends, FiniteSets

CONSTANTS
    Callers,
    GroupSize,    \* threads of a workgroup: 64
    TileSide,     \* the side of matmul's workgroup: 8
    MaxGroups,    \* the device's limits: workgroups of one dimension,
    MaxBuffer,    \* bytes of a buffer,
    MaxBinding,   \* bytes of a buffer bound for storage
    Unset         \* a buffer not created yet, a call not answered yet

ASSUME GridAssumption == GroupSize \in Nat \ {0} /\ TileSide \in Nat \ {0}

VARIABLES
    call,       \* the one call each caller makes: [backend, job]
    gpu,        \* "none" | "open" | "absent" | "lost"
    pc,         \* where a caller is
    answer,     \* what its call answered
    queue,      \* what was submitted: <<caller, "compute" | "copy">>
    done,       \* how many submissions have run
    outBuf, staging,    \* a call's two buffers
    mapping,    \* its mapping: "no" | "requested" | "taken"
    until,      \* the submissions its poll waits for
    held,       \* the callers whose callbacks its poll has taken and not yet run
    channel     \* what its callback sent

gpuVars == <<call, gpu, pc, answer, queue, done, outBuf, staging, mapping, until, held, channel>>

Job(c) == call[c].job

-----------------------------------------------------------------------------
(* The shaders: every thread of every workgroup, in no order *)

Ceil(a, b) == (a + b - 1) \div b

Threads(items) == 0 .. Ceil(items, GroupSize) * GroupSize - 1

\* A buffer after the writes <<index, value>> of all threads: a write past its end
\* is dropped; an index that no thread writes, or two do, holds nothing computed.
Written(len, writes) ==
    Fill(len, LAMBDA i :
        LET here == {w \in writes : w[1] = i}
        IN  IF Cardinality(here) = 1 THEN (CHOOSE w \in here : TRUE)[2] ELSE Garbage)

\* relu_main, sigmoid_main, gelu_main; WGSL leaves open what max answers for a
\* NaN, `nanMax`.
UnaryShader(job, nanMax) ==
    LET relu(x)  == IF x = "nan" THEN nanMax ELSE ScalarRelu(x)
        value(x) == IF job.op = "relu" THEN relu(x) ELSE <<job.op, x>>
    IN  Written(job.len, {<<i, value(At(job.a, i))>> : i \in {t \in Threads(job.len) : t < job.len}})

AddShader(job) ==
    Written(job.len, {<<i, <<"Add", At(job.a, i), At(job.b, i)>>>> :
                         i \in {t \in Threads(job.len) : t < job.len}})

Dot(job, row, col) ==
    LET k == job.ad[2]
    IN  <<"Sum", [kk \in 1 .. k |->
            <<At(job.a, row * k + kk - 1), At(job.b, (kk - 1) * job.bd[2] + col)>>]>>

Tiles(items) == 0 .. Ceil(items, TileSide) * TileSide - 1

\* Mutant: only the row is checked; a column past the last writes to the next row.
MatMulShaderRowsOnly(job) ==
    LET m == job.ad[1]
        n == job.bd[2]
    IN  Written(job.len, {<<t[2] * n + t[1], Dot(job, t[2], t[1] % n)>> :
                             t \in {u \in Tiles(n) \X Tiles(m) : u[2] < m}})

\* Thread (x, y) computes column x of row y.
MatMulShader(job) ==
    LET m == job.ad[1]
        n == job.bd[2]
    IN  Written(job.len, {<<t[2] * n + t[1], Dot(job, t[2], t[1])>> :
                             t \in {u \in Tiles(n) \X Tiles(m) : u[2] < m /\ u[1] < n}})

\* One thread per row, which goes over it three times.
SoftmaxShader(job) ==
    LET rowLen == job.opts.rowLen
        rows   == {t \in Threads(Len(job.a) \div rowLen) : t < Len(job.a) \div rowLen}
    IN  Written(job.len,
                UNION {{<<r * rowLen + i, <<"Softmax", At(job.a, r * rowLen + i),
                                            SubSeq(job.a, r * rowLen + 1, (r + 1) * rowLen)>>>> :
                           i \in 0 .. rowLen - 1} : r \in rows})

\* One thread per output element, which it finds from its number.
Conv2dShader(job) ==
    LET s  == job.opts.strides
        p  == job.opts.padding
        oc == job.bd[1]
        oh == WindowCount(job.ad[3], job.bd[3], s[1], p[1])
        ow == WindowCount(job.ad[4], job.bd[4], s[2], p[2])
        value(t) ==
            LET ox == t % ow
                oy == (t \div ow) % oh
                o  == (t \div (ow * oh)) % oc
                ni == t \div (ow * oh * oc)
                taps == Taps(job.ad[2], <<job.bd[3], job.bd[4]>>, oy, ox, s, p, job.ad)
            IN  <<"Sum", [j \in DOMAIN taps |->
                    <<At(job.a, Nchw(job.ad, ni, taps[j].c, taps[j].y, taps[j].x)),
                      At(job.b, Nchw(job.bd, o, taps[j].c, taps[j].ky, taps[j].kx))>>]>>
        total == job.ad[1] * oc * oh * ow
    IN  Written(job.len, {<<t, value(t)>> : t \in {u \in Threads(total) : u < total}})

Computed(job, nanMax) ==
    CASE job.op = "matmul"  -> MatMulShader(job)
      [] job.op = "conv2d"  -> Conv2dShader(job)
      [] job.op = "softmax" -> SoftmaxShader(job)
      [] job.op = "add"     -> AddShader(job)
      [] OTHER              -> UnaryShader(job, nanMax)

-----------------------------------------------------------------------------
(* What the device refuses, by a panic of wgpu's error handler *)

\* The pass that a method encodes: the operands it binds, and the workgroups of
\* each dimension.
MatMulPass(job)  == [operands |-> {job.a, job.b},
                     groups   |-> {Ceil(job.ad[1], TileSide), Ceil(job.bd[2], TileSide)}]
Conv2dPass(job)  == [operands |-> {job.a, job.b}, groups |-> {Ceil(job.len, GroupSize)}]
AddPass(job)     == [operands |-> {job.a, job.b}, groups |-> {Ceil(job.len, GroupSize)}]
SoftmaxPass(job) == [operands |-> {job.a},
                     groups   |-> {Ceil(Len(job.a) \div job.opts.rowLen, GroupSize)}]
UnaryPass(job)   == [operands |-> {job.a}, groups |-> {Ceil(job.len, GroupSize)}]

Pass(job) ==
    CASE job.op = "matmul"  -> MatMulPass(job)
      [] job.op = "conv2d"  -> Conv2dPass(job)
      [] job.op = "add"     -> AddPass(job)
      [] job.op = "softmax" -> SoftmaxPass(job)
      [] OTHER              -> UnaryPass(job)

\* The bytes of the buffers that a method makes: one for each operand and one for
\* the output, all bound whole; the staging buffer is as long as the output's.
BufferSizes(job) == {4 * Len(x) : x \in Pass(job).operands} \cup {4 * job.len}

\* A binding of no bytes; a buffer, or a binding, of too many; too many workgroups.
Unbindable(job) == <<>> \in Pass(job).operands
Overlong(job)   == \E size \in BufferSizes(job) : size > MaxBuffer \/ size > MaxBinding
Oversized(job)  == \E g \in Pass(job).groups : g > MaxGroups

-----------------------------------------------------------------------------
(* A call *)

Move(c, to) == pc' = [pc EXCEPT ![c] = to]
Ask(c) == pc[c] = "ready" /\ call[c].backend = "WebGpu" /\ gpu \in {"open", "lost"}

Answered(c, what) ==
    /\ answer' = [answer EXCEPT ![c] = what]
    /\ Move(c, "answered")

\* Shape and length errors, as in naive.rs.
Refuse(c) ==
    /\ Ask(c) /\ Naive(Job(c)).err # None
    /\ Answered(c, Fails(Naive(Job(c)).err))
    /\ UNCHANGED <<call, gpu, queue, done, outBuf, staging, mapping, until, held, channel>>

\* Nothing to compute: the output is left alone.
Skip(c) ==
    /\ Ask(c) /\ Naive(Job(c)).err = None /\ Job(c).len = 0
    /\ Answered(c, Writes(<<>>))
    /\ UNCHANGED <<call, gpu, queue, done, outBuf, staging, mapping, until, held, channel>>

\* Upload, bind, encode and submit; what the device refuses is never submitted.
Submit(c) ==
    /\ Ask(c) /\ Naive(Job(c)).err = None /\ Job(c).len > 0
    /\ IF Unbindable(Job(c)) \/ Overlong(Job(c)) \/ Oversized(Job(c))
       THEN Move(c, "panicked") /\ UNCHANGED queue
       ELSE Move(c, "submitted") /\ queue' = Append(queue, <<c, "compute">>)
    /\ UNCHANGED <<call, gpu, answer, done, outBuf, staging, mapping, until, held, channel>>

\* read_back submits its copy in an encoder of its own.
SubmitCopy(c) ==
    /\ pc[c] = "submitted"
    /\ queue' = Append(queue, <<c, "copy">>)
    /\ Move(c, "copying")
    /\ UNCHANGED <<call, gpu, answer, done, outBuf, staging, mapping, until, held, channel>>

MapAsync(c) ==
    /\ pc[c] = "copying"
    /\ mapping' = [mapping EXCEPT ![c] = "requested"]
    /\ Move(c, "mapping")
    /\ UNCHANGED <<call, gpu, answer, queue, done, outBuf, staging, until, held, channel>>

\* poll(Maintain::Wait): all that is submitted by now.
Poll(c) ==
    /\ pc[c] = "mapping"
    /\ until' = [until EXCEPT ![c] = Len(queue)]
    /\ Move(c, "polling")
    /\ UNCHANGED <<call, gpu, answer, queue, done, outBuf, staging, mapping, held, channel>>

Copied(d) == \E j \in 1 .. done : queue[j] = <<d, "copy">>
Due == {d \in Callers : mapping[d] = "requested" /\ (Copied(d) \/ gpu = "lost")}

\* Mutant: a poll that does not wait.
HarvestNow(c) ==
    /\ pc[c] = "polling"
    /\ held' = [held EXCEPT ![c] = Due]
    /\ mapping' = [d \in Callers |-> IF d \in Due THEN "taken" ELSE mapping[d]]
    /\ Move(c, "firing")
    /\ UNCHANGED <<call, gpu, answer, queue, done, outBuf, staging, until, channel>>

\* Mutant: a callback that is due may be taken twice.
HarvestAgain(c) ==
    /\ pc[c] = "polling" /\ (done >= until[c] \/ gpu = "lost")
    /\ held' = [held EXCEPT ![c] = Due]
    /\ Move(c, "firing")
    /\ UNCHANGED <<call, gpu, answer, queue, done, outBuf, staging, mapping, until, channel>>

\* The callbacks that are due, whoever asked for them.
Harvest(c) ==
    /\ pc[c] = "polling" /\ (done >= until[c] \/ gpu = "lost")
    /\ held' = [held EXCEPT ![c] = Due]
    /\ mapping' = [d \in Callers |-> IF d \in Due THEN "taken" ELSE mapping[d]]
    /\ Move(c, "firing")
    /\ UNCHANGED <<call, gpu, answer, queue, done, outBuf, staging, until, channel>>

\* The callback sends what became of the mapping.
Fire(c) ==
    /\ pc[c] = "firing"
    /\ \E d \in held[c], mapped \in {"Ok"} \cup (IF gpu = "lost" THEN {"Err"} ELSE {}) :
          /\ mapped = "Ok" => Copied(d)
          /\ channel' = [channel EXCEPT ![d] = Append(@, mapped)]
          /\ held' = [held EXCEPT ![c] = @ \ {d}]
    /\ UNCHANGED <<call, gpu, pc, answer, queue, done, outBuf, staging, mapping, until>>

\* The result of the poll is dropped.
PollReturns(c) ==
    /\ pc[c] = "firing" /\ held[c] = {}
    /\ Move(c, "receiving")
    /\ UNCHANGED <<call, gpu, answer, queue, done, outBuf, staging, mapping, until, held, channel>>

\* Mutant: the channel is read without waiting.
ReceiveNow(c) ==
    /\ pc[c] = "receiving"
    /\ IF channel[c] = <<"Ok">> THEN Answered(c, Writes(staging[c]))
       ELSE Move(c, "panicked") /\ UNCHANGED answer
    /\ UNCHANGED <<call, gpu, queue, done, outBuf, staging, mapping, until, held, channel>>

\* recv blocks; then the mapped range is copied out, and unmapped.
Receive(c) ==
    /\ pc[c] = "receiving" /\ channel[c] # <<>>
    /\ IF Head(channel[c]) = "Ok" THEN Answered(c, Writes(staging[c]))
       ELSE Move(c, "panicked") /\ UNCHANGED answer
    /\ UNCHANGED <<call, gpu, queue, done, outBuf, staging, mapping, until, held, channel>>

CallStep(c) ==
    \/ Refuse(c) \/ Skip(c) \/ Submit(c)
    \/ SubmitCopy(c) \/ MapAsync(c) \/ Poll(c) \/ Harvest(c) \/ Fire(c) \/ PollReturns(c)
    \/ Receive(c)

-----------------------------------------------------------------------------
(* The device *)

\* WebGpuBackend::new, of a program that wants one: there may be no adapter.
Acquire ==
    /\ gpu = "none" /\ \E c \in Callers : call[c].backend = "WebGpu"
    /\ gpu' \in {"open", "absent"}
    /\ UNCHANGED <<call, pc, answer, queue, done, outBuf, staging, mapping, until, held, channel>>

\* The next submission runs.
Execute ==
    /\ gpu = "open" /\ done < Len(queue)
    /\ LET c == queue[done + 1][1]
       IN  IF queue[done + 1][2] = "compute"
           THEN /\ \E nanMax \in {"nan", "zero"} :
                      outBuf' = [outBuf EXCEPT ![c] = Computed(Job(c), nanMax)]
                /\ UNCHANGED staging
           ELSE staging' = [staging EXCEPT ![c] = outBuf[c]] /\ UNCHANGED outBuf
    /\ done' = done + 1
    /\ UNCHANGED <<call, gpu, pc, answer, queue, mapping, until, held, channel>>

Lose ==
    /\ gpu = "open"
    /\ gpu' = "lost"
    /\ UNCHANGED <<call, pc, answer, queue, done, outBuf, staging, mapping, until, held, channel>>

GpuInit ==
    /\ gpu = "none"
    /\ pc = [c \in Callers |-> "ready"]
    /\ answer = [c \in Callers |-> Unset]
    /\ queue = <<>> /\ done = 0
    /\ outBuf = [c \in Callers |-> Unset] /\ staging = [c \in Callers |-> Unset]
    /\ mapping = [c \in Callers |-> "no"]
    /\ until = [c \in Callers |-> 0]
    /\ held = [c \in Callers |-> {}]
    /\ channel = [c \in Callers |-> <<>>]
=============================================================================
