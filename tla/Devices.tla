------------------------------ MODULE Devices ------------------------------
(***************************************************************************)
(* Every backend a program can call the trait on: the CPU's, by value, and *)
(* a WebGPU device shared by the callers.  What naive.rs answers is what   *)
(* all of them are held to.                                                *)
(***************************************************************************)
EXTENDS WebGpu

CONSTANTS
    Machines,    \* the machines, or builds, considered
    Calls        \* the calls the callers may make on a machine: Calls(m)

\* What the signatures of the trait Backend let a caller pass: slices and usize
\* numbers, two dimensions to matmul, four to conv2d.
IsJob(job) ==
    /\ job.op \in {"matmul", "conv2d", "add", "relu", "softmax", "sigmoid", "gelu"}
    /\ job.len \in Nat /\ job.a \in Seq(ToSet(job.a))
    /\ job.op = "matmul" => {job.ad, job.bd} \subseteq [1 .. 2 -> Nat]
    /\ job.op = "conv2d" =>
          /\ {job.ad, job.bd} \subseteq [1 .. 4 -> Nat]
          /\ {job.opts.strides, job.opts.padding} \subseteq [1 .. 2 -> Nat]
    /\ job.op = "softmax" => job.opts.rowLen \in Nat

ASSUME JobsAssumption ==
    /\ Bits \in Nat
    /\ \A m \in Machines : \A calls \in Calls[m] : \A c \in Callers : IsJob(calls[c].job)

\* A build only runs where its target features are.
ASSUME MachinesAssumption == \A m \in Machines : m.built \subseteq m.cpu

VARIABLE machine

vars == <<gpuVars, machine>>

Init ==
    /\ machine \in Machines
    /\ call \in Calls[machine]
    /\ GpuInit

\* A backend of the CPU answers within the call.
CpuCall(c) ==
    /\ pc[c] = "ready" /\ call[c].backend \in AnyBackend(machine)
    /\ Answered(c, Dispatched(machine, call[c].backend, Job(c)))
    /\ UNCHANGED <<call, gpu, queue, done, outBuf, staging, mapping, until, held, channel, machine>>

GpuStep(c) == CallStep(c) /\ UNCHANGED machine
Device     == (Acquire \/ Execute \/ Lose) /\ UNCHANGED machine

Next == Device \/ \E c \in Callers : CpuCall(c) \/ GpuStep(c)

\* The threads that call are scheduled, and a device that is not lost gets on.
Fairness ==
    /\ \A c \in Callers : WF_vars(GpuStep(c))
    /\ WF_vars(Execute /\ UNCHANGED machine)

Spec == Init /\ [][Next]_vars /\ Fairness

-----------------------------------------------------------------------------
(* Properties *)

Stages == {"ready", "submitted", "copying", "mapping", "polling", "firing", "receiving",
           "answered", "panicked"}

\* A call is in one of its stages; its callback is held by one poll at most,
\* and sends once.
TypeOK ==
    /\ gpu \in {"none", "open", "absent", "lost"}
    /\ pc \in [Callers -> Stages] /\ mapping \in [Callers -> {"no", "requested", "taken"}]
    /\ done \in 0 .. Len(queue) /\ until \in [Callers -> 0 .. Len(queue)]
    /\ \A c, d \in Callers : c # d => held[c] \cap held[d] = {}
    /\ \A c \in Callers : Len(channel[c]) <= 1 /\ (channel[c] # <<>> => mapping[c] = "taken")

\* select_backend picks the best of available_backends, which are two separate
\* lists in dispatch.rs, and its vector instructions are ones the CPU has.
SelectsTheBest ==
    /\ SelectBackend(machine) = Last(AvailableBackends(machine))
    /\ SelectBackend(machine) # "Naive" => Feature[SelectBackend(machine)] \in machine.cpu

\* NEON, WebAssembly and WebGPU may answer a NaN with a NaN where the scalar
\* relu answers 0.
NanDiffers(c) ==
    Job(c).op = "relu" /\ "nan" \in ToSet(Job(c).a)
      /\ call[c].backend \in {"Neon", "WasmSimd", "WebGpu"}

\* On every backend, available on the machine or not, alone or beside another
\* call on the same device, a call that returns has refused what the scalar
\* reference refuses, or left in the output what that writes.
AnswersAsNaive ==
    \A c \in Callers :
        pc[c] = "answered" /\ ~NanDiffers(c) => answer[c] = Naive(Job(c))

\* A call panics on a lost device, on an operand without elements, which cannot
\* be bound, and beyond a limit of the device on the length of a buffer or of a
\* binding or on workgroups; and on nothing else, whatever the other caller's poll
\* did to its callback.  (Memory is taken to suffice.)
PanicsOnlyAtLimits ==
    \A c \in Callers :
        pc[c] = "panicked" =>
            /\ call[c].backend = "WebGpu"
            /\ gpu = "lost" \/ Unbindable(Job(c)) \/ Overlong(Job(c)) \/ Oversized(Job(c))

\* Although read_back drops what its poll returned and blocks on a channel that
\* another caller's poll may have to serve, every call ends.
EveryCallEnds ==
    \A c \in Callers : pc[c] = "submitted" ~> pc[c] \in {"answered", "panicked"}
=============================================================================
