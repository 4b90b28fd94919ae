---------------------------- MODULE CpuBackends ----------------------------
(***************************************************************************)
(* The backends of tpt-infer-ops that run on the CPU: which one a machine  *)
(* gets (dispatch.rs), and what the vector kernels of avx2.rs, avx512.rs,  *)
(* neon.rs and wasm.rs compute.  Whatever they do not vectorise they hand  *)
(* to naive.rs, and everything when the CPU lacks the feature.             *)
(*                                                                         *)
(* A machine is [arch, cpu, built, std, avx512]: the features its CPU has, *)
(* the target features of the build (which the CPU has, or the program     *)
(* could not be started), and the two cargo features.                      *)
(*                                                                         *)
(* A job is one call of the trait: [op, a, ad, b, bd, len, opts].          *)
(***************************************************************************)
EXTENDS Kernels

CONSTANT Garbage    \* what the caller's output slice holds before the call

-----------------------------------------------------------------------------
(* The reference *)

\* relu on the sign of its element, "nan" being neither.
ScalarRelu(x) == IF x = "pos" THEN x ELSE "zero"

Relu(a, len) ==
    Answer(<<Require(len = Len(a), "Op.SizeMismatch")>>,
           Fill(len, LAMBDA i : ScalarRelu(At(a, i))))

Naive(job) ==
    CASE job.op = "matmul"  -> MatMul(job.a, job.ad, job.b, job.bd, job.len)
      [] job.op = "conv2d"  -> Conv2d(job.a, job.ad, job.b, job.bd, job.len,
                                      job.opts.strides, job.opts.padding)
      [] job.op = "add"     -> ElementwiseAdd(job.a, job.b, job.len)
      [] job.op = "relu"    -> Relu(job.a, job.len)
      [] job.op = "softmax" -> Softmax(job.a, job.len, job.opts.rowLen)
      [] job.op \in {"sigmoid", "gelu"} -> Unary(job.op, job.a, job.len)

-----------------------------------------------------------------------------
(* Which backend *)

Feature == [Avx2 |-> "avx2", Avx512 |-> "avx512f", Neon |-> "neon", WasmSimd |-> "simd128"]

\* is_available: x86 asks the CPU if it can and the build if it cannot, NEON
\* asks both, WebAssembly can only ask the build.
IsAvailable(m, b) ==
    CASE b \in {"Avx2", "Avx512"} -> Feature[b] \in (IF m.std THEN m.cpu ELSE m.built)
      [] b = "Neon"               -> Feature[b] \in m.built /\ (m.std => Feature[b] \in m.cpu)
      [] b = "WasmSimd"           -> Feature[b] \in m.built

\* AnyBackend: the variants the build has.
AnyBackend(m) ==
    {"Naive"}
      \cup (IF m.arch = "x86_64" THEN {"Avx2"} ELSE {})
      \cup (IF m.arch = "x86_64" /\ m.avx512 THEN {"Avx512"} ELSE {})
      \cup (IF m.arch = "aarch64" THEN {"Neon"} ELSE {})
      \cup (IF m.arch = "wasm32" THEN {"WasmSimd"} ELSE {})

Found(m, b) == b \in AnyBackend(m) /\ IsAvailable(m, b)

\* Mutant: AVX2 is tried first.
DetectNarrowFirst(m) ==
    IF Found(m, "Avx2")          THEN {"Avx2"}
    ELSE IF Found(m, "Avx512")   THEN {"Avx512"}
    ELSE IF Found(m, "Neon")     THEN {"Neon"}
    ELSE IF Found(m, "WasmSimd") THEN {"WasmSimd"}
    ELSE {}

\* The first that is found, if any.
Detect(m) ==
    IF Found(m, "Avx512")        THEN {"Avx512"}
    ELSE IF Found(m, "Avx2")     THEN {"Avx2"}
    ELSE IF Found(m, "Neon")     THEN {"Neon"}
    ELSE IF Found(m, "WasmSimd") THEN {"WasmSimd"}
    ELSE {}

SelectBackend(m) ==
    IF Detect(m) = {} THEN "Naive" ELSE CHOOSE b \in Detect(m) : TRUE

AvailableBackends(m) ==
    LET push(b) == IF Found(m, b) THEN <<b>> ELSE <<>>
    IN  <<"Naive">> \o push("Avx2") \o push("Avx512") \o push("Neon") \o push("WasmSimd")

-----------------------------------------------------------------------------
(* Vector loops *)

\* The turns of `while i + lanes <= len`, a whole vector each, then of the rest,
\* one by one.
Sweep(len, lanes) ==
    FlattenSeq([v \in 1 .. len \div lanes |->
                   [l \in 1 .. lanes |-> [i |-> (v - 1) * lanes + l - 1, by |-> "vector"]]])
      \o [t \in 1 .. len % lanes |-> [i |-> len - (len % lanes) + t - 1, by |-> "scalar"]]

\* matmul_*: the output is zeroed, then every row accumulates the rows of b.
SimdMatMul(lanes, job) ==
    LET n == job.bd[2]
        k == job.ad[2]
        plus(i, kk, row, t) ==
            [row EXCEPT ![t.i + 1] = Append(@, <<At(job.a, i * k + kk), At(job.b, kk * n + t.i)>>)]
        row(i) == FoldLeft(LAMBDA acc, kk :
                               FoldLeft(LAMBDA r, t : plus(i, kk, r, t), acc, Sweep(n, lanes)),
                           [j \in 1 .. n |-> <<>>], [kk \in 1 .. k |-> kk - 1])
    IN  Fill(job.len, LAMBDA i : <<"Sum", At(row(i \div n), i % n)>>)

\* add_*
SimdAdd(lanes, job) ==
    FoldLeft(LAMBDA out, t : [out EXCEPT ![t.i + 1] = <<"Add", At(job.a, t.i), At(job.b, t.i)>>],
             Fill(job.len, LAMBDA i : Garbage), Sweep(job.len, lanes))

\* The vector maximum with zero: x86 answers its second operand when one is not
\* a number, NEON and WebAssembly answer the NaN.
VectorMax(b, x) ==
    IF x = "nan" /\ b \in {"Neon", "WasmSimd"} THEN "nan"
    ELSE ScalarRelu(x)

\* relu_*
SimdRelu(b, lanes, job) ==
    LET max(t) == IF t.by = "vector" THEN VectorMax(b, At(job.a, t.i)) ELSE ScalarRelu(At(job.a, t.i))
    IN  FoldLeft(LAMBDA out, t : [out EXCEPT ![t.i + 1] = max(t)],
                 Fill(job.len, LAMBDA i : Garbage), Sweep(job.len, lanes))

SimdKernel(b, lanes, job) ==
    CASE job.op = "matmul" -> SimdMatMul(lanes, job)
      [] job.op = "add"    -> SimdAdd(lanes, job)
      [] job.op = "relu"   -> SimdRelu(b, lanes, job)

\* A vector instruction the CPU does not have stops the program.
Crash == Fails("IllegalInstruction")

Vectorised(m, b, lanes, job) ==
    IF Feature[b] \notin m.cpu THEN Crash
    ELSE LET refused == Naive(job).err    \* the same validation
         IN  IF refused # None THEN Fails(refused) ELSE Writes(SimdKernel(b, lanes, job))

\* Mutant: a method that does not ask whether the feature is there.
SimdUnasked(m, b, lanes, job) ==
    IF job.op \notin {"matmul", "add", "relu"} THEN Naive(job) ELSE Vectorised(m, b, lanes, job)

\* impl Backend
Simd(m, b, lanes, job) ==
    IF job.op \notin {"matmul", "add", "relu"} \/ ~IsAvailable(m, b) THEN Naive(job)
    ELSE Vectorised(m, b, lanes, job)

RunAvx2(m, job)   == Simd(m, "Avx2", 8, job)
RunAvx512(m, job) == Simd(m, "Avx512", 16, job)
RunNeon(m, job)   == Simd(m, "Neon", 4, job)
RunWasm(m, job)   == Simd(m, "WasmSimd", 4, job)

\* impl Backend for AnyBackend
Dispatched(m, b, job) ==
    CASE b = "Naive"    -> Naive(job)
      [] b = "Avx2"     -> RunAvx2(m, job)
      [] b = "Avx512"   -> RunAvx512(m, job)
      [] b = "Neon"     -> RunNeon(m, job)
      [] b = "WasmSimd" -> RunWasm(m, job)
=============================================================================
