----------------------------- MODULE MCDevices -----------------------------
(* One call of every operator on every backend of a few machines, and two    *)
(* calls at once on one device.  Lengths around a multiple of the lanes;     *)
(* workgroups of 3, tiles of 2 and at most 3 groups, so that 10 elements are *)
(* one too many; 12 elements in a binding and 16 in a buffer, which products *)
(* exceed on a small grid, by an operand or by the output alone.             *)
EXTENDS Devices

Slice(name, len) == [i \in 1 .. len |-> <<name, i>>]
Signs(len)  == [i \in 1 .. len |-> IF i % 3 = 0 THEN "neg" ELSE "pos"]

NoOpts == [rowLen |-> 0, strides |-> <<1, 1>>, padding |-> <<0, 0>>]
MkJob(op, a, ad, b, bd, len, opts) ==
    [op |-> op, a |-> a, ad |-> ad, b |-> b, bd |-> bd, len |-> len, opts |-> opts]

One(op, a, len)    == MkJob(op, a, <<>>, <<>>, <<>>, len, NoOpts)
AddOf(la, lb, len) == MkJob("add", Slice("a", la), <<>>, Slice("b", lb), <<>>, len, NoOpts)
Rows(la, row, len) ==
    MkJob("softmax", Slice("a", la), <<>>, <<>>, <<>>, len, [NoOpts EXCEPT !.rowLen = row])
Product(m, k, kb, n, len) ==
    MkJob("matmul", Slice("a", m * k), <<m, k>>, Slice("b", kb * n), <<kb, n>>, len, NoOpts)
Window(ad, bd, len, s, p) ==
    MkJob("conv2d", Slice("a", ad[1] * ad[2] * ad[3] * ad[4]), ad,
          Slice("b", bd[1] * bd[2] * bd[3] * bd[4]), bd, len,
          [NoOpts EXCEPT !.strides = s, !.padding = p])

SmallJobs ==
    {One(op, Slice("a", n), n) : op \in {"sigmoid", "gelu"}, n \in {0, 3, 10}}
      \cup {One("relu", Signs(n), n) : n \in {0, 1, 3, 4, 9, 10}}
      \cup {One("relu", <<"pos", "nan", "neg", "zero", "nan">>, 5), One("relu", Signs(3), 2)}
      \cup {AddOf(n, n, n) : n \in {0, 2, 3, 7, 10}} \cup {AddOf(2, 3, 2), AddOf(2, 2, 3)}
      \cup {Rows(6, 3, 6), Rows(8, 2, 8), Rows(6, 4, 6), Rows(6, 0, 6), Rows(4, 1, 4),
            Rows(20, 2, 20), Rows(0, 3, 0)}
      \cup {Product(m, k, k, n, m * n) : m \in {0, 1, 3}, k \in {0, 2}, n \in {0, 2, 3}}
      \cup {Product(1, 2, 3, 1, 1), Product(2, 2, 2, 2, 3), Product(1, 1, 1, 7, 7)}
      \cup {Product(1, k, k, 1, 1) : k \in {12, 13, 17}}
      \cup {Product(1, 5, 5, 3, 3), Product(4, 1, 1, 4, 16)}
      \cup {Window(<<1, 2, 3, 2>>, <<2, 2, 2, 1>>, 2 * 2 * 2, <<1, 1>>, <<0, 0>>),
            Window(<<2, 1, 2, 3>>, <<1, 1, 2, 2>>, 2 * 3 * 2, <<1, 2>>, <<1, 0>>),
            Window(<<2, 1, 2, 3>>, <<2, 1, 3, 2>>, 2 * 2, <<1, 4>>, <<1, 1>>),
            Window(<<2, 1, 2, 2>>, <<2, 1, 2, 2>>, 2 * 2, <<1, 1>>, <<0, 0>>),
            Window(<<1, 0, 2, 2>>, <<1, 0, 2, 2>>, 1, <<1, 1>>, <<0, 0>>),
            Window(<<1, 1, 2, 2>>, <<1, 2, 2, 2>>, 1, <<1, 1>>, <<0, 0>>),
            Window(<<1, 1, 2, 2>>, <<1, 1, 3, 2>>, 1, <<1, 1>>, <<0, 0>>),
            Window(<<1, 1, 2, 2>>, <<1, 1, 2, 2>>, 1, <<0, 1>>, <<0, 0>>),
            Window(<<1, 1, 2, 2>>, <<1, 1, 2, 2>>, 2, <<1, 1>>, <<0, 0>>)}

WideJobs ==
    {One("relu", Signs(n), n) : n \in {8, 15, 16, 17, 33}}
      \cup {AddOf(n, n, n) : n \in {8, 15, 16, 17, 33}}
      \cup {Product(2, 2, 2, n, 2 * n) : n \in {4, 5, 8, 9, 15, 16, 17}}

Mac(arch, cpu, built, std, avx512) ==
    [arch |-> arch, cpu |-> cpu, built |-> built, std |-> std, avx512 |-> avx512]

MCMachines ==
    {Mac("x86_64", cpu, built, std, a512) :
        cpu \in {{}, {"avx2"}, {"avx2", "avx512f"}, {"avx512f"}},
        built \in {{}, {"avx2"}}, std \in BOOLEAN, a512 \in BOOLEAN}
      \cup {Mac("aarch64", {"neon"}, built, std, FALSE) :
               built \in {{}, {"neon"}}, std \in BOOLEAN}
      \cup {Mac("wasm32", cpu, cpu, TRUE, FALSE) : cpu \in {{}, {"simd128"}}}
      \cup {Mac("riscv64", {}, {}, TRUE, FALSE)}

\* A build runs where its target features are.
MCBuilds == {m \in MCMachines : m.built \subseteq m.cpu}

Idle == [backend |-> "none", job |-> One("relu", <<>>, 0)]
Alone(backend, job) == [c \in Callers |-> IF c = 1 THEN [backend |-> backend, job |-> job] ELSE Idle]

Together == <<AddOf(4, 4, 4), Product(3, 2, 2, 3, 9), Product(1, 0, 0, 2, 2), AddOf(2, 3, 2)>>
Pairs    == {<<1, 2>>, <<1, 3>>, <<4, 2>>}

MCCalls ==
    [m \in MCBuilds |->
        {Alone(b, job) : b \in AnyBackend(m), job \in SmallJobs \cup WideJobs}
          \cup IF m # Mac("riscv64", {}, {}, TRUE, FALSE) THEN {}
               ELSE {Alone("WebGpu", job) : job \in SmallJobs}
                      \cup {[c \in Callers |-> [backend |-> "WebGpu", job |-> Together[p[c]]]] : p \in Pairs}]
=============================================================================
