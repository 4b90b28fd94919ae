---------------------------- MODULE MCTransforms ----------------------------
(* Ramps of a few sizes onto a few others; graphs of two operators over two  *)
(* weights, of which one may hide the other; rows of odd and even length;    *)
(* slices on one side of zero and on both; products that fit the accumulator *)
(* and one that does not.                                                    *)
EXTENDS Transforms

\* 1. Images
Ramp(right, down) == [right |-> right, down |-> down, base |-> <<0, 40, 90>>]
RampImage(ramp, w, h) ==
    [w |-> w, h |-> h,
     data |-> Fill(w * h * Channels, LAMBDA i :
                  ramp.right * ((i \div Channels) % w) + ramp.down * (i \div (Channels * w))
                    + ramp.base[(i % Channels) + 1])]

Config(w, h, letterbox, color, layout, std) ==
    [w |-> w, h |-> h, letterbox |-> letterbox, color |-> color, layout |-> layout,
     mean |-> <<1, 2, 3>>, std |-> std, pad |-> 7]

Sizes == {<<1, 1>>, <<2, 3>>, <<5, 2>>, <<1, 4>>}
Goals == {<<2, 3>>, <<4, 4>>, <<3, 1>>, <<6, 2>>}

RampImages ==
    {[image |-> RampImage(Ramp(3, 5), s[1], s[2]), ramp |-> Ramp(3, 5),
      cfg |-> Config(g[1], g[2], letterbox, color, layout, <<4, 5, 6>>)] :
        s \in Sizes, g \in Goals, letterbox \in BOOLEAN, color \in {"Rgb", "Bgr"},
        layout \in {"Chw", "Hwc"}}

\* Too short, too long, without pixels, a zero among std, and a length that wraps.
OddImages ==
    {[image |-> im, ramp |-> Ramp(3, 5), cfg |-> Config(g[1], g[2], FALSE, "Rgb", "Hwc", std)] :
        im \in {[w |-> 2, h |-> 2, data |-> [i \in 1 .. n |-> 1]] : n \in {0, 11, 13}}
                 \cup {[w |-> 0, h |-> 2, data |-> <<>>], [w |-> 32, h |-> 32, data |-> <<>>]},
        g \in {<<2, 2>>, <<0, 2>>, <<32, 32>>}, std \in {<<1, 1, 1>>, <<1, 0, 1>>}}

MCImages == RampImages \cup OddImages

\* 2. Weights
Times(dims) == FoldLeft(LAMBDA acc, d : acc * d, 1, dims)
Mixed(dims, seed) == [i \in 1 .. Times(dims) |-> ((i * i * seed) % 301) - 150]
Init2(name, dims, seed) == [name |-> name, dims |-> dims, data |-> Mixed(dims, seed), len |-> Times(dims)]

Operation(kind, ins) == [op |-> [kind |-> kind], ins |-> ins, dims |-> <<1>>, name |-> NoName]
Source(name) == [op |-> [kind |-> "Input"], ins |-> <<>>, dims |-> <<1>>, name |-> name]

WeightGraph(inits, first, second) ==
    [n |-> 5, inits |-> inits, inputs |-> <<0, 1, 2>>, outputs |-> <<4>>,
     nodes |-> 0 :> Source(NoName) @@ 1 :> Source("w") @@ 2 :> Source("v") @@ 3 :> first @@ 4 :> second]

Shapes == {<<2, 3>>, <<3, 2>>, <<1, 5>>, <<3, 1>>, <<0, 2>>, <<2, 0>>, <<3>>, <<2, 1, 3, 1>>}
MCGraphs ==
    {WeightGraph(<<Init2("w", s, seed), Init2("v", <<2, 2>>, 1)>>, Operation("MatMul", <<0, 1>>),
                 Operation("Conv2d", <<0, 2, 2>>)) : s \in Shapes, seed \in {0, 7, 53, 149}}
      \cup {WeightGraph(<<Init2("w", <<2, 2>>, 11), Init2(other, <<2, 3>>, 17)>>,
                        Operation(kind, ins), Operation("MatMul", more)) :
               other \in {"v", "w", "u"}, kind \in {"MatMul", "Conv2d", "Add"},
               ins \in {<<1, 0>>, <<0, 1>>, <<2>>, <<0, 9>>}, more \in {<<1, 3>>, <<0, 1>>, <<1, 2>>}}

MCOptions == [symmetric : BOOLEAN, channel : BOOLEAN, int4 : BOOLEAN]

\* 3. Slices, and operands of products
MCSpreads ==
    {<<a, b, c>> : a \in {-1000, -40, -3, 0, 5, 90}, b \in {-700, -3, 1, 90, 91}, c \in {-3, 2, 250}}
      \cup {<<>>, <<6>>}

Operands(m, k, kb, n, len, seed) ==
    [a |-> Mixed(<<m, k>>, seed), as |-> <<m, k>>, b |-> Mixed(<<kb, n>>, seed + 4), bs |-> <<kb, n>>,
     len |-> len]
MCProducts ==
    {Operands(m, k, k, n, m * n, seed) : m \in {1, 2}, k \in {1, 2, 3}, n \in {1, 2}, seed \in {5, 60}}
      \cup {Operands(2, 2, 3, 2, 4, 5), Operands(2, 2, 2, 2, 3, 5), Operands(1, 6, 6, 1, 1, 0)}
=============================================================================
