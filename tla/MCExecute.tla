------------------------------ MODULE MCExecute ------------------------------
(* Small graphs in three families, the slices a caller may supply, right and *)
(* wrong, and two arenas: one with less than required_arena_bytes of every   *)
(* graph of three nodes, and one with enough for one call on any graph here, *)
(* and for two calls without a reset on some.                                *)
EXTENDS Execute

Op(kind)             == [kind |-> kind]
Node(op, ins, dims)  == [op |-> op, ins |-> ins, dims |-> dims, name |-> NoName]
Named(dims, name)    == [op |-> Op("Input"), ins |-> <<>>, dims |-> dims, name |-> name]
Graph(n, nodes, inits, inputs, outputs) ==
    [n |-> n, nodes |-> nodes, refs |-> RefsOf(n, nodes), inits |-> inits,
     inputs |-> inputs, outputs |-> outputs]
InputIds(n, nodes) ==
    SelectSeq([j \in 1 .. n |-> j - 1], LAMBDA v : nodes[v].op.kind = "Input")

\* 1. Three nodes that read each other in every order; node 1 may read itself,
\* node 2 an id outside the graph.
Wirings(v) ==
    {Node(Op("Input"), <<>>, <<1>>)}
      \cup {Node(Op("Relu"), <<p>>, <<1>>) : p \in 0 .. 2 \ {v}}
      \cup {Node(Op("Sub"), <<p, q>>, <<1>>) : p \in {(v + 1) % 3}, q \in {(v + 1) % 3, (v + 2) % 3}}
      \cup {Node(Op("Add"), <<v, v>>, <<1>>) : w \in {v} \cap {1}}
      \cup {Node(Op("Relu"), <<3>>, <<1>>) : w \in {v} \cap {2}}

WiredGraphs ==
    {Graph(3, nodes, <<>>, InputIds(3, nodes), <<2, 0>>) :
        nodes \in {0 :> a @@ 1 :> b @@ 2 :> c :
                      a \in Wirings(0), b \in Wirings(1), c \in Wirings(2)}}

\* 2. Two input nodes and an Add declared before them: names, initializers of
\* the right and of the wrong length, a name carried by two initializers, and
\* an Add that is marked as an input, too early or too late.
BoundGraphs ==
    {Graph(3, 0 :> Node(Op("Add"), <<1, 2>>, <<2>>)
                @@ 1 :> Named(<<d1>>, n1) @@ 2 :> Named(<<1>>, n2),
           inits, ins, IF d1 = 1 /\ ins = <<1, 2>> THEN <<>> ELSE <<0, 1>>) :
        d1 \in {1, 2}, n1, n2 \in {NoName, "w"},
        inits \in {<<>>, <<[name |-> "w", len |-> 1]>>,
                   <<[name |-> "x", len |-> 2], [name |-> "w", len |-> 2],
                     [name |-> "w", len |-> 1]>>},
        ins \in {<<1, 2>>, <<0, 1, 2>>, <<1, 2, 0>>}}

\* 3. One operator over weights of the given shapes.
Count(dims) == IF NumEl(dims) = Overflow THEN 1 ELSE NumEl(dims)

LayerOver(op, shapes, ins, dims) ==
    LET k     == Len(shapes)
        nodes == [v \in 0 .. k |->
                    IF v < k THEN Named(shapes[v + 1], ToString(v)) ELSE Node(op, ins, dims)]
    IN  Graph(k + 1, nodes,
              [p \in 1 .. k |-> [name |-> ToString(p - 1), len |-> Count(shapes[p])]],
              [p \in 1 .. k |-> p - 1], <<k>>)

Layer(op, shapes, dims) == LayerOver(op, shapes, [p \in DOMAIN shapes |-> p - 1], dims)

Along(kind, axis) == [kind |-> kind, axis |-> axis]
Windowed(kind, kernel, strides, padding) ==
    [kind |-> kind, kernel |-> kernel, strides |-> strides, padding |-> padding]
Sheet == <<1, 1, 2, 2>>
Huge  == <<1024, 2048>>
Half  == <<512, 1024>>

LayerGraphs ==
    {Layer(Op("MatMul"), s, <<2, 2>>) : s \in {<<<<2, 1>>, <<1, 2>>>>, <<<<1, 2>>, <<1, 2>>>>,
                                                <<<<2>>, <<1, 2>>>>, <<<<2, 1>>>>}}
    \cup {Layer(Op(kind), <<<<2, 1>>, s>>, <<2, 2>>) :
             kind \in {"Add", "Div"}, s \in {<<2>>, <<1, 2>>, <<3>>, <<2, 1>>}}
    \cup {Layer(Op(kind), <<<<2>>>>, d) :
             kind \in {"Relu", "Reshape", "Custom"}, d \in {<<2, 1>>, <<3>>, <<0>>, Huge}}
    \cup {Layer(Op("Relu"), <<Huge>>, <<2>>),
          Graph(2, 0 :> Node(Op("Relu"), <<>>, Half) @@ 1 :> Node(Op("Relu"), <<>>, Half),
                <<>>, <<>>, <<1>>)}
    \cup {Layer(Along("Softmax", axis), <<<<2, 2>>>>, <<2, 2>>) : axis \in {-1, 0, 1}}
    \cup {Layer(Along("Concat", axis), <<<<2, 1>>, s>>, <<2, 2>>) :
             axis \in {-1, 0, 2}, s \in {<<2, 1>>, <<2, 2>>, <<1, 1>>}}
    \cup {Layer(Along("Concat", 1), <<<<2, 1>>, <<2, 1>>>>, <<2, 3>>)}
    \cup {Layer(op, <<Sheet>>, d) :
             op \in {Windowed("MaxPool2d", <<2, 2>>, <<1, 1>>, <<0, 0>>),
                     Windowed("AveragePool2d", <<2, 1>>, <<2, 1>>, <<1, 0>>),
                     Windowed("MaxPool2d", <<2, 2>>, <<0, 1>>, <<0, 0>>)},
             d \in {<<1, 1, 1, 1>>, <<1, 1, 2, 2>>}}
    \cup {Layer([kind |-> "Conv2d", strides |-> <<1, 1>>, padding |-> pad], s, <<1, 1, 2, 2>>) :
             pad \in {<<0, 0>>, <<1, 1>>},
             s \in {<<Sheet, <<1, 1, 1, 1>>>>, <<Sheet, <<1, 1, 3, 3>>, <<1, 1, 1, 1>>>>,
                    <<Sheet, <<1, 2, 1, 1>>>>}}
    \cup {Layer([kind |-> "Transpose", perm |-> perm], <<<<2, 1>>>>, <<1, 2>>) :
             perm \in {<<1, 0>>, <<0, 1>>, <<0, 0>>}}
    \cup {LayerOver(Op("BatchNorm"), <<Sheet, <<1>>, s>>, <<0, 1, 2, 1, 2>>, Sheet) :
             s \in {<<1>>, <<2>>}}
    \cup {LayerOver(Op("BatchNorm"), <<Sheet>>, <<0, 0, 0, 0, 0>>, d) : d \in {Sheet, <<4>>}}

MCGraphs == WiredGraphs \cup BoundGraphs \cup LayerGraphs

MCGarbage == <<>>

MCRequests == {<<>>, <<1>>, <<1, 1>>, <<2, 1>>}

MCBufs == {[addr |-> 3, len |-> 200], [addr |-> 5, len |-> 456]}
=============================================================================
