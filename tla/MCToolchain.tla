---------------------------- MODULE MCToolchain ----------------------------
(* Small files in families: one operator over a runtime input and weights,   *)
(* operators over weights alone, wirings by name, and files load refuses.    *)
EXTENDS Toolchain

Number(i) == [ints |-> <<>>, i |-> i, s |-> ""]
List(list) == [ints |-> list, i |-> 0, s |-> ""]
Str(s)    == [ints |-> <<>>, i |-> 0, s |-> s]

Vi(name, dims) == [name |-> name, dims |-> dims]
Wt(name, dims) == [name |-> name, dims |-> dims, type |-> "f32",
                   data |-> [e \in 1 .. Times(dims) |-> 1]]
Shape(name, data) == [name |-> name, dims |-> <<Len(data)>>, type |-> "i64", data |-> data]
Node(type, ins, out, attrs) ==
    [name |-> "n", type |-> type, ins |-> ins, outs |-> <<out>>, attrs |-> attrs]

NoAttrs == [a \in {} |-> 0]
File(inputs, inits, nodes, outputs) ==
    [bytes |-> 1, opset |-> 17, inputs |-> inputs, outputs |-> outputs, info |-> <<>>,
     inits |-> inits, nodes |-> nodes]

\* 1. One operator, its first operand either supplied or a weight; if all its
\* operands are weights, a runtime input is added to the result, by `join`.
OnInput(type, attrs, x, ws) ==
    File(<<Vi("x", x)>>, [p \in DOMAIN ws |-> Wt(ToString(p), ws[p])],
         <<Node(type, <<"x">> \o [p \in DOMAIN ws |-> ToString(p)], "y", attrs)>>,
         <<Vi("y", NoShape)>>)

OnWeights(type, attrs, ws, z) ==
    File(<<Vi("x", z)>>, [p \in DOMAIN ws |-> Wt(ToString(p), ws[p])],
         <<Node(type, [p \in DOMAIN ws |-> ToString(p)], "c", attrs),
           Node("Mul", <<"x", "c">>, "y", NoAttrs)>>,
         <<Vi("y", NoShape)>>)

\* An operator over shapes, on a supplied first operand and on weights alone.
Both(type, attrs, shapes, z) ==
    {OnInput(type, attrs, Head(shapes), Tail(shapes)), OnWeights(type, attrs, shapes, z)}

Attr(name, value) == name :> value
Sheet  == <<1, 2, 2, 2>>
Strip  == <<1, 1, 3, 2>>

OperatorFiles ==
    UNION
    ({Both("MatMul", NoAttrs, s, <<2, 2>>) :
        s \in {<<<<2, 3>>, <<3, 2>>>>, <<<<2, 1>>, <<2, 1>>>>, <<<<1, 2, 1>>, <<1, 2>>>>, <<<<2, 2>>>>}}
     \cup {Both(kind, NoAttrs, s, <<2, 2>>) : kind \in {"Add", "Div"},
             s \in {<<<<2, 2>>, <<2>>>>, <<<<2, 2>>, <<2, 1>>>>, <<<<2, 1>>, <<2>>>>,
                    <<<<2, 2>>, <<2, 2>>>>, <<<<2>>, <<2, 2>>>>, <<<<2, 2>>, <<3>>>>, <<<<2, 2>>>>}}
     \cup {Both(kind, NoAttrs, <<<<2, 2>>>>, <<2, 2>>) : kind \in {"Relu", "Sigmoid", "Gelu", "Sqrt"}}
     \cup {Both("Softmax", Attr("axis", Number(a)), <<<<2, 3>>>>, <<2, 3>>) : a \in {-1, 0, 2}}
     \cup {Both("Flatten", Attr("axis", Number(a)), <<Sheet>>, <<2, 4>>) : a \in {-2, 0, 1, 5}}
     \cup {Both("Reshape", Attr("shape", List(t)), <<<<2, 2>>>>, t) :
             t \in {<<4>>, <<1, 4>>, <<3>>, <<-1>>, <<1, 1, 2, 1, 2>>}}
     \cup {Both("Transpose", a, <<<<2, 3, 1>>>>, <<3, 1, 2>>) :
             a \in {NoAttrs, Attr("perm", List(<<1, 2, 0>>)), Attr("perm", List(<<0, 0, 2>>)),
                    Attr("perm", List(<<1, 0>>)), Attr("perm", List(<<0, 3, 1>>)),
                    Attr("perm", List(<<0, 1, 2, 1, 0>>))}}
     \cup {Both("Concat", Attr("axis", Number(a)), s, <<2, 3>>) : a \in {-1, 0, 2},
             s \in {<<<<2, 1>>, <<2, 2>>>>, <<<<1, 2>>, <<2, 2>>>>, <<<<2>>, <<2, 1>>>>, <<<<2, 1>>>>}}
     \cup {Both("BatchNormalization", NoAttrs, <<Sheet, p, p, p, q>>, Sheet) :
             p \in {<<2>>, Sheet}, q \in {<<2>>, <<1>>}}
     \cup {Both("Conv", a, s, <<1, 2, 2, 2>>) :
             a \in {NoAttrs, Attr("pads", List(<<1, 0, 1, 0>>)),
                    Attr("strides", List(<<1, 2>>)) @@ Attr("auto_pad", Str("SAME_UPPER"))},
             s \in {<<Sheet, <<2, 2, 2, 1>>>>, <<Sheet, <<2, 2, 1, 1>>, <<1, 2, 1, 1>>>>,
                    <<Sheet, <<2, 2, 1, 1>>, <<2>>>>, <<Sheet, <<1, 1, 1, 1>>>>,
                    <<Sheet, <<1, 2, 3, 1>>>>, <<Sheet, <<1, 2>>>>}}
     \cup {Both(kind, a, <<x>>, <<1, 1, 2, 2>>) : kind \in {"MaxPool", "AveragePool"},
             x \in {Strip, <<2, 2>>},
             a \in {Attr("kernel_shape", List(<<2, 1>>)),
                    Attr("kernel_shape", List(<<3, 1>>)) @@ Attr("auto_pad", Str("SAME_UPPER")),
                    Attr("kernel_shape", List(<<2, 2>>)) @@ Attr("auto_pad", Str("SAME_LOWER")),
                    Attr("kernel_shape", List(<<3, 2>>)) @@ Attr("pads", List(<<1, 0>>)),
                    Attr("kernel_shape", List(<<0, 0>>)) @@ Attr("strides", List(<<0, 3>>)),
                    NoAttrs}}
     \cup {Both("GlobalAveragePool", NoAttrs, <<x>>, <<1, 2, 1, 1>>) : x \in {Sheet, <<2>>}})

\* 2. Two nodes between an input and an output, their operands by name: defined,
\* not defined yet, not defined at all, omitted, or defined twice.
Names == {"x", "w", "a", "b", "", "q"}
WiredFiles ==
    {File(<<Vi("x", <<2>>)>>, <<Wt("w", <<2>>)>>,
          <<Node(type, <<n1, "w">>, "a", NoAttrs), Node("Sub", <<n2, n3>>, out, NoAttrs),
            Node("Relu", <<"b">>, "y", NoAttrs)>>,
          <<Vi("y", NoShape)>>) :
        type \in {"Add", "Identity"}, n1 \in Names, n2 \in Names \ {""},
        n3 \in Names, out \in {"b", "a", "x"}}

\* 3. Inputs, initializers, declared shapes and outputs of every kind.
Relus(ins) == [p \in DOMAIN ins |-> Node("Relu", <<ins[p]>>, "y" \o ToString(p), NoAttrs)]
Scalar == [name |-> "s", dims |-> <<>>, type |-> "f32", data |-> <<1>>]
OddFiles ==
    {File(ins, inits, Relus(<<"x", "w">>), outs) :
        ins \in {<<Vi("x", <<2>>)>>, <<Vi("x", <<>>), Vi("w", <<1>>)>>, <<Vi("x", NoShape)>>,
                 <<Vi("x", <<-1, 2>>)>>, <<Vi("x", <<1>>), Vi("x", <<2>>)>>, <<>>,
                 <<Vi("x", <<1, 1, 1, 1, 1>>)>>},
        inits \in {<<Wt("w", <<2>>)>>, <<Wt("w", <<2>>), Wt("w", <<1>>)>>, <<Scalar>>,
                   <<Shape("w", <<2, -1>>)>>, <<[Wt("w", <<2>>) EXCEPT !.type = "u8"]>>,
                   <<[Wt("w", <<1>>) EXCEPT !.dims = <<-1>>]>>,
                   <<[Wt("w", <<1>>) EXCEPT !.dims = <<3>>]>>,
                   <<[Wt("w", <<1>>) EXCEPT !.dims = <<1024, 2048>>]>>,
                   <<[Wt("w", <<1>>) EXCEPT !.dims = <<1, 1, 1, 1, 1>>]>>},
        outs \in {<<>>, <<Vi("y1", <<2>>)>>, <<Vi("y2", <<3>>), Vi("y1", NoShape)>>,
                  <<Vi("x", NoShape)>>, <<Vi("none", NoShape)>>}}
    \cup {[File(<<Vi("x", <<2>>)>>, <<>>, Relus(<<"x">>), <<>>) EXCEPT !.bytes = b, !.opset = v,
                                                                       !.info = vis] :
            b \in {1, 9}, v \in {17, 18}, vis \in {<<>>, <<Vi("y1", <<1, 1, 1, 1, 1>>)>>}}
    \cup {File(<<Vi("x", <<2>>)>>, <<>>, Relus(ins), <<>>) :
            ins \in {<<>>, <<"x", "x", "x", "x", "x", "x", "x">>}}
    \cup {File(<<Vi("x", <<2, 2>>)>>, <<Shape("t", t)>>,
               <<Node("Reshape", <<"x", "t">>, "y", NoAttrs)>>, <<>>) : t \in {<<4>>, <<-1>>, <<3>>}}
    \cup {[File(<<Vi("x", <<2>>)>>, <<>>, <<Node(type, <<"x">>, "a", NoAttrs)>>, <<>>)
              EXCEPT !.nodes[1].outs = outs] :
            type \in {"Relu", "Dropout"}, outs \in {<<>>, <<"">>, <<"a", "mask">>}}

\* 4. Constants of one length and of different shapes, with the shape of their
\* broadcast declared.
StretchedFiles ==
    {[OnWeights(kind, NoAttrs, s, <<2, 2>>) EXCEPT !.info = <<Vi("c", <<2, 2>>)>>] :
        kind \in {"Add", "Sub"}, s \in {<<<<2, 1>>, <<1, 2>>>>, <<<<2>>, <<2, 1>>>>, <<<<2, 2>>, <<2, 1>>>>}}

MCFiles == StretchedFiles \cup OperatorFiles \cup WiredFiles \cup OddFiles
=============================================================================
