--------------------------- MODULE OnnxOperators ---------------------------
(***************************************************************************)
(* From an ONNX node to an Operator and the shape of its output:           *)
(* registry.rs, shapes.rs, and build_operator with the fix-ups that need   *)
(* the inputs' shapes (load.rs), all of tpt-infer-onnx.                    *)
(*                                                                         *)
(* A file's node is [type, name, ins, outs, attrs]; attrs maps the names   *)
(* of its attributes to [ints, i, s].  The empty string is an omitted      *)
(* input.  A dimension of 0 is unknown.                                    *)
(***************************************************************************)
EXTENDS Dispatch

IsNode(node) ==
    /\ node.ins \in Seq(STRING) /\ node.outs \in Seq(STRING)
    /\ \A a \in DOMAIN node.attrs : node.attrs[a] \in [ints : Seq(Int), i : Int, s : STRING]

Pool(kind, k, n) == [kind |-> kind, kernel |-> <<k, k>>, strides |-> <<n, n>>, padding |-> <<0, 0>>]

\* map_op: the operator without the node's attributes.
MapOp(type) ==
    CASE type \in {"Identity", "Dropout"}  -> [kind |-> "Input"]
      [] type \in {"MatMul", "Gemm"}       -> [kind |-> "MatMul"]
      [] type \in Arithmetic \cup {"Relu", "Sigmoid"} -> [kind |-> type]
      [] type \in {"Gelu", "Erf"}          -> [kind |-> "Gelu"]
      [] type = "Softmax"                  -> [kind |-> type, axis |-> -1]
      [] type \in {"Flatten", "Concat"}    -> [kind |-> type, axis |-> 1]
      [] type = "Reshape"                  -> [kind |-> type, shape |-> <<>>]
      [] type = "Transpose"                -> [kind |-> type, perm |-> <<>>]
      [] type = "Conv"                     -> [kind |-> "Conv2d", strides |-> <<1, 1>>, padding |-> <<0, 0>>]
      [] type = "MaxPool"                  -> Pool("MaxPool2d", 2, 2)
      [] type = "AveragePool"              -> Pool("AveragePool2d", 2, 2)
      [] type = "GlobalAveragePool"        -> Pool("AveragePool2d", 0, 1)
      [] type = "BatchNormalization"       -> [kind |-> "BatchNorm"]
      [] OTHER                             -> [kind |-> "Custom"]

IsNative(type) == MapOp(type).kind # "Custom"

-----------------------------------------------------------------------------
(* build_operator *)

AtLeast(floor, v) == IF v < floor THEN floor ELSE v
AtMost(ceiling, v) == IF v > ceiling THEN ceiling ELSE v

\* ints_of: a lone integer counts as a list of one, unless it is 0.
IntsOf(a) == IF a.ints # <<>> THEN a.ints ELSE IF a.i # 0 THEN <<a.i>> ELSE <<>>

\* The first two values of an attribute, if it has two.
PairOf(node, attr, default) ==
    IF attr \notin DOMAIN node.attrs THEN default
    ELSE LET v == IntsOf(node.attrs[attr])
         IN  IF Len(v) < 2 THEN default ELSE SubSeq(v, 1, 2)

AxisOf(node, default) ==
    IF "axis" \in DOMAIN node.attrs THEN node.attrs["axis"].i ELSE default

ListOf(node, attr) ==
    IF attr \in DOMAIN node.attrs
    THEN LET v == IntsOf(node.attrs[attr]) IN [j \in DOMAIN v |-> AtLeast(0, v[j])]
    ELSE <<>>

\* A kernel_shape that is absent leaves the placeholder [0, 2]; a negative one wraps.
KernelOf(node) ==
    LET shape  == PairOf(node, "kernel_shape", <<0, 2>>)
        kernel == [d \in {1, 2} |-> shape[d] % (UsizeMax + 1)]
    IN  IF kernel = <<0, 0>> THEN <<2, 2>> ELSE kernel

\* The target of a Reshape: its attribute, or else the first int64 initializer
\* with the name of its second input; negative entries become 0.
TargetShape(node, inits) ==
    IF "shape" \in DOMAIN node.attrs THEN ListOf(node, "shape")
    ELSE IF Len(node.ins) < 2 THEN <<>>
    ELSE LET p == SelectInSeq(inits, LAMBDA it : it.name = node.ins[2])
         IN  IF p = 0 THEN <<>>
             ELSE IF inits[p].type # "i64" THEN <<>>
             ELSE [j \in DOMAIN inits[p].data |-> AtLeast(0, inits[p].data[j])]

WindowStrides(node) == [d \in {1, 2} |-> AtLeast(1, PairOf(node, "strides", <<1, 1>>)[d])]
WindowPadding(node) == [d \in {1, 2} |-> AtLeast(0, PairOf(node, "pads", <<0, 0>>)[d])]

Windowed(op, node) == [op EXCEPT !.strides = WindowStrides(node), !.padding = WindowPadding(node)]

BuildOperator(node, inits) ==
    LET op == MapOp(node.type)
    IN  CASE node.type = "Conv" -> Windowed(op, node)
          [] node.type \in {"MaxPool", "AveragePool"} ->
                [Windowed(op, node) EXCEPT !.kernel = KernelOf(node)]
          [] node.type \in {"Softmax", "Flatten", "Concat"} ->
                [op EXCEPT !.axis = AxisOf(node, @)]
          [] node.type = "Transpose" -> [op EXCEPT !.perm = ListOf(node, "perm")]
          [] node.type = "Reshape"   -> [op EXCEPT !.shape = TargetShape(node, inits)]
          [] OTHER -> op

-----------------------------------------------------------------------------
(* The fix-ups of graph_from_proto *)

IsImage(in, p) == IF Len(in) < p THEN FALSE ELSE Len(in[p]) = 4

\* The [0, 0] kernel of a GlobalAveragePool becomes its input's extent.
ResolveKernel(op, in) ==
    IF op.kind # "AveragePool2d" THEN op
    ELSE IF op.kernel # <<0, 0>> \/ ~IsImage(in, 1) THEN op
    ELSE [op EXCEPT !.kernel = SubSeq(in[1], 3, 4)]

\* same_padding: half of what keeps ceil(input / stride) windows.
SamePadding(input, kernel, stride) ==
    LET step   == AtLeast(1, stride)
        out    == (input + step - 1) \div step
        needed == AtLeast(0, out - 1) * step + kernel
    IN  AtLeast(0, needed - input) \div 2

SamePair(size, kernel, strides) ==
    [d \in 1 .. 2 |-> SamePadding(size[d], kernel[d], strides[d])]

ResolvePadding(op, in, node) ==
    IF "auto_pad" \notin DOMAIN node.attrs THEN op
    ELSE IF node.attrs["auto_pad"].s \notin {"SAME_UPPER", "SAME_LOWER"} THEN op
    ELSE IF op.kind = "Conv2d" /\ IsImage(in, 1) /\ IsImage(in, 2)
    THEN [op EXCEPT !.padding = SamePair(SubSeq(in[1], 3, 4), SubSeq(in[2], 3, 4), op.strides)]
    ELSE IF op.kind \in Pools /\ IsImage(in, 1)
    THEN [op EXCEPT !.padding = SamePair(SubSeq(in[1], 3, 4), op.kernel, op.strides)]
    ELSE op

-----------------------------------------------------------------------------
(* infer_node_shape *)

ShapeIs(dims)    == [err |-> None, dims |-> dims]
ShapeFails(error) == [err |-> error, dims |-> <<>>]

Times(dims) == FoldLeft(LAMBDA acc, d : acc * d, 1, dims)

\* Batch dimensions are aligned to the left.
BroadcastDims(a, b) ==
    LET dim(s, d) == IF d <= Len(s) THEN s[d] ELSE 1
    IN  [d \in 1 .. AtLeast(Len(a), Len(b)) |-> IF dim(a, d) = 1 THEN dim(b, d) ELSE dim(a, d)]

MatMulShape(in, fallback) ==
    IF Len(in) < 2 THEN fallback
    ELSE IF Len(in[1]) < 2 \/ Len(in[2]) < 2 THEN fallback
    ELSE LET a == in[1]
             b == in[2]
             inner == {Last(a), b[Len(b) - 1]}
         IN  IF Cardinality(inner) = 2 /\ 0 \notin inner THEN fallback
             ELSE BroadcastDims(SubSeq(a, 1, Len(a) - 2), SubSeq(b, 1, Len(b) - 2))
                    \o <<a[Len(a) - 1], Last(b)>>

\* conv_out_dim, checked.
OutDimFits(input, pad, kernel) == input + 2 * pad <= UsizeMax /\ input + 2 * pad >= kernel

OutDim(input, pad, kernel, stride) == (input + 2 * pad - kernel) \div AtLeast(1, stride) + 1

ConvShape(op, in, fallback) ==
    IF ~(IsImage(in, 1) /\ IsImage(in, 2)) THEN ShapeIs(fallback)
    ELSE IF \E d \in {3, 4} : in[1][d] # 0 /\ ~OutDimFits(in[1][d], op.padding[d - 2], in[2][d])
    THEN ShapeFails("InvalidGeometry")
    ELSE ShapeIs(<<in[1][1], in[2][1]>> \o
                 [d \in 1 .. 2 |-> IF in[1][d + 2] = 0 THEN 0
                                   ELSE OutDim(in[1][d + 2], op.padding[d], in[2][d + 2],
                                               op.strides[d])])

PoolShape(op, in, fallback) ==
    IF ~IsImage(in, 1) THEN ShapeIs(fallback)
    ELSE IF op.kernel[1] = 0 THEN ShapeIs(<<in[1][1], in[1][2], 1, 1>>)
    ELSE IF \E d \in {3, 4} : ~OutDimFits(in[1][d], op.padding[d - 2], op.kernel[d - 2])
    THEN ShapeFails("InvalidGeometry")
    ELSE ShapeIs(<<in[1][1], in[1][2]>> \o
                 [d \in 1 .. 2 |-> OutDim(in[1][d + 2], op.padding[d], op.kernel[d], op.strides[d])])

FlattenShape(op, first) ==
    LET cut == AtMost(Len(first), AtLeast(0, Axis(op.axis, Len(first))))
    IN  <<Times(SubSeq(first, 1, cut)), Times(SubSeq(first, cut + 1, Len(first)))>>

\* Mutant: the columns of the first operand only.
ConcatShapeFirst(op, in) == in[1]

\* Operands too short to have the axis add nothing.
Columns(in, ax) == FoldLeft(LAMBDA acc, d : IF Len(d) >= ax THEN acc + d[ax] ELSE acc, 0, in)

ConcatShape(op, in) ==
    LET ax == AtLeast(0, Axis(op.axis, Len(in[1]))) + 1
    IN  IF Len(in) = 1 \/ ax > Len(in[1]) THEN in[1]
        ELSE [in[1] EXCEPT ![ax] = Columns(in, ax)]

\* Without a perm of the input's rank, the reverse.
TransposeShape(op, first) ==
    IF Len(op.perm) # Len(first) THEN ShapeIs(Reverse(first))
    ELSE IF \E d \in DOMAIN first : op.perm[d] >= Len(first) THEN ShapeFails("panic")
    ELSE ShapeIs([d \in DOMAIN first |-> At(first, op.perm[d])])

\* An unknown or empty first input leaves the fallback.  A list is kept in an
\* array of MAX_RANK entries beside its own length: a longer one panics.
InferNodeShape(op, in, fallback) ==
    CASE op.kind = "Input"      -> ShapeIs(fallback)
      [] op.kind = "MatMul"     -> ShapeIs(MatMulShape(in, fallback))
      [] op.kind = "Conv2d"     -> ConvShape(op, in, fallback)
      [] op.kind \in Pools      -> PoolShape(op, in, fallback)
      [] op.kind = "Reshape"    -> IF Len(op.shape) > MaxRank THEN ShapeFails("panic")
                                   ELSE ShapeIs(IF op.shape = <<>> THEN fallback ELSE op.shape)
      [] OTHER ->
            IF in = <<>> THEN ShapeIs(fallback)
            ELSE IF in[1] = <<>> THEN ShapeIs(fallback)
            ELSE CASE op.kind = "Flatten"   -> ShapeIs(FlattenShape(op, in[1]))
                   [] op.kind = "Concat"    -> ShapeIs(ConcatShape(op, in))
                   [] op.kind = "Transpose" -> TransposeShape(op, in[1])
                   [] OTHER                 -> ShapeIs(in[1])
=============================================================================
