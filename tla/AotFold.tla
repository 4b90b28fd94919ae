------------------------------ MODULE AotFold ------------------------------
(***************************************************************************)
(* Constant folding (tpt-infer-compile/src/fold.rs): which nodes of an     *)
(* initializer-only subgraph are evaluated at compile time, and to what.   *)
(* `bufs` and `dims` are the values and the declared shapes of a node's    *)
(* inputs, `od` its own shape.  Inputs past those an operator takes are    *)
(* not looked at.                                                          *)
(***************************************************************************)
EXTENDS AotCode

NotFolded == Fails("not folded")

FoldWhen(condition, code, bufs) == IF condition THEN Evaluate(code, bufs) ELSE NotFolded

FoldMatMul(bufs, dims) ==
    IF Len(bufs) < 2 THEN NotFolded
    ELSE IF Len(dims[1]) # 2 \/ Len(dims[2]) # 2 THEN NotFolded
    ELSE FoldWhen(dims[1][2] = dims[2][1], MatMulCode(dims[1], dims[2]), bufs)

\* The lengths are compared, not the shapes.
FoldArithmetic(kind, bufs) ==
    IF Len(bufs) < 2 THEN NotFolded
    ELSE FoldWhen(Len(bufs[1]) = Len(bufs[2]), PairCode(kind, Len(bufs[1])), bufs)

\* Mutant: a bias of any shape is taken for one per channel.
FoldConvAnyBias(op, bufs, dims, od) ==
    IF Len(bufs) < 2 THEN NotFolded
    ELSE IF Len(dims[1]) # 4 \/ Len(dims[2]) # 4 THEN NotFolded
    ELSE IF \/ dims[1][2] # dims[2][2]
            \/ ~WindowSlides(SubSeq(dims[1], 3, 4), SubSeq(dims[2], 3, 4), op.strides, op.padding)
    THEN NotFolded
    ELSE FoldWhen(od = ConvDims(dims[1], dims[2], op.strides, op.padding),
                  ConvCode(dims[1], dims[2], op.strides, op.padding, Len(bufs) > 2), bufs)

\* Only a bias of shape [1, oc, 1, 1].
FoldConv2d(op, bufs, dims, od) ==
    IF Len(bufs) < 2 THEN NotFolded
    ELSE IF Len(dims[1]) # 4 \/ Len(dims[2]) # 4 THEN NotFolded
    ELSE IF \/ dims[1][2] # dims[2][2]
            \/ ~WindowSlides(SubSeq(dims[1], 3, 4), SubSeq(dims[2], 3, 4), op.strides, op.padding)
    THEN NotFolded
    ELSE FoldWhen(/\ od = ConvDims(dims[1], dims[2], op.strides, op.padding)
                  /\ \A p \in 3 .. Len(bufs) \cap {3} :
                        /\ dims[p] = <<1, dims[2][1], 1, 1>>
                        /\ Len(bufs[p]) = Product(dims[p]),
                  ConvCode(dims[1], dims[2], op.strides, op.padding, Len(bufs) > 2), bufs)

\* Along any axis.  The elements past those of the shape stay zero.
FoldSoftmax(op, bufs, dims) ==
    IF bufs = <<>> \/ dims[1] = <<>> THEN NotFolded
    ELSE LET ax     == Axis(op.axis, Len(dims[1])) + 1
             rows   == Evaluate(SoftmaxCode(dims[1], ax), bufs)
             beyond == [j \in 1 .. Len(bufs[1]) - Product(dims[1]) |-> <<"Zero">>]
         IN  IF ax \notin DOMAIN dims[1] \/ dims[1][ax] = 0 THEN NotFolded
             ELSE [rows EXCEPT !.out = @ \o beyond]

FoldPool(op, bufs, dims, od) ==
    IF bufs = <<>> \/ Len(dims[1]) # 4 THEN NotFolded
    ELSE IF ~WindowSlides(SubSeq(dims[1], 3, 4), op.kernel, op.strides, op.padding) THEN NotFolded
    ELSE FoldWhen(od = PoolDims(dims[1], op), PoolCode(op, dims[1]), bufs)

\* The parameters' lengths are those of their data.
FoldBatchNorm(bufs, dims) ==
    IF Len(bufs) < 5 THEN NotFolded
    ELSE LET plen == Len(bufs[2])
         IN  FoldWhen(/\ \A p \in 3 .. 5 : Len(bufs[p]) = plen
                      /\ ChannelMode(dims[1], plen) \/ plen = Product(dims[1]),
                      NormCode(dims[1], plen), bufs)

\* Operands are copied one after another; what they add up to is compared with
\* the output last, so a copy may run past the output first.
FoldConcat(op, bufs, dims, od) ==
    LET rank == Len(od)
        ax   == Axis(op.axis, rank) + 1
        agrees(q) == /\ Len(dims[q]) = rank
                     /\ \A d \in 1 .. rank \ {ax} : dims[q][d] = od[d]
        reached(q) == \A r \in 1 .. q : agrees(r)
        overruns(q) ==
            /\ Product(dims[q]) > 0
            /\ Offset(dims, q + 1, ax) > od[ax] \/ Product(dims[q]) > Len(bufs[q])
    IN  IF bufs = <<>> \/ rank = 0 \/ ax \notin 1 .. rank THEN NotFolded
        ELSE IF \E q \in DOMAIN bufs : reached(q) /\ overruns(q) THEN Panics
        ELSE IF ~reached(Len(bufs)) THEN NotFolded
        ELSE FoldWhen(Offset(dims, Len(bufs) + 1, ax) = od[ax], ConcatCode(dims, od, ax), bufs)

\* An entry of perm that is no dimension panics; a repeated one does not.
FoldTranspose(op, bufs, dims, od) ==
    LET rank == Len(op.perm)
    IN  IF rank > MaxRank THEN Panics
        ELSE IF bufs = <<>> \/ Len(dims[1]) # rank \/ Len(od) # rank THEN NotFolded
        ELSE IF \E d \in 1 .. rank :
                   op.perm[d] >= rank /\ \A e \in 1 .. d - 1 : od[e] = At(dims[1], op.perm[e])
        THEN Panics
        ELSE FoldWhen(\A d \in 1 .. rank : od[d] = At(dims[1], op.perm[d]),
                      TransposeCode(dims[1], od, op.perm), bufs)

FoldMap(kind, bufs) ==
    IF bufs = <<>> THEN NotFolded ELSE Evaluate(MapCode(kind, Len(bufs[1])), bufs)

\* Reshape and Flatten, of as many elements as the output's shape has.
FoldMove(bufs, od) ==
    IF bufs # <<>> /\ Len(bufs[1]) = Product(od) THEN Writes(bufs[1]) ELSE NotFolded

\* try_eval
TryEval(op, bufs, dims, od) ==
    CASE op.kind = "MatMul"      -> FoldMatMul(bufs, dims)
      [] op.kind \in Arithmetic  -> FoldArithmetic(op.kind, bufs)
      [] op.kind \in {"Relu", "Sigmoid"} -> FoldMap(op.kind, bufs)
      [] op.kind \in Moves       -> FoldMove(bufs, od)
      [] op.kind = "Conv2d"      -> FoldConv2d(op, bufs, dims, od)
      [] op.kind = "Softmax"     -> FoldSoftmax(op, bufs, dims)
      [] op.kind \in Pools       -> FoldPool(op, bufs, dims, od)
      [] op.kind = "BatchNorm"   -> FoldBatchNorm(bufs, dims)
      [] op.kind = "Concat"      -> FoldConcat(op, bufs, dims, od)
      [] op.kind = "Transpose"   -> FoldTranspose(op, bufs, dims, od)
      [] OTHER                   -> NotFolded
=============================================================================
