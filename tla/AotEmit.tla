------------------------------ MODULE AotEmit ------------------------------
(***************************************************************************)
(* Code generation (tpt-infer-compile/src/codegen.rs): the code printed    *)
(* for a node that is not folded, from shapes alone, or the CompileError.  *)
(* `dims` are the declared shapes of its inputs, `od` its own.             *)
(***************************************************************************)
EXTENDS AotCode

Emits(code)    == [err |-> None, code |-> code]
Rejects(error) == [err |-> error, code |-> Code("none", <<>>)]

EmitWhen(condition, code) == IF condition THEN Emits(code) ELSE Rejects("ShapeMismatch")

EmitMatMul(dims) ==
    IF Len(dims) # 2 THEN Rejects("ShapeMismatch")
    ELSE IF Len(dims[1]) # 2 \/ Len(dims[2]) # 2 THEN Rejects("UnsupportedRank")
    ELSE EmitWhen(dims[1][2] = dims[2][1], MatMulCode(dims[1], dims[2]))

\* The check of emit_broadcast_binary: ones in front, then 1 or the output's.
Stretches(dims, od) ==
    /\ Len(dims) <= Len(od)
    /\ \A d \in DOMAIN od : Padded(dims, Len(od))[d] \in {1, od[d]}

\* Mutant: the operands are paired by position whenever both have a shape that fits.
EmitPaired(kind, dims, od) ==
    IF Len(dims) # 2 THEN Rejects("ShapeMismatch")
    ELSE EmitWhen(Stretches(dims[1], od) /\ Stretches(dims[2], od), PairCode(kind, Product(od)))

EmitElementwiseBinary(kind, dims, od) ==
    IF Len(dims) # 2 THEN Rejects("ShapeMismatch")
    ELSE IF dims[1] = dims[2] /\ dims[1] = od THEN Emits(PairCode(kind, Product(od)))
    ELSE IF ~(Stretches(dims[1], od) /\ Stretches(dims[2], od)) THEN Rejects("ShapeMismatch")
    ELSE Emits(BroadcastCode(kind, dims[1], dims[2], od))

EmitUnary(kind, dims, od) == EmitWhen(Len(dims) = 1, MapCode(kind, Product(od)))

\* Mutant: the target shape of a Reshape is not expected among its inputs.
EmitReshapeAlone(dims, od) == EmitWhen(Len(dims) = 1, Code("All", <<>>))

\* The whole operand, however long it is; a second input is the target shape.
EmitReshape(dims, od) ==
    IF dims = <<>> THEN Rejects("ShapeMismatch")
    ELSE EmitWhen(Product(dims[1]) = Product(od), Code("All", <<>>))

EmitConv2d(op, dims, od) ==
    IF Len(dims) \notin {2, 3} THEN Rejects("ShapeMismatch")
    ELSE IF Len(dims[1]) # 4 \/ Len(dims[2]) # 4 THEN Rejects("UnsupportedRank")
    ELSE IF \/ dims[1][2] # dims[2][2]
            \/ ~WindowSlides(SubSeq(dims[1], 3, 4), SubSeq(dims[2], 3, 4), op.strides, op.padding)
    THEN Rejects("ShapeMismatch")
    ELSE IF od # ConvDims(dims[1], dims[2], op.strides, op.padding) THEN Rejects("ShapeMismatch")
    ELSE IF \E p \in DOMAIN dims \ {1, 2} : dims[p] # <<1, dims[2][1], 1, 1>>
    THEN Rejects("UnsupportedRank")
    ELSE Emits(ConvCode(dims[1], dims[2], op.strides, op.padding, Len(dims) = 3))

\* Along the last axis only.
EmitSoftmax(op, dims) ==
    IF Len(dims) # 1 THEN Rejects("ShapeMismatch")
    ELSE IF dims[1] = <<>> THEN Rejects("ShapeMismatch")
    ELSE IF Axis(op.axis, Len(dims[1])) # Len(dims[1]) - 1 THEN Rejects("UnsupportedRank")
    ELSE EmitWhen(Last(dims[1]) # 0, SoftmaxCode(dims[1], Len(dims[1])))

EmitPool(op, dims, od) ==
    IF Len(dims) # 1 THEN Rejects("ShapeMismatch")
    ELSE IF Len(dims[1]) # 4 THEN Rejects("UnsupportedRank")
    ELSE IF ~WindowSlides(SubSeq(dims[1], 3, 4), op.kernel, op.strides, op.padding)
    THEN Rejects("ShapeMismatch")
    ELSE EmitWhen(od = PoolDims(dims[1], op), PoolCode(op, dims[1]))

\* The parameters' lengths are those of their shapes.
EmitBatchNorm(dims) ==
    IF Len(dims) # 5 THEN Rejects("ShapeMismatch")
    ELSE LET plen == Product(dims[2])
         IN  EmitWhen(/\ \A p \in 3 .. 5 : Product(dims[p]) = plen
                      /\ ChannelMode(dims[1], plen) \/ plen = Product(dims[1]),
                      NormCode(dims[1], plen))

EmitConcat(op, dims, od) ==
    LET rank == Len(od)
        ax   == Axis(op.axis, rank) + 1
        agrees(q) == /\ Len(dims[q]) = rank
                     /\ \A d \in 1 .. rank \ {ax} : dims[q][d] = od[d]
    IN  IF Len(dims) < 2 \/ rank = 0 \/ ax \notin 1 .. rank THEN Rejects("ShapeMismatch")
        ELSE IF \E q \in DOMAIN dims : ~agrees(q) THEN Rejects("ShapeMismatch")
        ELSE EmitWhen(Offset(dims, Len(dims) + 1, ax) = od[ax], ConcatCode(dims, od, ax))

\* As in fold_transpose, an entry that is no dimension panics.
EmitTranspose(op, dims, od) ==
    LET rank == Len(op.perm)
    IN  IF rank > MaxRank THEN Rejects("panic")
        ELSE IF Len(dims) # 1 THEN Rejects("ShapeMismatch")
        ELSE IF Len(dims[1]) # rank \/ Len(od) # rank THEN Rejects("ShapeMismatch")
        ELSE IF \E d \in 1 .. rank :
                   op.perm[d] >= rank /\ \A e \in 1 .. d - 1 : od[e] = At(dims[1], op.perm[e])
        THEN Rejects("panic")
        ELSE EmitWhen(\A d \in 1 .. rank : od[d] = At(dims[1], op.perm[d]),
                      TransposeCode(dims[1], od, op.perm))

\* emit_op
EmitOp(op, dims, od) ==
    CASE op.kind = "MatMul"       -> EmitMatMul(dims)
      [] op.kind \in Arithmetic   -> EmitElementwiseBinary(op.kind, dims, od)
      [] op.kind \in ElementWise  -> EmitUnary(op.kind, dims, od)
      [] op.kind \in Moves        -> EmitReshape(dims, od)
      [] op.kind = "Conv2d"       -> EmitConv2d(op, dims, od)
      [] op.kind = "Softmax"      -> EmitSoftmax(op, dims)
      [] op.kind \in Pools        -> EmitPool(op, dims, od)
      [] op.kind = "BatchNorm"    -> EmitBatchNorm(dims)
      [] op.kind = "Concat"       -> EmitConcat(op, dims, od)
      [] op.kind = "Transpose"    -> EmitTranspose(op, dims, od)
      [] OTHER                    -> Rejects("UnsupportedOperator")
=============================================================================
