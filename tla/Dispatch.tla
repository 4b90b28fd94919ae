------------------------------ MODULE Dispatch ------------------------------
(***************************************************************************)
(* The operator dispatch table (tpt-infer-runtime/src/exec.rs, Exec::run): *)
(* which kernel computes a node, from which ports, and what is refused     *)
(* before any kernel runs.                                                 *)
(*                                                                         *)
(* An operator is a record with its `kind` and its attributes.  `ports` is *)
(* the node's input list, resolved: one [data, dims] per entry.            *)
(***************************************************************************)
EXTENDS Kernels

ElementWise == {"Relu", "Sigmoid", "Gelu"}
Arithmetic  == {"Add", "Sub", "Mul", "Div"}
Moves       == {"Reshape", "Flatten"}
Pools       == {"MaxPool2d", "AveragePool2d"}

\* The operators, whatever their attributes.
Kinds == ElementWise \cup Arithmetic \cup Moves \cup Pools
           \cup {"Input", "MatMul", "Conv2d", "Softmax", "BatchNorm", "Concat", "Transpose", "Custom"}

Axis(axis, rank) == IF axis < 0 THEN axis + rank ELSE axis

RunMatMul(ports, len) ==
    IF Len(ports) # 2 THEN Fails("Op.Invalid")
    ELSE IF \E p \in {1, 2} : Len(ports[p].dims) # 2 THEN Fails("Unsupported")
    ELSE MatMul(ports[1].data, ports[1].dims, ports[2].data, ports[2].dims, len)

\* The bias, if there is one, is added over the node's declared shape.
AddBias(conv, rest, dims) ==
    IF conv.err # None \/ rest = <<>> THEN conv
    ELSE AddInplaceBroadcast(conv.out, dims, rest[1].data, rest[1].dims)

RunConv2d(op, ports, dims, len) ==
    IF Len(ports) \notin {2, 3} THEN Fails("Op.Invalid")
    ELSE IF \E p \in {1, 2} : Len(ports[p].dims) # 4 THEN Fails("ShapeMismatch")
    ELSE AddBias(Conv2d(ports[1].data, ports[1].dims, ports[2].data, ports[2].dims,
                        len, op.strides, op.padding),
                 SubSeq(ports, 3, Len(ports)), dims)

\* Only an Add of three equal shapes goes to the backend.
RunArithmetic(kind, ports, dims, len) ==
    IF Len(ports) # 2 THEN Fails("Op.Invalid")
    ELSE IF kind = "Add" /\ {ports[1].dims, ports[2].dims} = {dims}
    THEN ElementwiseAdd(ports[1].data, ports[2].data, len)
    ELSE Binary(kind, ports[1].data, ports[1].dims, ports[2].data, ports[2].dims, len, dims)

\* The HAL normalises rows of the last dimension only.
RunSoftmax(op, port, len) ==
    IF Len(port.dims) = 0 THEN Fails("ShapeMismatch")
    ELSE IF Axis(op.axis, Len(port.dims)) # Len(port.dims) - 1 THEN Fails("Unsupported")
    ELSE Softmax(port.data, len, Last(port.dims))

RunBatchNorm(ports, len) ==
    IF Len(ports) # 5 THEN Fails("Op.Invalid")
    ELSE BatchNorm(ports[1].data, ports[1].dims, len,
                   [p \in 1 .. 4 |-> ports[p + 1].data])

\* One turn of the loop over the operands: the next one, at a running column offset.
CopyOperand(st, port, dims, axis, inner) ==
    LET rank   == Len(dims)
        agrees == /\ Len(port.dims) = rank
                  /\ \A d \in 1 .. rank \ {axis} : port.dims[d] = dims[d]
        copied == ConcatCopyOne(st.out, dims[axis], st.offset, port.dims[axis], inner, port.data)
    IN  IF st.err # None THEN st
        ELSE IF ~agrees THEN [st EXCEPT !.err = "ShapeMismatch"]
        ELSE [err |-> copied.err, out |-> copied.out, offset |-> st.offset + port.dims[axis]]

\* The columns left over, or missing, are noticed after the last copy.
RunConcat(op, ports, dims, len, blank) ==
    LET rank  == Len(dims)
        axis  == Axis(op.axis, rank) + 1
        total == dims[axis]
        inner == NumEl(SubSeq(dims, axis + 1, rank))
        end   == FoldLeft(LAMBDA st, port : CopyOperand(st, port, dims, axis, inner),
                          [err |-> None, out |-> [j \in 1 .. len |-> blank], offset |-> 0],
                          ports)
    IN  IF Len(ports) < 2 THEN Fails("Op.Invalid")
        ELSE IF rank = 0 \/ axis \notin 1 .. rank \/ inner = Overflow THEN Fails("ShapeMismatch")
        ELSE IF end.err # None THEN Fails(end.err)
        ELSE IF end.offset # total THEN Fails("ShapeMismatch")
        ELSE Writes(end.out)

\* `blank` is what the output range holds before the kernel writes it.
Run(op, ports, dims, len, blank) ==
    CASE op.kind = "MatMul"        -> RunMatMul(ports, len)
      [] op.kind = "Conv2d"        -> RunConv2d(op, ports, dims, len)
      [] op.kind \in Arithmetic    -> RunArithmetic(op.kind, ports, dims, len)
      [] op.kind = "BatchNorm"     -> RunBatchNorm(ports, len)
      [] op.kind = "Concat"        -> RunConcat(op, ports, dims, len, blank)
      [] op.kind \in {"Input", "Custom"} -> Fails("Unsupported")
      [] OTHER ->
            IF ports = <<>> THEN Fails("Op.Invalid")
            ELSE CASE op.kind \in ElementWise -> Unary(op.kind, ports[1].data, len)
                   [] op.kind = "Softmax"     -> RunSoftmax(op, ports[1], len)
                   [] op.kind \in Moves       -> CopyElements(ports[1].data, len)
                   [] op.kind \in Pools       ->
                        Pool2d(op.kind, ports[1].data, ports[1].dims, len, dims,
                               op.kernel, op.strides, op.padding)
                   [] op.kind = "Transpose"   ->
                        IF Len(op.perm) > MaxRank THEN Fails("panic")
                        ELSE Transpose(ports[1].data, ports[1].dims, len, dims, op.perm)
=============================================================================
