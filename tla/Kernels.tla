------------------------------ MODULE Kernels ------------------------------
(***************************************************************************)
(* The kernels a node is dispatched to: tpt-infer-runtime/src/kernels.rs,  *)
(* the scalar backend of tpt-infer-ops (naive.rs, with the validation of   *)
(* backend.rs) and the index helpers of tpt-infer-core/src/shape.rs.       *)
(*                                                                         *)
(* A slice is a sequence.  An f32 is a term that names the computation     *)
(* that produced it, so two results are equal only when the same operands  *)
(* were combined in the same order: a sum is the sequence of its terms.    *)
(* A kernel is given the length of `out` and answers with what it wrote,   *)
(* or with the error it returned; "Op." marks an OpError.                  *)
(***************************************************************************)
EXTENDS Integers, Sequences, SequencesExt

CONSTANTS
    Bits,       \* width of usize
    MaxRank     \* MAX_RANK

UsizeMax == 2^Bits - 1
Overflow == -1

CheckedMul(a, b) == IF a = Overflow \/ a * b > UsizeMax THEN Overflow ELSE a * b

\* numel: the product of the dimensions, 1 for a rank-0 shape.
NumEl(dims) == FoldLeft(CheckedMul, 1, dims)

-----------------------------------------------------------------------------
(* What a kernel answers *)

None         == "none"
Fails(error) == [err |-> error, out |-> <<>>]
Writes(out)  == [err |-> None, out |-> out]

\* The checks of a kernel, in order: the first that fails is its answer.
FirstError(checks) ==
    LET j == SelectInSeq(checks, LAMBDA check : check # None)
    IN  IF j = 0 THEN None ELSE checks[j]

Answer(checks, out) ==
    LET error == FirstError(checks)
    IN  [err |-> error, out |-> IF error = None THEN out ELSE <<>>]

Require(condition, error) == IF condition THEN None ELSE error

\* A buffer of `len` elements for the shape `dims`.
FitsShape(len, dims) ==
    IF NumEl(dims) = Overflow THEN "ShapeMismatch"
    ELSE Require(len = NumEl(dims), "SizeMismatch")

\* The same test in the crates that report an OpError.
OpFits(len, dims) ==
    IF NumEl(dims) = Overflow THEN "Op.Invalid"
    ELSE Require(len = NumEl(dims), "Op.SizeMismatch")

\* Element i, counted from 0; and the buffer of `len` elements F(0), F(1), ...
At(s, i)       == s[i + 1]
Fill(len, F(_)) == [j \in 1 .. len |-> F(j - 1)]

-----------------------------------------------------------------------------
(* Row-major indexing; coordinates are counted from 0 *)

\* strides: the product of the dimensions to the right, wrapping.
Strides(shape) ==
    [d \in DOMAIN shape |->
        FoldLeft(LAMBDA acc, v : (acc * v) % 2^Bits, 1, SubSeq(shape, d + 1, Len(shape)))]

RavelIndex(index, shape) ==
    LET st == Strides(shape)
    IN  FoldLeftDomain(LAMBDA acc, d : acc + index[d] * st[d], 0, index)

UnravelIndex(flat, shape) ==
    LET st == Strides(shape)
        rem(d) == IF d = 1 THEN flat ELSE flat % st[d - 1]
    IN  [d \in DOMAIN shape |-> rem(d) \div st[d]]

\* Ones in front, up to MAX_RANK.
Pad(dims) ==
    [d \in 1 .. MaxRank - Len(dims) |-> 1] \o dims

BroadcastsTo(operand, out) ==
    /\ Len(operand) <= Len(out)
    /\ \A d \in DOMAIN operand :
          operand[d] \in {1, out[Len(out) - Len(operand) + d]}

\* map_coord: a dimension of 1 is read at 0.
MapCoord(oc, sd) == [d \in DOMAIN sd |-> IF sd[d] = 1 THEN 0 ELSE oc[d]]

\* The element of an operand that output element i of a broadcast reads.
BroadcastIndex(i, dims, outDims) ==
    RavelIndex(MapCoord(UnravelIndex(i, Pad(outDims)), Pad(dims)), Pad(dims))

-----------------------------------------------------------------------------
(* Element-wise kernels *)

Binary(op, a, ad, b, bd, len, od) ==
    Answer(<<Require(BroadcastsTo(ad, od), "ShapeMismatch"),
             Require(BroadcastsTo(bd, od), "ShapeMismatch"),
             FitsShape(Len(a), ad), FitsShape(Len(b), bd), FitsShape(len, od)>>,
           Fill(len, LAMBDA i : <<op, At(a, BroadcastIndex(i, ad, od)),
                                      At(b, BroadcastIndex(i, bd, od))>>))

AddInplaceBroadcast(out, od, bias, bd) ==
    Answer(<<Require(BroadcastsTo(bd, od), "ShapeMismatch"),
             FitsShape(Len(out), od), FitsShape(Len(bias), bd)>>,
           Fill(Len(out), LAMBDA i : <<"Add", At(out, i),
                                               At(bias, BroadcastIndex(i, bd, od))>>))

\* Backend::elementwise_add
ElementwiseAdd(a, b, len) ==
    Answer(<<Require(Len(a) = Len(b), "Op.SizeMismatch"),
             Require(len = Len(a), "Op.SizeMismatch")>>,
           Fill(len, LAMBDA i : <<"Add", At(a, i), At(b, i)>>))

\* Backend::relu, sigmoid and gelu
Unary(op, a, len) ==
    Answer(<<Require(len = Len(a), "Op.SizeMismatch")>>,
           Fill(len, LAMBDA i : <<op, At(a, i)>>))

CopyElements(src, len) == Answer(<<Require(Len(src) = len, "SizeMismatch")>>, src)

\* Softmax over rows of rowLen elements: an element depends on its whole row.
Softmax(a, len, rowLen) ==
    Answer(<<Require(len = Len(a), "Op.SizeMismatch"),
             IF rowLen = 0 THEN "Op.Invalid"
             ELSE Require(Len(a) % rowLen = 0, "Op.Invalid")>>,
           Fill(len, LAMBDA i :
               LET row == (i \div rowLen) * rowLen
               IN  <<"Softmax", At(a, i), SubSeq(a, row + 1, row + rowLen)>>))

\* Per channel of an NCHW input, else per element.
BatchNorm(x, xd, len, params) ==
    LET plen    == Len(params[1])
        channel == Len(xd) = 4 /\ plen = xd[2]
        param(i) == IF channel THEN (i \div (xd[3] * xd[4])) % xd[2] ELSE i
    IN  Answer(<<FitsShape(Len(x), xd), Require(len = Len(x), "SizeMismatch"),
                 Require(\A p \in DOMAIN params : Len(params[p]) = plen, "ShapeMismatch"),
                 Require(channel \/ plen = NumEl(xd), "ShapeMismatch")>>,
               Fill(len, LAMBDA i :
                   <<IF channel THEN "ChannelNorm" ELSE "ElementNorm", At(x, i),
                     [p \in DOMAIN params |-> At(params[p], param(i))]>>))

-----------------------------------------------------------------------------
(* Contractions and windows *)

\* Dense a[m,k] @ b[k,n]; the sum runs over k in order.
MatMul(a, as, b, bs, len) ==
    LET n == bs[2]
        k == as[2]
    IN  Answer(<<Require(k = bs[1], "Op.ShapeMismatch"),
                 OpFits(Len(a), as), OpFits(Len(b), bs), OpFits(len, <<as[1], n>>)>>,
               Fill(len, LAMBDA i :
                   <<"Sum", [kk \in 1 .. k |-> <<At(a, (i \div n) * k + kk - 1),
                                                 At(b, (kk - 1) * n + (i % n))>>]>>))

\* One axis of a window: its extent, and how many windows fit.
WindowFits(size, kernel, stride, pad) ==
    kernel # 0 /\ stride # 0 /\ size + 2 * pad <= UsizeMax /\ size + 2 * pad >= kernel

WindowCount(size, kernel, stride, pad) == (size + 2 * pad - kernel) \div stride + 1

\* Element (n, c, y, x) of an NCHW buffer.
Nchw(dims, n, c, y, x) == ((n * dims[2] + c) * dims[3] + y) * dims[4] + x

\* The taps of window (oy, ox) that are not padding, in the order of the loops:
\* channel, row, column of the kernel.
Taps(channels, kernel, oy, ox, strides, padding, dims) ==
    LET tap(t) == [c  |-> t \div (kernel[1] * kernel[2]),
                   ky |-> (t \div kernel[2]) % kernel[1],
                   kx |-> t % kernel[2]]
        y(t) == oy * strides[1] + tap(t).ky - padding[1]
        x(t) == ox * strides[2] + tap(t).kx - padding[2]
        inside == SelectSeq([t \in 1 .. channels * kernel[1] * kernel[2] |-> t - 1],
                            LAMBDA t : y(t) \in 0 .. dims[3] - 1 /\ x(t) \in 0 .. dims[4] - 1)
    IN  [j \in DOMAIN inside |-> tap(inside[j]) @@ [y |-> y(inside[j]), x |-> x(inside[j])]]

\* validate_conv2d and conv2d: the declared output shape plays no part.
Conv2d(x, xs, w, ws, len, strides, padding) ==
    LET kernel == <<ws[3], ws[4]>>
        fits   == /\ WindowFits(xs[3], ws[3], strides[1], padding[1])
                  /\ WindowFits(xs[4], ws[4], strides[2], padding[2])
        od     == <<xs[1], ws[1], WindowCount(xs[3], ws[3], strides[1], padding[1]),
                    WindowCount(xs[4], ws[4], strides[2], padding[2])>>
        term(i) ==
            LET o    == UnravelIndex(i, od)
                taps == Taps(xs[2], kernel, o[3], o[4], strides, padding, xs)
            IN  <<"Sum", [j \in DOMAIN taps |->
                    <<At(x, Nchw(xs, o[1], taps[j].c, taps[j].y, taps[j].x)),
                      At(w, Nchw(ws, o[2], taps[j].c, taps[j].ky, taps[j].kx))>>]>>
    IN  IF ws[2] # xs[2] THEN Fails("Op.ShapeMismatch")
        ELSE IF ~fits THEN Fails("Op.Invalid")
        ELSE Answer(<<OpFits(Len(x), xs), OpFits(Len(w), ws), OpFits(len, od)>>, Fill(len, term))

\* max_pool2d and average_pool2d, which share pool_geometry.
Pool2d(op, x, xd, len, od, kernel, strides, padding) ==
    LET counts == <<WindowCount(xd[3], kernel[1], strides[1], padding[1]),
                    WindowCount(xd[4], kernel[2], strides[2], padding[2])>>
        term(i) ==
            LET o    == UnravelIndex(i, od)
                taps == Taps(1, kernel, o[3], o[4], strides, padding, xd)
            IN  <<op, [j \in DOMAIN taps |->
                    At(x, Nchw(xd, o[1], o[2], taps[j].y, taps[j].x))]>>
    IN  IF Len(xd) # 4 \/ Len(od) # 4 THEN Fails("ShapeMismatch")
        ELSE IF ~(/\ WindowFits(xd[3], kernel[1], strides[1], padding[1])
                  /\ WindowFits(xd[4], kernel[2], strides[2], padding[2]))
             THEN Fails("Op.Invalid")
        ELSE Answer(<<Require(od = <<xd[1], xd[2]>> \o counts, "ShapeMismatch"),
                      FitsShape(Len(x), xd), FitsShape(len, od)>>, Fill(len, term))

-----------------------------------------------------------------------------
(* Data movement *)

\* Output dimension d is input dimension perm[d] (counted from 0).
Transpose(x, xd, len, od, perm) ==
    LET rank == Len(xd)
        term(i) ==
            LET oc == UnravelIndex(i, od)
            IN  At(x, RavelIndex([d \in 1 .. rank |->
                                     oc[CHOOSE o \in 1 .. rank : perm[o] = d - 1]], xd))
        permuted ==
            /\ Len(od) = rank /\ Len(perm) = rank
            /\ ToSet(perm) = 0 .. rank - 1
            /\ \A d \in 1 .. rank : od[d] = At(xd, perm[d])
    IN  IF ~permuted THEN Fails("ShapeMismatch")
        ELSE Answer(<<FitsShape(Len(x), xd), Require(len = NumEl(xd), "SizeMismatch")>>,
                    Fill(len, term))

\* One operand into its columns of every outer block of `out`.
ConcatCopyOne(out, cTotal, cOffset, cSrc, inner, src) ==
    LET srcBlock == cSrc * inner
        outBlock == cTotal * inner
        column(i) == (i % outBlock) - cOffset * inner
    IN  IF cSrc = 0 \/ inner = 0 \/ cOffset + cSrc > cTotal THEN Fails("ShapeMismatch")
        ELSE Answer(<<Require(srcBlock <= UsizeMax, "ShapeMismatch"),
                      Require(Len(src) % srcBlock = 0, "SizeMismatch"),
                      Require(outBlock <= UsizeMax /\ (Len(src) \div srcBlock) * outBlock <= UsizeMax,
                              "ShapeMismatch"),
                      Require(Len(out) = (Len(src) \div srcBlock) * outBlock, "SizeMismatch")>>,
                    Fill(Len(out), LAMBDA i :
                        IF column(i) \in 0 .. srcBlock - 1
                        THEN At(src, (i \div outBlock) * srcBlock + column(i))
                        ELSE At(out, i)))
=============================================================================
