------------------------------ MODULE AotCode ------------------------------
(***************************************************************************)
(* The computations tpt-infer-compile knows, as code for one node: for     *)
(* every element of the output, in order, the cells it reads (which        *)
(* operand, which flat index), and the function that combines them.        *)
(*                                                                         *)
(* fold.rs runs such code on the compile-time host and codegen.rs prints   *)
(* it as Rust loops, with indices that are literals or loop variables; the *)
(* loops of the two are the same, their conditions are in AotFold and      *)
(* AotEmit.  Index arithmetic is written out as these files do it, and     *)
(* shares nothing with the interpreter's Kernels.                          *)
(***************************************************************************)
EXTENDS Dispatch

Product(dims) == FoldLeft(LAMBDA acc, d : acc * d, 1, dims)

RowMajor(dims) == [d \in DOMAIN dims |-> Product(SubSeq(dims, d + 1, Len(dims)))]

\* The body for each index below the bound, unrolled or as a loop.
ForOrUnroll(body) == [j \in 1 .. Cardinality(DOMAIN body) |-> body[j - 1]]

Below(bound) == 0 .. bound - 1

Code(f, cells) == [f |-> f, cells |-> cells]

-----------------------------------------------------------------------------
(* What code answers on buffers *)

Pairs(v) == [j \in 1 .. Len(v) \div 2 |-> <<v[2 * j - 1], v[2 * j]>>]

\* The value of an element from the values of its cells.
Term(f, v) ==
    CASE f = "Copy"       -> v[1]
      [] f = "Sum"        -> <<"Sum", Pairs(v)>>
      [] f = "BiasedSum"  -> <<"Add", <<"Sum", Pairs(Tail(v))>>, Head(v)>>
      [] f \in Pools      -> <<f, v>>
      [] f \in {"Softmax", "ChannelNorm", "ElementNorm"} -> <<f, Head(v), Tail(v)>>
      [] OTHER            -> <<f>> \o v

Panics == Fails("panic")

\* An index past the end of a buffer panics; "All" is to_vec, "Literal" a vec![].
Evaluate(code, bufs) ==
    IF code.f = "Literal" THEN Writes(code.cells)
    ELSE IF code.f = "All" THEN Writes(bufs[1])
    ELSE IF \E e \in DOMAIN code.cells : \E cell \in ToSet(code.cells[e]) :
               cell[2] >= Len(bufs[cell[1]])
    THEN Panics
    ELSE Writes([e \in DOMAIN code.cells |->
                    Term(code.f, [j \in DOMAIN code.cells[e] |->
                                     At(bufs[code.cells[e][j][1]], code.cells[e][j][2])])])

-----------------------------------------------------------------------------
(* Element-wise *)

MapCode(f, len)  == Code(f, ForOrUnroll([i \in Below(len) |-> <<<<1, i>>>>]))
PairCode(f, len) == Code(f, ForOrUnroll([i \in Below(len) |-> <<<<1, i>>, <<2, i>>>>]))

\* Shapes aligned to the right; a dimension of 1 has stride 0.
Padded(dims, rank) == [d \in 1 .. rank - Len(dims) |-> 1] \o dims

MaskedStrides(dims, rank) ==
    LET padded == Padded(dims, rank)
    IN  [d \in 1 .. rank |-> IF padded[d] = 1 THEN 0 ELSE RowMajor(padded)[d]]

\* The emitted steps: divide by a stride of the output, keep the remainder.
BroadcastCode(f, ad, bd, od) ==
    LET strides == RowMajor(od)
        step(st, d) ==
            [rem |-> st.rem % strides[d],
             a   |-> st.a + (st.rem \div strides[d]) * MaskedStrides(ad, Len(od))[d],
             b   |-> st.b + (st.rem \div strides[d]) * MaskedStrides(bd, Len(od))[d]]
        index(i) == FoldLeftDomain(step, [rem |-> i, a |-> 0, b |-> 0], od)
    IN  Code(f, ForOrUnroll([i \in Below(Product(od)) |-> <<<<1, index(i).a>>, <<2, index(i).b>>>>]))

\* An element and the elements it is normalised with, along axis ax of ad.
SoftmaxCode(ad, ax) ==
    LET inner == Product(SubSeq(ad, ax + 1, Len(ad)))
        block == inner * ad[ax]
        row(i) == [k \in 1 .. ad[ax] |->
                      <<1, ((i \div block) * ad[ax] + k - 1) * inner + (i % inner)>>]
    IN  Code("Softmax", ForOrUnroll([i \in Below(Product(ad)) |-> <<<<1, i>>>> \o row(i)]))

ChannelMode(xd, plen) == Len(xd) = 4 /\ plen = xd[2]

NormCode(xd, plen) ==
    LET param(i) == IF ChannelMode(xd, plen) THEN (i \div (xd[3] * xd[4])) % xd[2] ELSE i
    IN  Code(IF ChannelMode(xd, plen) THEN "ChannelNorm" ELSE "ElementNorm",
             ForOrUnroll([i \in Below(Product(xd)) |->
                 <<<<1, i>>>> \o [p \in 1 .. 4 |-> <<p + 1, param(i)>>]]))

-----------------------------------------------------------------------------
(* Contractions and windows *)

MatMulCode(ad, bd) ==
    LET k == ad[2]
        n == bd[2]
    IN  Code("Sum", ForOrUnroll([e \in Below(ad[1] * n) |->
            FlattenSeq([p \in 1 .. k |-> <<<<1, (e \div n) * k + p - 1>>,
                                           <<2, (p - 1) * n + (e % n)>>>>])]))

\* No dimension of the window is 0, and it fits into the padded input.
WindowSlides(size, kernel, strides, padding) ==
    \A d \in {1, 2} : /\ kernel[d] # 0 /\ strides[d] # 0
                      /\ size[d] + 2 * padding[d] >= kernel[d]

Slides(size, kernel, strides, padding) ==
    [d \in {1, 2} |-> (size[d] + 2 * padding[d] - kernel[d]) \div strides[d] + 1]

\* The window of output (oy, ox), row by row, without the positions on padding.
Window(size, kernel, strides, padding, oy, ox) ==
    SelectSeq(ForOrUnroll([t \in Below(kernel[1] * kernel[2]) |->
                             [ky |-> t \div kernel[2], kx |-> t % kernel[2],
                              y |-> oy * strides[1] + t \div kernel[2],
                              x |-> ox * strides[2] + (t % kernel[2])]]),
              LAMBDA t : /\ t.y >= padding[1] /\ t.y - padding[1] < size[1]
                         /\ t.x >= padding[2] /\ t.x - padding[2] < size[2])

\* Element i of an NCHW output: batch, channel, row, column.
Nchw4(i, od) == <<i \div (od[2] * od[3] * od[4]), (i \div (od[3] * od[4])) % od[2],
                  (i \div od[4]) % od[3], i % od[4]>>

ConvDims(xd, wd, strides, padding) ==
    <<xd[1], wd[1]>> \o
        [d \in {1, 2} |-> Slides(SubSeq(xd, 3, 4), SubSeq(wd, 3, 4), strides, padding)[d]]

\* Input channels outermost; a bias comes before the products.
ConvCode(xd, wd, strides, padding, biased) ==
    LET od == ConvDims(xd, wd, strides, padding)
        products(o, ci) ==
            LET window == Window(SubSeq(xd, 3, 4), SubSeq(wd, 3, 4), strides, padding, o[3], o[4])
            IN  FlattenSeq([j \in DOMAIN window |->
                  <<<<1, ((o[1] * xd[2] + ci) * xd[3] + window[j].y - padding[1]) * xd[4]
                             + window[j].x - padding[2]>>,
                    <<2, ((o[2] * xd[2] + ci) * wd[3] + window[j].ky) * wd[4] + window[j].kx>>>>])
        cells(o) == (IF biased THEN <<<<3, o[2]>>>> ELSE <<>>)
                      \o FlattenSeq(ForOrUnroll([ci \in Below(xd[2]) |-> products(o, ci)]))
    IN  Code(IF biased THEN "BiasedSum" ELSE "Sum",
             ForOrUnroll([i \in Below(Product(od)) |-> cells(Nchw4(i, od))]))

PoolDims(xd, op) ==
    <<xd[1], xd[2]>> \o
        [d \in {1, 2} |-> Slides(SubSeq(xd, 3, 4), op.kernel, op.strides, op.padding)[d]]

PoolCode(op, xd) ==
    LET od == PoolDims(xd, op)
        cells(o) ==
            LET window == Window(SubSeq(xd, 3, 4), op.kernel, op.strides, op.padding, o[3], o[4])
            IN  [j \in DOMAIN window |->
                    <<1, (o[1] * xd[2] + o[2]) * xd[3] * xd[4]
                           + (window[j].y - op.padding[1]) * xd[4] + window[j].x - op.padding[2]>>]
    IN  Code(op.kind, ForOrUnroll([i \in Below(Product(od)) |-> cells(Nchw4(i, od))]))

-----------------------------------------------------------------------------
(* Data movement *)

Offset(dims, q, ax) == FoldLeft(LAMBDA acc, d : acc + d[ax], 0, SubSeq(dims, 1, q - 1))

\* Where the columns of the operands add up to those of the output.
ConcatCode(dims, od, ax) ==
    LET inner == Product(SubSeq(od, ax + 1, Len(od)))
        cells(i) ==
            LET o == i \div (od[ax] * inner)
                c == (i \div inner) % od[ax]
                q == CHOOSE q \in DOMAIN dims :
                        c \in Offset(dims, q, ax) .. Offset(dims, q + 1, ax) - 1
            IN  <<<<q, (o * dims[q][ax] + c - Offset(dims, q, ax)) * inner + (i % inner)>>>>
    IN  Code("Copy", ForOrUnroll([i \in Below(Product(od)) |-> cells(i)]))

TransposeCode(xd, od, perm) ==
    LET from == [d \in DOMAIN perm |-> RowMajor(xd)[perm[d] + 1]]
        source(t) == FoldLeftDomain(LAMBDA acc, d :
                         acc + ((t \div RowMajor(od)[d]) % od[d]) * from[d], 0, od)
    IN  Code("Copy", ForOrUnroll([t \in Below(Product(od)) |-> <<<<1, source(t)>>>>]))
=============================================================================
