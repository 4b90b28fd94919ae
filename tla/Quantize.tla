------------------------------ MODULE Quantize ------------------------------
(***************************************************************************)
(* tpt-infer-quantize: the INT8 and INT4 kernels (quant.rs, dequant.rs),   *)
(* weight-only quantization of a graph and the integer product (ptq.rs).   *)
(*                                                                         *)
(* An f32 is an integer number of some unit, well above f32::EPSILON; a    *)
(* scale is a fraction <<num, den>>, so what q * scale means is exact and  *)
(* the rounding of f32 itself is left out.                                 *)
(***************************************************************************)
EXTENDS ModelGraph

CONSTANT AccBits    \* width of the i32 accumulator

Clamped(x, lo, hi) == IF x < lo THEN lo ELSE IF x > hi THEN hi ELSE x

\* f32::round: half away from zero.
RoundDiv(a, b) ==
    IF a >= 0 THEN (2 * a + b) \div (2 * b) ELSE -((b - 2 * a) \div (2 * b))

AsU8(q) == q % 256
AsI8(b) == IF b > 127 THEN b - 256 ELSE b

Magnitude(x)  == IF x < 0 THEN -x ELSE x
MaxAbs(data)  == FoldLeft(LAMBDA m, x : IF Magnitude(x) > m THEN Magnitude(x) ELSE m, 0, data)

-----------------------------------------------------------------------------
(* quant.rs *)

\* scale = max |x| / top, or 1 for zeros.
SymmetricScale(data, top) == IF MaxAbs(data) = 0 THEN <<1, 1>> ELSE <<MaxAbs(data), top>>

Levels(data, scale, top) ==
    [i \in DOMAIN data |-> Clamped(RoundDiv(data[i] * scale[2], scale[1]), -top, top)]

\* quantize_i8_symmetric
I8Symmetric(data) ==
    LET scale == SymmetricScale(data, 127)
    IN  [q |-> Levels(data, scale, 127), scale |-> scale]

\* quantize_i8_asymmetric: [min, max] onto [-128, 127], the zero point pinned to
\* that range.
I8Asymmetric(data) ==
    LET lo     == IF data = <<>> THEN 0 ELSE Min(ToSet(data))
        hi     == IF data = <<>> THEN 0 ELSE Max(ToSet(data))
        scale0 == <<hi - lo, 255>>
        zp0    == RoundDiv(-128 * (hi - lo) - 255 * lo, hi - lo)
        params ==
            IF hi = lo THEN [scale |-> <<1, 1>>, zp |-> 0]
            ELSE IF zp0 < -128 THEN [scale |-> IF hi <= 0 THEN scale0 ELSE <<hi, 255>>, zp |-> -128]
            ELSE IF zp0 > 127 THEN [scale |-> IF -lo <= 0 THEN scale0 ELSE <<-lo, 255>>, zp |-> 127]
            ELSE [scale |-> scale0, zp |-> zp0]
        level(x) == RoundDiv(x * params.scale[2] + params.zp * params.scale[1], params.scale[1])
    IN  [q |-> [i \in DOMAIN data |-> Clamped(level(data[i]), -128, 127)],
         scale |-> params.scale, zp |-> params.zp]

\* pack_i4: two to a byte, the low nibble first, the last alone if it must.
PackI4(values) ==
    [j \in 1 .. (Len(values) + 1) \div 2 |->
        (IF 2 * j <= Len(values) THEN values[2 * j] % 16 ELSE 0) * 16 + (values[2 * j - 1] % 16)]

SignExtend(nibble) == IF nibble >= 8 THEN nibble - 16 ELSE nibble

\* unpack_i4: up to n values.
UnpackI4(packed, n) ==
    [i \in 1 .. Min({n, 2 * Len(packed)}) |->
        LET byte == packed[(i + 1) \div 2]
        IN  SignExtend(IF i % 2 = 1 THEN byte % 16 ELSE byte \div 16)]

\* quantize_i4_symmetric
I4Symmetric(data) ==
    LET scale == SymmetricScale(data, 7)
    IN  [q |-> PackI4(Levels(data, scale, 7)), scale |-> scale]

\* quantize_i8_symmetric_per_channel, quantize_i4_symmetric_per_channel: the
\* rows one after another; INT4 starts each on a byte of its own.
PerChannel(parts) ==
    [q      |-> FlattenSeq([r \in DOMAIN parts |-> parts[r].q]),
     scales |-> [r \in DOMAIN parts |-> parts[r].scale]]

RowsOf(data, rows) ==
    LET cols == Len(data) \div rows
    IN  [r \in 1 .. rows |-> SubSeq(data, (r - 1) * cols + 1, r * cols)]

-----------------------------------------------------------------------------
(* dequant.rs: numerators; the denominator is the scale's *)

Scaled(q, scale) == [i \in DOMAIN q |-> <<q[i] * scale[1], scale[2]>>]

\* dequantize_i8_symmetric_per_channel
I8Rows(q, scales) ==
    LET cols == Len(q) \div Len(scales)
    IN  FoldLeftDomain(LAMBDA acc, r :
                          acc \o Scaled(SubSeq(q, (r - 1) * cols + 1, r * cols), scales[r]),
                       <<>>, scales)

\* Mutant: rows that share the byte between them.
I4RowsDense(packed, elems, scales) ==
    LET all == UnpackI4(packed, elems * Len(scales))
    IN  FoldLeftDomain(LAMBDA acc, r :
                          acc \o Scaled(SubSeq(all, (r - 1) * elems + 1, r * elems), scales[r]),
                       <<>>, scales)

\* dequantize_i4_symmetric_per_channel: a row is a whole number of bytes.
I4Rows(packed, elems, scales) ==
    LET bytes == (elems + 1) \div 2
        row(r) == SubSeq(packed, (r - 1) * bytes + 1, Min({r * bytes, Len(packed)}))
    IN  FoldLeftDomain(LAMBDA acc, r : acc \o Scaled(UnpackI4(row(r), elems), scales[r]), <<>>, scales)

I8AsymmetricBack(quantized) ==
    [i \in DOMAIN quantized.q |->
        <<(quantized.q[i] - quantized.zp) * quantized.scale[1], quantized.scale[2]>>]

-----------------------------------------------------------------------------
(* ptq.rs: options are [symmetric, channel, int4] *)

Bytes(q) == [i \in DOMAIN q |-> AsU8(q[i])]
Signed(bytes) == [i \in DOMAIN bytes |-> AsI8(bytes[i])]

\* quantize_initializer, of a tensor of rank 2 or more.
QuantizeInitializer(init, opts) ==
    LET rows == init.dims[1]
        tensor(dtype, scales, packed) ==
            [dtype |-> dtype, dims |-> init.dims, scales |-> scales, packed |-> packed]
        parts == IF opts.channel /\ rows > 1 THEN RowsOf(init.data, rows) ELSE <<init.data>>
        int4  == PerChannel([r \in DOMAIN parts |-> I4Symmetric(parts[r])])
        int8  == PerChannel([r \in DOMAIN parts |-> I8Symmetric(parts[r])])
    IN  IF opts.int4 THEN tensor("I4", int4.scales, int4.q)
        ELSE IF ~opts.symmetric
        THEN tensor("I8", <<I8Asymmetric(init.data).scale>>, Bytes(I8Asymmetric(init.data).q))
        ELSE tensor("I8", int8.scales, Bytes(int8.q))

\* QuantizedTensor::dequantize
Dequantize(t) ==
    LET total == NumEl(t.dims)
        rows  == Len(t.scales)
    IN  IF t.dtype = "I8"
        THEN IF rows = 1 THEN Scaled(Signed(t.packed), t.scales[1]) ELSE I8Rows(Signed(t.packed), t.scales)
        ELSE IF rows = 1 THEN Scaled(UnpackI4(t.packed, total), t.scales[1])
        ELSE I4Rows(t.packed, total \div rows, t.scales)

\* initializer_name_of: the first initializer with the name of an input node.
NamedInit(g, v) ==
    IF v \in DOMAIN g.nodes /\ g.nodes[v].op.kind = "Input" /\ g.nodes[v].name # NoName
    THEN SelectInSeq(g.inits, LAMBDA it : it.name = g.nodes[v].name)
    ELSE 0

\* Mutant: every operand of a product counts as its weight.
WeightNamesAnyOperand(g) ==
    LET weights == UNION {{NamedInit(g, w) : w \in ToSet(g.nodes[v].ins)} :
                             v \in {u \in DOMAIN g.nodes : g.nodes[u].op.kind \in {"MatMul", "Conv2d"}}}
    IN  {g.inits[p].name : p \in weights \ {0}}

\* The names of the second operands of products and convolutions, once each.
WeightNames(g) ==
    LET products == {v \in DOMAIN g.nodes : /\ g.nodes[v].op.kind \in {"MatMul", "Conv2d"}
                                            /\ Len(g.nodes[v].ins) >= 2}
        weights  == {NamedInit(g, g.nodes[v].ins[2]) : v \in products}
    IN  {g.inits[p].name : p \in weights \ {0}}

\* ptq: vectors and scalars are left as they are.
Ptq(g, opts) ==
    LET first(name) == g.inits[SelectInSeq(g.inits, LAMBDA it : it.name = name)]
    IN  [name \in {w \in WeightNames(g) : Len(first(w).dims) >= 2} |->
            QuantizeInitializer(first(name), opts)]

\* The i32 sum, in two's complement.
Wrap(x) == ((x + 2^(AccBits - 1)) % 2^AccBits) - 2^(AccBits - 1)

\* Element (kk, col) of b is b[index[kk, col]].
ProductWith(index, a, as, aScale, b, bs, scales, len) ==
    LET bScale == IF scales = <<>> THEN <<1, 1>> ELSE scales[1]
        sum(i) == FoldLeft(LAMBDA acc, kk : Wrap(acc + At(a, (i \div bs[2]) * as[2] + kk)
                                                        * At(b, index[kk, i % bs[2]])),
                           0, [kk \in 1 .. as[2] |-> kk - 1])
    IN  Answer(<<Require(as[2] = bs[1], "k mismatch"),
                 Require(/\ Len(a) = as[1] * as[2] /\ Len(b) = as[2] * bs[2]
                         /\ len = as[1] * bs[2], "buffer size mismatch")>>,
               Fill(len, LAMBDA i : <<sum(i) * aScale[1] * bScale[1], aScale[2] * bScale[2]>>))

\* Mutant: b read by columns.
QuantizedMatmulColumns(a, as, aScale, b, bs, scales, len) ==
    ProductWith([kk, col \in 0 .. NumEl(bs) |-> col * bs[1] + kk], a, as, aScale, b, bs, scales, len)

\* quantized_matmul_i8: the first scale of b serves for all of it.
QuantizedMatmul(a, as, aScale, b, bs, scales, len) ==
    ProductWith([kk \in 0 .. bs[1] - 1, col \in 0 .. bs[2] - 1 |-> kk * bs[2] + col], a, as, aScale, b, bs, scales, len)
=============================================================================
