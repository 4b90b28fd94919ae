----------------------------- MODULE Transforms -----------------------------
(***************************************************************************)
(* What happens to data on its way to the runtime: an image becomes a      *)
(* tensor, the weights of a graph become bytes and scales, a product is    *)
(* taken over bytes.  Each is one call, which answers.                     *)
(***************************************************************************)
EXTENDS Quantize, Vision

CONSTANTS
    Images,       \* records [image, cfg, ramp], the image being the ramp
    Graphs,       \* graphs whose initializers have dims and data
    Options,      \* PtqOptions
    Spreads,      \* slices to quantize asymmetrically
    Products,     \* operands of quantized_matmul_i8
    Pending       \* the answer of a call that has not been made

VARIABLES task, answer

vars == <<task, answer>>

Tasks ==
    [kind : {"preprocess_raw", "preprocess_source"}, of : Images]
      \cup [kind : {"ptq"}, of : Graphs, opts : Options]
      \cup [kind : {"asymmetric"}, of : Spreads]
      \cup [kind : {"product"}, of : Products, opts : Options]

Init == task \in Tasks /\ answer = Pending

Preprocess ==
    /\ task.kind = "preprocess_raw" /\ answer = Pending
    /\ answer' = PreprocessRawRgb(task.of.image, task.of.cfg)
    /\ UNCHANGED task

FromSource ==
    /\ task.kind = "preprocess_source" /\ answer = Pending
    /\ answer' = PreprocessSource(task.of.image, task.of.cfg)
    /\ UNCHANGED task

QuantizeGraph ==
    /\ task.kind = "ptq" /\ answer = Pending
    /\ answer' = Ptq(task.of, task.opts)
    /\ UNCHANGED task

\* A slice there and back, without a graph.
QuantizeSpread ==
    /\ task.kind = "asymmetric" /\ answer = Pending
    /\ answer' = [there |-> I8Asymmetric(task.of),
                  back  |-> I8AsymmetricBack(I8Asymmetric(task.of))]
    /\ UNCHANGED task

\* Activations quantized as a whole, times a weight that ptq quantized.
Weighed(product, opts) == QuantizeInitializer([dims |-> product.bs, data |-> product.b], opts)

MultiplyBytes ==
    /\ task.kind = "product" /\ answer = Pending
    /\ ~task.opts.int4
    /\ LET a == I8Symmetric(task.of.a)
           b == Weighed(task.of, task.opts)
       IN  answer' = QuantizedMatmul(a.q, task.of.as, a.scale, Signed(b.packed), task.of.bs,
                                     b.scales, task.of.len)
    /\ UNCHANGED task

Next == Preprocess \/ FromSource \/ QuantizeGraph \/ QuantizeSpread \/ MultiplyBytes
Spec == Init /\ [][Next]_vars

-----------------------------------------------------------------------------
(* Properties *)

Answered(kind) == task.kind = kind /\ answer # Pending

\* |back - x| <= steps / 2 of the scale, for every element of its row.
Near(back, data, scales, steps) ==
    LET cols == Len(data) \div Len(scales)
    IN  /\ Len(back) = Len(data)
        /\ \A i \in DOMAIN data :
              LET scale == scales[((i - 1) \div cols) + 1]
              IN  2 * Magnitude(back[i][1] - data[i] * back[i][2]) <= steps * scale[1]

\* What dequantize gives for a tensor quantized asymmetrically, whose zero point
\* ptq computes and does not keep: as far off as the zero point moved it.
Displaced(tensor, data) ==
    LET asym == I8Asymmetric(data)
        back == Dequantize(tensor)
    IN  Near([i \in DOMAIN back |-> <<back[i][1] - asym.zp * asym.scale[1], back[i][2]>>],
             data, <<asym.scale>>, 2)

\* What dequantize gives for a weight is within half a step of the weight, in
\* its own row's step, whatever the width and wherever the rows end; but for
\* options that quantize asymmetrically, where it is displaced by the zero point
\* and, but for that, within a step.  Asymmetrically by itself it is within a
\* step, unless all elements are equal.
RoundTrip ==
    /\ Answered("ptq") =>
         \A name \in DOMAIN answer :
            \E p \in DOMAIN task.of.inits :
               LET data == task.of.inits[p].data
               IN  /\ task.of.inits[p].name = name
                   /\ IF task.opts.symmetric \/ task.opts.int4
                      THEN Near(Dequantize(answer[name]), data, answer[name].scales, 1)
                      ELSE Cardinality(ToSet(data)) > 1 => Displaced(answer[name], data)
    /\ Answered("asymmetric") /\ Cardinality(ToSet(task.of)) > 1 =>
         Near(answer.back, task.of, <<answer.there.scale>>, 2)

\* The second operand of a product that the runtime binds to a matrix.
IsWeight(g, v) ==
    /\ g.nodes[v].op.kind \in {"MatMul", "Conv2d"} /\ Len(g.nodes[v].ins) >= 2
    /\ LET w == g.nodes[v].ins[2]
       IN  /\ w \in Ids(g) /\ IsInput(g, w) /\ InitializerOf(g, w) # 0
           /\ Len(g.inits[InitializerOf(g, w)].dims) >= 2

\* ptq quantizes the tensors that the runtime will bind as weights, each by the
\* name and with the data it is bound by, and no other.
QuantizesTheBoundWeights ==
    Answered("ptq") =>
        LET g     == task.of
            bound == {g.inits[InitializerOf(g, g.nodes[v].ins[2])] : v \in {u \in Ids(g) : IsWeight(g, u)}}
        IN  /\ DOMAIN answer = {init.name : init \in bound}
            /\ \A init \in bound : answer[init.name] = QuantizeInitializer(init, task.opts)

\* The channel of the source that output channel c shows.
SourceChannel(cfg, c) == IF cfg.color = "Bgr" THEN Channels - 1 - c ELSE c

\* A ramp is x * right + y * down + base[c]: its value at the centre of cell
\* (y, x) of dw by dh, clamped to the image.
RampAt(ramp, image, x, y, dw, dh, c) ==
    ramp.right * Centre(x, image.w, dw) * 2 * dh + ramp.down * Centre(y, image.h, dh) * 2 * dw
      + ramp.base[c + 1] * Unit(dw, dh)

PixelOf(of, c, y, x) ==
    LET cfg == of.cfg
        box == IF cfg.letterbox THEN Content(of.image.w, of.image.h, cfg.w, cfg.h)
               ELSE [w |-> cfg.w, h |-> cfg.h, x |-> 0, y |-> 0]
    IN  IF x - box.x \in 0 .. box.w - 1 /\ y - box.y \in 0 .. box.h - 1
        THEN RampAt(of.ramp, of.image, x - box.x, y - box.y, box.w, box.h, SourceChannel(cfg, c))
        ELSE cfg.pad * Unit(box.w, box.h)

\* The content of a letterbox touches two opposite edges and is centred.
Centred(image, cfg) ==
    LET box == Content(image.w, image.h, cfg.w, cfg.h)
    IN  /\ box.w = cfg.w \/ box.h = cfg.h
        /\ Magnitude(cfg.w - box.w - 2 * box.x) <= 1 /\ Magnitude(cfg.h - box.h - 2 * box.y) <= 1

\* What the tensor holds of output channel c at (y, x).
Element(out, cfg, c, y, x) ==
    At(out, IF cfg.layout = "Chw" THEN (c * cfg.h + y) * cfg.w + x
            ELSE (y * cfg.w + x) * Channels + c)

\* A tensor is made only of an image with all its bytes, and its element (c, y, x)
\* is what the image shows there, or padding, normalised as channel c in the
\* order asked for, as config.rs:34 says; chw_to_hwc takes planes back to pixels.  Bytes that are missing
\* are noticed, but by a panic when the length they should have does not fit usize.
PixelsPlaced ==
    \A kind \in {"preprocess_raw", "preprocess_source"} :
        Answered(kind) =>
            LET of  == task.of
                cfg == of.cfg
                all == of.image.w * of.image.h * Channels
            IN  /\ answer.err = "panic" => kind = "preprocess_raw" /\ all > UsizeMax
                /\ answer.err = None =>
                     /\ Len(of.image.data) = all
                     /\ cfg.letterbox => Centred(of.image, cfg)
                     /\ cfg.layout = "Chw" =>
                          ChwToHwc(answer.out, cfg.h, cfg.w) = Arranged(of.image, [cfg EXCEPT !.layout = "Hwc"])
                     /\ \A c \in 0 .. Channels - 1, y \in 0 .. cfg.h - 1, x \in 0 .. cfg.w - 1 :
                           Element(answer.out, cfg, c, y, x)
                             = <<PixelOf(of, c, y, x), cfg.mean[c + 1], cfg.std[c + 1]>>

\* lib.rs:6-11, which lib.rs:70 calls the pipeline order, lists normalisation as
\* step 3 and the swap of red and blue as step 4: a pixel is normalised as the
\* channel it was in the source.
NormalisedBeforeSwap ==
    \A kind \in {"preprocess_raw", "preprocess_source"} :
        Answered(kind) /\ answer.err = None =>
            LET of  == task.of
                cfg == of.cfg
                as(c) == SourceChannel(cfg, c) + 1
            IN  \A c \in 0 .. Channels - 1, y \in 0 .. cfg.h - 1, x \in 0 .. cfg.w - 1 :
                   Element(answer.out, cfg, c, y, x)
                     = <<PixelOf(of, c, y, x), cfg.mean[as(c)], cfg.std[as(c)]>>

\* The product over bytes is the product of what they stand for, as long as b has
\* one scale and its zero point is 0, and the sum fits the accumulator.
ProductOfDequantized ==
    Answered("product") /\ answer.err = None =>
        LET of  == task.of
            a   == I8Symmetric(of.a)
            b   == Weighed(of, task.opts)
            at  == Scaled(a.q, a.scale)
            bt  == Dequantize(b)
            k   == of.as[2]
            n   == of.bs[2]
            term(i, kk) == At(at, (i \div n) * k + kk)[1] * At(bt, kk * n + (i % n))[1]
            sum(i) == FoldLeft(LAMBDA acc, kk : acc + term(i, kk), 0, [kk \in 1 .. k |-> kk - 1])
        IN  task.opts.symmetric /\ Len(b.scales) = 1 /\ k * 127 * 127 < 2^(AccBits - 1) =>
              \A i \in 0 .. of.len - 1 :
                 At(answer.out, i) = <<sum(i), a.scale[2] * b.scales[1][2]>>
=============================================================================
