------------------------------- MODULE Vision -------------------------------
(***************************************************************************)
(* tpt-infer-vision: from RGB bytes to the tensor a vision model takes.    *)
(*                                                                         *)
(* An image is [w, h, data], a configuration [w, h, letterbox, color,      *)
(* layout, mean, std, pad].  A resized pixel is an integer number of       *)
(* 1 / unit, which keeps interpolation exact; a normalised one is          *)
(* <<numerator, mean, std>>, (x * rescale - mean) / std not being worked   *)
(* out.                                                                    *)
(***************************************************************************)
EXTENDS Kernels

Channels == 3
Bounded(x, lo, hi) == IF x < lo THEN lo ELSE IF x > hi THEN hi ELSE x

\* A length computed in usize without a check.
Wrapped(x) == x % 2^Bits

-----------------------------------------------------------------------------
(* resize.rs and letterbox.rs *)

\* Where the centre of cell d of n falls on s cells, in units of 1 / 2n; clamped.
Centre(d, s, n) == Bounded((2 * d + 1) * s - n, 0, 2 * n * (s - 1))

\* The cell to the left of it, the next, and the weight of the next.
Span(d, s, n) ==
    LET first == Bounded(Centre(d, s, n) \div (2 * n), 0, s - 1)
    IN  [first |-> first, next |-> Bounded(first + 1, 0, s - 1),
         weight |-> Centre(d, s, n) - first * 2 * n]

Unit(dw, dh) == 4 * dw * dh

\* bilinear_resize, of pixels of the right length.
BilinearResize(src, sw, sh, dw, dh) ==
    LET pixel(y, x, c) == At(src, (y * sw + x) * Channels + c)
        value(i) ==
            LET c == i % Channels
                x == Span((i \div Channels) % dw, sw, dw)
                y == Span(i \div (Channels * dw), sh, dh)
                mix(row) == pixel(row, x.first, c) * 2 * dw
                              + (pixel(row, x.next, c) - pixel(row, x.first, c)) * x.weight
            IN  mix(y.first) * 2 * dh + (mix(y.next) - mix(y.first)) * y.weight
    IN  IF sw = dw /\ sh = dh THEN [j \in DOMAIN src |-> src[j] * Unit(dw, dh)]
        ELSE Fill(dw * dh * Channels, value)

\* min(dw / sw, dh / sh), a fraction; and s * scale, half up, in 1 .. d.
FitScale(sw, sh, dw, dh) == IF dw * sh <= dh * sw THEN <<dw, sw>> ELSE <<dh, sh>>
Fitted(s, scale, d) == Bounded((2 * s * scale[1] + scale[2]) \div (2 * scale[2]), 1, d)

\* The content of a letterbox: its size and where it is put.
Content(sw, sh, dw, dh) ==
    LET w == Fitted(sw, FitScale(sw, sh, dw, dh), dw)
        h == Fitted(sh, FitScale(sw, sh, dw, dh), dh)
    IN  [w |-> w, h |-> h, x |-> (dw - w) \div 2, y |-> (dh - h) \div 2]

\* letterbox: the resized content, row by row, on a canvas of padding.
Letterbox(src, sw, sh, dw, dh, pad) ==
    LET box     == Content(sw, sh, dw, dh)
        resized == BilinearResize(src, sw, sh, box.w, box.h)
        value(i) ==
            LET x == ((i \div Channels) % dw) - box.x
                y == (i \div (Channels * dw)) - box.y
            IN  IF x \in 0 .. box.w - 1 /\ y \in 0 .. box.h - 1
                THEN At(resized, (y * box.w + x) * Channels + (i % Channels))
                ELSE pad * Unit(box.w, box.h)
    IN  Fill(dw * dh * Channels, value)

-----------------------------------------------------------------------------
(* layout.rs and normalize.rs *)

\* swap_rb
SwapRb(px) ==
    Fill(Len(px), LAMBDA i : At(px, (Channels * (i \div Channels)) + (Channels - 1) - (i % Channels)))

\* normalize_hwc
NormalizeHwc(px, mean, std) ==
    Fill(Len(px), LAMBDA i : <<At(px, i), mean[(i % Channels) + 1], std[(i % Channels) + 1]>>)

\* hwc_to_chw, and back by chw_to_hwc
HwcToChw(px, h, w) ==
    Fill(Len(px), LAMBDA i : At(px, (i % (h * w)) * Channels + (i \div (h * w))))

ChwToHwc(px, h, w) ==
    Fill(Len(px), LAMBDA i : At(px, (i % Channels) * (h * w) + (i \div Channels)))

-----------------------------------------------------------------------------
(* lib.rs *)

Resized(image, cfg) ==
    IF cfg.letterbox THEN Letterbox(image.data, image.w, image.h, cfg.w, cfg.h, cfg.pad)
    ELSE BilinearResize(image.data, image.w, image.h, cfg.w, cfg.h)

\* Mutant: normalisation before the channels are swapped, which is the order that
\* the documentation of the crate gives (Transforms, NormalisedBeforeSwap).
ArrangedLate(image, cfg) ==
    LET sized   == NormalizeHwc(Resized(image, cfg), cfg.mean, cfg.std)
        swapped == IF cfg.color = "Bgr" THEN SwapRb(sized) ELSE sized
    IN  IF cfg.layout = "Chw" THEN HwcToChw(swapped, cfg.h, cfg.w) ELSE swapped

\* Scale, swap, normalise, and the planes last.
Arranged(image, cfg) ==
    LET sized   == Resized(image, cfg)
        swapped == IF cfg.color = "Bgr" THEN SwapRb(sized) ELSE sized
        normal  == NormalizeHwc(swapped, cfg.mean, cfg.std)
    IN  IF cfg.layout = "Chw" THEN HwcToChw(normal, cfg.h, cfg.w) ELSE normal

TensorDims(cfg) ==
    IF cfg.layout = "Chw" THEN <<1, Channels, cfg.h, cfg.w>> ELSE <<1, cfg.h, cfg.w, Channels>>

\* preprocess_raw_rgb.  The product of the dimensions wraps in a release build:
\* a slice that is too short is then read past its end, unless no pixel of it is
\* read before the tensor is made.
PreprocessRawRgb(image, cfg) ==
    LET short  == Len(image.data) < image.w * image.h * Channels
        copied == image.w = cfg.w /\ image.h = cfg.h /\ cfg.layout = "Hwc" /\ ~cfg.letterbox
    IN  Answer(<<Require(image.w # 0 /\ image.h # 0, "InvalidDims"),
                 Require(cfg.w # 0 /\ cfg.h # 0, "InvalidDims"),
                 Require(Len(image.data) = Wrapped(image.w * image.h * Channels), "SizeMismatch"),
                 Require(~short \/ copied, "panic"),
                 Require(0 \notin ToSet(cfg.std), "ZeroStd"),
                 Require(NumEl(TensorDims(cfg)) # Overflow, "Tensor")>>,
               IF short THEN <<>> ELSE Arranged(image, cfg))

\* preprocess_source of a RawRgbImage, whose own check does not wrap.
PreprocessSource(image, cfg) ==
    IF NumEl(<<image.w, image.h, Channels>>) = Overflow THEN Fails("DimensionOverflow")
    ELSE IF Len(image.data) # image.w * image.h * Channels THEN Fails("SizeMismatch")
    ELSE PreprocessRawRgb(image, cfg)
=============================================================================
