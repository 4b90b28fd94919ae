# TLA+ models of tpt-infer

tpt-infer is a neural-network inference library in Rust: a computation graph
is built by hand or loaded from ONNX, and is then either interpreted over a
fixed memory arena or compiled to Rust source.  This directory holds TLA+
modules translated from that code, the TLC configurations that check them, and
proofs that TLAPS checks, about the arena, both sorts, the executor, the graph
API with its typed builder, the loader and the compiler, and the back ends.

    tlc -workers 2 -config arena.cfg   MCBumpArena
    tlc -workers 2 -config kahn.cfg    MCKahn
    tlc -workers 2 -config execute.cfg MCExecute
    tlc -workers 2 -config builder.cfg MCGraphBuilder
    tlc -workers 2 -config toolchain.cfg  MCToolchain
    tlc -workers 2 -config devices.cfg    MCDevices
    tlc -workers 2 -config transforms.cfg MCTransforms
    for m in BumpArenaProofs GraphSortProofs KahnProofs ExecuteProofs GraphBuilderProofs \
             ComputationGraphProofs ToolchainProofs DevicesProofs; do tlapm $m.tla; done

## 1. Inventory

Paths are relative to `src/crates/`.  Nothing in these crates starts a thread
or persists state; the only asynchronous call is the WebGPU read back.  What
is hard here is memory carved out of an uninitialised buffer with unsafe code,
orders that several algorithms must agree on, early returns that leave state
behind, index arithmetic that is written several times over, and, on a WebGPU
device that threads share, a callback that another thread may run.

| Component | State | Operations | Talks to |
|---|---|---|---|
| Bump arena (`tpt-infer-core/src/arena.rs`) | a byte buffer, one offset | `new`, `alloc_bytes`, `alloc_slice`, `alloc_one`, `reset` | executor: slices that outlive the borrow of the arena |
| Shapes, tensors (`tpt-infer-core`) | values | index helpers, constructors | everything |
| Graph (`tpt-infer-graph/src/graph.rs`) | nodes, edges, inputs, outputs, initializers | `add_node`, `add_edge`, `mark_*`, `add_initializer`, `infer_outputs`, `topological_sort` | builder, loader, executor, compiler |
| Typed builder (`builder.rs`) | a graph and the current node | one method per operator, shapes in the types | graph |
| ONNX loader (`tpt-infer-onnx`) | name table during one load | `graph_from_proto`, operator registry, shape inference | graph |
| Executor (`tpt-infer-runtime/src/exec.rs`) | locals carved from the arena | `execute_graph`, `execute`, `required_arena_bytes` | arena, graph, kernels, back end |
| Kernels (`kernels.rs`, `tpt-infer-ops/src/naive.rs`, `backend.rs`) | none | one function per operator, validation first | executor |
| Back ends (`tpt-infer-ops`) | detected features; WebGPU device and buffers | `detect`, `select_backend`, the `Backend` trait | executor, operating system |
| Compiler (`tpt-infer-compile`) | folded constants, source text | `fold_constants`, `generate`, `aot_compile` | graph |
| Quantization (`tpt-infer-quantize`) | none | quantize, pack, dequantize, the pass over a graph | graph |
| Vision (`tpt-infer-vision`) | none | resize, letterbox, layout, normalise | callers |
| CLI, facade, Python and wasm bindings | none | wrappers | the above |

What makes each correct, and where it is hard:

- **Arena.** Slices handed out since the last reset never share a byte, are
  aligned for their type and lie in the buffer, wherever the buffer is; a
  request is refused only when it does not fit.  The arena keeps only an
  offset, so the property is about something it does not store.
- **Sorts.** Both give every node after its producers, once; report a cycle or
  an unknown id; end.  The interpreter's sort runs in six uninitialised slices
  with hand-made offsets.  The two must agree, since the compiler folds and
  emits in one order and the interpreter runs in the other.
- **Executor.** The value of each output is its operator applied to the values
  of its producers, however the arena is filled, whatever was left in it; no
  read of memory this call did not write; the ranges of two nodes never
  overlap; every early return is justified; an arena of
  `required_arena_bytes` is enough.
- **Kernels.** Each output element is computed from the right operands, or the
  call is refused before it writes (concat alone writes first).
- **Graph, builder, loader.** Ids equal positions; marked ids exist; each Input
  node is registered once; edges and input lists agree; a loaded model keeps
  the edges of the file.
- **Compiler.** Folding and generated loops compute what the interpreter
  computes.
- **Loader.** A name is a weight, an input, a node's output or nothing yet,
  depending on where in the file it stands; skipped operands must not shift the
  ports of the others; inferred shapes must be the ones the kernels want.
- **Back ends.** All of them refuse the same requests and write the same
  elements: lanes and tail partition the slice, workgroups cover the output.
  Selection never picks instructions the CPU lacks.  WebGPU: the read back gets
  an answer although it drops what its poll returned.
- **Quantization, vision.** Packing, per-channel layout and permutations are
  inverted by their counterparts.

`PROJECT.json` lists the hazards, each at its line, with the properties that
would catch it.

## 2. Modules

    RegionAllocator <--implements-- BumpArena <--instance-- Execute --implements--> InferenceService
                                                             |  |                       |
                                                             |  +--> Dispatch --> Kernels <--+
    TopoOrder <--implements-- Kahn                           +--> ModelGraph --> GraphSort
                               ^------ SameOrderAsGraphSort ----------------------^
    GraphBuilder --extends--> ComputationGraph --extends--> GraphMeaning
        (GraphMeaning is also under Execute: its IsAnswer is InferenceService's parameter)

    Toolchain --extends--> OnnxLoad --> OnnxOperators --> Dispatch
        |                       +--> SharedGraph --> ComputationGraph
        |                       |
        +--------extends--> AotCompile --> AotFold, AotEmit --> AotCode --> Dispatch
    Devices --> WebGpu --> CpuBackends --> Kernels
    Transforms --> Quantize --> ModelGraph;  Transforms --> Vision --> Kernels

    GraphBuilderProofs, ToolchainProofs --> ComputationGraphProofs --> GraphSortProofs
    ExecuteProofs, KahnProofs --> GraphSortProofs
    (ExecuteProofs instantiates BumpArenaProofs; each extends the module it is about)

| Module | Models |
|---|---|
| `RegionAllocator` | what an arena promises: grant, release, recycle |
| `BumpArena` | `arena.rs`; adds `held`, the slices the program still borrows |
| `BumpArenaProofs`, `KahnProofs`, `GraphSortProofs`, `ExecuteProofs`, `GraphBuilderProofs`, `ToolchainProofs`, `DevicesProofs` | theorems about the module they are named after |
| `ComputationGraphProofs` | lemmas about the operations that edit a graph |
| `TopoOrder` | what a topological sort promises |
| `Kahn` | `exec.rs`, `kahn`, one action per turn of a loop |
| `GraphSort` | `graph.rs`, `topological_sort`, as an operator |
| `Kernels` | `kernels.rs`, `naive.rs`, the validation in `backend.rs`, `shape.rs` |
| `Dispatch` | `exec.rs`, `Exec::run` |
| `ModelGraph` | a graph as the runtime reads it; `required_arena_bytes` |
| `GraphMeaning` | what a graph computes for a request, without arena or order |
| `ComputationGraph` | `graph.rs`, the operations that edit a graph, as operators |
| `SharedGraph` | the graph that the loader builds and the compiler is given |
| `GraphBuilder` | `builder.rs`, the typed builder and its handles, then the dynamic API |
| `InferenceService` | what `execute_graph` promises |
| `Execute` | `execute_graph`, with the arena as an instance of `BumpArena` |
| `OnnxOperators` | `registry.rs`, `shape.rs` and the attributes in `load.rs`: operators, attributes, inferred shapes |
| `OnnxLoad` | `load.rs`, `graph_from_proto`: one action per turn of its loops; then `infer_shapes` |
| `AotCode` | what a piece of generated code computes: for each element, the operand cells it reads |
| `AotFold` | `fold.rs`, `try_eval` |
| `AotEmit` | `codegen.rs`, the `emit_*` functions: the code of a node, or an error |
| `AotCompile` | `model.rs`, `fold_constants`, `generate`, and the generated `execute`, statement by statement |
| `Toolchain` | the `compile` command: load, compile, run |
| `CpuBackends` | `dispatch.rs` and the vector kernels of `avx2.rs`, `avx512.rs`, `neon.rs`, `wasm.rs` |
| `WebGpu` | `webgpu.rs`: a call in the steps another thread can come between; the shaders by thread; the device is external |
| `Devices` | every back end behind the trait, and threads on one WebGPU device |
| `Quantize` | `tpt-infer-quantize`: scales, packing, the pass over a graph, the integer product |
| `Vision` | `tpt-infer-vision`: resize, letterbox, channel order, layout, normalisation |
| `Transforms` | the calls of these two crates |
| `MC*` | constants for TLC |

**State.** In `BumpArena`, `buf` (an address and a length) and `offset` are the
fields of the struct; `held` is the part of the program's borrows the safety
comments talk about; `result` is the last return value.  `Drop` is the end of
borrows in the caller.  In `Kahn`, the six slices and the cursors are the
function's parameters and locals; a cell nobody wrote holds `Garbage`, and
`pc` names the loop.  In `Execute`, `pc` names the part of `execute_graph`,
`i` its loop index; `order`, `binds`, `used`, `total`, `acts` are the locals;
`request`, `avail`, `reply` are the call's slices, the bytes it found left, and
its result.

In `GraphBuilder`, `slots` holds each builder's `graph` and `current` with its
type parameter `shape`; `handles` are the `NodeRef`s the program can hold;
trait bounds are guards.  `mixed` and `weights` are history: who was given a
foreign handle, and which data each weight node was added with.

In `Toolchain`, `phase`, `cursor`, `nameToNode`, `graph` and `loadError` are
the locals of `graph_from_proto` (`made` adds which node each file node
became); `stage`, `at`, `order`, `inputId`, `folded`, `program` those of
`aot_compile`; `supplied`, `env`, `result` the call of the generated function.
In `WebGpu`, `queue` and `done` are what was submitted and has run, `mapping`
and `channel` are a call's staging buffer and its mpsc channel, `held` the
callbacks a poll has taken and not yet run, `until` what it waits for.  In
`Transforms` a behaviour is one call.

**Generated code.** A statement is `let v{id} = code(reads)`; code is a
function symbol and, for each element, the cells of the operands it reads, in
order.  The index arithmetic is that of `codegen.rs` and `fold.rs`, which share
nothing with the interpreter's kernels, so comparing the two compares two
independent texts.

**Data.** An `f32` is a term that names the computation that produced it, for
instance `<<"Add", <<"slice", 1, 1>>, <<"weight", 2, 1>>>>`; a sum is the
sequence of its terms.  Two results are equal only if the same operands were
combined in the same order, so a swapped operand, a wrong index or an
unwritten cell changes the value.  Rounding is not modelled.

**Steps.** The sort is one step in `Execute` (operator `TopologicalSort`) and
a loop in `Kahn`; `SameOrderAsGraphSort` is the link.  A kernel is one step:
it runs on slices nobody else touches, which is what `RangesDisjoint` says.
What a kernel wrote before it failed is not kept in `acts`: the call returns
and nobody reads it.

## 3. Runs

| Run | Question | Result |
|---|---|---|
| `arena` | does the arena keep its promises at every address? | holds |
| `arena_reset` | does it "never hand out overlapping regions"? | violated across a reset |
| `kahn` | is the sort right, does it end, does it agree with the compiler's? | holds |
| `kahn_ties` | are ties "broken by node id"? | violated: by arrival |
| `execute` | is each call answered with the right value or a justified error? | holds |
| `builder` | do graphs stay well formed, and does what compiles also run? | holds, for a builder's own handles and distinct names |
| `builder_handles` | does a handle's shape "always" match its node? | violated with a handle of another builder |
| `toolchain` | does a file load to what it says, and the compiled program compute what the interpreter does? | holds, with the exceptions below |
| `fold_broadcast` | does folding mirror the semantics of the generated code? | violated for operands of one length and different shapes |
| `devices` | does every back end answer as the scalar reference, and every call on a shared device end? | holds, but for NaN in relu |
| `transforms` | are pixels, weights and bytes where they belong? | holds, with the exceptions below |
| `vision_order` | are channels normalised before they are swapped? | violated: swapped first |

**arena.** `TypeOK` (the cursor stays in the buffer), `FreshDisjoint`,
`CursorPastFresh`, `GrantsUsable`, `RefusesOnlyWhatDoesNotFit` (compares the
code's overflow and capacity tests with a search for any place that fits) and
`ImplementsAllocator`.  Bounds: `Bits = 5`; six-byte buffers at an even address
and ending at address 31, the last one, so both `checked_add`s can fail;
alignments 0, 1, 2, 3, 4; lengths 0, 1, 4; three holders, so a third region
must avoid two others.  The arithmetic depends on the address only modulo the
alignment; the proofs below cover every width.  `CHECK_DEADLOCK` stays on:
`reset` is always possible.

**kahn.** `TypeOK`, `AdjacencyExact` (the filled CSR list holds each consumer
once per reference), `PendingCounted` (`indegree` counts the references not
yet released, and the queue holds no node twice), `SameOrderAsGraphSort`,
`ImplementsTopoOrder` (safety and termination).  Bounds: every graph of three
nodes whose input lists have up to two entries, drawn from the three ids and
one unknown id, so duplicates, self-loops and cycles of every length; every
graph of four nodes with duplicate-free lists; and the empty graph.

**execute.** `TypeOK`, `RangesDisjoint`, `ReadsWritten`, `ImplementsService`.
Bounds: `MaxCalls = 2`, so a call can meet what an earlier one left; `Bits =
20`, so products of dimensions can overflow usize while every arena size fits;
`MaxRank = 4` (8 in the code: padding is uniform in it).  Two arenas: 200
bytes, too small for any three-node graph, at every point where an allocation
can fail; and 456, enough for each graph once.  Graphs: every wiring of
three nodes by Input, unary, Add and Sub nodes, with a self-loop and an
unknown id; two named inputs with each combination of initializers and
marking order; and one graph for each operator, with right and wrong ranks,
shapes, attributes and arity.  A caller supplies no slice, one, or two, of
right and wrong lengths.

**builder.** `TypeOK`, `RegistryExact`, `EdgesMirrorInputs`, `HeadIsTheOutput`,
`BuiltGraphsRun` (the built graph, given slices of the declared lengths, has an
answer without an error according to `GraphMeaning`, the specification
`Execute` implements), `NamedWeightsHoldTheirData`, `RefusalsChangeNothing`.
Bounds: two builders; `MaxCalls = 4` on the nodes of all graphs plus the calls
of the dynamic API, enough for an input, a weight and two operations, for two
graphs that swap handles, and for edits before and after `into_graph`; shapes
1x2 and 2x1 (matmul makes 1x1 and 2x2); two names; `MaxRank = 2` and `Bits =
4`, so that a shape can be too long and a product can overflow.  A zero
dimension is not among the shapes: softmax refuses an empty row.  Softmax over
the first axis compiles and is refused at run time, so `BuiltGraphsRun`
excludes it.  Builders and names are only compared, hence the symmetry.
`CHECK_DEADLOCK FALSE` in both builder configurations: a program that has
used its calls up is finished.

**toolchain.** `TypeOK`; `WiringExact` (each loaded node reads the latest
earlier definition of each name it gives, edges and ports included, and an
undefined name is an input of its own); `AsksFor` (how many slices a caller of
the loaded graph must supply); `InferredShapesRun` (if the interpreter computes a
node with any shape, it does with the inferred one); `ShapesAgree` (where
the file declares the shapes of its inputs, inference and the load agree);
`CompiledAgrees`, `FoldedAsInterpreted`, `SourceIsClosed`, `CompilesWhatRuns`.
Instances: every operator over a supplied operand and over weights alone, with
right and wrong shapes, attributes absent, negative and too long; every wiring
of three nodes by name, with names not yet defined, defined twice or empty;
files at each limit of the loader.  `Excess = 1`: a caller may supply one
element too many.  `MaxRank = 4` (8 in the code), `MaxModelBytes = 8` and
`MaxGraphItems = 6` stand for the loader's limits.  Exceptions the properties
name:

- `InferredShapesRun` is not about arithmetic whose second operand, or a
  convolution whose bias, does not stretch to the inferred shape, nor about
  Reshape, whose shape is its target;
- `ShapesAgree` is about files that declare shapes of true inputs only and use
  no name twice;
- `CompiledAgrees` and `FoldedAsInterpreted` leave out what `fold_broadcast`
  shows;
- `CompilesWhatRuns` allows the compiler to refuse a convolution bias other
  than `[1, oc, 1, 1]`, and operands the interpreter does not look at.  The
  other way round the program may accept a graph the interpreter refuses.

Three slices out of bounds panic in the code, and the models say where.  A
Reshape target longer than `MAX_RANK` does in the loader's shape inference
(`shapes.rs:94`); nothing after the load looks at the target.  A Transpose
permutation that names a dimension the operand lacks does there too
(`shapes.rs:149`).  One longer than `MAX_RANK` loads, its shape falling back, and
panics where it is used: in the interpreter (`exec.rs:525`), in folding
(`fold.rs:170`) or in code generation (`codegen.rs:203`).

**devices.** `TypeOK`, `SelectsTheBest`, `AnswersAsNaive`,
`PanicsOnlyAtLimits`, `EveryCallEnds`.  Machines: x86 with and without AVX2 and
AVX-512F, built with them or not, with and without `std` and the `avx512`
feature; ARM, WebAssembly and another architecture.  Jobs: every operation at
lengths 0, 1, and around one and two multiples of 4, 8 and 16 lanes.  WebGPU:
`GroupSize = 3`, `TileSide = 2`, `MaxGroups = 3` for 64, 8 and 65535, so that
ten elements are one group too many and both tails of a group occur;
`MaxBinding = 48` and `MaxBuffer = 64` for 128 and 256 MiB, so that 13 elements
are too many to bind and 17 for a buffer, with products that exceed each on a
grid within its limit, by an operand or by the output alone; three
pairs of calls at once, at every interleaving, with the device lost at every
point.  Exceptions: NEON, WebAssembly and WebGPU may answer a NaN for the relu
of a NaN where the scalar code answers 0 (WGSL leaves it open); WebGPU panics,
by wgpu's error handler, on an operand of no elements and beyond the limits
that `Limits::downlevel_defaults` sets (`webgpu.rs:286`) on the workgroups of a
dimension, on a buffer and on a binding.  The last is the one a model meets: the
25088x4096 weight of a fully connected layer is 392 MiB, on a grid of 512 by 1.
The calls before the submission are one step, `Submit`, because the panic of each
comes before anything is submitted; the staging buffer that `read_back` makes
later is as long as the output, so it passes where that did.
`CHECK_DEADLOCK FALSE`: a call that has answered is finished.

**transforms.** `RoundTrip`, `QuantizesTheBoundWeights`, `PixelsPlaced`,
`ProductOfDequantized`.  Arithmetic is exact, on integer multiples of a unit.
Images are ramps, whose bilinear value is known in closed form, of one to five
pixels, onto one to six; rows of odd and even length; weights hidden by another
of their name; `AccBits = 17`, so that a sum of five products can overflow the
accumulator and one of four cannot.  Exceptions: `ptq` with `symmetric` off and
eight bits computes a zero point and does not keep it (`ptq.rs:261-271`), so
its weights come back displaced by the zero point, which is what `RoundTrip` says
of them (`Displaced`); the asymmetric kernel maps equal elements to
scale 1 and zero point 0; the product uses only the first scale of its second
operand, so it is held to a weight of one scale; a sum of k products can leave
an `i32` when k * 127^2 >= 2^31; `preprocess_raw_rgb` multiplies width, height
and 3 unchecked (`lib.rs:94`) where `RawRgbImage::to_rgb8` checks.
`PixelsPlaced` normalises a channel by its place in the output, which is what the
code and `config.rs:34` do and not the order of the crate's documentation
(`vision_order`).  `CHECK_DEADLOCK FALSE`: one call is a behaviour.

Each property has in `PROJECT.json` a mutant of the code that breaks it; the
mutated operators sit next to the ones they replace, marked `Mutant`.

**Fairness.** `WF_vars(Next)` in `Kahn` and `WF_vars(Step)` in `Execute`: both
are sequential functions that wait for nobody, so a call that has started
goes on to its return.  Nothing is assumed of the caller: it need not call or
reset again (`Call` and `Reset` are outside `Step`).  `BumpArena` has no
fairness and no liveness property.  `Devices` assumes that each calling thread
is scheduled (`WF` of its steps) and that a device which is not lost runs what
was submitted (`WF` of `Execute`), which is what a queue promises; nothing is
assumed about the order of two threads, and the device may be lost at any
time.  `Toolchain` and `Transforms` have safety properties only.

## 4. Findings

- `arena.rs:68-69` justifies its unsafe code with "we never hand out
  overlapping regions because offset only advances".  `reset` takes the offset
  back, and the slices carry the buffer's lifetime and not a borrow of the
  arena, so a slice can be kept across a reset (run `arena_reset`).  What does
  hold, and is proved, is that regions granted since the last reset are
  disjoint.
- `exec.rs:135-136` and `graph.rs:428` say ties are broken by node id.  Both
  queues are first-in first-out: a node that becomes ready later comes later,
  whatever its id (run `kahn_ties`).  The order is valid and deterministic.
- `builder.rs:156-157` says a handle's shape always matches its node.  A
  `NodeRef` does not know its builder, so a handle used in another one may
  name a node of another shape, none, or the node being made (run
  `builder_handles`).  With a builder's own handles it holds.
- `fold.rs:80-82` says `try_eval` "mirrors the runtime semantics of the same
  operators in `crate::codegen`".  For Add, Sub, Mul and Div it compares the
  lengths of the operands (`fold.rs:118`) and pairs their elements, where the
  generated code broadcasts their shapes: over constants of shapes [2] and
  [2,1] it folds two elements where the code computes four (run
  `fold_broadcast`).
- `tpt-infer-vision/src/lib.rs:6-11`, which `lib.rs:70` refers to for "the
  pipeline order", and lines 11-15 of that crate's README list normalisation as
  step 3 and the swap of red and blue as step 4.  `lib.rs:112-122` swaps first.
  When mean or deviation differ between the channels, as in
  `PreprocessConfig::imagenet`, a Bgr tensor has other values than the documented
  order gives (run `vision_order`).

Four more statements have no run of their own.

- `ptq.rs:89-90` documents `dequantize` as giving the `f32`s back.  Weights that
  `ptq` quantizes asymmetrically come back displaced by the zero point, for which
  `QuantizedTensor` has no field; `RoundTrip` states that displacement.
- `builder.rs:299`: a weight is "backed by an Initializer holding `data`".  The
  runtime finds initializers by name, first match first, and no call refuses a
  name in use: of two weights under one name, both read the data of the first.
  `NamedWeightsHoldTheirData` is what holds, and is proved: with distinct names
  each weight is bound to its own data.
- Two statements of `ptq.rs` on which nothing observable depends: it "walks a
  ComputationGraph in topological order" (line 3), where the code goes through
  `nodes()` in the order of ids and sorts the names it found; and it "propagates
  graph errors" (line 152), where no call in it can return one.

## 5. Proofs

**Arena.** `BumpArenaProofs` proves, for every address width, every buffer,
every set of element types, lengths and alignments (`ArenaAssumption`: a buffer
ends within the address space; sizes and lengths are naturals; alignments of
types are positive) and any set of holders (`NoRegionAssumption`: the
placeholder is not a region):

- `ArenaTypes`, `NoAliasing`, `CursorAhead`, `SlicesUsable`: the invariants of
  run `arena`;
- `RefusesWhenFull`: a request is refused only when no aligned place above the
  cursor holds it;
- `Refinement`: `Spec => ImplementsAllocator`.

`FreshDisjoint` alone is not inductive: a grant starts at or above the cursor,
and nothing in it says that the older regions end below.  `ArenaInv` adds
`CursorPastFresh`, and `TypeOK` and `GrantsUsable` for the arithmetic.
`AlignUpFacts` shows that rounding up moves an address by less than the
alignment and lands on a multiple (from division with remainder); `Placement`
lifts it to an accepted request; `AllocKeepsArenaInv` is the one interesting
step; `reset` empties the set of fresh regions, `Drop` shrinks it.
`StepRefines` maps an accepted allocation to `Grant`, a refused one to a
stutter.

**Sort of the interpreter.** `KahnProofs`, for every graph whose references
come from its nodes (`KahnAssumption`; they may name any id):

- `KahnTypeCorrect`, `KahnAdjacencyExact`, `KahnPendingCounted`: the invariants
  of run `kahn`;
- `KahnImplementsTopoOrder`: the safety part of the refinement of `TopoOrder`;
- `KahnSameOrder`: `SameOrderAsGraphSort`, the interpreter and the compiler
  agree on the verdict and on the order.

The offset of a node's consumers is the number of references whose producer
lies below it, so each reference has a slot of its own, and `0 .. m - 1` are
all taken (`SlotInjective`, `SlotOnto`): the count, prefix-sum and fill loops
write every cell of the uninitialised slice once.  `KInv` says of each loop
what the slices hold after the turns taken.  While nodes are emitted, a node's
`indegree` counts the references to it that are not freed, and the queue holds
once each node whose count is 0; so a pop follows the node's producers, and an
empty queue leaves only nodes that wait for each other.

`Follows` ties each state of `Kahn` to one of `GraphSort`'s fold: what `queue`
holds up to `tail` is the vector's order followed by its queue (`Same`), since
emitting a node moves a cursor in one and an element in the other.  A turn of
the fold goes through all references of the graph and a turn of `Kahn` through
the slots of one node; between two references that read that node the fold
stands still (`TurnIdles`), and slots are in the order of references.

**Sort of the compiler.** `GraphSortProofs`: `SortIsTopological`, of every
graph.  `topological_sort` answers "unknown" exactly when a reference leaves
the graph, "cycle" exactly when some nodes all read among themselves, and else
all nodes, once, each after those it reads.  The operator is a fold of a fold;
a fold is a recursive function on sets of positions, of which a definition
only says CHOOSE.  `FoldExists` builds such a function, and the proofs follow it
up the prefixes of its sequence (`UpTo`).

**Executor.** `ExecuteProofs`, for any graphs that are `WellFormed`, any
requests and any buffers that end within the address space
(`ExecuteAssumption`, `GraphsAssumption`), any operators of the enum, a
permutation being numbers (`OperatorsAssumption`; everything else about
attributes, shapes and arity is free), and placeholders that are no slice, no
binding and no term (`MarkersAssumption`):

- `ExecuteTypeCorrect` and `RangesStayDisjoint`: `TypeOK` and `RangesDisjoint` of
  run `execute`;
- `ReadsStayWritten`: `ReadsWritten` of the same run, no node is computed from a
  cell of the arena that this call has not written;
- `ExecuteImplementsService`: `ImplementsService` of the same run but for its
  liveness (`Answered`), each step is a step of `InferenceService` or a stutter:
  a call is answered once, with the values of the outputs, an error that the
  graph or the request justifies, or `OutOfMemory` when it found less than
  `required_arena_bytes`, whatever earlier calls left in the arena;
- `SlicesNeverOverlap`: as `execute_graph` uses the arena, the sentence of
  `arena.rs:68-69` that run `arena_reset` refutes is true.

`ExInv` adds to the types: the loop index stays in its loop (`Counting`); the
order is topological from the sort on (`Ordered`, from `SortIsTopological`);
the inputs already gone over are bound (`Bound`); the nodes laid out so far lie
one after the other below `total` (`Laid`), which is what makes a new range
miss the old ones; and every slice held was granted in this call, none between
calls (`Borrowed`).  Its last part is the arena's own invariant: each step of
`Execute` is a step of the instance of `BumpArena` or leaves it alone, so the
lemmas of `BumpArenaProofs` carry over.

`CallInv` relates a call to `GraphMeaning`, which knows no arena, no order and
no loop.  `Matched`: the binding loop counts slices as it goes, the meaning says
which slice the k-th unnamed input takes; up to the loop index they agree, and
the first input they refuse is the same.  `Frugal`: what the arena has handed
out in this call, padding included, is within what the saturating sums of
`required_arena_bytes` add up, so a refused allocation means the caller's arena
was smaller than advised.  Each of its eight slices may be padded, by up to
seven bytes, which is what `ARENA_SLACK` is for; when a saturated sum is the
largest `usize`, no arena is as large as advised.  `Tallied`: the layout's
running total is the sum over the nodes laid out, in whatever order.
`Dispatched`: each node of the order below the loop index has the value that
`Value` gives it, and what `Resolve` reads for it is that value.  `Value` is a
recursive function over the graph and the order is a list, so the last step is
by induction along the list: the producers of a node stand before it
(`ProducersBefore`), and they are the only values that its own depends on.

`ReadsWritten` asks more of the kernels: that no cell of an output they accept
keeps what the arena had in it.  An element that a kernel computes is a term,
which is no mark of unwritten memory (`TermsAre`); the two kernels that move
elements are the ones that could go wrong.  The transposition reads its input at
a sum of strides, which lies inside it because the strides are products of the
dimensions to their right (`StridesAre`, `IndexIs`), the products are those of the
output permuted (`ProductsPermuted`), and a coordinate is below its dimension.
The concatenation writes column blocks at a running offset: after k operands the
first `offset` columns of every block are written (`Covered`, `CopyOneFills`), and a
total that is not the output's is refused after the last (`ConcatFills`).  Along
the order, every value is written (`ValuesWritten`).

**Graph API and builder.** `GraphBuilderProofs`, for any number of builders,
any shapes and names, and any bound on calls (`BuilderAssumption`):

- `BuilderTypeCorrect`, `RegistriesAreExact`, `EdgesMirror`, `HeadIsOutput`,
  `NamedWeightsAreBound`, `RefusalsAreClean`: the properties of run `builder` but
  `BuiltGraphsRun`;
- `BuiltGraphsAreWellFormed`: every graph a program can make, with foreign
  handles and refused calls too, satisfies `GraphsAssumption`, which the
  executor's theorems assume;
- `BuiltGraphsSort`: a graph made with its own handles has a topological order.

`ComputationGraphProofs` has what the graph's two makers share: `Sound` is what
every operation keeps of any graph (`PushNode`, the marks, `infer_outputs`, the
dynamic API), `Grows` that nothing already there changes.
`BuilderInv` adds what the typed builder keeps on top until an edit or a
foreign handle: edges mirror the input lists, a node reads older ones
(`Closed`), every computed node but the head has been consumed (`Chained`), so
that `infer_outputs` finds the head; and of each weight, that the initializers
before its own came with other nodes (`Holds`), so that distinct names find it.

**Loader and compiler.** `ToolchainProofs`, for any set of decoded files
(`LoaderAssumption`: names are strings, dimensions and attributes are integers,
of any sign and number, and a `usize` has a largest value), any limits and any
length of the slice that the program is called with:

- `ToolchainTypeCorrect` and `SourceStaysClosed`: `TypeOK` and `SourceIsClosed` of
  run `toolchain`;
- `LoadedGraphsAreWellFormed`: a graph from a file satisfies `GraphsAssumption`,
  so with `BuiltGraphsAreWellFormed` both ways to make a graph keep what the
  executor's theorems assume;
- `LoadedGraphsSort`: no file gives a graph that does not sort, so the error for
  a cycle in `aot_compile` and `execute_graph` is never met after `load`.
- `LoadedWiringExact`: `WiringExact` of run `toolchain`, each file node reads the
  latest definition of each of its names, through the port it names it at, and
  there is one edge for each input that is not omitted.

`ToolchainInv` is `LoadInv` and `AotInv`.  `LoadInv`: at every turn of every loop
the graph is `Sound`, every node reads older ones (`Closed`), the name table and
`made` name its nodes.  The hard turn is a file node's: `resolve_inputs` is a
fold that may add an input node per name (`Resolving`, followed up the list by
`ResolvingAll`), the operator is fixed up and a shape inferred from what it
resolved to; each inference rule is shown to give a list of naturals, whatever
the attributes (`InferNodeShapeIs`), since `Node::new` only tests the rank.
`AotInv`: what `aot_compile` stops for is excluded once it goes on (one output, an
order that is topological, by `SortIsTopological`); nodes are emitted in that
order, so each node before the index, folded or not, is bound (`Emitted`), and
the producers of the next are among them (`ProducersBefore`).

`WireInv` is what `WiringExact` needs: it compares the table at the end with
what the file says at each node (`DefinitionOf`), and neither the table nor the
graph remembers when a name was given its meaning.  So the invariant says, for
each loop, that the table holds exactly the names read so far with the meaning
of their last occurrence, that the ids of what a loop adds follow its list, and
that every node made so far is wired as at its own turn.  A later definition
must not disturb an earlier node: `Extends` lemmas show that a meaning that was
found stays found as the index moves on, and a mention of a name that nothing
defines yet makes an input node of its own, so that two mentions make two.

**Back ends.** `DevicesProofs`, for any number of callers, every machine, every
job and every limit and group size of the device:

- `DevicesSafe`: the inductive invariant of the callbacks;
- `DevicesTypes` and `PanicsJustified`: `TypeOK` and `PanicsOnlyAtLimits` of run
  `devices`;
- `NoLostCallback`: a call that blocks on its channel finds its message there,
  or the poll of another call holds its callback and is about to run it;
- `SelectsBest`: `SelectsTheBest` of run `devices`, from the fact that only x86
  has two backends to choose from, so that the last pushed is the first found;
- `ResultsOwned`: what a call reads back is what its own dispatch computed,
  whoever else uses the device;
- `AnswersLikeNaive`: `AnswersAsNaive` of run `devices`.

The assumptions: a machine that runs the build has the features the build was
compiled for (`MachinesAssumption`, which only `SelectsBest` needs); workgroups and
tiles are not empty (`GridAssumption`; 64 and 8 in the shaders); and a job is what
the signatures of the trait let a caller pass, any slices, any numbers, two
dimensions to `matmul` and four to `conv2d` (`JobsAssumption`).  Lengths and shapes
need not fit each other, and strides may be zero: those jobs are refused, and the
theorem includes that they are refused alike.

The argument for the callbacks.  `read_back` drops what its poll returned and
blocks on a channel that only the callback sends to, and any thread's poll may run
the callback.  `PanicsOnlyAtLimits` alone says nothing about channels.
`CopyQueued` says where a call stands with its mapping, and that the copy it maps
was submitted before it polls; so when its poll ends (`OwnCallbackDue`), its
callback is due, or another poll took it.  `CallbackOnce` makes the hold on a
callback exclusive, and `CallbackKept` says that what was taken is held or was
sent; together they give that a waiting call is served, and that an error is sent
only on a lost device (`ErrorsJustified`).  One lemma per action shows it kept;
`CopiesStay` carries the queued copies over a later submission.

The argument for the answers.  `AnswersAsNaive` is not inductive: it looks at a
call once it has answered.  `ResultsInv` follows the data there: a copy is queued
behind the dispatch whose output it copies (`DispatchFirst`), what has run left its
caller's own results in the caller's own buffers (`BuffersOwn`), and a callback
says Ok only of a copy that ran (`OkAfterCopy`).  The rest is about the text of the
kernels, not about states.

- The device (`DeviceComputes`).  A dispatch rounds the grid up, and a thread
  past the end must return without a write (`ThreadsCover`, `TilesCover`); the
  threads that remain must write each element of the buffer once (`GridWritten`).
  For `matmul` that is the division of an index into row and column.  For `conv2d`
  the shader takes an index apart by products of its own, the scalar loop by
  `Unravel`: `UnravelOfFour` shows them the same four coordinates.  `softmax` has a
  thread per row.
- The vector loops (`SimdIs`).  A sweep of whole vectors and then of what is left
  visits each index once, in order, for any number of lanes (`SweepIs`); each visit
  leaves alone what the others wrote (`VisitsAll`).  `matmul` in vectors adds the
  rows of `b` one after the other, the scalar loop takes a dot product for each
  element: `RowOfIs` follows the accumulated row up the list and shows each
  column to hold the products of its dot product in the scalar's order, so the
  sums are of the same terms in the same order (rounding itself is not modelled).
- Dispatch (`KernelIs`, `DispatchedIs`): what has no vector kernel, or lacks its
  feature, falls back to `naive.rs`.

Only model-checked:

- `BuiltGraphsRun`, which needs of each operator that its shape in the types is
  the one its kernel accepts;
- of `Toolchain`, `AsksFor`, and what compares the interpreter's
  kernels, the inferred shapes and the generated code (`InferredShapesRun`,
  `ShapesAgree`, `CompiledAgrees`, `FoldedAsInterpreted`, `CompilesWhatRuns`), which
  rest on what recursive kernels compute;
- everything in `Transforms`;
- of `Devices`, `EveryCallEnds`;
- all liveness: fairness and ENABLED are out of the prover's reach.

## 6. Not modelled, and why

- Floating-point rounding, and the approximations of `math.rs` (numerical
  analysis, not states).
- Protobuf and image decoding and the formatting of generated source: their
  results are the files, images and programs the models start from or end in.
- The tensor types (constructors and index helpers; the checks that matter to a
  run are in `Kernels`), and `argmax` (a single loop).
- The FPGA back end, a placeholder without behaviour.
- The facade, the Python and wasm bindings and the rest of the command line:
  wrappers without state of their own.  `compile` is in `Toolchain`.
- `execute`, which calls `execute_graph` and tests that one result came back.
- Memory that runs out on a WebGPU device: that too would end in wgpu's error
  handler.
- Casts to `u32` in `webgpu.rs`.  Those of lengths and dimensions are exact within
  the limits on a binding; strides and paddings of `conv2d` above 2^32 would be
  truncated.
- Wrapping of `2 * pad` in folding and code generation (`fold.rs:214-215`,
  `348-349`, `codegen.rs:536-537`, `738-739`) for paddings of 2^63 or more: the models add
  without bound there.
- The cast of an ONNX `axis` from `i64` to `i32` (`load.rs:432`): axes beyond 2^31
  would be truncated.
- The methods of the typed builder one by one: each repeats the same push of node
  and edges, which is one operator, `PushOp`, of the operator, operands and shape.
  That every method of `builder.rs` is that push was compared by reading.

## 7. State of the development

The arena, the sorts, the executor, the graph and its builder, the loader, the
compiler, the back ends, quantization and vision are modelled and checked.  The
path of an inference is proved from end to end but for its liveness: any graph
that the builder or the loader makes is one the executor assumes
(`BuiltGraphsAreWellFormed`, `LoadedGraphsAreWellFormed`), it sorts
(`SortIsTopological`, `KahnSameOrder`), its slices do not overlap (`NoAliasing`,
`RangesStayDisjoint`), and a call answers what the graph means
(`ExecuteImplementsService`).  The trait's back ends answer what the scalar
one answers (`AnswersLikeNaive`).  What compares the generated code and the shape
inference with the interpreter's kernels is checked by TLC on the instances of
section 3.
