---------------------------- MODULE GraphBuilder ----------------------------
(***************************************************************************)
(* GraphBuilder (tpt-infer-graph/src/builder.rs): a graph under            *)
(* construction with a typed head, typed handles to its nodes, and, after  *)
(* into_graph or from ComputationGraph::new, the dynamic graph API.        *)
(*                                                                         *)
(* A const parameter is a field: the head's `shape` and a handle's `shape` *)
(* are the type parameters S of GraphBuilder<S> and NodeRef<S>, and a      *)
(* trait bound is a guard, since a call that does not meet it does not     *)
(* compile.  Handles are Copy and do not name their builder; `of` records  *)
(* it for the properties.  Reading current() or id() has no effect, so a   *)
(* handle to every head there ever was is at hand.                         *)
(***************************************************************************)
EXTENDS ComputationGraph

CONSTANTS
    Builders,   \* the builders of a program
    Shapes,     \* the shapes it names: pairs <<M, K>>
    Names,      \* the names it gives its inputs
    EditShapes, \* the shapes it gives the dynamic API, of any rank
    MaxCalls    \* bound on the nodes of all graphs and the edits, together

ASSUME BuilderAssumption ==
    /\ Shapes \subseteq Nat \X Nat
    /\ EditShapes \subseteq Seq(Nat)
    /\ NoName \notin Names

VARIABLES
    slots,      \* each builder: its stage, graph, head and the head's shape
    handles,    \* the NodeRefs minted
    mixed,      \* the builders that were given another builder's handle
    weights,    \* [of, id, init]: the input node and the data of one add_initializer
    answer,     \* the error of the last call, or None
    edits

vars == <<slots, handles, mixed, weights, answer, edits>>

Unused == [stage |-> "none", graph |-> EmptyGraph, current |-> NoNode, shape |-> <<>>]

GraphOf(b) == slots[b].graph
Room       == MapThenSumSet(LAMBDA b : GraphOf(b).n, Builders) + edits < MaxCalls

Handle(b, id, shape) == [of |-> b, id |-> id, shape |-> shape]
Current(b)           == Handle(b, slots[b].current, slots[b].shape)

InputNode(shape, name) ==
    [op |-> [kind |-> "Input"], ins |-> <<>>, dims |-> shape, name |-> name]

Init ==
    /\ slots = [b \in Builders |-> Unused]
    /\ handles = {} /\ mixed = {} /\ weights = {}
    /\ answer = None /\ edits = 0

-----------------------------------------------------------------------------
(* Inputs and weights *)

\* GraphBuilder::input
Input(b, shape, name) ==
    /\ slots[b].stage = "none" /\ Room
    /\ slots' = [slots EXCEPT ![b] =
                    [stage |-> "building", current |-> 0, shape |-> shape,
                     graph |-> PushNode(EmptyGraph, InputNode(shape, name))]]
    /\ handles' = handles \cup {Handle(b, 0, shape)}
    /\ answer' = None
    /\ UNCHANGED <<mixed, weights, edits>>

AddInput(b, shape, name) ==
    /\ slots[b].stage = "building" /\ Room
    /\ slots' = [slots EXCEPT ![b].graph = PushNode(@, InputNode(shape, name))]
    /\ handles' = handles \cup {Handle(b, GraphOf(b).n, shape)}
    /\ answer' = None
    /\ UNCHANGED <<mixed, weights, edits>>

\* Mutant: the node is pushed before the data is looked at.
PushWeightFirst(g, node, init) ==
    AddInitializer(PushNode(g, node), init)

PushWeight(g, node, init) ==
    LET pushed == AddInitializer(g, init)
    IN  IF pushed.err # None THEN pushed ELSE Accepts(PushNode(pushed.graph, node))

\* add_initializer of the builder, with `len` elements of data.
AddWeight(b, shape, name, len) ==
    LET g      == GraphOf(b)
        result == PushWeight(g, InputNode(shape, name),
                             [name |-> name, len |-> len, dims |-> shape])
    IN  /\ slots[b].stage = "building" /\ Room
        /\ slots' = [slots EXCEPT ![b].graph = result.graph]
        /\ answer' = result.err
        /\ IF result.err = None
           THEN /\ handles' = handles \cup {Handle(b, g.n, shape)}
                /\ weights' = weights \cup {[of |-> b, id |-> g.n, init |-> Len(g.inits) + 1]}
           ELSE UNCHANGED <<handles, weights>>
        /\ UNCHANGED <<mixed, edits>>

-----------------------------------------------------------------------------
(* Operations: one node, and one edge for each operand *)

\* Mutant: both edges of a binary node end at port 0.
OpEdgesAtPortZero(id, operands) ==
    [p \in DOMAIN operands |->
        [from |-> operands[p].id, to |-> id, to_port |-> 0, dims |-> operands[p].shape]]

OpEdges(id, operands) ==
    [p \in DOMAIN operands |->
        [from |-> operands[p].id, to |-> id, to_port |-> p - 1, dims |-> operands[p].shape]]

PushOp(g, op, operands, shape) ==
    PushEdges(PushNode(g, [op |-> op, ins |-> [p \in DOMAIN operands |-> operands[p].id],
                           dims |-> shape, name |-> NoName]),
              OpEdges(g.n, operands))

\* Mutant: the head is the id the next node will have.
NextHead(g) == g.n + 1

\* The id push_op returns.
NewHead(g) == g.n

Apply(b, op, operands, shape) ==
    /\ slots[b].stage = "building" /\ Room
    /\ slots' = [slots EXCEPT ![b] =
                    [stage |-> "building", current |-> NewHead(GraphOf(b)), shape |-> shape,
                     graph |-> PushOp(GraphOf(b), op, operands, shape)]]
    /\ handles' = handles \cup {Handle(b, NewHead(GraphOf(b)), shape)}
    /\ mixed' = mixed \cup {c \in {b} : \E h \in ToSet(operands) : h.of # b}
    /\ answer' = None
    /\ UNCHANGED <<weights, edits>>

\* Mutant: the contracted dimension is the output's.
MatMulShapeOfRhs(lhs, rhs) == <<rhs[1], rhs[2]>>

MatMulShape(lhs, rhs) == <<lhs[1], rhs[2]>>

\* `[M, K] x [K, N]`
MatMulWith(b, rhs) ==
    /\ slots[b].stage = "building" /\ slots[b].shape[2] = rhs.shape[1]
    /\ Apply(b, [kind |-> "MatMul"], <<Current(b), rhs>>, MatMulShape(slots[b].shape, rhs.shape))

AddOf(b, rhs) ==
    /\ rhs.shape = slots[b].shape
    /\ Apply(b, [kind |-> "Add"], <<Current(b), rhs>>, slots[b].shape)

\* relu (sigmoid and gelu differ in the name), softmax along the last or the
\* first axis, flatten::<1>.
UnaryOps ==
    {[kind |-> "Relu"]} \cup {[kind |-> "Softmax", axis |-> axis] : axis \in {-1, 0}}
       \cup {[kind |-> "Flatten", axis |-> 1]}

UnaryOp(b, op) == Apply(b, op, <<Current(b)>>, slots[b].shape)

\* Mutant: a transposed tensor keeps its shape.
TransposeInPlace(shape, perm) == shape

TransposeShape(shape, perm) == <<At(shape, perm[1]), At(shape, perm[2])>>

TransposeBy(b, perm) ==
    /\ slots[b].stage = "building"
    /\ Apply(b, [kind |-> "Transpose", perm |-> perm], <<Current(b)>>,
             TransposeShape(slots[b].shape, perm))

IntoGraph(b) ==
    /\ slots[b].stage = "building"
    /\ slots' = [slots EXCEPT ![b].stage = "built", ![b].graph = InferOutputs(@)]
    /\ answer' = None
    /\ UNCHANGED <<handles, mixed, weights, edits>>

-----------------------------------------------------------------------------
(* The dynamic API, on a graph that was built or on an empty one *)

New(b) ==
    /\ slots[b].stage = "none" /\ Room
    /\ slots' = [slots EXCEPT ![b].stage = "edited"]
    /\ answer' = None
    /\ edits' = edits + 1
    /\ UNCHANGED <<handles, mixed, weights>>

Edit(b, result) ==
    /\ slots[b].stage \in {"built", "edited"} /\ Room
    /\ slots' = [slots EXCEPT ![b].graph = result.graph,
                              ![b].stage = IF result.err = None THEN "edited" ELSE @]
    /\ answer' = result.err
    /\ edits' = edits + 1
    /\ UNCHANGED <<handles, mixed, weights>>

\* What a caller may pass: ids that exist, and the next one.
Targets(b) == 0 .. GraphOf(b).n

NewNodes(b) ==
    {InputNode(dims, NoName) : dims \in EditShapes}
      \cup {[op |-> [kind |-> "Relu"], ins |-> <<v>>, dims |-> dims, name |-> NoName] :
               v \in Targets(b), dims \in EditShapes}

EditAddNode(b) ==
    \E id \in {0, GraphOf(b).n}, node \in NewNodes(b) : Edit(b, AddNode(GraphOf(b), id, node))

EditAddEdge(b) ==
    \E u, v \in Targets(b), dims \in EditShapes :
        Edit(b, AddEdge(GraphOf(b), [from |-> u, to |-> v, to_port |-> 0, dims |-> dims]))

EditMarkInput(b)  == \E v \in Targets(b) : Edit(b, MarkInput(GraphOf(b), v))
EditMarkOutput(b) == \E v \in Targets(b) : Edit(b, MarkOutput(GraphOf(b), v))

EditAddInitializer(b) ==
    \E name \in Names, dims \in EditShapes, len \in {1, 2} :
        Edit(b, AddInitializer(GraphOf(b), [name |-> name, dims |-> dims, len |-> len]))

EditInferOutputs(b) == Edit(b, Accepts(InferOutputs(GraphOf(b))))

-----------------------------------------------------------------------------
Next ==
    \E b \in Builders :
        \/ \E shape \in Shapes, name \in Names :
              \/ Input(b, shape, name)
              \/ AddInput(b, shape, name)
              \/ \E len \in {1, 2} : AddWeight(b, shape, name, len)
        \/ \E rhs \in handles : MatMulWith(b, rhs)
        \/ \E rhs \in handles : AddOf(b, rhs)
        \/ \E op \in UnaryOps : UnaryOp(b, op)
        \/ \E perm \in {<<0, 1>>, <<1, 0>>} : TransposeBy(b, perm)
        \/ IntoGraph(b)
        \/ New(b)
        \/ EditAddNode(b)
        \/ EditAddEdge(b)
        \/ EditMarkInput(b)
        \/ EditMarkOutput(b)
        \/ EditAddInitializer(b)
        \/ EditInferOutputs(b)

Spec == Init /\ [][Next]_vars

-----------------------------------------------------------------------------
(* Properties *)

GraphTypeOK(g) ==
    /\ g.n \in Nat /\ DOMAIN g.nodes = Ids(g)
    /\ \A v \in Ids(g) : Producers(g, v) \subseteq Nat
    /\ g.refs = RefsOf(g.n, g.nodes)

\* Every variable keeps its shape, and the head is a node of the graph
\* (GraphBuilder.current).
TypeOK ==
    /\ \A b \in Builders :
          /\ GraphTypeOK(GraphOf(b))
          /\ slots[b].stage \in {"none", "building", "built", "edited"}
          /\ slots[b].current \in {NoNode} \cup Ids(GraphOf(b))
          /\ slots[b].current = NoNode => slots[b].stage \in {"none", "edited"}
    /\ handles \subseteq [of : Builders, id : Nat, shape : Nat \X Nat]
    /\ mixed \subseteq Builders
    /\ weights \subseteq [of : Builders, id : Nat, init : Nat]
    /\ edits \in Nat

\* The registries of a graph name existing nodes, each once, and every Input
\* node is among its inputs; edges join existing nodes.  execute_graph and the
\* compiler count on it (mark_input, mark_output, infer_outputs, add_edge).
RegistryExact ==
    \A b \in Builders :
        LET g == GraphOf(b)
        IN  /\ IsInjective(g.inputs) /\ IsInjective(g.outputs)
            /\ ToSet(g.inputs) \cup ToSet(g.outputs) \subseteq Ids(g)
            /\ {v \in Ids(g) : IsInput(g, v)} \subseteq ToSet(g.inputs)
            /\ b \notin mixed => \A e \in ToSet(g.edges) : {e.from, e.to} \subseteq Ids(g)

\* Until the dynamic API touches it, a graph's edges are its input lists: the
\* same references in the same order, at their ports (the comment on Edge).
EdgesMirrorInputs ==
    \A b \in Builders :
        LET g     == GraphOf(b)
            edges == {<<e.from, e.to, e.to_port>> : e \in ToSet(g.edges)}
            ports(v) == {<<g.nodes[v].ins[p], v, p - 1>> : p \in DOMAIN g.nodes[v].ins}
        IN  slots[b].stage \in {"building", "built"} =>
              /\ Len(g.edges) = Len(g.refs)
              /\ edges = UNION {ports(v) : v \in Ids(g)}

\* infer_outputs finds the head and nothing else: what a chain does not end in
\* has been consumed, and a graph without an operation has no output.
HeadIsTheOutput ==
    \A b \in Builders :
        LET g    == GraphOf(b)
            head == slots[b].current
        IN  slots[b].stage = "built" /\ b \notin mixed =>
              g.outputs = IF IsInput(g, head) THEN <<>> ELSE <<head>>

\* One slice for each input the caller must supply, of the length it declares.
Fitting(g) ==
    LET taken == SelectSeq([p \in DOMAIN g.inputs |-> p], LAMBDA p : TakesSlice(g, p))
    IN  [s \in DOMAIN taken |-> NodeNumel(g, g.inputs[taken[s]])]

NamesDistinct(g) ==
    \A v, w \in Ids(g) : IsInput(g, v) /\ IsInput(g, w) /\ g.nodes[v].name = g.nodes[w].name => v = w

\* The one thing the types let through that the executor does not support.
SoftmaxOfColumns(g) ==
    \E v \in Ids(g) : g.nodes[v].op = [kind |-> "Softmax", axis |-> 0]

\* What compiles runs: a graph built from its own handles, with distinct names,
\* is computed by execute_graph without an error on slices of the declared
\* lengths (builder.rs: "shape mismatches are compile errors rather than runtime
\* panics").
BuiltGraphsRun ==
    \A b \in Builders :
        LET g == GraphOf(b)
        IN  /\ slots[b].stage = "built" /\ b \notin mixed
            /\ NamesDistinct(g) /\ ~SoftmaxOfColumns(g)
            => \A r \in Deserved(g, Fitting(g)) :
                  r.err = IF g.outputs = <<>> THEN "NoOutputs" ELSE None

\* Where the names of a graph's inputs differ, each weight node is bound to the
\* data it was added with, whatever initializers are attached later.
NamedWeightsHoldTheirData ==
    \A w \in weights :
        NamesDistinct(GraphOf(w.of)) => InitializerOf(GraphOf(w.of), w.id) = w.init

\* A call that returns an error leaves every graph as it was
\* (builder.rs, add_initializer: "failures leave it untouched").
RefusalsChangeNothing ==
    [][answer' # None => UNCHANGED <<slots, handles, weights>>]_vars

-----------------------------------------------------------------------------
(* What the comments claim, and the code does not keep *)

\* builder.rs, NodeRef: "the shape in the type parameter always matches the
\* node's actual output shape".
HandlesMatchNodes ==
    \A b \in Builders : \A e \in ToSet(GraphOf(b).edges) :
        slots[b].stage \in {"building", "built"} =>
            e.from \in Ids(GraphOf(b)) /\ e.dims = GraphOf(b).nodes[e.from].dims

\* builder.rs, add_initializer: the input it adds is "backed by an Initializer
\* holding `data`".
=============================================================================
