------------------------------ MODULE OnnxLoad ------------------------------
(***************************************************************************)
(* Loading an ONNX file into a ComputationGraph                            *)
(* (tpt-infer-onnx/src/load.rs): the limits, the table of declared shapes, *)
(* the true inputs, the initializers, the nodes in the file's order and    *)
(* the outputs.  One action per turn of each of these loops.               *)
(*                                                                         *)
(* A file is decoded already.  It is a record: bytes, its size; opset, the *)
(* version of the default domain; inputs, outputs and info, of             *)
(* [name, dims], where a dimension that is not positive is dynamic and     *)
(* dims is NoShape if none is given; inits, of [name, dims, type, data];   *)
(* nodes, of [name, type, ins, outs, attrs] (see OnnxOperators).           *)
(***************************************************************************)
EXTENDS SharedGraph, OnnxOperators

CONSTANTS
    Files,
    MaxModelBytes, MaxGraphItems,   \* the limits of load_from_bytes_with_limits
    NoShape

VARIABLES
    file,
    phase, cursor,      \* the loop under way and its index
    nameToNode,
    made,               \* history: the id each file node was given
    loadError

\* What a decoded file is.
IsFile(f) ==
    /\ \A vis \in {f.inputs, f.outputs, f.info} :
          vis \in Seq([name : STRING, dims : {NoShape} \cup Seq(Int)])
    /\ f.inits \in Seq([name : STRING, dims : Seq(Int), type : STRING, data : Seq(Int)])
    /\ Len(f.nodes) \in Nat /\ DOMAIN f.nodes = 1 .. Len(f.nodes)
    /\ \A j \in DOMAIN f.nodes : IsNode(f.nodes[j])

ASSUME LoaderAssumption ==
    /\ UsizeMax \in Nat
    /\ \A f \in Files : IsFile(f)

loadVars == <<file, phase, cursor, nameToNode, made, loadError, graph>>

MaxSupportedOpset == 17

LoadInit ==
    /\ file \in Files
    /\ phase = "check" /\ cursor = 1
    /\ nameToNode = <<>> /\ made = <<>> /\ loadError = None
    /\ graph = EmptyGraph

-----------------------------------------------------------------------------
ItemCount == FoldLeft(LAMBDA acc, node : acc + 1 + Cardinality(DOMAIN node.attrs), 0, file.nodes)

CheckLimits ==
    FirstError(<<Require(file.bytes <= MaxModelBytes, "InvalidModel"),
                 Require(ItemCount <= MaxGraphItems, "InvalidModel"),
                 Require(file.nodes # <<>>, "InvalidModel"),
                 Require(file.opset <= MaxSupportedOpset, "InvalidModel")>>)

\* An entry of value_shapes: what the last input of that name declares, or else
\* the first output or value_info.
KnownDims(vi) == [d \in DOMAIN vi.dims |-> AtLeast(0, vi.dims[d])]
ShapesOf(vis, name) == {p \in DOMAIN vis : vis[p].name = name /\ vis[p].dims # NoShape}

ValueShape(name) ==
    LET inputs == ShapesOf(file.inputs, name)
        others == ShapesOf(file.outputs \o file.info, name)
    IN  IF inputs # {} THEN KnownDims(file.inputs[Max(inputs)])
        ELSE IF others # {} THEN KnownDims((file.outputs \o file.info)[Min(others)])
        ELSE NoShape

Declared(name) == IF ValueShape(name) = NoShape THEN <<>> ELSE ValueShape(name)
OrOne(dims)    == IF dims = <<>> THEN <<1>> ELSE dims

InitNames == {file.inits[p].name : p \in DOMAIN file.inits}

-----------------------------------------------------------------------------
(* One turn of a loop, or its end *)

Fail(error) ==
    phase' = "failed" /\ loadError' = error /\ UNCHANGED <<cursor, nameToNode, made, graph>>

LoopTurn(name, items, next, Body) ==
    /\ phase = name
    /\ UNCHANGED file
    /\ \/ cursor \in DOMAIN items /\ Body
       \/ cursor > Len(items) /\ phase' = next /\ cursor' = 1
          /\ UNCHANGED <<nameToNode, made, loadError, graph>>

Goes == cursor' = cursor + 1 /\ UNCHANGED <<phase, loadError>>

InputNode(name, dims) == [op |-> [kind |-> "Input"], ins |-> <<>>, dims |-> dims, name |-> name]

\* A new input node, and the initializer it stands for, if it has data.
AddNamed(name, dims, data) ==
    LET added == AddNode(graph, graph.n, InputNode(name, dims))
    IN  \/ added.err # None /\ Fail(added.err)
        \/ /\ added.err = None
           /\ nameToNode' = Put(nameToNode, name, graph.n)
           /\ graph' = IF data = <<>> THEN added.graph
                       ELSE AddInitializer(added.graph, data[1]).graph
           /\ Goes /\ UNCHANGED made

Check ==
    /\ phase = "check"
    /\ UNCHANGED file
    /\ \/ CheckLimits # None /\ Fail(CheckLimits)
       \/ CheckLimits = None /\ phase' = "inputs"
          /\ UNCHANGED <<cursor, nameToNode, made, loadError, graph>>

\* True graph inputs: those whose name is not an initializer's.
LoadInput ==
    LoopTurn("inputs", file.inputs, "initializers",
         LET name == file.inputs[cursor].name
         IN  \/ name \in InitNames /\ Goes /\ UNCHANGED <<nameToNode, made, graph>>
             \/ name \notin InitNames /\ AddNamed(name, OrOne(Declared(name)), <<>>))

\* Mutant: int64 tensors have no data.
BoundFloat(init) == init.type = "f32"

\* Only float and int64 tensors have data; the others stay unbound.
Bound(init) == init.type \in {"f32", "i64"}

InitError(init) ==
    IF \E d \in DOMAIN init.dims : init.dims[d] < 0 THEN "InvalidModel"
    ELSE FirstError(<<RankError(OrOne(init.dims)),
                      Require(Bound(init) => NumEl(OrOne(init.dims)) # Overflow, "InvalidModel"),
                      Require(Bound(init) => Len(init.data) = NumEl(OrOne(init.dims)),
                              "InvalidModel")>>)

LoadInitializer ==
    LoopTurn("initializers", file.inits, "nodes",
         LET init == file.inits[cursor]
             dims == OrOne(init.dims)
             data == [name |-> init.name, len |-> Len(init.data), dims |-> dims]
         IN  \/ InitError(init) # None /\ Fail(InitError(init))
             \/ /\ InitError(init) = None
                /\ AddNamed(init.name, dims, IF Bound(init) THEN <<data>> ELSE <<>>))

-----------------------------------------------------------------------------
(* One node of the file *)

\* Mutant: an input made for an unknown name is entered in the table.
ResolveInputOnce(st, name) ==
    IF name = "" THEN st
    ELSE IF name \in DOMAIN st.names THEN [st EXCEPT !.ids = Append(@, st.names[name])]
    ELSE [ids |-> Append(st.ids, st.graph.n), names |-> Put(st.names, name, st.graph.n),
          graph |-> PushNode(st.graph, InputNode(name, <<1>>))]

\* Omitted inputs are skipped; a name that is not in the table makes an input
\* of shape [1], and is still not in the table.
ResolveInput(st, name) ==
    IF name = "" THEN st
    ELSE IF name \in DOMAIN st.names THEN [st EXCEPT !.ids = Append(@, st.names[name])]
    ELSE [st EXCEPT !.ids   = Append(@, st.graph.n),
                    !.graph = PushNode(@, InputNode(name, <<1>>))]

ResolveInputs(g, names, ins) ==
    FoldLeft(ResolveInput, [ids |-> <<>>, names |-> names, graph |-> g], ins)

\* The operator with the fix-ups that its inputs' shapes allow.
LoadedOperator(node, in) ==
    ResolvePadding(ResolveKernel(BuildOperator(node, file.inits), in), in, node)

FirstOutput(node) == IF node.outs = <<>> THEN "" ELSE node.outs[1]

\* Mutant: the shape is inferred before the fix-ups of the operator.
ShapeOfUnfixed(node, op, in) ==
    LET declared == IF node.outs = <<>> THEN <<>> ELSE Declared(node.outs[1])
    IN  IF declared # <<>> THEN ShapeIs(declared)
        ELSE InferNodeShape(BuildOperator(node, file.inits), in, <<1>>)

ShapeOf(node, op, in) ==
    LET declared == IF node.outs = <<>> THEN <<>> ELSE Declared(node.outs[1])
    IN  IF declared # <<>> THEN ShapeIs(declared) ELSE InferNodeShape(op, in, <<1>>)

PortEdges(g, id, ids) ==
    [p \in DOMAIN ids |-> [from |-> ids[p], to |-> id, to_port |-> p - 1,
                           dims |-> g.nodes[ids[p]].dims]]

LoadNode ==
    LoopTurn("nodes", file.nodes, "outputs",
         LET node     == file.nodes[cursor]
             resolved == ResolveInputs(graph, nameToNode, node.ins)
             g        == resolved.graph
             in       == [p \in DOMAIN resolved.ids |-> g.nodes[resolved.ids[p]].dims]
             op       == LoadedOperator(node, in)
             shape    == ShapeOf(node, op, in)
             added    == AddNode(g, g.n, [op |-> op, ins |-> resolved.ids,
                                          dims |-> shape.dims, name |-> node.name])
             error    == FirstError(<<shape.err, added.err>>)
         IN  \/ error # None /\ Fail(error)
             \/ /\ error = None
                /\ graph' = PushEdges(added.graph, PortEdges(added.graph, g.n, resolved.ids))
                /\ made' = Append(made, g.n)
                /\ nameToNode' = IF FirstOutput(node) = "" THEN resolved.names
                                 ELSE Put(resolved.names, FirstOutput(node), g.n)
                /\ Goes)

LoadOutput ==
    LoopTurn("outputs", file.outputs, "marked",
         LET name == file.outputs[cursor].name
         IN  /\ graph' = IF name \notin DOMAIN nameToNode THEN graph
                         ELSE MarkOutput(graph, nameToNode[name]).graph
             /\ Goes /\ UNCHANGED <<nameToNode, made>>)

Finish ==
    /\ phase = "marked"
    /\ phase' = "loaded"
    /\ graph' = IF graph.outputs = <<>> THEN InferOutputs(graph) ELSE graph
    /\ UNCHANGED <<file, cursor, nameToNode, made, loadError>>

Load == Check \/ LoadInput \/ LoadInitializer \/ LoadNode \/ LoadOutput \/ Finish

-----------------------------------------------------------------------------
(* infer_shapes, over a loaded graph *)

\* Seeds for the inputs: the declared shape, an initializer's, or the node's.
InferShapes ==
    LET lastInit(name) == SelectLastInSeq(graph.inits, LAMBDA it : it.name = name)
        seed(v) == LET name == graph.nodes[v].name
                   IN  IF ValueShape(name) # NoShape THEN ValueShape(name)
                       ELSE IF lastInit(name) # 0 THEN graph.inits[lastInit(name)].dims
                       ELSE graph.nodes[v].dims
        shape[v \in Ids(graph)] ==
            IF v \in ToSet(graph.inputs) THEN ShapeIs(seed(v))
            ELSE InferNodeShape(graph.nodes[v].op,
                                [p \in DOMAIN graph.nodes[v].ins |->
                                    shape[graph.nodes[v].ins[p]].dims],
                                graph.nodes[v].dims)
    IN  shape

-----------------------------------------------------------------------------
(* Properties *)

\* Cursors stay in their lists, and the table names nodes of the graph.
LoadTypeOK ==
    /\ phase \in {"check", "inputs", "initializers", "nodes", "outputs", "marked", "loaded", "failed"}
    /\ loadError # None <=> phase = "failed"
    /\ \A name \in DOMAIN nameToNode : nameToNode[name] \in Ids(graph)
    /\ Len(made) <= Len(file.nodes)

TrueInput(p) == file.inputs[p].name \notin InitNames

\* What a name means to file node j, read off the file: the last node before j
\* that outputs it, else the last initializer, else the last input; NoNode if
\* there is none.
LastIn(S) == IF S = {} THEN 0 ELSE Max(S)

InputsUpTo(p) == Cardinality({q \in 1 .. p : TrueInput(q)})

DefinitionOf(j, name) ==
    LET byNode  == LastIn({k \in 1 .. j - 1 : FirstOutput(file.nodes[k]) = name})
        byInit  == LastIn({k \in 1 .. Len(file.inits) : file.inits[k].name = name})
        byInput == LastIn({k \in 1 .. Len(file.inputs) : file.inputs[k].name = name})
    IN  IF byNode # 0 THEN made[byNode]
        ELSE IF byInit # 0 THEN InputsUpTo(Len(file.inputs)) + byInit - 1
        ELSE IF byInput # 0 THEN InputsUpTo(byInput) - 1
        ELSE NoNode

\* The inputs a file node gives, and the port of the p-th of them: the omitted
\* ones leave no gap.
Given(node)   == {p \in DOMAIN node.ins : node.ins[p] # ""}
Port(node, p) == Cardinality({q \in 1 .. p : node.ins[q] # ""})

\* The loaded node reads, for each name the file node gives, in order, the
\* latest earlier definition of the name; a name without one is read from an
\* input of its own, which nobody else reads.
ReadsDefinition(j, p) ==
    LET name == file.nodes[j].ins[p]
        w    == graph.nodes[made[j]].ins[Port(file.nodes[j], p)]
    IN  IF DefinitionOf(j, name) # NoNode THEN w = DefinitionOf(j, name)
        ELSE /\ graph.nodes[w] = InputNode(name, <<1>>)
             /\ \A r, s \in DOMAIN graph.refs :
                   graph.refs[r].from = w /\ graph.refs[s].from = w => r = s

\* Its edges, which stand together, say the same as its inputs.
EdgesFollow(v) ==
    LET ins == graph.nodes[v].ins
    IN  \E k \in 0 .. Len(graph.edges) :
           /\ {e \in DOMAIN graph.edges : graph.edges[e].to = v} = k + 1 .. k + Len(ins)
           /\ \A p \in DOMAIN ins :
                 graph.edges[k + p] = [from |-> ins[p], to |-> v, to_port |-> p - 1,
                                       dims |-> graph.nodes[ins[p]].dims]

WiringExact ==
    \A j \in DOMAIN made :
        /\ Len(graph.nodes[made[j]].ins) = Cardinality(Given(file.nodes[j]))
        /\ \A p \in Given(file.nodes[j]) : ReadsDefinition(j, p)
        /\ EdgesFollow(made[j])

\* How many slices a caller of the loaded graph has to supply: one for each
\* true input, for each initializer without data, for each mention of a name
\* that is not defined yet, and for each Identity or Dropout node, which is
\* loaded as an input.
Unresolved ==
    FoldLeftDomain(LAMBDA acc, j :
        acc + Cardinality({p \in Given(file.nodes[j]) :
                              DefinitionOf(j, file.nodes[j].ins[p]) = NoNode}),
        0, made)

HasData(init) == init.type \in {"f32", "i64"}

AsksFor ==
    phase = "loaded" =>
        SliceCount(graph) =
            InputsUpTo(Len(file.inputs))
              + Len(SelectSeq(file.inits, LAMBDA init :
                      ~\E other \in ToSet(file.inits) : other.name = init.name /\ HasData(other)))
              + Unresolved
              + Len(SelectSeq(file.nodes, LAMBDA node :
                      /\ node.type \in {"Identity", "Dropout"}
                      /\ ~\E init \in ToSet(file.inits) : init.name = node.name /\ HasData(init)))

\* Shape inference and the kernels agree: if there is a shape with which the
\* interpreter computes a node, it computes it with the inferred shape.  Not
\* for an arithmetic node whose second operand, or a convolution whose bias,
\* does not stretch to that shape, nor for a Reshape, whose shape is its target.
InferredByRule(op, in, dims) ==
    /\ op.kind \in Arithmetic => BroadcastsTo(in[2], dims)
    /\ op.kind = "Conv2d" => \A p \in DOMAIN in \ {1, 2} : BroadcastsTo(in[p], dims)
    /\ op.kind # "Reshape"

Buffer(dims) == [data |-> [e \in 1 .. NumEl(dims) |-> <<"cell", e>>], dims |-> dims]

Computes(op, in, dims) ==
    Run(op, [p \in DOMAIN in |-> Buffer(in[p])], dims, NumEl(dims), Garbage).err = None

SmallShapes == UNION {[1 .. r -> 1 .. 3] : r \in 1 .. MaxRank}

Computable(op, in) == \E dims \in SmallShapes : Computes(op, in, dims)

InferredShapesRun ==
    phase = "nodes" /\ made # <<>> =>
        LET node  == graph.nodes[Last(made)]
            in    == [p \in DOMAIN node.ins |-> graph.nodes[node.ins[p]].dims]
            shape == InferNodeShape(node.op, in, <<1>>)
        IN  Computable(node.op, in) /\ InferredByRule(node.op, in, shape.dims)
              => shape.err = None /\ Computes(node.op, in, shape.dims)

\* Inferring the loaded graph anew gives the shapes it was loaded with, when
\* the file declares shapes for its true inputs only, no scalars, and no name is
\* defined twice.
InputShapesOnly ==
    /\ \A vi \in ToSet(file.outputs \o file.info) : vi.dims = NoShape
    /\ \A vi \in ToSet(file.inputs) : vi.dims # <<>>
    /\ \A name \in InitNames \cup {FirstOutput(node) : node \in ToSet(file.nodes)} :
          ValueShape(name) = NoShape
    /\ \A vis \in {file.inits, file.inputs} : IsInjective([p \in DOMAIN vis |-> vis[p].name])

ShapesAgree ==
    phase = "loaded" /\ InputShapesOnly =>
        \A v \in Ids(graph) : InferShapes[v] = ShapeIs(graph.nodes[v].dims)
=============================================================================
