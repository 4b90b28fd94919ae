-------------------------- MODULE ComputationGraph --------------------------
(***************************************************************************)
(* The operations that edit a ComputationGraph (tpt-infer-graph/src/       *)
(* graph.rs), each as what it returns and the graph it leaves.  The graph  *)
(* is the record of ModelGraph with its `edges` beside it; a node's id is  *)
(* its position.  Ports other than the consumer's are always 0.            *)
(***************************************************************************)
EXTENDS GraphMeaning

EmptyGraph ==
    [n |-> 0, nodes |-> <<>>, refs |-> <<>>, inits |-> <<>>,
     inputs |-> <<>>, outputs |-> <<>>, edges |-> <<>>]

Accepts(g)        == [err |-> None, graph |-> g]
Refuses(error, g) == [err |-> error, graph |-> g]

\* Node::new and Edge::new
RankError(dims) == Require(Len(dims) <= MaxRank, "RankTooLarge")

\* Initializer::new
InitializerError(dims, len) ==
    FirstError(<<RankError(dims),
                 Require(NumEl(dims) # Overflow, "DimensionOverflow"),
                 Require(len = NumEl(dims), "SizeMismatch")>>)

PushNode(g, node) ==
    [g EXCEPT !.n      = @ + 1,
              !.nodes  = [v \in 0 .. g.n |-> IF v = g.n THEN node ELSE @[v]],
              !.refs   = @ \o [p \in DOMAIN node.ins |-> [to |-> g.n, from |-> node.ins[p]]],
              !.inputs = IF node.op.kind = "Input" THEN Append(@, g.n) ELSE @]

PushEdges(g, edges) == [g EXCEPT !.edges = @ \o edges]

\* Node::new, then add_node with the id the caller gave it.
AddNode(g, id, node) ==
    IF RankError(node.dims) # None THEN Refuses(RankError(node.dims), g)
    ELSE IF id # g.n THEN Refuses("NodeIdMismatch", g)
    ELSE Accepts(PushNode(g, node))

AddEdge(g, edge) ==
    IF RankError(edge.dims) # None THEN Refuses(RankError(edge.dims), g)
    ELSE IF {edge.from, edge.to} \subseteq Ids(g) THEN Accepts(PushEdges(g, <<edge>>))
    ELSE Refuses("UnknownNode", g)

\* Mutant: a second mark registers the node again.
MarkAgain(marked, id) == Append(marked, id)

Mark(marked, id) == IF id \in ToSet(marked) THEN marked ELSE Append(marked, id)

MarkInput(g, id) ==
    IF id \in Ids(g) THEN Accepts([g EXCEPT !.inputs = Mark(@, id)])
    ELSE Refuses("UnknownNode", g)

MarkOutput(g, id) ==
    IF id \in Ids(g) THEN Accepts([g EXCEPT !.outputs = Mark(@, id)])
    ELSE Refuses("UnknownNode", g)

\* Initializer::new, then add_initializer: it asks nothing about the nodes.
AddInitializer(g, init) ==
    IF InitializerError(init.dims, init.len) # None
    THEN Refuses(InitializerError(init.dims, init.len), g)
    ELSE Accepts([g EXCEPT !.inits = Append(@, init)])

Consumed(g) == UNION {Producers(g, v) : v \in Ids(g)}

\* Mutant: an input node that nobody reads counts as an output.
InferOutputsOfAny(g) ==
    [g EXCEPT !.outputs = Picked(g.n, Ids(g) \ Consumed(g))]

InferOutputs(g) ==
    [g EXCEPT !.outputs = Picked(g.n, {v \in Ids(g) : ~IsInput(g, v) /\ v \notin Consumed(g)})]
=============================================================================
