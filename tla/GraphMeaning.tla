---------------------------- MODULE GraphMeaning ----------------------------
(***************************************************************************)
(* What a graph computes, without arena, order or layout: the value of a   *)
(* node is its operator applied to the values of its producers, and a      *)
(* request has an answer the graph alone determines.                       *)
(***************************************************************************)
EXTENDS ModelGraph, Dispatch

CONSTANT Garbage    \* the content of an arena cell nobody wrote

NoNode == -1
Refusal(error, node) == [err |-> error, node |-> node, outs |-> <<>>]

-----------------------------------------------------------------------------
(* Binding: the k-th input node without an initializer reads slice k *)

TakesSlice(g, p) == InitializerOf(g, g.inputs[p]) = 0
SliceRank(g, p)  == Cardinality({q \in 1 .. p : TakesSlice(g, q)})
SliceCount(g)    == Cardinality({p \in DOMAIN g.inputs : TakesSlice(g, p)})

BindingError(g, req, p) ==
    LET v == g.inputs[p]
    IN  IF NodeNumel(g, v) = Overflow THEN "ShapeMismatch"
        ELSE IF ~TakesSlice(g, p)
        THEN Require(g.inits[InitializerOf(g, v)].len = NodeNumel(g, v), "InitializerMismatch")
        ELSE IF SliceRank(g, p) > Len(req) THEN "MissingInput"
        ELSE Require(req[SliceRank(g, p)] = NodeNumel(g, v), "InputDataMismatch")

Misbound(g, req) == {p \in DOMAIN g.inputs : BindingError(g, req, p) # None}

InputValue(g, req, v) ==
    LET p == CHOOSE p \in DOMAIN g.inputs : g.inputs[p] = v
    IN  IF TakesSlice(g, p) THEN Slice(req, SliceRank(g, p))
        ELSE Weight(g, InitializerOf(g, v))

-----------------------------------------------------------------------------
(* The meaning of a graph without cycle *)

Cyclic(g) ==
    \E S \in (SUBSET Ids(g)) \ {{}} : \A v \in S : \E w \in S : w \in Producers(g, v)

\* A node whose producers have no value has none itself.
Value(g, req) ==
    LET val[v \in Ids(g)] ==
          IF IsInput(g, v) THEN Writes(InputValue(g, req, v))
          ELSE IF \E w \in Producers(g, v) : val[w].err # None THEN Fails("blocked")
          ELSE Run(g.nodes[v].op,
                   [p \in DOMAIN g.nodes[v].ins |->
                       [data |-> val[g.nodes[v].ins[p]].out,
                        dims |-> g.nodes[g.nodes[v].ins[p]].dims]],
                   g.nodes[v].dims, NodeNumel(g, v), Garbage)
    IN  val

Unknown(g)   == {r \in ToSet(g.refs) : r.from \notin Ids(g)}
Unsized(g)   == {v \in Ids(g) : ~IsInput(g, v) /\ NodeNumel(g, v) = Overflow}

\* The values of the outputs, or the error of a node that could not be computed.
Outcome(g, val) ==
    LET failed == {v \in Ids(g) : val[v].err \notin {None, "blocked"}}
    IN  IF failed # {} THEN {Refusal(val[v].err, NoNode) : v \in failed}
        ELSE IF g.outputs = <<>> THEN {Refusal("NoOutputs", NoNode)}
        ELSE {[err |-> None, node |-> NoNode,
               outs |-> [o \in DOMAIN g.outputs |->
                            [data |-> val[g.outputs[o]].out,
                             dims |-> g.nodes[g.outputs[o]].dims]]]}

\* With all the space it wants, a call gives one of these answers.
Deserved(g, req) ==
    IF Unknown(g) # {} THEN {Refusal("UnknownNode", r.from) : r \in Unknown(g)}
    ELSE IF Cyclic(g) THEN {Refusal("CycleDetected", NoNode)}
    ELSE IF Misbound(g, req) # {}
    THEN LET p == Min(Misbound(g, req))
         IN  {Refusal(BindingError(g, req, p),
                      IF BindingError(g, req, p) = "ShapeMismatch" THEN NoNode ELSE g.inputs[p])}
    ELSE IF SliceCount(g) # Len(req) THEN {Refusal("InputCountMismatch", NoNode)}
    ELSE IF Unsized(g) # {} THEN {Refusal("ShapeMismatch", NoNode)}
    ELSE Outcome(g, Value(g, req))

\* A reply to a request that found so many bytes in the arena: OutOfMemory is only
\* for a call that found less than required_arena_bytes.
IsAnswer(r, g, req, bytes) ==
    \/ r = Refusal("OutOfMemory", NoNode) /\ bytes < RequiredArenaBytes(g)
    \/ r \in Deserved(g, req)
=============================================================================
