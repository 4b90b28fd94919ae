------------------------- MODULE GraphBuilderProofs -------------------------
(***************************************************************************)
(* Proofs about GraphBuilder.  BuilderInv adds to what every operation of  *)
(* the graph API keeps (Sound, of ComputationGraphProofs) what the typed   *)
(* builder keeps on top while a program uses one builder's handles with    *)
(* it: edges mirror the input lists, nodes read older ones, and every      *)
(* computed node but the head has been consumed.                           *)
(***************************************************************************)
EXTENDS GraphBuilder, ComputationGraphProofs

-----------------------------------------------------------------------------
(* The inductive invariant *)

InUse(s) == s.stage \in {"building", "built"}

IsSlot(s) ==
    /\ s = [stage |-> s.stage, graph |-> s.graph, current |-> s.current, shape |-> s.shape]
    /\ s.stage \in {"none", "building", "built", "edited"}
    /\ Sound(s.graph)
    /\ s.stage = "none" => s = Unused
    /\ s.current \in {NoNode} \cup Ids(s.graph)
    /\ InUse(s) => s.current \in Ids(s.graph) /\ s.shape \in Nat \X Nat

\* The edges are the entries of the input lists.
Ports(g, v)  == {<<g.nodes[v].ins[p], v, p - 1>> : p \in DOMAIN g.nodes[v].ins}
Triples(es)  == {<<e.from, e.to, e.to_port>> : e \in ToSet(es)}
Mirrors(g)   == Len(g.edges) = Len(g.refs) /\ Triples(g.edges) = UNION {Ports(g, v) : v \in Ids(g)}

\* No edge leaves the graph.
EdgesJoin(g) == \A e \in ToSet(g.edges) : {e.from, e.to} \subseteq Ids(g)

\* Of the computed nodes, all but the head have been consumed.
Chained(g, head) ==
    Closed(g) /\ Heads(g) = IF IsInput(g, head) THEN {} ELSE {head}

\* Each initializer came with an Input node of its name.
InitsNamed(g) ==
    \A p \in 1 .. Len(g.inits) : \E v \in Ids(g) :
        IsInput(g, v) /\ g.nodes[v].name = g.inits[p].name

SlotInv(s, foreign) ==
    /\ IsSlot(s)
    /\ InUse(s) => Mirrors(s.graph) /\ InitsNamed(s.graph)
    /\ ~foreign => EdgesJoin(s.graph)
    /\ InUse(s) /\ ~foreign => Chained(s.graph, s.current)
    /\ s.stage = "built" /\ ~foreign =>
          s.graph.outputs = IF IsInput(s.graph, s.current) THEN <<>> ELSE <<s.current>>

\* Initializer `init` came with node id; those before it came with others.
Holds(g, id, init) ==
    /\ id \in Ids(g) /\ IsInput(g, id) /\ g.nodes[id].name # NoName
    /\ init \in 1 .. Len(g.inits) /\ g.inits[init].name = g.nodes[id].name
    /\ \A p \in 1 .. init - 1 : \E v \in Ids(g) \ {id} :
          IsInput(g, v) /\ g.nodes[v].name = g.inits[p].name

HandleType == [of : Builders, id : Nat, shape : Nat \X Nat]
WeightType == [of : Builders, id : Nat, init : Nat]

BuilderInv ==
    /\ slots = [b \in Builders |-> slots[b]]
    /\ \A b \in Builders : SlotInv(slots[b], b \in mixed)
    /\ \A h \in handles : h \in HandleType /\ h.id \in Ids(GraphOf(h.of))
    /\ \A w \in weights : w \in WeightType /\ Holds(GraphOf(w.of), w.id, w.init)
    /\ mixed \subseteq Builders /\ edits \in Nat

\* What has been found of a graph stays so while it grows.
LEMMA HeldInGrown ==
    ASSUME NEW g, Sound(g), NEW h, Sound(h), Grows(g, h)
    PROVE  /\ Ids(g) \subseteq Ids(h)
           /\ \A id, init : Holds(g, id, init) => Holds(h, id, init)
  <1>1. g.n \in Nat /\ h.n \in Nat /\ g.n <= h.n
    BY DEF Sound, Noded, Grows
  <1>2. Ids(g) \subseteq Ids(h)
    BY <1>1 DEF Ids
  <1>3. \A v \in Ids(g) : h.nodes[v] = g.nodes[v] /\ (IsInput(h, v) <=> IsInput(g, v))
    BY DEF Grows, IsInput
  <1>4. /\ Len(g.inits) \in Nat /\ Len(h.inits) \in Nat /\ Len(g.inits) <= Len(h.inits)
        /\ \A p \in 1 .. Len(g.inits) : h.inits[p] = g.inits[p]
    <2>1. Len(g.inits) \in Nat /\ Len(h.inits) \in Nat
      BY Listing DEF Sound
    <2>2. QED
      BY <2>1 DEF Grows
  <1>5. ASSUME NEW id, NEW init, Holds(g, id, init) PROVE Holds(h, id, init)
    <2>1. /\ id \in Ids(h) /\ IsInput(h, id) /\ h.nodes[id].name # NoName
          /\ init \in 1 .. Len(h.inits) /\ h.inits[init].name = h.nodes[id].name
      BY <1>2, <1>3, <1>4, <1>5 DEF Holds
    <2>2. ASSUME NEW p \in 1 .. init - 1
          PROVE  \E v \in Ids(h) \ {id} : IsInput(h, v) /\ h.nodes[v].name = h.inits[p].name
      <3>1. PICK v \in Ids(g) \ {id} : IsInput(g, v) /\ g.nodes[v].name = g.inits[p].name
        BY <1>5 DEF Holds
      <3>2. p \in 1 .. Len(g.inits)
        BY <1>4, <1>5 DEF Holds
      <3>3. QED
        BY <1>2, <1>3, <1>4, <3>1, <3>2
    <2>3. QED
      BY <2>1, <2>2 DEF Holds
  <1>6. QED
    BY <1>2, <1>5

\* A call changes one slot, lets its graph grow, and may mint a handle to it
\* or a weight of it.
LEMMA OneSlot ==
    ASSUME BuilderInv, NEW b \in Builders, NEW s, slots' = [slots EXCEPT ![b] = s],
           SlotInv(s, b \in mixed'), Grows(GraphOf(b), s.graph),
           mixed' = mixed \/ mixed' = mixed \cup {b},
           \A h \in handles' : \/ h \in handles
                               \/ h \in HandleType /\ h.of = b /\ h.id \in Ids(s.graph),
           \A w \in weights' : \/ w \in weights
                               \/ w \in WeightType /\ w.of = b /\ Holds(s.graph, w.id, w.init),
           edits' \in Nat
    PROVE  BuilderInv'
  <1>1. slots = [c \in Builders |-> slots[c]]
    BY DEF BuilderInv
  <1>2. /\ slots' = [c \in Builders |-> slots'[c]] /\ slots'[b] = s
        /\ \A c \in Builders : c # b => slots'[c] = slots[c]
    BY <1>1
  <1>3. \A c \in Builders : SlotInv(slots'[c], c \in mixed')
    <2> SUFFICES ASSUME NEW c \in Builders, c # b PROVE SlotInv(slots'[c], c \in mixed')
      BY <1>2
    <2>1. slots'[c] = slots[c] /\ (c \in mixed' <=> c \in mixed)
      BY <1>2
    <2>2. SlotInv(slots[c], c \in mixed)
      BY DEF BuilderInv
    <2>3. QED
      BY <2>1, <2>2 DEF SlotInv
  <1>4. /\ Ids(GraphOf(b)) \subseteq Ids(s.graph)
        /\ \A id, init : Holds(GraphOf(b), id, init) => Holds(s.graph, id, init)
    <2>1. Sound(GraphOf(b)) /\ Sound(s.graph)
      BY DEF BuilderInv, SlotInv, IsSlot, GraphOf
    <2>2. QED
      BY <2>1, HeldInGrown
  <1>5. \A c \in Builders : /\ c = b => GraphOf(c)' = s.graph
                            /\ c # b => GraphOf(c)' = GraphOf(c)
    BY <1>2 DEF GraphOf
  <1>6. \A h \in handles' : h \in HandleType /\ h.id \in Ids(GraphOf(h.of)')
    <2> SUFFICES ASSUME NEW h \in handles' PROVE h \in HandleType /\ h.id \in Ids(GraphOf(h.of)')
      OBVIOUS
    <2>1. CASE h \in handles
      <3>1. h \in HandleType /\ h.id \in Ids(GraphOf(h.of)) /\ h.of \in Builders
        BY <2>1 DEF BuilderInv, HandleType
      <3>2. QED
        BY <1>4, <1>5, <3>1
    <2>2. CASE h \in HandleType /\ h.of = b /\ h.id \in Ids(s.graph)
      BY <1>5, <2>2
    <2>3. QED
      BY <2>1, <2>2
  <1>7. \A w \in weights' : w \in WeightType /\ Holds(GraphOf(w.of)', w.id, w.init)
    <2> SUFFICES ASSUME NEW w \in weights'
                 PROVE  w \in WeightType /\ Holds(GraphOf(w.of)', w.id, w.init)
      OBVIOUS
    <2>1. CASE w \in weights
      <3>1. w \in WeightType /\ Holds(GraphOf(w.of), w.id, w.init) /\ w.of \in Builders
        BY <2>1 DEF BuilderInv, WeightType
      <3>2. QED
        BY <1>4, <1>5, <3>1
    <2>2. CASE w \in WeightType /\ w.of = b /\ Holds(s.graph, w.id, w.init)
      BY <1>5, <2>2
    <2>3. QED
      BY <2>1, <2>2
  <1>8. mixed' \subseteq Builders
    BY DEF BuilderInv
  <1>9. QED
    BY <1>2, <1>3, <1>6, <1>7, <1>8 DEF BuilderInv

-----------------------------------------------------------------------------
(* Input nodes and weights *)

\* The shape of a matrix, as the dimensions of a node.
LEMMA ShapeIsDims ==
    ASSUME NEW shape \in Nat \X Nat
    PROVE  shape \in Seq(Nat)
  <1>1. PICK m \in Nat, k \in Nat : shape = <<m, k>>
    OBVIOUS
  <1>2. <<m, k>> \in Seq(Nat)
    OBVIOUS
  <1>3. QED
    BY <1>1, <1>2

\* What a new Input node changes for the invariant: nothing.
LEMMA PushInputIs ==
    ASSUME NEW g, Sound(g), NEW shape \in Nat \X Nat, NEW name,
           NEW h, h = PushNode(g, InputNode(shape, name))
    PROVE  /\ Sound(h) /\ Grows(g, h) /\ g.n \in Ids(h) /\ g.n \in Nat
           /\ IsInput(h, g.n) /\ h.nodes[g.n].name = name
           /\ h.inits = g.inits
           /\ Mirrors(g) => Mirrors(h)
           /\ InitsNamed(g) => InitsNamed(h)
           /\ EdgesJoin(g) => EdgesJoin(h)
           /\ \A head \in Ids(g) : Chained(g, head) => Chained(h, head)
  <1>1. PICK node : node = InputNode(shape, name)
    OBVIOUS
  <1>2. /\ node.ins = <<>> /\ node.dims \in Seq(Nat) /\ node.op.kind = "Input"
        /\ node.name = name
    BY <1>1, ShapeIsDims DEF InputNode
  <1>3. node.ins \in Seq(Nat) /\ Len(node.ins) = 0
    BY <1>2
  <1>4. Sound(h) /\ Grows(g, h)
    BY <1>1, <1>2, <1>3, PushKeeps
  <1>5. Pushed(g, node, h)
    BY <1>1, <1>3, PushIs
  <1>6. PICK m : m = g.n
    OBVIOUS
  <1>7. /\ m \in Ids(h) /\ Ids(h) = Ids(g) \cup {m} /\ m \notin Ids(g) /\ m \in Nat
        /\ h.nodes[m] = node /\ \A v \in Ids(g) : h.nodes[v] = g.nodes[v]
        /\ h.inits = g.inits /\ h.edges = g.edges
    BY <1>5, <1>6 DEF Pushed
  <1>8. h.refs = g.refs
    <2>1. h.refs = g.refs \o [p \in 1 .. Len(node.ins) |-> Ref(m, node.ins[p])]
      BY <1>5, <1>6 DEF Pushed
    <2>2. [p \in 1 .. Len(node.ins) |-> Ref(m, node.ins[p])] = <<>>
      BY <1>3
    <2>3. PICK R : R = [to : Ids(g), from : Nat]
      OBVIOUS
    <2>4. g.refs \in Seq(R)
      BY <2>3 DEF Sound, Referred
    <2>5. g.refs \o <<>> = g.refs
      BY <2>4
    <2>6. QED
      BY <2>1, <2>2, <2>5
  <1>9. /\ IsInput(h, m) /\ \A v \in Ids(g) : IsInput(h, v) <=> IsInput(g, v)
        /\ Producers(h, m) = {} /\ \A v \in Ids(g) : Producers(h, v) = Producers(g, v)
        /\ Ports(h, m) = {} /\ \A v \in Ids(g) : Ports(h, v) = Ports(g, v)
    <2>1. ToSet(node.ins) = {} /\ DOMAIN node.ins = {}
      BY <1>2 DEF ToSet
    <2>2. QED
      BY <1>2, <1>7, <2>1 DEF IsInput, Producers, Ports
  <1>10. Mirrors(g) => Mirrors(h)
    <2>1. UNION {Ports(h, v) : v \in Ids(h)} = UNION {Ports(g, v) : v \in Ids(g)}
      BY <1>7, <1>9
    <2>2. QED
      BY <1>7, <1>8, <2>1 DEF Mirrors
  <1>11. InitsNamed(g) => InitsNamed(h)
    BY <1>7, <1>9 DEF InitsNamed
  <1>12. EdgesJoin(g) => EdgesJoin(h)
    BY <1>7 DEF EdgesJoin
  <1>13. ASSUME NEW head \in Ids(g), Chained(g, head) PROVE Chained(h, head)
    <2>1. Closed(h)
      BY <1>7, <1>9, <1>13 DEF Chained, Closed
    <2>2. Consumed(h) = Consumed(g)
      <3>1. \A w : w \in Consumed(h) <=> \E v \in Ids(h) : w \in Producers(h, v)
        BY DEF Consumed
      <3>2. \A w : w \in Consumed(g) <=> \E v \in Ids(g) : w \in Producers(g, v)
        BY DEF Consumed
      <3>3. \A w : w \in Consumed(h) <=> w \in Consumed(g)
        BY <1>7, <1>9, <3>1, <3>2
      <3>4. QED
        BY <3>3
    <2>3. Heads(h) = Heads(g)
      BY <1>7, <1>9, <2>2 DEF Heads
    <2>4. QED
      BY <1>9, <1>13, <2>1, <2>3 DEF Chained
  <1>14. QED
    BY <1>2, <1>4, <1>6, <1>7, <1>9, <1>10, <1>11, <1>12, <1>13

\* A builder starts from one Input node.
LEMMA InputKeeps ==
    ASSUME BuilderInv, NEW b \in Builders, NEW shape \in Shapes, NEW name \in Names,
           Input(b, shape, name)
    PROVE  BuilderInv'
  <1>1. PICK h : h = PushNode(EmptyGraph, InputNode(shape, name))
    OBVIOUS
  <1>2. PICK s : s = [stage |-> "building", current |-> 0, shape |-> shape, graph |-> h]
    OBVIOUS
  <1>3. GraphOf(b) = EmptyGraph /\ slots' = [slots EXCEPT ![b] = s]
    <2>1. slots[b].stage = "none" /\ IsSlot(slots[b])
      BY DEF Input, BuilderInv, SlotInv
    <2>2. slots[b] = Unused
      BY <2>1 DEF IsSlot
    <2>3. GraphOf(b) = EmptyGraph
      BY <2>2 DEF GraphOf, Unused
    <2>4. QED
      BY <1>1, <1>2, <2>3, Zenon DEF Input
  <1>4. shape \in Nat \X Nat
    BY BuilderAssumption
  <1>5. /\ Sound(h) /\ Grows(EmptyGraph, h) /\ 0 \in Ids(h) /\ IsInput(h, 0)
        /\ Mirrors(EmptyGraph) => Mirrors(h)
        /\ InitsNamed(EmptyGraph) => InitsNamed(h)
        /\ EdgesJoin(EmptyGraph) => EdgesJoin(h)
    <2>1. EmptyGraph.n = 0
      BY DEF EmptyGraph
    <2>2. QED
      BY <1>1, <1>4, <2>1, EmptyIsSound, PushInputIs
  <1>6. /\ EmptyGraph.n = 0 /\ EmptyGraph.edges = <<>> /\ EmptyGraph.refs = <<>>
        /\ EmptyGraph.inits = <<>> /\ Ids(EmptyGraph) = {} /\ ToSet(<<>>) = {}
    BY DEF EmptyGraph, Ids, ToSet
  <1>7. Mirrors(EmptyGraph) /\ InitsNamed(EmptyGraph) /\ EdgesJoin(EmptyGraph)
    BY <1>6 DEF Mirrors, Triples, InitsNamed, EdgesJoin
  <1>8. Closed(h) /\ Heads(h) = {}
    <2>1. PICK node : node = InputNode(shape, name)
      OBVIOUS
    <2>2. node.ins = <<>> /\ node.op.kind = "Input" /\ node.ins \in Seq(Nat)
      BY <2>1 DEF InputNode
    <2>3. Pushed(EmptyGraph, node, h)
      BY <1>1, <2>1, <2>2, EmptyIsSound, PushIs
    <2>4. Ids(h) = {0} /\ h.nodes[0] = node
      BY <1>6, <2>3 DEF Pushed
    <2>5. QED
      BY <1>6, <2>2, <2>4 DEF Closed, Heads, Producers, IsInput
  <1>9. SlotInv(s, b \in mixed')
    <2>1. IsSlot(s)
      BY <1>2, <1>4, <1>5 DEF IsSlot, InUse
    <2>2. s.graph = h /\ s.current = 0 /\ s.stage = "building"
      BY <1>2
    <2>3. Chained(h, 0)
      BY <1>5, <1>8 DEF Chained
    <2>4. QED
      BY <1>5, <1>7, <2>1, <2>2, <2>3 DEF SlotInv
  <1>10. \A k \in handles' : \/ k \in handles
                             \/ k \in HandleType /\ k.of = b /\ k.id \in Ids(s.graph)
    BY <1>2, <1>4, <1>5 DEF Input, Handle, HandleType
  <1>11. mixed' = mixed /\ weights' = weights /\ edits' \in Nat
    BY DEF Input, BuilderInv
  <1>12. Grows(GraphOf(b), s.graph)
    BY <1>2, <1>3, <1>5
  <1>13. QED
    BY <1>3, <1>9, <1>10, <1>11, <1>12, OneSlot

\* A slot in which the graph alone has changed.
LEMMA GraphReplaced ==
    ASSUME BuilderInv, NEW b \in Builders, NEW h, NEW s, s = [slots[b] EXCEPT !.graph = h]
    PROVE  /\ [slots EXCEPT ![b].graph = h] = [slots EXCEPT ![b] = s]
           /\ s = [stage |-> slots[b].stage, graph |-> h, current |-> slots[b].current,
                   shape |-> slots[b].shape]
  <1>1. [slots EXCEPT ![b].graph = h] = [slots EXCEPT ![b] = s]
    OBVIOUS
  <1>2. PICK stage, graph, current, shape :
           /\ stage = slots[b].stage /\ graph = slots[b].graph
           /\ current = slots[b].current /\ shape = slots[b].shape
    OBVIOUS
  <1>3. slots[b] = [stage |-> stage, graph |-> graph, current |-> current, shape |-> shape]
    BY <1>2 DEF BuilderInv, SlotInv, IsSlot
  <1>4. s = [stage |-> stage, graph |-> h, current |-> current, shape |-> shape]
    BY <1>3
  <1>5. QED
    BY <1>1, <1>2, <1>4

\* While a builder is in use its graph may get a node that no chain ends in.
LEMMA GrowsInUse ==
    ASSUME BuilderInv, NEW b \in Builders, slots[b].stage = "building",
           NEW h, Sound(h), Grows(GraphOf(b), h), Mirrors(h), InitsNamed(h),
           EdgesJoin(GraphOf(b)) => EdgesJoin(h),
           Chained(GraphOf(b), slots[b].current) => Chained(h, slots[b].current),
           NEW s, s = [slots[b] EXCEPT !.graph = h]
    PROVE  SlotInv(s, b \in mixed)
  <1>1. /\ s.stage = "building" /\ s.graph = h
        /\ s.current = slots[b].current /\ s.shape = slots[b].shape
        /\ s = [stage |-> s.stage, graph |-> s.graph, current |-> s.current, shape |-> s.shape]
    <2>1. s = [stage |-> slots[b].stage, graph |-> h, current |-> slots[b].current,
               shape |-> slots[b].shape]
      BY GraphReplaced
    <2>2. QED
      BY <2>1
  <1>2. SlotInv(slots[b], b \in mixed) /\ GraphOf(b) = slots[b].graph
    BY DEF BuilderInv, GraphOf
  <1>3. slots[b].current \in Ids(GraphOf(b)) /\ slots[b].shape \in Nat \X Nat /\ Sound(GraphOf(b))
    BY <1>2 DEF SlotInv, IsSlot, InUse
  <1>4. slots[b].current \in Ids(h)
    BY <1>3, HeldInGrown
  <1>5. IsSlot(s)
    BY <1>1, <1>3, <1>4 DEF IsSlot, InUse
  <1>6. b \notin mixed => EdgesJoin(GraphOf(b)) /\ Chained(GraphOf(b), slots[b].current)
    BY <1>2 DEF SlotInv, InUse
  <1>7. QED
    BY <1>1, <1>5, <1>6 DEF SlotInv

\* add_input
LEMMA AddInputKeeps ==
    ASSUME BuilderInv, NEW b \in Builders, NEW shape \in Shapes, NEW name \in Names,
           AddInput(b, shape, name)
    PROVE  BuilderInv'
  <1>1. PICK g, h : g = GraphOf(b) /\ h = PushNode(g, InputNode(shape, name))
    OBVIOUS
  <1>2. PICK s : s = [slots[b] EXCEPT !.graph = h]
    OBVIOUS
  <1>3. slots[b].stage = "building" /\ slots' = [slots EXCEPT ![b].graph = h]
    BY <1>1 DEF AddInput, GraphOf
  <1>4. slots' = [slots EXCEPT ![b] = s] /\ s.graph = h
    BY <1>2, <1>3, GraphReplaced
  <1>5. SlotInv(slots[b], b \in mixed) /\ Sound(g) /\ Mirrors(g) /\ InitsNamed(g)
        /\ slots[b].current \in Ids(g)
    BY <1>1, <1>3 DEF BuilderInv, SlotInv, IsSlot, InUse, GraphOf
  <1>6. shape \in Nat \X Nat
    BY BuilderAssumption
  <1>7. /\ Sound(h) /\ Grows(g, h) /\ g.n \in Ids(h) /\ g.n \in Nat
        /\ Mirrors(h) /\ InitsNamed(h)
        /\ EdgesJoin(g) => EdgesJoin(h)
        /\ Chained(g, slots[b].current) => Chained(h, slots[b].current)
    BY <1>1, <1>5, <1>6, PushInputIs
  <1>8. SlotInv(s, b \in mixed)
    <2>1. /\ Sound(h) /\ Grows(GraphOf(b), h) /\ Mirrors(h) /\ InitsNamed(h)
          /\ EdgesJoin(GraphOf(b)) => EdgesJoin(h)
          /\ Chained(GraphOf(b), slots[b].current) => Chained(h, slots[b].current)
      BY <1>1, <1>7
    <2>2. slots[b].stage = "building"
      BY <1>3
    <2>3. QED
      BY <1>2, <2>1, <2>2, GrowsInUse
  <1>9. \A k \in handles' : \/ k \in handles
                            \/ k \in HandleType /\ k.of = b /\ k.id \in Ids(s.graph)
    BY <1>1, <1>4, <1>6, <1>7 DEF AddInput, Handle, HandleType
  <1>10. mixed' = mixed /\ weights' = weights /\ edits' \in Nat
    BY DEF AddInput, BuilderInv
  <1>11. Grows(GraphOf(b), s.graph)
    BY <1>1, <1>4, <1>7
  <1>12. QED
    BY <1>4, <1>8, <1>9, <1>10, <1>11, OneSlot

\* What add_initializer does to a graph, and to the ones it refuses.
LEMMA AddInitializerIs ==
    ASSUME NEW g, NEW init, NEW result, result = AddInitializer(g, init)
    PROVE  \/ result.err # None /\ result.graph = g
           \/ result.err = None /\ result.graph = [g EXCEPT !.inits = Append(@, init)]
  BY DEF AddInitializer, Accepts, Refuses

\* add_initializer of the builder: a weight is held by its node from then on.
LEMMA AddWeightKeeps ==
    ASSUME BuilderInv, NEW b \in Builders, NEW shape \in Shapes, NEW name \in Names,
           NEW len \in Nat, AddWeight(b, shape, name, len)
    PROVE  BuilderInv'
  <1>1. PICK g, init, result :
           /\ g = GraphOf(b) /\ init = [name |-> name, len |-> len, dims |-> shape]
           /\ result = PushWeight(g, InputNode(shape, name), init)
    OBVIOUS
  <1>2. PICK pushed : pushed = AddInitializer(g, init)
    OBVIOUS
  <1>3. PICK s : s = [slots[b] EXCEPT !.graph = result.graph]
    OBVIOUS
  <1>4. /\ slots[b].stage = "building" /\ slots' = [slots EXCEPT ![b].graph = result.graph]
        /\ result.err = None =>
              /\ handles' = handles \cup {Handle(b, g.n, shape)}
              /\ weights' = weights \cup {[of |-> b, id |-> g.n, init |-> Len(g.inits) + 1]}
        /\ result.err # None => UNCHANGED <<handles, weights>>
    BY <1>1 DEF AddWeight
  <1>5. slots' = [slots EXCEPT ![b] = s] /\ s.graph = result.graph
    BY <1>3, <1>4, GraphReplaced
  <1>6. SlotInv(slots[b], b \in mixed) /\ Sound(g) /\ Mirrors(g) /\ InitsNamed(g)
        /\ slots[b].current \in Ids(g) /\ slots[b].graph = g
    BY <1>1, <1>4 DEF BuilderInv, SlotInv, IsSlot, InUse, GraphOf
  <1>7. shape \in Nat \X Nat /\ shape \in Seq(Nat)
    BY BuilderAssumption, ShapeIsDims
  <1>8. mixed' = mixed /\ edits' \in Nat
    BY DEF AddWeight, BuilderInv
  <1>9. CASE result.err # None /\ result.graph = g
    <2>1. handles' = handles /\ weights' = weights
      BY <1>4, <1>9
    <2>2. Grows(g, g)
      BY <1>6, SameGrows
    <2>3. SlotInv(s, b \in mixed)
      BY <1>1, <1>3, <1>4, <1>6, <1>9, <2>2, GrowsInUse
    <2>4. Grows(GraphOf(b), s.graph)
      BY <1>1, <1>5, <1>9, <2>2
    <2>5. QED
      BY <1>5, <1>8, <2>1, <2>3, <2>4, OneSlot
  <1>10. CASE /\ result.err = None
              /\ result.graph = PushNode(pushed.graph, InputNode(shape, name))
              /\ pushed.graph = [g EXCEPT !.inits = Append(@, init)]
    <2>1. PICK f, h : f = pushed.graph /\ h = result.graph
      OBVIOUS
    <2>2. /\ Sound(f) /\ Grows(g, f)
          /\ f.n = g.n /\ f.nodes = g.nodes /\ f.refs = g.refs /\ f.edges = g.edges
          /\ f.inits = Append(g.inits, init)
      <3>1. Sound(g) /\ f = [g EXCEPT !.inits = Append(@, init)]
        BY <1>6, <1>10, <2>1
      <3>2. QED
        BY <3>1, InitKeeps
    <2>3. PICK m, k : m = g.n /\ k = Len(g.inits)
      OBVIOUS
    <2>4. /\ k \in Nat /\ Len(f.inits) = k + 1 /\ f.inits[k + 1] = init
          /\ \A p \in 1 .. k : f.inits[p] = g.inits[p]
      <3>1. PICK S : S = ToSet(g.inits) \cup {init}
        OBVIOUS
      <3>2. g.inits \in Seq(S) /\ init \in S
        <4>1. PICK T : T = ToSet(g.inits)
          OBVIOUS
        <4>2. g.inits \in Seq(T) /\ T \subseteq S
          BY <1>6, <3>1, <4>1 DEF Sound, IsList
        <4>3. QED
          BY <3>1, <4>2
      <3>3. QED
        BY <2>2, <2>3, <3>2
    <2>5. /\ Ids(f) = Ids(g) /\ \A v : IsInput(f, v) <=> IsInput(g, v)
          /\ \A v : Producers(f, v) = Producers(g, v)
          /\ \A v : Ports(f, v) = Ports(g, v)
      BY <2>2 DEF Ids, IsInput, Producers, Ports
    <2>6. Mirrors(f)
      BY <1>6, <2>2, <2>5 DEF Mirrors
    <2>7. EdgesJoin(g) => EdgesJoin(f)
      BY <2>2, <2>5 DEF EdgesJoin
    <2>8. Chained(g, slots[b].current) => Chained(f, slots[b].current)
      <3>1. Consumed(f) = Consumed(g)
        BY <2>5 DEF Consumed
      <3>2. Heads(f) = Heads(g)
        BY <2>5, <3>1 DEF Heads
      <3>3. Closed(g) => Closed(f)
        BY <2>5 DEF Closed
      <3>4. QED
        BY <2>5, <3>2, <3>3 DEF Chained
    <2>9. /\ Sound(h) /\ Grows(f, h) /\ m \in Ids(h) /\ m \in Nat /\ m \notin Ids(g)
          /\ IsInput(h, m) /\ h.nodes[m].name = name /\ h.inits = f.inits
          /\ Mirrors(h)
          /\ EdgesJoin(g) => EdgesJoin(h)
          /\ Chained(g, slots[b].current) => Chained(h, slots[b].current)
      <3>1. /\ Sound(h) /\ Grows(f, h) /\ f.n \in Ids(h) /\ f.n \in Nat
            /\ IsInput(h, f.n) /\ h.nodes[f.n].name = name /\ h.inits = f.inits
            /\ Mirrors(f) => Mirrors(h)
            /\ EdgesJoin(f) => EdgesJoin(h)
            /\ \A head \in Ids(f) : Chained(f, head) => Chained(h, head)
        <4>1. /\ Sound(f) /\ shape \in Nat \X Nat
              /\ h = PushNode(f, InputNode(shape, name))
          BY <1>7, <1>10, <2>1, <2>2
        <4>2. QED
          BY <4>1, PushInputIs
      <3>2. m = f.n /\ m \notin Ids(g)
        BY <2>2, <2>3, <3>1 DEF Ids
      <3>3. QED
        BY <1>6, <2>5, <2>6, <2>7, <2>8, <3>1, <3>2
    <2>10. Grows(g, h)
      <3>1. m <= h.n
        BY <2>2, <2>3, <2>9 DEF Grows
      <3>2. \A v \in Ids(g) : h.nodes[v] = g.nodes[v]
        BY <2>2, <2>5, <2>9 DEF Grows
      <3>3. /\ Len(h.inits) = k + 1 /\ k <= k + 1
            /\ \A p \in 1 .. k : h.inits[p] = g.inits[p]
        BY <2>4, <2>9
      <3>4. QED
        BY <2>3, <3>1, <3>2, <3>3 DEF Grows
    <2>11. \A v \in Ids(g) : /\ v \in Ids(h) /\ v # m
                             /\ h.nodes[v] = g.nodes[v] /\ (IsInput(h, v) <=> IsInput(g, v))
      <3>1. Ids(g) \subseteq Ids(h)
        BY <1>6, <2>9, <2>10, HeldInGrown
      <3>2. QED
        BY <2>9, <2>10, <3>1 DEF Grows, IsInput
    <2>12. \A p \in 1 .. k : \E v \in Ids(h) \ {m} :
              IsInput(h, v) /\ h.nodes[v].name = h.inits[p].name
      <3>1. ASSUME NEW p \in 1 .. k
            PROVE  \E v \in Ids(h) \ {m} : IsInput(h, v) /\ h.nodes[v].name = h.inits[p].name
        <4>1. PICK v \in Ids(g) : IsInput(g, v) /\ g.nodes[v].name = g.inits[p].name
          BY <1>6, <2>3 DEF InitsNamed
        <4>2. h.inits[p] = g.inits[p]
          BY <2>4, <2>9
        <4>3. QED
          BY <2>11, <4>1, <4>2
      <3>2. QED
        BY <3>1
    <2>13. Len(h.inits) = k + 1 /\ h.inits[k + 1].name = name
      BY <1>1, <2>4, <2>9
    <2>14. InitsNamed(h)
      <3>1. \A p \in 1 .. k + 1 : p \in 1 .. k \/ p = k + 1
        BY <2>4
      <3>2. QED
        BY <2>9, <2>12, <2>13, <3>1 DEF InitsNamed
    <2>15. Holds(h, m, k + 1)
      <3>1. (k + 1) - 1 = k /\ k + 1 \in 1 .. k + 1
        BY <2>4
      <3>2. name # NoName
        BY BuilderAssumption
      <3>3. QED
        BY <2>9, <2>12, <2>13, <3>1, <3>2 DEF Holds
    <2>16. SlotInv(s, b \in mixed)
      <3>1. /\ Sound(h) /\ Grows(GraphOf(b), h) /\ Mirrors(h) /\ InitsNamed(h)
            /\ EdgesJoin(GraphOf(b)) => EdgesJoin(h)
            /\ Chained(GraphOf(b), slots[b].current) => Chained(h, slots[b].current)
        BY <1>1, <2>9, <2>10, <2>14
      <3>2. slots[b].stage = "building" /\ s = [slots[b] EXCEPT !.graph = h]
        BY <1>3, <1>4, <2>1
      <3>3. QED
        BY <3>1, <3>2, GrowsInUse
    <2>17. \A x \in handles' : \/ x \in handles
                               \/ x \in HandleType /\ x.of = b /\ x.id \in Ids(s.graph)
      BY <1>4, <1>5, <1>7, <1>10, <2>1, <2>3, <2>9 DEF Handle, HandleType
    <2>18. \A w \in weights' :
              \/ w \in weights
              \/ w \in WeightType /\ w.of = b /\ Holds(s.graph, w.id, w.init)
      BY <1>4, <1>5, <1>10, <2>1, <2>3, <2>4, <2>9, <2>15 DEF WeightType
    <2>19. Grows(GraphOf(b), s.graph)
      BY <1>1, <1>5, <2>1, <2>10
    <2>20. QED
      BY <1>5, <1>8, <2>16, <2>17, <2>18, <2>19, OneSlot
  <1>11. QED
    <2>1. \/ pushed.err # None /\ pushed.graph = g
          \/ pushed.err = None /\ pushed.graph = [g EXCEPT !.inits = Append(@, init)]
      BY <1>2, AddInitializerIs
    <2>2. pushed.err # None => result = pushed
      BY <1>1, <1>2 DEF PushWeight
    <2>3. pushed.err = None =>
             result.err = None /\ result.graph = PushNode(pushed.graph, InputNode(shape, name))
      BY <1>1, <1>2 DEF PushWeight, Accepts
    <2>4. QED
      BY <1>9, <1>10, <2>1, <2>2, <2>3

-----------------------------------------------------------------------------
(* Operations *)

\* The members of two sequences, one after the other.
LEMMA JoinedSet ==
    ASSUME NEW S, NEW s \in Seq(S), NEW t \in Seq(S)
    PROVE  ToSet(s \o t) = ToSet(s) \cup ToSet(t)
  <1>1. PICK u, m, n : u = s \o t /\ m = Len(s) /\ n = Len(t)
    OBVIOUS
  <1>2. /\ u \in Seq(S) /\ Len(u) = m + n /\ m \in Nat /\ n \in Nat
        /\ \A a \in 1 .. m : u[a] = s[a]
        /\ \A a \in 1 .. n : u[m + a] = t[a]
    BY <1>1, Joined
  <1>3. /\ \A w : w \in ToSet(s) <=> \E a \in 1 .. m : s[a] = w
        /\ \A w : w \in ToSet(t) <=> \E a \in 1 .. n : t[a] = w
        /\ \A w : w \in ToSet(u) <=> \E a \in 1 .. m + n : u[a] = w
    <2>1. \A x \in Seq(S) : \A w : w \in ToSet(x) <=> \E a \in 1 .. Len(x) : x[a] = w
      BY DEF ToSet
    <2>2. \A w : w \in ToSet(s) <=> \E a \in 1 .. m : s[a] = w
      BY <1>1, <2>1
    <2>3. \A w : w \in ToSet(t) <=> \E a \in 1 .. n : t[a] = w
      BY <1>1, <2>1
    <2>4. \A w : w \in ToSet(u) <=> \E a \in 1 .. Len(u) : u[a] = w
      BY <1>2, <2>1
    <2>5. QED
      BY <1>2, <2>2, <2>3, <2>4
  <1>4. ASSUME NEW w PROVE w \in ToSet(u) <=> w \in ToSet(s) \/ w \in ToSet(t)
    <2>1. ASSUME NEW a \in 1 .. m + n PROVE (\E c \in 1 .. m : s[c] = u[a]) \/ (\E c \in 1 .. n : t[c] = u[a])
      <3>1. CASE a <= m
        <4>1. a \in 1 .. m
          BY <1>2, <3>1
        <4>2. QED
          BY <1>2, <4>1
      <3>2. CASE a > m
        <4>1. a - m \in 1 .. n /\ m + (a - m) = a
          BY <1>2, <3>2
        <4>2. QED
          BY <1>2, <4>1
      <3>3. QED
        BY <1>2, <3>1, <3>2
    <2>2. \A a \in 1 .. m : a \in 1 .. m + n
      BY <1>2
    <2>3. \A a \in 1 .. n : m + a \in 1 .. m + n
      BY <1>2
    <2>4. QED
      BY <1>2, <1>3, <2>1, <2>2, <2>3
  <1>5. QED
    BY <1>1, <1>4

\* A node lists its operands, and there is an edge for each.
Wired(id, operands, node, es) ==
    /\ Len(operands) \in Nat /\ Len(node.ins) = Len(operands) /\ Len(es) = Len(operands)
    /\ node.ins \in Seq(Nat) /\ node.dims \in Seq(Nat) /\ es \in Seq(Edges)
    /\ \A p \in 1 .. Len(operands) :
          /\ node.ins[p] = operands[p].id /\ es[p].from = operands[p].id
          /\ es[p].to = id /\ es[p].to_port = p - 1

\* The node of an operation and its edges.
LEMMA OpNodeIs ==
    ASSUME NEW id \in Nat, NEW op, NEW operands \in Seq(HandleType), NEW shape \in Nat \X Nat,
           NEW node, NEW es, es = OpEdges(id, operands),
           node = [op |-> op, ins |-> [p \in DOMAIN operands |-> operands[p].id],
                   dims |-> shape, name |-> NoName]
    PROVE  node.op = op /\ Wired(id, operands, node, es)
  <1>1. PICK k, S : k = Len(operands) /\ S = HandleType
    OBVIOUS
  <1>2. k \in Nat /\ DOMAIN operands = 1 .. k /\ \A p \in 1 .. k : operands[p] \in S
    BY <1>1
  <1>3. /\ node.op = op /\ node.dims = shape
        /\ node.ins = [p \in 1 .. k |-> operands[p].id]
    BY <1>2
  <1>4. \A p \in 1 .. k : operands[p].id \in Nat /\ operands[p].shape \in Nat \X Nat
    BY <1>1, <1>2 DEF HandleType
  <1>5. node.ins \in Seq(Nat) /\ Len(node.ins) = k /\ \A p \in 1 .. k : node.ins[p] = operands[p].id
    BY <1>2, <1>3, <1>4
  <1>6. node.dims \in Seq(Nat)
    BY <1>3, ShapeIsDims
  <1>7. es = [p \in 1 .. k |-> [from |-> operands[p].id, to |-> id, to_port |-> p - 1,
                                dims |-> operands[p].shape]]
    BY <1>2, Zenon DEF OpEdges
  <1>8. \A p \in 1 .. k : /\ es[p] \in Edges /\ es[p].from = operands[p].id
                          /\ es[p].to = id /\ es[p].to_port = p - 1
    <2> SUFFICES ASSUME NEW p \in 1 .. k
                 PROVE  /\ es[p] \in Edges /\ es[p].from = operands[p].id
                        /\ es[p].to = id /\ es[p].to_port = p - 1
      OBVIOUS
    <2>1. es[p] = [from |-> operands[p].id, to |-> id, to_port |-> p - 1,
                   dims |-> operands[p].shape]
      BY <1>7
    <2>2. p - 1 \in Nat
      BY <1>2
    <2>3. operands[p].id \in Nat /\ operands[p].shape \in Seq(Nat)
      BY <1>4, ShapeIsDims
    <2>4. QED
      BY <2>1, <2>2, <2>3 DEF Edges
  <1>9. es \in Seq(Edges) /\ Len(es) = k
    <2>1. PICK T : T = Edges
      OBVIOUS
    <2>2. \A p \in 1 .. k : es[p] \in T
      BY <1>8, <2>1
    <2>3. es \in Seq(T) /\ Len(es) = k
      BY <1>2, <1>7, <2>2
    <2>4. QED
      BY <2>1, <2>3
  <1>10. QED
    BY <1>1, <1>2, <1>3, <1>5, <1>6, <1>8, <1>9 DEF Wired

\* The edges of the new node are the entries of its input list.
LEMMA MirrorsAfterOp ==
    ASSUME NEW g, Sound(g), Mirrors(g), NEW node, NEW operands, NEW es,
           Wired(g.n, operands, node, es), NEW f, Pushed(g, node, f), NEW h, h.n = f.n, h.nodes = f.nodes, h.refs = f.refs, h.edges = g.edges \o es
    PROVE  Mirrors(h)
  <1>1. PICK k, m, ports, R, T :
           /\ k = Len(es) /\ m = g.n /\ ports = [p \in 1 .. Len(node.ins) |-> Ref(m, node.ins[p])]
           /\ R = [to : Ids(h), from : Nat] /\ T = Edges
    OBVIOUS
  <1>2. /\ Ids(h) = Ids(g) \cup {m} /\ m \notin Ids(g) /\ m \in Nat
        /\ h.nodes[m] = node /\ \A v \in Ids(g) : h.nodes[v] = g.nodes[v]
        /\ h.refs = g.refs \o ports
    BY <1>1 DEF Pushed, Ids
  <1>3. /\ k \in Nat /\ DOMAIN node.ins = 1 .. k /\ \A p \in 1 .. k : node.ins[p] \in Nat
        /\ Len(node.ins) = k /\ Len(es) = k /\ es \in Seq(T)
        /\ \A p \in 1 .. k : es[p].from = node.ins[p] /\ es[p].to = m /\ es[p].to_port = p - 1
    BY <1>1 DEF Wired
  <1>4. Len(h.edges) = Len(h.refs)
    <2>1. ports \in Seq(R) /\ Len(ports) = k
      <3>1. ports = [p \in 1 .. k |-> Ref(m, node.ins[p])]
        BY <1>1, <1>3
      <3>2. \A p \in 1 .. k : Ref(m, node.ins[p]) \in R
        BY <1>1, <1>2, <1>3 DEF Ref
      <3>3. QED
        BY <1>3, <3>1, <3>2
    <2>2. PICK Q : Q = [to : Ids(g), from : Nat]
      OBVIOUS
    <2>3. g.refs \in Seq(Q) /\ ports \in Seq(R)
      BY <2>1, <2>2 DEF Sound, Referred
    <2>4. Len(g.refs \o ports) = Len(g.refs) + k
      <3>1. PICK a : a = g.refs
        OBVIOUS
      <3>2. a \in Seq(Q) /\ ports \in Seq(R) /\ Len(ports) = k
        BY <2>1, <2>3, <3>1
      <3>3. Q \subseteq R
        BY <1>1, <1>2, <2>2
      <3>5. a \in Seq(R)
        BY <3>2, <3>3
      <3>6. Len(a \o ports) = Len(a) + Len(ports)
        BY <3>2, <3>5, Joined
      <3>4. QED
        BY <3>1, <3>2, <3>6
    <2>5. g.edges \in Seq(T) /\ es \in Seq(T)
      BY <1>1, <1>3 DEF Sound
    <2>6. Len(g.edges \o es) = Len(g.edges) + k
      <3>1. Len(g.edges \o es) = Len(g.edges) + Len(es)
        BY <2>5, Joined
      <3>2. QED
        BY <1>1, <3>1
    <2>7. QED
      BY <1>2, <2>4, <2>6 DEF Mirrors
  <1>5. ToSet(h.edges) = ToSet(g.edges) \cup ToSet(es)
    <2>1. g.edges \in Seq(T) /\ es \in Seq(T)
      BY <1>1, <1>3 DEF Sound
    <2>2. QED
      BY <2>1, JoinedSet
  <1>6. Triples(h.edges) = Triples(g.edges) \cup Triples(es)
    BY <1>5 DEF Triples
  <1>7. Triples(es) = Ports(h, m)
    <2>1. ToSet(es) = {es[p] : p \in 1 .. k}
      <3>1. DOMAIN es = 1 .. k
        BY <1>3
      <3>2. QED
        BY <3>1, Zenon DEF ToSet
    <2>2. \A t : t \in Triples(es) <=> \E p \in 1 .. k : t = <<es[p].from, es[p].to, es[p].to_port>>
      BY <2>1 DEF Triples
    <2>3. \A t : t \in Ports(h, m) <=> \E p \in 1 .. k : t = <<node.ins[p], m, p - 1>>
      BY <1>2, <1>3 DEF Ports
    <2>4. \A p \in 1 .. k : <<es[p].from, es[p].to, es[p].to_port>> = <<node.ins[p], m, p - 1>>
      BY <1>3
    <2>5. \A t : t \in Triples(es) <=> t \in Ports(h, m)
      BY <2>2, <2>3, <2>4
    <2>6. QED
      BY <2>5
  <1>8. \A v \in Ids(g) : Ports(h, v) = Ports(g, v)
    BY <1>2 DEF Ports
  <1>9. UNION {Ports(h, v) : v \in Ids(h)}
             = (UNION {Ports(g, v) : v \in Ids(g)}) \cup Ports(h, m)
    BY <1>2, <1>8
  <1>10. QED
    BY <1>4, <1>6, <1>7, <1>9 DEF Mirrors

\* A new node that consumes the head is the new head.
LEMMA ChainedAfterOp ==
    ASSUME NEW g, NEW node, node.ins \in Seq(Nat), node.op.kind # "Input",
           NEW head \in Ids(g), Chained(g, head), head \in ToSet(node.ins),
           ToSet(node.ins) \subseteq Ids(g),
           NEW m, m \notin Ids(g), \A v \in Ids(g) : v < m,
           NEW h, Ids(h) = Ids(g) \cup {m}, h.nodes[m] = node,
           \A v \in Ids(g) : h.nodes[v] = g.nodes[v]
    PROVE  Chained(h, m)
  <1>1. /\ Producers(h, m) = ToSet(node.ins) /\ ~IsInput(h, m)
        /\ \A v \in Ids(g) : Producers(h, v) = Producers(g, v) /\ (IsInput(h, v) <=> IsInput(g, v))
    BY DEF Producers, IsInput
  <1>2. Closed(g) /\ Heads(g) = IF IsInput(g, head) THEN {} ELSE {head}
    BY DEF Chained
  <1>3. Closed(h)
    BY <1>1, <1>2 DEF Closed
  <1>4. \A w : w \in Consumed(h) <=> w \in Consumed(g) \/ w \in ToSet(node.ins)
    <2>1. \A w : w \in Consumed(h) <=> \E v \in Ids(h) : w \in Producers(h, v)
      BY DEF Consumed
    <2>2. \A w : w \in Consumed(g) <=> \E v \in Ids(g) : w \in Producers(g, v)
      BY DEF Consumed
    <2>3. QED
      BY <1>1, <2>1, <2>2
  <1>5. m \notin Consumed(h)
    <2>1. \A w \in Consumed(g) : w \in Ids(g)
      BY <1>2 DEF Consumed, Closed
    <2>2. QED
      BY <1>4, <2>1
  <1>6. ASSUME NEW v \in Ids(g) PROVE v \notin Heads(h)
    <2>1. v \in Heads(h) => v \in Heads(g)
      BY <1>1, <1>4 DEF Heads
    <2>2. v \in Heads(g) => v = head
      BY <1>2
    <2>3. head \notin Heads(h)
      BY <1>4 DEF Heads
    <2>4. QED
      BY <2>1, <2>2, <2>3
  <1>7. m \in Heads(h)
    BY <1>1, <1>5 DEF Heads
  <1>8. Heads(h) = {m}
    BY <1>6, <1>7 DEF Heads
  <1>9. QED
    BY <1>1, <1>3, <1>8 DEF Chained

\* All operands are nodes of the graph.
Inside(g, operands) == \A p \in 1 .. Len(operands) : operands[p].id \in Ids(g)

\* push_op
LEMMA PushOpKeeps ==
    ASSUME NEW g, Sound(g), Mirrors(g), InitsNamed(g),
           NEW op, op.kind # "Input", NEW operands \in Seq(HandleType), NEW shape \in Nat \X Nat,
           NEW h, h = PushOp(g, op, operands, shape)
    PROVE  /\ Sound(h) /\ Grows(g, h) /\ g.n \in Nat /\ g.n \in Ids(h)
           /\ Mirrors(h) /\ InitsNamed(h)
           /\ Inside(g, operands) /\ EdgesJoin(g) => EdgesJoin(h)
           /\ Inside(g, operands) /\ operands # <<>> /\ operands[1].id \in Ids(g)
                 /\ Chained(g, operands[1].id) => Chained(h, g.n)
  <1>1. PICK m, node, f, es :
           /\ m = g.n
           /\ node = [op |-> op, ins |-> [p \in DOMAIN operands |-> operands[p].id],
                      dims |-> shape, name |-> NoName]
           /\ f = PushNode(g, node) /\ es = OpEdges(m, operands)
    OBVIOUS
  <1>2. m \in Nat
    BY <1>1 DEF Sound, Noded
  <1>3. PICK k : k = Len(operands)
    OBVIOUS
  <1>4. /\ Wired(m, operands, node, es)
        /\ node.op = op /\ node.ins \in Seq(Nat) /\ node.dims \in Seq(Nat)
        /\ k \in Nat /\ Len(node.ins) = k /\ Len(es) = k /\ es \in Seq(Edges)
        /\ \A p \in 1 .. k : /\ node.ins[p] = operands[p].id /\ es[p].from = operands[p].id
                             /\ es[p].to = m /\ es[p].to_port = p - 1
    <2>1. es = OpEdges(m, operands)
      BY <1>1
    <2>2. node = [op |-> op, ins |-> [p \in DOMAIN operands |-> operands[p].id],
                  dims |-> shape, name |-> NoName]
      BY <1>1
    <2>3. node.op = op /\ Wired(m, operands, node, es)
      BY <1>2, <2>1, <2>2, OpNodeIs
    <2>4. QED
      BY <1>3, <2>3 DEF Wired
  <1>5. Sound(f) /\ Grows(g, f) /\ Pushed(g, node, f)
    BY <1>1, <1>4, PushKeeps, PushIs
  <1>6. h = PushEdges(f, es)
    BY <1>1, Zenon DEF PushOp
  <1>7. /\ Sound(h) /\ h.n = f.n /\ h.nodes = f.nodes /\ h.refs = f.refs /\ h.inits = f.inits
        /\ h.edges = f.edges \o es
    BY <1>4, <1>5, <1>6, EdgesKeep
  <1>8. /\ f.edges = g.edges /\ f.inits = g.inits /\ m \notin Ids(g)
        /\ Ids(h) = Ids(g) \cup {m} /\ h.nodes[m] = node
        /\ \A v \in Ids(g) : h.nodes[v] = g.nodes[v]
    BY <1>1, <1>5, <1>7 DEF Pushed, Ids
  <1>9. Grows(g, h)
    BY <1>5, <1>7 DEF Grows
  <1>10. Mirrors(h)
    <2>1. Wired(g.n, operands, node, es) /\ Pushed(g, node, f)
      BY <1>1, <1>4, <1>5
    <2>2. h.n = f.n /\ h.nodes = f.nodes /\ h.refs = f.refs /\ h.edges = g.edges \o es
      BY <1>7, <1>8
    <2>3. QED
      BY <2>1, <2>2, MirrorsAfterOp
  <1>11. InitsNamed(h)
    <2>1. h.inits = g.inits
      BY <1>7, <1>8
    <2>2. \A v \in Ids(g) : v \in Ids(h) /\ (IsInput(h, v) <=> IsInput(g, v))
      BY <1>8 DEF IsInput
    <2>3. QED
      BY <1>8, <2>1, <2>2 DEF InitsNamed
  <1>12. ASSUME Inside(g, operands), EdgesJoin(g) PROVE EdgesJoin(h)
    <2>1. PICK T : T = Edges
      OBVIOUS
    <2>2. g.edges \in Seq(T) /\ es \in Seq(T)
      BY <1>4, <2>1 DEF Sound
    <2>3. ToSet(h.edges) = ToSet(g.edges) \cup ToSet(es)
      BY <1>7, <1>8, <2>2, JoinedSet
    <2>4. \A e \in ToSet(es) : {e.from, e.to} \subseteq Ids(h)
      <3>1. \A p \in 1 .. k : {es[p].from, es[p].to} \subseteq Ids(h)
        BY <1>3, <1>4, <1>8, <1>12 DEF Inside
      <3>2. \A e \in ToSet(es) : \E p \in 1 .. k : e = es[p]
        BY <1>4 DEF ToSet
      <3>3. QED
        BY <3>1, <3>2
    <2>5. QED
      BY <1>8, <1>12, <2>3, <2>4 DEF EdgesJoin
  <1>13. ASSUME Inside(g, operands), operands # <<>>, operands[1].id \in Ids(g),
                Chained(g, operands[1].id)
         PROVE  Chained(h, m)
    <2>1. PICK head : head = operands[1].id
      OBVIOUS
    <2>2. k # 0
      <3>1. PICK S : S = HandleType
        OBVIOUS
      <3>2. operands \in Seq(S)
        BY <3>1
      <3>3. QED
        BY <1>3, <1>13, <3>2
    <2>3. 1 \in 1 .. k
      BY <1>4, <2>2
    <2>4. head \in Ids(g) /\ Chained(g, head)
      BY <1>13, <2>1
    <2>5. /\ \A p \in 1 .. k : node.ins[p] \in ToSet(node.ins)
          /\ \A w \in ToSet(node.ins) : \E p \in 1 .. k : w = node.ins[p]
      BY <1>4 DEF ToSet
    <2>6. head \in ToSet(node.ins) /\ ToSet(node.ins) \subseteq Ids(g)
      <3>1. node.ins[1] = head
        BY <1>4, <2>1, <2>3
      <3>2. \A p \in 1 .. k : node.ins[p] \in Ids(g)
        BY <1>3, <1>4, <1>13 DEF Inside
      <3>3. QED
        BY <2>3, <2>5, <3>1, <3>2
    <2>7. node.op.kind # "Input"
      BY <1>4
    <2>8. \A v \in Ids(g) : v < m
      BY <1>1, <1>2 DEF Ids
    <2>9. QED
      BY <1>4, <1>8, <2>4, <2>6, <2>7, <2>8, ChainedAfterOp
  <1>14. QED
    BY <1>1, <1>2, <1>7, <1>8, <1>9, <1>10, <1>11, <1>12, <1>13

\* An operation on the head and perhaps another node.
LEMMA ApplyKeeps ==
    ASSUME BuilderInv, NEW b \in Builders, NEW op, op.kind # "Input",
           NEW operands \in Seq(HandleType), operands # <<>>, operands[1] = Current(b),
           \A p \in 1 .. Len(operands) : operands[p] = Current(b) \/ operands[p] \in handles,
           NEW shape \in Nat \X Nat, Apply(b, op, operands, shape)
    PROVE  BuilderInv'
  <1>1. PICK g, h : g = GraphOf(b) /\ h = PushOp(g, op, operands, shape)
    OBVIOUS
  <1>2. PICK s : s = [stage |-> "building", graph |-> h, current |-> g.n, shape |-> shape]
    OBVIOUS
  <1>3. /\ SlotInv(slots[b], b \in mixed) /\ slots[b].stage = "building" /\ slots[b].graph = g
        /\ InUse(slots[b])
    BY <1>1 DEF Apply, BuilderInv, GraphOf, InUse
  <1>4. /\ Sound(g) /\ Mirrors(g) /\ InitsNamed(g)
        /\ slots[b].current \in Ids(g)
        /\ slots[b] = [stage |-> slots[b].stage, graph |-> slots[b].graph,
                       current |-> slots[b].current, shape |-> slots[b].shape]
    BY <1>3 DEF SlotInv, IsSlot
  <1>5. slots' = [slots EXCEPT ![b] = s]
    BY <1>1, <1>2, Zenon DEF Apply, NewHead
  <1>6. /\ Sound(h) /\ Grows(g, h) /\ g.n \in Nat /\ g.n \in Ids(h)
        /\ Mirrors(h) /\ InitsNamed(h)
        /\ Inside(g, operands) /\ EdgesJoin(g) => EdgesJoin(h)
        /\ Inside(g, operands) /\ operands # <<>> /\ operands[1].id \in Ids(g)
              /\ Chained(g, operands[1].id) => Chained(h, g.n)
    BY <1>1, <1>4, PushOpKeeps
  <1>7. operands[1].id = slots[b].current /\ Current(b).of = b
    BY DEF Current, Handle
  <1>8. b \notin mixed' => b \notin mixed /\ Inside(g, operands)
    <2> SUFFICES ASSUME b \notin mixed' PROVE b \notin mixed /\ Inside(g, operands)
      OBVIOUS
    <2>1. b \notin mixed /\ \A k \in ToSet(operands) : k.of = b
      BY DEF Apply
    <2>2. \A p \in 1 .. Len(operands) : operands[p] \in ToSet(operands)
      <3>1. PICK S : S = HandleType
        OBVIOUS
      <3>2. operands \in Seq(S)
        BY <3>1
      <3>3. QED
        BY <3>2, Members
    <2>3. ASSUME NEW p \in 1 .. Len(operands) PROVE operands[p].id \in Ids(g)
      <3>1. CASE operands[p] = Current(b)
        BY <1>4, <3>1 DEF Current, Handle
      <3>2. CASE operands[p] \in handles
        <4>1. operands[p].of = b
          BY <2>1, <2>2
        <4>2. operands[p].id \in Ids(GraphOf(operands[p].of))
          BY <3>2 DEF BuilderInv
        <4>3. QED
          BY <1>1, <4>1, <4>2
      <3>3. QED
        BY <3>1, <3>2
    <2>4. QED
      BY <2>1, <2>3 DEF Inside
  <1>9. b \notin mixed' => EdgesJoin(h) /\ Chained(h, g.n)
    <2>1. b \notin mixed => EdgesJoin(g) /\ Chained(g, slots[b].current)
      BY <1>3 DEF SlotInv
    <2>2. QED
      BY <1>4, <1>6, <1>7, <1>8, <2>1
  <1>10. SlotInv(s, b \in mixed')
    <2>1. s.stage = "building" /\ s.graph = h /\ s.current = g.n /\ s.shape = shape
      BY <1>2
    <2>2. IsSlot(s)
      BY <1>2, <1>6, <2>1 DEF IsSlot, InUse
    <2>3. QED
      BY <1>6, <1>9, <2>1, <2>2 DEF SlotInv
  <1>11. \A k \in handles' : \/ k \in handles
                             \/ k \in HandleType /\ k.of = b /\ k.id \in Ids(s.graph)
    BY <1>1, <1>2, <1>6 DEF Apply, Handle, HandleType, NewHead
  <1>12. (mixed' = mixed \/ mixed' = mixed \cup {b}) /\ weights' = weights /\ edits' \in Nat
    BY DEF Apply, BuilderInv
  <1>13. Grows(GraphOf(b), s.graph)
    BY <1>1, <1>2, <1>6
  <1>14. QED
    BY <1>5, <1>10, <1>11, <1>12, <1>13, OneSlot

\* mat_mul_with and add take another node; the rest work on the head alone.
LEMMA OperationsKeep ==
    ASSUME BuilderInv, NEW b \in Builders,
           \/ \E rhs \in handles : MatMulWith(b, rhs)
           \/ \E rhs \in handles : AddOf(b, rhs)
           \/ \E op \in UnaryOps : UnaryOp(b, op)
           \/ \E perm \in {<<0, 1>>, <<1, 0>>} : TransposeBy(b, perm)
    PROVE  BuilderInv'
  <1>1. slots[b].stage = "building"
    BY DEF MatMulWith, AddOf, UnaryOp, TransposeBy, Apply
  <1>2. PICK head, shape : head = Current(b) /\ shape = slots[b].shape
    OBVIOUS
  <1>3. shape \in Nat \X Nat /\ head \in HandleType
    <2>1. IsSlot(slots[b]) /\ InUse(slots[b])
      BY <1>1 DEF BuilderInv, SlotInv, InUse
    <2>2. shape \in Nat \X Nat /\ slots[b].current \in Ids(slots[b].graph)
      BY <1>2, <2>1 DEF IsSlot
    <2>3. slots[b].current \in Nat
      BY <2>1, <2>2 DEF Ids, IsSlot, Sound, Noded
    <2>4. QED
      BY <1>2, <2>2, <2>3 DEF Current, Handle, HandleType
  <1>4. \A rhs \in handles : rhs \in HandleType /\ rhs.shape \in Nat \X Nat
    BY DEF BuilderInv, HandleType
  <1>5. PICK m \in Nat, k \in Nat : shape = <<m, k>>
    BY <1>3
  <1>6. ASSUME NEW rhs \in handles, NEW op, op.kind # "Input", NEW result \in Nat \X Nat,
               Apply(b, op, <<Current(b), rhs>>, result)
        PROVE  BuilderInv'
    <2>1. PICK operands : operands = <<Current(b), rhs>>
      OBVIOUS
    <2>2. /\ operands \in Seq(HandleType) /\ operands # <<>> /\ operands[1] = Current(b)
          /\ \A p \in 1 .. Len(operands) : operands[p] = Current(b) \/ operands[p] \in handles
      <3>1. PICK S : S = HandleType
        OBVIOUS
      <3>2. Current(b) \in S /\ rhs \in S
        BY <1>2, <1>3, <1>4, <3>1
      <3>3. operands \in Seq(S) /\ Len(operands) = 2
        BY <2>1, <3>2
      <3>4. operands[1] = Current(b) /\ operands[2] = rhs
        BY <2>1
      <3>5. QED
        BY <3>1, <3>3, <3>4
    <2>3. Apply(b, op, operands, result)
      BY <1>6, <2>1
    <2>4. QED
      BY <1>6, <2>2, <2>3, ApplyKeeps
  <1>7. ASSUME NEW op, op.kind # "Input", NEW result \in Nat \X Nat,
               Apply(b, op, <<Current(b)>>, result)
        PROVE  BuilderInv'
    <2>1. PICK operands : operands = <<Current(b)>>
      OBVIOUS
    <2>2. /\ operands \in Seq(HandleType) /\ operands # <<>> /\ operands[1] = Current(b)
          /\ \A p \in 1 .. Len(operands) : operands[p] = Current(b) \/ operands[p] \in handles
      <3>1. PICK S : S = HandleType
        OBVIOUS
      <3>2. Current(b) \in S
        BY <1>2, <1>3, <3>1
      <3>3. operands \in Seq(S) /\ Len(operands) = 1
        BY <2>1, <3>2
      <3>4. operands[1] = Current(b) /\ operands # <<>>
        BY <2>1
      <3>5. \A p \in 1 .. Len(operands) : p = 1
        BY <3>3
      <3>6. QED
        BY <3>1, <3>3, <3>4, <3>5
    <2>3. Apply(b, op, operands, result)
      BY <1>7, <2>1
    <2>4. QED
      BY <1>7, <2>2, <2>3, ApplyKeeps
  <1>8. ASSUME NEW rhs \in handles, MatMulWith(b, rhs) PROVE BuilderInv'
    <2>1. PICK op, result : /\ op = [kind |-> "MatMul"]
                            /\ result = MatMulShape(slots[b].shape, rhs.shape)
      OBVIOUS
    <2>2. PICK k2 \in Nat, n \in Nat : rhs.shape = <<k2, n>>
      BY <1>4
    <2>3. result \in Nat \X Nat
      <3>1. result = <<shape[1], rhs.shape[2]>>
        BY <1>2, <2>1 DEF MatMulShape
      <3>2. shape[1] = m /\ rhs.shape[2] = n
        BY <1>5, <2>2
      <3>3. QED
        BY <3>1, <3>2
    <2>4. op.kind # "Input" /\ Apply(b, op, <<Current(b), rhs>>, result)
      BY <1>8, <2>1 DEF MatMulWith
    <2>5. QED
      BY <1>6, <2>3, <2>4
  <1>9. ASSUME NEW rhs \in handles, AddOf(b, rhs) PROVE BuilderInv'
    <2>1. PICK op : op = [kind |-> "Add"]
      OBVIOUS
    <2>2. op.kind # "Input" /\ Apply(b, op, <<Current(b), rhs>>, shape)
      BY <1>2, <1>9, <2>1 DEF AddOf
    <2>3. QED
      BY <1>3, <1>6, <2>2
  <1>10. ASSUME NEW op \in UnaryOps, UnaryOp(b, op) PROVE BuilderInv'
    <2>1. op.kind # "Input"
      BY DEF UnaryOps
    <2>2. Apply(b, op, <<Current(b)>>, shape)
      BY <1>2, <1>10 DEF UnaryOp
    <2>3. QED
      BY <1>3, <1>7, <2>1, <2>2
  <1>11. ASSUME NEW perm \in {<<0, 1>>, <<1, 0>>}, TransposeBy(b, perm) PROVE BuilderInv'
    <2>1. PICK op, result : /\ op = [kind |-> "Transpose", perm |-> perm]
                            /\ result = TransposeShape(slots[b].shape, perm)
      OBVIOUS
    <2>2. result \in Nat \X Nat
      <3>1. /\ perm[1] \in {0, 1} /\ perm[2] \in {0, 1}
            /\ At(shape, 0) = m /\ At(shape, 1) = k
        BY <1>5 DEF At
      <3>2. result = <<At(shape, perm[1]), At(shape, perm[2])>>
        BY <1>2, <2>1 DEF TransposeShape
      <3>3. At(shape, perm[1]) \in Nat /\ At(shape, perm[2]) \in Nat
        BY <3>1
      <3>4. QED
        BY <3>2, <3>3
    <2>3. op.kind # "Input" /\ Apply(b, op, <<Current(b)>>, result)
      BY <1>11, <2>1 DEF TransposeBy
    <2>4. QED
      BY <1>7, <2>2, <2>3
  <1>12. QED
    BY <1>8, <1>9, <1>10, <1>11

\* into_graph: what infer_outputs finds is the head.
LEMMA IntoGraphKeeps ==
    ASSUME BuilderInv, NEW b \in Builders, IntoGraph(b)
    PROVE  BuilderInv'
  <1>1. PICK g, h : g = GraphOf(b) /\ h = InferOutputs(g)
    OBVIOUS
  <1>2. PICK head, shape : head = slots[b].current /\ shape = slots[b].shape
    OBVIOUS
  <1>3. PICK s : s = [stage |-> "built", graph |-> h, current |-> head, shape |-> shape]
    OBVIOUS
  <1>4. /\ SlotInv(slots[b], b \in mixed) /\ slots[b].stage = "building" /\ slots[b].graph = g
        /\ InUse(slots[b]) /\ IsSlot(slots[b])
    BY <1>1 DEF IntoGraph, BuilderInv, GraphOf, InUse, SlotInv
  <1>5. /\ Sound(g) /\ Mirrors(g) /\ InitsNamed(g) /\ head \in Ids(g) /\ shape \in Nat \X Nat
        /\ slots[b] = [stage |-> "building", graph |-> g, current |-> head, shape |-> shape]
    BY <1>2, <1>4 DEF SlotInv, IsSlot
  <1>6. slots' = [slots EXCEPT ![b] = s]
    <2>1. slots = [c \in Builders |-> slots[c]]
      BY DEF BuilderInv
    <2>2. [[slots EXCEPT ![b].stage = "built"] EXCEPT ![b].graph = h] = [slots EXCEPT ![b] = s]
      <3>1. PICK t : t = [stage |-> "built", graph |-> g, current |-> head, shape |-> shape]
        OBVIOUS
      <3>2. [slots[b] EXCEPT !.stage = "built"] = t /\ [t EXCEPT !.graph = h] = s
        BY <1>3, <1>5, <3>1
      <3>3. [slots EXCEPT ![b].stage = "built"] = [slots EXCEPT ![b] = t]
        BY <3>2
      <3>4. PICK mid : mid = [slots EXCEPT ![b] = t]
        OBVIOUS
      <3>5. mid[b] = t /\ mid = [c \in Builders |-> IF c = b THEN t ELSE slots[c]]
        BY <2>1, <3>4
      <3>6. [mid EXCEPT ![b].graph = h] = [mid EXCEPT ![b] = s]
        BY <3>2, <3>5
      <3>7. [mid EXCEPT ![b] = s] = [slots EXCEPT ![b] = s]
        BY <2>1, <3>5
      <3>8. QED
        BY <3>3, <3>4, <3>6, <3>7, Zenon
    <2>3. slots' = [[slots EXCEPT ![b].stage = "built"] EXCEPT ![b].graph = h]
      BY <1>1, Zenon DEF IntoGraph, GraphOf
    <2>4. QED
      BY <2>2, <2>3
  <1>7. /\ Sound(h) /\ Grows(g, h)
        /\ h.n = g.n /\ h.nodes = g.nodes /\ h.refs = g.refs /\ h.inits = g.inits
        /\ h.edges = g.edges
        /\ h.outputs \in Seq(Ids(g)) /\ Distinct(h.outputs) /\ ToSet(h.outputs) = Heads(g)
    BY <1>1, <1>5, InferKeeps
  <1>8. /\ Ids(h) = Ids(g) /\ \A v : IsInput(h, v) <=> IsInput(g, v)
        /\ \A v : Producers(h, v) = Producers(g, v)
        /\ \A v : Ports(h, v) = Ports(g, v)
    BY <1>7 DEF Ids, IsInput, Producers, Ports
  <1>9. Mirrors(h) /\ InitsNamed(h) /\ Heads(h) = Heads(g)
    BY <1>5, <1>7, <1>8 DEF Mirrors, InitsNamed, Heads, Consumed
  <1>10. EdgesJoin(g) => EdgesJoin(h)
    BY <1>7, <1>8 DEF EdgesJoin
  <1>11. Chained(g, head) => Chained(h, head)
    BY <1>8, <1>9 DEF Chained, Closed
  <1>12. ASSUME Chained(g, head)
         PROVE  h.outputs = IF IsInput(h, head) THEN <<>> ELSE <<head>>
    <2>1. PICK I, x : I = Ids(g) /\ x = h.outputs
      OBVIOUS
    <2>2. /\ x \in Seq(I) /\ Distinct(x)
          /\ ToSet(x) = IF IsInput(h, head) THEN {} ELSE {head}
      BY <1>7, <1>8, <1>12, <2>1 DEF Chained
    <2>3. /\ \A a \in 1 .. Len(x) : x[a] \in ToSet(x)
          /\ \A w \in ToSet(x) : \E a \in 1 .. Len(x) : x[a] = w
      BY <2>2, Members
    <2>4. Len(x) \in Nat /\ \A a, c \in 1 .. Len(x) : x[a] = x[c] => a = c
      BY <2>2 DEF Distinct
    <2>5. CASE IsInput(h, head)
      <3>1. Len(x) = 0
        BY <2>2, <2>3, <2>4, <2>5
      <3>2. x = <<>>
        BY <2>2, <3>1
      <3>3. QED
        BY <2>1, <2>5, <3>2
    <2>6. CASE ~IsInput(h, head)
      <3>1. \A a \in 1 .. Len(x) : x[a] = head
        BY <2>2, <2>3, <2>6
      <3>2. \E a \in 1 .. Len(x) : x[a] = head
        BY <2>2, <2>3, <2>6
      <3>3. Len(x) = 1
        <4>1. Len(x) >= 1
          BY <2>4, <3>2
        <4>2. Len(x) >= 2 => 1 \in 1 .. Len(x) /\ 2 \in 1 .. Len(x)
          BY <2>4
        <4>3. ~(Len(x) >= 2)
          BY <2>4, <3>1, <4>2
        <4>4. QED
          BY <2>4, <4>1, <4>3
      <3>4. x = <<head>>
        BY <2>2, <3>1, <3>3
      <3>5. QED
        BY <2>1, <2>6, <3>4
    <2>7. QED
      BY <2>5, <2>6
  <1>13. SlotInv(s, b \in mixed)
    <2>1. s.stage = "built" /\ s.graph = h /\ s.current = head /\ s.shape = shape
      BY <1>3
    <2>2. IsSlot(s)
      BY <1>3, <1>5, <1>7, <1>8, <2>1 DEF IsSlot, InUse
    <2>3. b \notin mixed => EdgesJoin(g) /\ Chained(g, head)
      BY <1>2, <1>4 DEF SlotInv
    <2>4. QED
      BY <1>9, <1>10, <1>11, <1>12, <2>1, <2>2, <2>3 DEF SlotInv
  <1>14. handles' = handles /\ mixed' = mixed /\ weights' = weights /\ edits' \in Nat
    BY DEF IntoGraph, BuilderInv
  <1>15. Grows(GraphOf(b), s.graph)
    BY <1>1, <1>3, <1>7
  <1>16. SlotInv(s, b \in mixed')
    BY <1>13, <1>14
  <1>17. QED
    BY <1>6, <1>14, <1>15, <1>16, OneSlot

-----------------------------------------------------------------------------
(* The dynamic API *)

\* ComputationGraph::new
LEMMA NewKeeps ==
    ASSUME BuilderInv, NEW b \in Builders, New(b)
    PROVE  BuilderInv'
  <1>1. PICK s : s = [stage |-> "edited", graph |-> EmptyGraph, current |-> NoNode, shape |-> <<>>]
    OBVIOUS
  <1>2. slots[b] = Unused /\ GraphOf(b) = EmptyGraph
    <2>1. slots[b].stage = "none" /\ IsSlot(slots[b])
      BY DEF New, BuilderInv, SlotInv
    <2>2. slots[b] = Unused
      BY <2>1 DEF IsSlot
    <2>3. QED
      BY <2>2 DEF GraphOf, Unused
  <1>3. slots' = [slots EXCEPT ![b] = s]
    <2>1. slots' = [slots EXCEPT ![b].stage = "edited"]
      BY DEF New
    <2>2. [slots[b] EXCEPT !.stage = "edited"] = s
      BY <1>1, <1>2 DEF Unused
    <2>3. QED
      BY <2>1, <2>2
  <1>4. Sound(EmptyGraph) /\ Grows(EmptyGraph, EmptyGraph)
    BY EmptyIsSound, SameGrows
  <1>5. EdgesJoin(EmptyGraph)
    BY DEF EdgesJoin, EmptyGraph, ToSet
  <1>6. SlotInv(s, b \in mixed')
    <2>1. s.stage = "edited" /\ s.graph = EmptyGraph /\ s.current = NoNode
      BY <1>1
    <2>2. IsSlot(s)
      BY <1>1, <1>4, <2>1 DEF IsSlot, InUse
    <2>3. QED
      BY <1>5, <2>1, <2>2 DEF SlotInv, InUse
  <1>7. handles' = handles /\ mixed' = mixed /\ weights' = weights /\ edits' \in Nat
    BY DEF New, BuilderInv
  <1>8. Grows(GraphOf(b), s.graph)
    BY <1>1, <1>2, <1>4
  <1>9. QED
    BY <1>3, <1>6, <1>7, <1>8, OneSlot

\* An edit that is refused leaves the slot; one that is accepted may do to the
\* graph what keeps it sound.
LEMMA EditKeeps ==
    ASSUME BuilderInv, NEW b \in Builders, NEW result, Edit(b, result),
           \/ result.err # None /\ result.graph = GraphOf(b)
           \/ /\ result.err = None
              /\ Sound(result.graph) /\ Grows(GraphOf(b), result.graph)
              /\ EdgesJoin(GraphOf(b)) => EdgesJoin(result.graph)
    PROVE  BuilderInv'
  <1>1. PICK stage, g, head, shape :
           /\ stage = slots[b].stage /\ g = slots[b].graph
           /\ head = slots[b].current /\ shape = slots[b].shape
    OBVIOUS
  <1>2. PICK h, after, s :
           /\ h = result.graph /\ after = IF result.err = None THEN "edited" ELSE stage
           /\ s = [stage |-> after, graph |-> h, current |-> head, shape |-> shape]
    OBVIOUS
  <1>3. /\ SlotInv(slots[b], b \in mixed) /\ IsSlot(slots[b]) /\ GraphOf(b) = g
        /\ slots[b] = [stage |-> stage, graph |-> g, current |-> head, shape |-> shape]
        /\ Sound(g)
    BY <1>1 DEF BuilderInv, SlotInv, IsSlot, GraphOf
  <1>4. slots' = [slots EXCEPT ![b] = s]
    <2>1. slots = [c \in Builders |-> slots[c]]
      BY DEF BuilderInv
    <2>2. PICK t : t = [stage |-> stage, graph |-> h, current |-> head, shape |-> shape]
      OBVIOUS
    <2>3. PICK mid : mid = [slots EXCEPT ![b].graph = h]
      OBVIOUS
    <2>4. mid = [slots EXCEPT ![b] = t]
      <3>1. [slots[b] EXCEPT !.graph = h] = t
        BY <1>3, <2>2
      <3>2. QED
        BY <2>3, <3>1
    <2>5. mid[b] = t /\ mid = [c \in Builders |-> IF c = b THEN t ELSE slots[c]]
      BY <2>1, <2>4
    <2>6. [mid EXCEPT ![b].stage = IF result.err = None THEN "edited" ELSE @] = [mid EXCEPT ![b] = s]
      <3>1. t.stage = stage
        BY <2>2
      <3>2. [mid EXCEPT ![b].stage = IF result.err = None THEN "edited" ELSE @]
              = [mid EXCEPT ![b] = [t EXCEPT !.stage = after]]
        BY <1>2, <2>5, <3>1
      <3>3. [t EXCEPT !.stage = after] = s
        BY <1>2, <2>2
      <3>4. QED
        BY <3>2, <3>3
    <2>7. [mid EXCEPT ![b] = s] = [slots EXCEPT ![b] = s]
      BY <2>1, <2>5
    <2>8. slots' = [mid EXCEPT ![b].stage = IF result.err = None THEN "edited" ELSE @]
      BY <1>2, <2>3, Zenon DEF Edit
    <2>9. QED
      BY <2>6, <2>7, <2>8, Zenon
  <1>5. SlotInv(s, b \in mixed) /\ Grows(g, h)
    <2>1. CASE result.err # None /\ result.graph = GraphOf(b)
      <3>1. h = g /\ s = slots[b]
        BY <1>1, <1>2, <1>3, <2>1
      <3>2. Grows(g, g)
        BY <1>3, SameGrows
      <3>3. QED
        BY <1>3, <3>1, <3>2
    <2>2. CASE /\ result.err = None
               /\ Sound(result.graph) /\ Grows(GraphOf(b), result.graph)
               /\ EdgesJoin(GraphOf(b)) => EdgesJoin(result.graph)
      <3>1. Sound(h) /\ Grows(g, h) /\ (EdgesJoin(g) => EdgesJoin(h))
        BY <1>2, <1>3, <2>2
      <3>2. s = [stage |-> "edited", graph |-> h, current |-> head, shape |-> shape]
        BY <1>2, <2>2
      <3>3. s.stage = "edited" /\ s.graph = h /\ s.current = head
        BY <3>2
      <3>4. head \in {NoNode} \cup Ids(h)
        <4>1. head \in {NoNode} \cup Ids(g)
          BY <1>1, <1>3 DEF IsSlot
        <4>2. Ids(g) \subseteq Ids(h)
          BY <1>3, <3>1, HeldInGrown
        <4>3. QED
          BY <4>1, <4>2
      <3>5. IsSlot(s)
        BY <3>1, <3>2, <3>3, <3>4 DEF IsSlot, InUse
      <3>6. b \notin mixed => EdgesJoin(h)
        BY <1>1, <1>3, <3>1 DEF SlotInv
      <3>7. QED
        BY <3>1, <3>3, <3>5, <3>6 DEF SlotInv, InUse
    <2>3. QED
      BY <2>1, <2>2
  <1>6. handles' = handles /\ mixed' = mixed /\ weights' = weights /\ edits' \in Nat
    BY DEF Edit, BuilderInv
  <1>7. Grows(GraphOf(b), s.graph)
    BY <1>2, <1>3, <1>5
  <1>8. SlotInv(s, b \in mixed')
    BY <1>5, <1>6
  <1>9. QED
    BY <1>4, <1>6, <1>7, <1>8, OneSlot

\* The edits of the dynamic API.
LEMMA EditsKeep ==
    ASSUME BuilderInv, NEW b \in Builders,
           \/ EditAddNode(b) \/ EditAddEdge(b) \/ EditMarkInput(b) \/ EditMarkOutput(b)
           \/ EditAddInitializer(b) \/ EditInferOutputs(b)
    PROVE  BuilderInv'
  <1>1. PICK g : g = GraphOf(b)
    OBVIOUS
  <1>2. Sound(g) /\ g.n \in Nat
    BY <1>1 DEF BuilderInv, SlotInv, IsSlot, Sound, Noded, GraphOf
  <1>3. ASSUME NEW h, h.n = g.n, h.edges = g.edges, EdgesJoin(g)
        PROVE  EdgesJoin(h)
    BY <1>3 DEF EdgesJoin, Ids
  <1>4. ASSUME EditAddNode(b) PROVE BuilderInv'
    <2>1. PICK id \in {0, g.n}, node \in NewNodes(b) : Edit(b, AddNode(g, id, node))
      BY <1>1, <1>4, Zenon DEF EditAddNode
    <2>2. node.ins \in Seq(Nat) /\ node.dims \in Seq(Nat)
      <3>1. CASE node \in {InputNode(dims, NoName) : dims \in EditShapes}
        <4>1. PICK dims \in EditShapes : node = InputNode(dims, NoName)
          BY <3>1
        <4>2. node.ins = <<>> /\ node.dims = dims
          BY <4>1 DEF InputNode
        <4>3. QED
          BY <4>2, BuilderAssumption
      <3>2. CASE \E v \in Targets(b), dims \in EditShapes :
                    node = [op |-> [kind |-> "Relu"], ins |-> <<v>>, dims |-> dims, name |-> NoName]
        <4>1. PICK v \in Targets(b), dims \in EditShapes :
                    node = [op |-> [kind |-> "Relu"], ins |-> <<v>>, dims |-> dims, name |-> NoName]
          BY <3>2
        <4>2. v \in Nat
          BY <1>1, <1>2 DEF Targets
        <4>3. node.ins = <<v>> /\ node.dims = dims
          BY <4>1
        <4>4. <<v>> \in Seq(Nat)
          BY <4>2
        <4>5. QED
          BY <4>3, <4>4, BuilderAssumption
      <3>3. QED
        BY <3>1, <3>2 DEF NewNodes
    <2>3. PICK result : result = AddNode(g, id, node)
      OBVIOUS
    <2>4. \/ result.err # None /\ result.graph = g
          \/ result.err = None /\ result.graph = PushNode(g, node)
      BY <2>3 DEF AddNode, Accepts, Refuses, None
    <2>5. PICK h : h = PushNode(g, node)
      OBVIOUS
    <2>6. Sound(h) /\ Grows(g, h) /\ Pushed(g, node, h)
      BY <1>2, <2>2, <2>5, PushKeeps, PushIs
    <2>7. EdgesJoin(g) => EdgesJoin(h)
      BY <2>6 DEF Pushed, EdgesJoin
    <2>8. \/ result.err # None /\ result.graph = GraphOf(b)
          \/ /\ result.err = None
             /\ Sound(result.graph) /\ Grows(GraphOf(b), result.graph)
             /\ EdgesJoin(GraphOf(b)) => EdgesJoin(result.graph)
      BY <1>1, <2>4, <2>5, <2>6, <2>7
    <2>9. QED
      BY <2>1, <2>3, <2>8, EditKeeps
  <1>5. ASSUME EditAddEdge(b) PROVE BuilderInv'
    <2>1. PICK u \in Targets(b), v \in Targets(b), dims \in EditShapes :
             Edit(b, AddEdge(g, [from |-> u, to |-> v, to_port |-> 0, dims |-> dims]))
      BY <1>1, <1>5 DEF EditAddEdge
    <2>2. PICK edge, result : /\ edge = [from |-> u, to |-> v, to_port |-> 0, dims |-> dims]
                              /\ result = AddEdge(g, edge)
      OBVIOUS
    <2>3. PICK T, es : T = Edges /\ es = <<edge>>
      OBVIOUS
    <2>4. edge \in Edges
      <3>1. u \in Nat /\ v \in Nat
        BY <1>1, <1>2 DEF Targets
      <3>2. QED
        BY <2>2, <3>1, BuilderAssumption DEF Edges
    <2>5. es \in Seq(T) /\ es \in Seq(Edges)
      <3>1. edge \in T
        BY <2>3, <2>4
      <3>2. es \in Seq(T)
        BY <2>3, <3>1
      <3>3. QED
        BY <2>3, <3>2
    <2>6. PICK h : h = PushEdges(g, es)
      OBVIOUS
    <2>7. Sound(h) /\ Grows(g, h) /\ h.n = g.n /\ h.edges = g.edges \o es
      BY <1>2, <2>5, <2>6, EdgesKeep
    <2>8. \/ result.err # None /\ result.graph = g
          \/ /\ result.err = None /\ result.graph = h
             /\ {edge.from, edge.to} \subseteq Ids(g)
      BY <2>2, <2>3, <2>6 DEF AddEdge, Accepts, Refuses, None
    <2>9. ASSUME EdgesJoin(g), {edge.from, edge.to} \subseteq Ids(g) PROVE EdgesJoin(h)
      <3>1. g.edges \in Seq(T)
        BY <1>2, <2>3 DEF Sound
      <3>2. ToSet(h.edges) = ToSet(g.edges) \cup ToSet(es)
        BY <2>5, <2>7, <3>1, JoinedSet
      <3>3. ToSet(es) = {edge}
        BY <2>3 DEF ToSet
      <3>4. Ids(h) = Ids(g)
        BY <2>7 DEF Ids
      <3>5. QED
        BY <2>9, <3>2, <3>3, <3>4 DEF EdgesJoin
    <2>10. \/ result.err # None /\ result.graph = GraphOf(b)
           \/ /\ result.err = None
              /\ Sound(result.graph) /\ Grows(GraphOf(b), result.graph)
              /\ EdgesJoin(GraphOf(b)) => EdgesJoin(result.graph)
      BY <1>1, <2>7, <2>8, <2>9
    <2>11. QED
      BY <2>1, <2>2, <2>10, EditKeeps
  <1>6. ASSUME EditMarkInput(b) \/ EditMarkOutput(b) PROVE BuilderInv'
    <2>1. PICK v, result : /\ Edit(b, result)
                           /\ result = MarkInput(g, v) \/ result = MarkOutput(g, v)
      BY <1>1, <1>6 DEF EditMarkInput, EditMarkOutput
    <2>2. PICK hi, ho : /\ hi = [g EXCEPT !.inputs = Mark(@, v)]
                        /\ ho = [g EXCEPT !.outputs = Mark(@, v)]
      OBVIOUS
    <2>3. \/ result.err # None /\ result.graph = g
          \/ result.err = None /\ v \in Ids(g) /\ result.graph \in {hi, ho}
      BY <2>1, <2>2 DEF MarkInput, MarkOutput, Accepts, Refuses, None
    <2>4. ASSUME v \in Ids(g), NEW h \in {hi, ho}
          PROVE  Sound(h) /\ Grows(g, h) /\ h.n = g.n /\ h.edges = g.edges
      <3>1. h = [g EXCEPT !.inputs = Mark(@, v)] \/ h = [g EXCEPT !.outputs = Mark(@, v)]
        BY <2>2, <2>4
      <3>2. QED
        BY <1>2, <2>4, <3>1, MarksKeep
    <2>5. \/ result.err # None /\ result.graph = GraphOf(b)
          \/ /\ result.err = None
             /\ Sound(result.graph) /\ Grows(GraphOf(b), result.graph)
             /\ EdgesJoin(GraphOf(b)) => EdgesJoin(result.graph)
      BY <1>1, <1>3, <2>3, <2>4
    <2>6. QED
      BY <2>1, <2>5, EditKeeps
  <1>7. ASSUME EditAddInitializer(b) PROVE BuilderInv'
    <2>1. PICK name \in Names, dims \in EditShapes, len \in {1, 2} :
             Edit(b, AddInitializer(g, [name |-> name, dims |-> dims, len |-> len]))
      BY <1>1, <1>7 DEF EditAddInitializer
    <2>2. PICK init, result : /\ init = [name |-> name, dims |-> dims, len |-> len]
                              /\ result = AddInitializer(g, init)
      OBVIOUS
    <2>4. PICK h : h = [g EXCEPT !.inits = Append(@, init)]
      OBVIOUS
    <2>5. Sound(h) /\ Grows(g, h) /\ h.n = g.n /\ h.edges = g.edges
      BY ONLY <1>2, <2>4, InitKeeps, ZenonT(60)
    <2>6. \/ result.err # None /\ result.graph = g
          \/ result.err = None /\ result.graph = h
      BY <2>2, <2>4, AddInitializerIs
    <2>7. \/ result.err # None /\ result.graph = GraphOf(b)
          \/ /\ result.err = None
             /\ Sound(result.graph) /\ Grows(GraphOf(b), result.graph)
             /\ EdgesJoin(GraphOf(b)) => EdgesJoin(result.graph)
      BY <1>1, <1>3, <2>5, <2>6
    <2>8. QED
      BY <2>1, <2>2, <2>7, EditKeeps
  <1>8. ASSUME EditInferOutputs(b) PROVE BuilderInv'
    <2>1. PICK h, result : h = InferOutputs(g) /\ result = Accepts(h)
      OBVIOUS
    <2>2. Sound(h) /\ Grows(g, h) /\ h.n = g.n /\ h.edges = g.edges
      BY <1>2, <2>1, InferKeeps
    <2>3. /\ result.err = None
          /\ Sound(result.graph) /\ Grows(GraphOf(b), result.graph)
          /\ EdgesJoin(GraphOf(b)) => EdgesJoin(result.graph)
      BY <1>1, <1>3, <2>1, <2>2 DEF Accepts
    <2>4. Edit(b, result)
      BY <1>1, <1>8, <2>1 DEF EditInferOutputs
    <2>5. QED
      BY <2>3, <2>4, EditKeeps
  <1>9. QED
    BY <1>4, <1>5, <1>6, <1>7, <1>8

-----------------------------------------------------------------------------
(* The invariant *)

\* No builder is in use.
LEMMA InitBuilderInv == Init => BuilderInv
  <1> SUFFICES ASSUME Init PROVE BuilderInv
    OBVIOUS
  <1>1. /\ slots = [b \in Builders |-> Unused] /\ handles = {} /\ weights = {} /\ mixed = {}
        /\ edits = 0
    BY DEF Init
  <1>2. slots = [b \in Builders |-> slots[b]] /\ \A b \in Builders : slots[b] = Unused
    BY <1>1
  <1>3. SlotInv(Unused, FALSE)
    <2>1. /\ Unused.stage = "none" /\ Unused.graph = EmptyGraph /\ Unused.current = NoNode
          /\ Unused = [stage |-> "none", graph |-> EmptyGraph, current |-> NoNode, shape |-> <<>>]
      BY DEF Unused
    <2>2. EdgesJoin(EmptyGraph)
      BY DEF EdgesJoin, EmptyGraph, ToSet
    <2>3. IsSlot(Unused)
      BY <2>1, EmptyIsSound DEF IsSlot, InUse, Unused
    <2>4. QED
      BY <2>1, <2>2, <2>3 DEF SlotInv, InUse
  <1>4. \A b \in Builders : SlotInv(slots[b], b \in mixed)
    BY <1>1, <1>2, <1>3 DEF SlotInv
  <1>5. QED
    BY <1>1, <1>2, <1>4 DEF BuilderInv

\* Every call keeps the invariant.
LEMMA StepKeepsBuilderInv == BuilderInv /\ [Next]_vars => BuilderInv'
  <1> SUFFICES ASSUME BuilderInv, [Next]_vars PROVE BuilderInv'
    OBVIOUS
  <1>1. CASE UNCHANGED vars
    BY <1>1 DEF vars, BuilderInv, GraphOf
  <1>2. CASE Next
    <2>1. PICK b \in Builders :
             \/ \E shape \in Shapes, name \in Names :
                   \/ Input(b, shape, name)
                   \/ AddInput(b, shape, name)
                   \/ \E len \in {1, 2} : AddWeight(b, shape, name, len)
             \/ \E rhs \in handles : MatMulWith(b, rhs)
             \/ \E rhs \in handles : AddOf(b, rhs)
             \/ \E op \in UnaryOps : UnaryOp(b, op)
             \/ \E perm \in {<<0, 1>>, <<1, 0>>} : TransposeBy(b, perm)
             \/ IntoGraph(b)
             \/ New(b)
             \/ EditAddNode(b) \/ EditAddEdge(b) \/ EditMarkInput(b) \/ EditMarkOutput(b)
             \/ EditAddInitializer(b) \/ EditInferOutputs(b)
      BY <1>2, Zenon DEF Next
    <2>2. ASSUME NEW shape \in Shapes, NEW name \in Names, Input(b, shape, name)
          PROVE  BuilderInv'
      BY <2>2, InputKeeps
    <2>3. ASSUME NEW shape \in Shapes, NEW name \in Names, AddInput(b, shape, name)
          PROVE  BuilderInv'
      BY <2>3, AddInputKeeps
    <2>4. ASSUME NEW shape \in Shapes, NEW name \in Names, NEW len \in {1, 2},
                 AddWeight(b, shape, name, len)
          PROVE  BuilderInv'
      BY <2>4, AddWeightKeeps
    <2>5. ASSUME \/ \E rhs \in handles : MatMulWith(b, rhs)
                 \/ \E rhs \in handles : AddOf(b, rhs)
                 \/ \E op \in UnaryOps : UnaryOp(b, op)
                 \/ \E perm \in {<<0, 1>>, <<1, 0>>} : TransposeBy(b, perm)
          PROVE  BuilderInv'
      BY <2>5, OperationsKeep
    <2>6. ASSUME IntoGraph(b) PROVE BuilderInv'
      BY <2>6, IntoGraphKeeps
    <2>7. ASSUME New(b) PROVE BuilderInv'
      BY <2>7, NewKeeps
    <2>8. ASSUME \/ EditAddNode(b) \/ EditAddEdge(b) \/ EditMarkInput(b) \/ EditMarkOutput(b)
                 \/ EditAddInitializer(b) \/ EditInferOutputs(b)
          PROVE  BuilderInv'
      BY <2>8, EditsKeep
    <2>9. QED
      BY <2>1, <2>2, <2>3, <2>4, <2>5, <2>6, <2>7, <2>8, Zenon
  <1>3. QED
    BY <1>1, <1>2

\* The invariant of the builders: every graph is sound, a chain ends in its
\* head, edges mirror the input lists until an edit, handles name nodes and
\* weights their initializers.
THEOREM BuilderInvariant == Spec => []BuilderInv
  <1>1. Init => BuilderInv
    BY InitBuilderInv
  <1>2. BuilderInv /\ [Next]_vars => BuilderInv'
    BY StepKeepsBuilderInv
  <1>3. QED
    BY <1>1, <1>2, PTL DEF Spec

\* Every variable keeps its shape, a graph its entries (GraphBuilder::refs is
\* what a loop over the nodes collects), and the head is a node of the graph
\* (GraphBuilder.current).
THEOREM BuilderTypeCorrect == Spec => []TypeOK
  <1>1. BuilderInv => TypeOK
    <2> SUFFICES ASSUME BuilderInv PROVE TypeOK
      OBVIOUS
    <2>1. ASSUME NEW b \in Builders
          PROVE  /\ GraphTypeOK(GraphOf(b))
                 /\ slots[b].stage \in {"none", "building", "built", "edited"}
                 /\ slots[b].current \in {NoNode} \cup Ids(GraphOf(b))
                 /\ slots[b].current = NoNode => slots[b].stage \in {"none", "edited"}
      <3>1. PICK g, s : g = GraphOf(b) /\ s = slots[b]
        OBVIOUS
      <3>2. IsSlot(s) /\ s.graph = g /\ Sound(g)
        BY <3>1 DEF BuilderInv, SlotInv, IsSlot, GraphOf
      <3>3. g.n \in Nat /\ g.nodes = [v \in Ids(g) |-> g.nodes[v]] /\ g.refs = RefsOf(g.n, g.nodes)
        BY <3>2 DEF Sound, Noded, Listed
      <3>4. DOMAIN g.nodes = Ids(g)
        BY <3>3
      <3>5. \A v \in Ids(g) : Producers(g, v) \subseteq Nat
        <4>1. \A v \in Ids(g) : g.nodes[v].ins \in Seq(Nat)
          BY <3>2 DEF Sound, Noded
        <4>2. \A ins \in Seq(Nat) : ToSet(ins) \subseteq Nat
          BY DEF ToSet
        <4>3. QED
          BY <4>1, <4>2 DEF Producers
      <3>6. GraphTypeOK(g)
        BY <3>3, <3>4, <3>5 DEF GraphTypeOK
      <3>7. s.current = NoNode => s.stage \in {"none", "edited"}
        <4>1. NoNode \notin Ids(g)
          BY <3>3 DEF Ids, NoNode
        <4>2. QED
          BY <3>2, <4>1 DEF IsSlot, InUse
      <3>8. QED
        BY <3>1, <3>2, <3>6, <3>7 DEF IsSlot
    <2>2. handles \subseteq HandleType /\ weights \subseteq WeightType
          /\ mixed \subseteq Builders /\ edits \in Nat
      BY DEF BuilderInv
    <2>3. QED
      BY <2>1, <2>2 DEF TypeOK, HandleType, WeightType
  <1>2. QED
    BY <1>1, BuilderInvariant, PTL

-----------------------------------------------------------------------------
(* What the runs check *)

\* The registries of a graph name existing nodes, each once, and every Input
\* node is among its inputs; edges join existing nodes.
THEOREM RegistriesAreExact == Spec => []RegistryExact
  <1>1. BuilderInv => RegistryExact
    <2> SUFFICES ASSUME BuilderInv, NEW b \in Builders
                 PROVE  LET g == GraphOf(b)
                        IN  /\ IsInjective(g.inputs) /\ IsInjective(g.outputs)
                            /\ ToSet(g.inputs) \cup ToSet(g.outputs) \subseteq Ids(g)
                            /\ {v \in Ids(g) : IsInput(g, v)} \subseteq ToSet(g.inputs)
                            /\ b \notin mixed =>
                                  \A e \in ToSet(g.edges) : {e.from, e.to} \subseteq Ids(g)
      BY DEF RegistryExact
    <2>1. PICK g, I : g = GraphOf(b) /\ I = Ids(g)
      OBVIOUS
    <2>2. Sound(g) /\ (b \notin mixed => EdgesJoin(g))
      BY <2>1 DEF BuilderInv, SlotInv, IsSlot, GraphOf
    <2>3. /\ g.inputs \in Seq(I) /\ Distinct(g.inputs)
          /\ g.outputs \in Seq(I) /\ Distinct(g.outputs)
          /\ \A v \in Ids(g) : IsInput(g, v) => v \in ToSet(g.inputs)
      BY <2>1, <2>2 DEF Sound, Registered
    <2>4. ASSUME NEW s \in Seq(I), Distinct(s)
          PROVE  IsInjective(s) /\ ToSet(s) \subseteq I
      <3>1. DOMAIN s = 1 .. Len(s) /\ \A a \in 1 .. Len(s) : s[a] \in I
        OBVIOUS
      <3>2. QED
        BY <2>4, <3>1 DEF Distinct, IsInjective, ToSet
    <2>5. /\ IsInjective(g.inputs) /\ ToSet(g.inputs) \subseteq I
          /\ IsInjective(g.outputs) /\ ToSet(g.outputs) \subseteq I
      BY <2>3, <2>4
    <2>6. QED
      BY <2>1, <2>2, <2>3, <2>5 DEF EdgesJoin
  <1>2. QED
    BY <1>1, BuilderInvariant, PTL

\* Until the dynamic API touches it, a graph's edges are its input lists: the
\* same references, at their ports (the comment on Edge).
THEOREM EdgesMirror == Spec => []EdgesMirrorInputs
  <1>1. BuilderInv => EdgesMirrorInputs
    <2>1. BuilderInv => \A b \in Builders : InUse(slots[b]) => Mirrors(GraphOf(b))
      BY DEF BuilderInv, SlotInv, GraphOf
    <2>2. QED
      BY <2>1, Zenon DEF EdgesMirrorInputs, Mirrors, Triples, Ports, InUse
  <1>2. QED
    BY <1>1, BuilderInvariant, PTL

\* infer_outputs finds the head of a chain and nothing else.
THEOREM HeadIsOutput == Spec => []HeadIsTheOutput
  <1>1. BuilderInv => HeadIsTheOutput
    BY DEF BuilderInv, SlotInv, GraphOf, HeadIsTheOutput
  <1>2. QED
    BY <1>1, BuilderInvariant, PTL

\* Where the names of a graph's inputs differ, each weight node is bound to the
\* data it was added with: what precedes its initializer came with other nodes,
\* so it bears other names.
THEOREM NamedWeightsAreBound == Spec => []NamedWeightsHoldTheirData
  <1>1. BuilderInv => NamedWeightsHoldTheirData
    <2> SUFFICES ASSUME BuilderInv, NEW w \in weights, NamesDistinct(GraphOf(w.of))
                 PROVE  InitializerOf(GraphOf(w.of), w.id) = w.init
      BY DEF NamedWeightsHoldTheirData
    <2>1. PICK g, id, init : g = GraphOf(w.of) /\ id = w.id /\ init = w.init
      OBVIOUS
    <2>2. Holds(g, id, init) /\ init \in Nat /\ NamesDistinct(g)
      BY <2>1 DEF BuilderInv, WeightType
    <2>3. PICK name : name = g.nodes[id].name
      OBVIOUS
    <2>4. PICK named : named = {p \in 1 .. Len(g.inits) : g.inits[p].name = name}
      OBVIOUS
    <2>5. init \in named /\ named \in SUBSET Nat
      BY <2>2, <2>3, <2>4 DEF Holds
    <2>6. \A p \in 1 .. init - 1 : p \notin named
      <3> SUFFICES ASSUME NEW p \in 1 .. init - 1, p \in named PROVE FALSE
        OBVIOUS
      <3>1. PICK v \in Ids(g) \ {id} : IsInput(g, v) /\ g.nodes[v].name = g.inits[p].name
        BY <2>2 DEF Holds
      <3>2. g.nodes[v].name = name
        BY <2>4, <3>1
      <3>3. QED
        BY <2>2, <2>3, <3>1, <3>2 DEF Holds, NamesDistinct
    <2>7. Min(named) \in named /\ \A y \in named : Min(named) <= y
      BY <2>5, MinIs
    <2>8. Min(named) = init
      <3>1. Min(named) <= init /\ Min(named) \in Nat /\ Min(named) >= 1
        BY <2>4, <2>5, <2>7
      <3>2. QED
        BY <2>2, <2>6, <2>7, <3>1
    <2>9. InitializerOf(g, id) = Min(named)
      BY <2>2, <2>3, <2>4, <2>5 DEF InitializerOf, SelectInSeq, Holds
    <2>10. QED
      BY <2>1, <2>8, <2>9
  <1>2. QED
    BY <1>1, BuilderInvariant, PTL

\* A slot whose graph and stage are set to what they are.
LEMMA SameSlot ==
    ASSUME BuilderInv, NEW b \in Builders
    PROVE  /\ [slots EXCEPT ![b].graph = GraphOf(b)] = slots
           /\ \A x : [slots EXCEPT ![b].graph = GraphOf(b),
                                   ![b].stage = IF x = None THEN "edited" ELSE @] = slots
                     \/ x = None
  <1>1. PICK stage, g, head, shape :
           /\ stage = slots[b].stage /\ g = slots[b].graph
           /\ head = slots[b].current /\ shape = slots[b].shape
    OBVIOUS
  <1>2. /\ slots[b] = [stage |-> stage, graph |-> g, current |-> head, shape |-> shape]
        /\ GraphOf(b) = g /\ slots = [c \in Builders |-> slots[c]]
    BY <1>1 DEF BuilderInv, SlotInv, IsSlot, GraphOf
  <1>3. [slots[b] EXCEPT !.graph = g] = slots[b] /\ [slots[b] EXCEPT !.stage = stage] = slots[b]
    BY <1>2
  <1>4. [slots EXCEPT ![b].graph = g] = slots /\ [slots EXCEPT ![b].stage = stage] = slots
    BY <1>2, <1>3
  <1>5. ASSUME NEW x, x # None
        PROVE  [slots EXCEPT ![b].graph = g, ![b].stage = IF x = None THEN "edited" ELSE @] = slots
    <2>1. [slots EXCEPT ![b].graph = g, ![b].stage = IF x = None THEN "edited" ELSE @]
            = [slots EXCEPT ![b].graph = g, ![b].stage = @]
      BY <1>5
    <2>2. [slots EXCEPT ![b].stage = @] = slots
      BY <1>1, <1>4
    <2>3. QED
      BY <1>4, <2>1, <2>2
  <1>6. QED
    BY <1>2, <1>4, <1>5

\* A call that is refused leaves the slots.
LEMMA RefusedEdit ==
    ASSUME BuilderInv, NEW b \in Builders, NEW result, Edit(b, result),
           result.err # None => result.graph = GraphOf(b)
    PROVE  answer' # None => UNCHANGED <<slots, handles, weights>>
  <1> SUFFICES ASSUME answer' # None PROVE UNCHANGED <<slots, handles, weights>>
    OBVIOUS
  <1>1. /\ slots' = [slots EXCEPT ![b].graph = result.graph,
                                  ![b].stage = IF result.err = None THEN "edited" ELSE @]
        /\ answer' = result.err /\ handles' = handles /\ weights' = weights
    BY DEF Edit
  <1>2. PICK x : x = result.err
    OBVIOUS
  <1>3. x # None /\ result.graph = GraphOf(b)
    BY <1>1, <1>2
  <1>4. slots' = [slots EXCEPT ![b].graph = GraphOf(b),
                               ![b].stage = IF x = None THEN "edited" ELSE @]
    BY <1>1, <1>2, <1>3, Zenon
  <1>5. slots' = slots
    BY <1>3, <1>4, SameSlot, Zenon
  <1>6. QED
    BY <1>1, <1>5

\* add_initializer of the builder looks at the data first.
LEMMA RefusedWeight ==
    ASSUME BuilderInv, NEW b \in Builders, NEW shape, NEW name, NEW len,
           AddWeight(b, shape, name, len)
    PROVE  answer' # None => UNCHANGED <<slots, handles, weights>>
  <1> SUFFICES ASSUME answer' # None PROVE UNCHANGED <<slots, handles, weights>>
    OBVIOUS
  <1>1. PICK g, init, result :
           /\ g = GraphOf(b) /\ init = [name |-> name, len |-> len, dims |-> shape]
           /\ result = PushWeight(g, InputNode(shape, name), init)
    OBVIOUS
  <1>2. PICK pushed : pushed = AddInitializer(g, init)
    OBVIOUS
  <1>3. /\ slots' = [slots EXCEPT ![b].graph = result.graph] /\ answer' = result.err
        /\ result.err # None => UNCHANGED <<handles, weights>>
    BY <1>1 DEF AddWeight
  <1>4. /\ pushed.err # None => pushed.graph = g /\ result = pushed
        /\ pushed.err = None => result.err = None
    <2>1. pushed.err # None => pushed.graph = g
      BY <1>2, AddInitializerIs
    <2>2. pushed.err # None => result = pushed
      BY <1>1, <1>2 DEF PushWeight
    <2>3. pushed.err = None => result.err = None
      BY <1>1, <1>2 DEF PushWeight, Accepts
    <2>4. QED
      BY <2>1, <2>2, <2>3
  <1>5. slots' = [slots EXCEPT ![b].graph = GraphOf(b)]
    BY <1>1, <1>3, <1>4
  <1>6. slots' = slots
    BY <1>5, SameSlot
  <1>7. QED
    BY <1>3, <1>6

\* Every call that can be refused.
LEMMA RefusedChange ==
    BuilderInv /\ [Next]_vars => [answer' # None => UNCHANGED <<slots, handles, weights>>]_vars
  <1> SUFFICES ASSUME BuilderInv, Next
               PROVE  answer' # None => UNCHANGED <<slots, handles, weights>>
    OBVIOUS
  <1>1. PICK b \in Builders :
           \/ \E shape \in Shapes, name \in Names :
                 \/ Input(b, shape, name)
                 \/ AddInput(b, shape, name)
                 \/ \E len \in {1, 2} : AddWeight(b, shape, name, len)
           \/ \E rhs \in handles : MatMulWith(b, rhs)
           \/ \E rhs \in handles : AddOf(b, rhs)
           \/ \E op \in UnaryOps : UnaryOp(b, op)
           \/ \E perm \in {<<0, 1>>, <<1, 0>>} : TransposeBy(b, perm)
           \/ IntoGraph(b)
           \/ New(b)
           \/ EditAddNode(b) \/ EditAddEdge(b) \/ EditMarkInput(b) \/ EditMarkOutput(b)
           \/ EditAddInitializer(b) \/ EditInferOutputs(b)
    BY Zenon DEF Next
  <1>2. ASSUME \/ \E shape \in Shapes, name \in Names : Input(b, shape, name) \/ AddInput(b, shape, name)
               \/ \E rhs \in handles : MatMulWith(b, rhs)
               \/ \E rhs \in handles : AddOf(b, rhs)
               \/ \E op \in UnaryOps : UnaryOp(b, op)
               \/ \E perm \in {<<0, 1>>, <<1, 0>>} : TransposeBy(b, perm)
               \/ IntoGraph(b)
               \/ New(b)
        PROVE  answer' = None
    BY <1>2, Zenon DEF Input, AddInput, MatMulWith, AddOf, UnaryOp, TransposeBy, Apply, IntoGraph, New
  <1>3. ASSUME NEW shape, NEW name, NEW len, AddWeight(b, shape, name, len)
        PROVE  answer' # None => UNCHANGED <<slots, handles, weights>>
    BY <1>3, RefusedWeight
  <1>4. PICK g : g = GraphOf(b)
    OBVIOUS
  <1>5. ASSUME NEW result, Edit(b, result), result.err # None => result.graph = g
        PROVE  answer' # None => UNCHANGED <<slots, handles, weights>>
    BY <1>4, <1>5, RefusedEdit
  <1>6. /\ \A id, node : AddNode(g, id, node).err # None => AddNode(g, id, node).graph = g
        /\ \A edge : AddEdge(g, edge).err # None => AddEdge(g, edge).graph = g
        /\ \A v : MarkInput(g, v).err # None => MarkInput(g, v).graph = g
        /\ \A v : MarkOutput(g, v).err # None => MarkOutput(g, v).graph = g
        /\ \A init : AddInitializer(g, init).err # None => AddInitializer(g, init).graph = g
        /\ Accepts(InferOutputs(g)).err = None
    <2>1. /\ \A id, node : AddNode(g, id, node).err # None => AddNode(g, id, node).graph = g
          /\ \A edge : AddEdge(g, edge).err # None => AddEdge(g, edge).graph = g
      BY DEF AddNode, AddEdge, Accepts, Refuses
    <2>2. /\ \A v : MarkInput(g, v).err # None => MarkInput(g, v).graph = g
          /\ \A v : MarkOutput(g, v).err # None => MarkOutput(g, v).graph = g
          /\ Accepts(InferOutputs(g)).err = None
      BY DEF MarkInput, MarkOutput, Accepts, Refuses
    <2>3. \A init : AddInitializer(g, init).err # None => AddInitializer(g, init).graph = g
      BY DEF AddInitializer, Accepts, Refuses
    <2>4. QED
      BY <2>1, <2>2, <2>3
  <1>7. ASSUME \/ EditAddNode(b) \/ EditAddEdge(b) \/ EditMarkInput(b) \/ EditMarkOutput(b)
               \/ EditAddInitializer(b) \/ EditInferOutputs(b)
        PROVE  answer' # None => UNCHANGED <<slots, handles, weights>>
    <2>1. PICK result : Edit(b, result) /\ (result.err # None => result.graph = g)
      <3>1. CASE EditAddNode(b)
        <4>1. PICK id, node : Edit(b, AddNode(g, id, node))
          BY <1>4, <3>1, Zenon DEF EditAddNode
        <4>2. QED
          BY <1>6, <4>1
      <3>2. CASE EditAddEdge(b)
        <4>1. PICK edge : Edit(b, AddEdge(g, edge))
          BY <1>4, <3>2, Zenon DEF EditAddEdge
        <4>2. QED
          BY <1>6, <4>1
      <3>3. CASE EditMarkInput(b) \/ EditMarkOutput(b)
        <4>1. PICK v : Edit(b, MarkInput(g, v)) \/ Edit(b, MarkOutput(g, v))
          BY <1>4, <3>3, Zenon DEF EditMarkInput, EditMarkOutput
        <4>2. QED
          BY <1>6, <4>1
      <3>4. CASE EditAddInitializer(b)
        <4>1. PICK init : Edit(b, AddInitializer(g, init))
          BY <1>4, <3>4, Zenon DEF EditAddInitializer
        <4>2. QED
          BY <1>6, <4>1
      <3>5. CASE EditInferOutputs(b)
        <4>1. Edit(b, Accepts(InferOutputs(g)))
          BY <1>4, <3>5, Zenon DEF EditInferOutputs
        <4>2. QED
          BY <1>6, <4>1
      <3>6. QED
        BY <1>7, <3>1, <3>2, <3>3, <3>4, <3>5
    <2>2. QED
      BY <1>5, <2>1
  <1>8. QED
    BY <1>1, <1>2, <1>3, <1>7, Zenon

\* A call that returns an error leaves every graph as it was
\* (builder.rs, add_initializer: "failures leave it untouched").
THEOREM RefusalsAreClean == Spec => RefusalsChangeNothing
  <1>1. BuilderInv /\ [Next]_vars => [answer' # None => UNCHANGED <<slots, handles, weights>>]_vars
    BY RefusedChange
  <1>2. QED
    BY <1>1, BuilderInvariant, PTL DEF Spec, RefusalsChangeNothing

-----------------------------------------------------------------------------
(* What the executor and the sort rely on *)

\* Every graph a program can build or edit, mixed handles and refused calls
\* included, is one that execute_graph's proofs assume (GraphsAssumption).
THEOREM BuiltGraphsAreWellFormed == Spec => [](\A b \in Builders : WellFormed(GraphOf(b)))
  <1>1. BuilderInv => \A b \in Builders : WellFormed(GraphOf(b))
    <2> SUFFICES ASSUME BuilderInv, NEW b \in Builders PROVE WellFormed(GraphOf(b))
      OBVIOUS
    <2>1. PICK g : g = GraphOf(b)
      OBVIOUS
    <2>2. Sound(g)
      BY <2>1 DEF BuilderInv, SlotInv, IsSlot, GraphOf
    <2>3. WellFormed(g)
      BY <2>2, SoundIsWellFormed
    <2>4. QED
      BY <2>1, <2>3
  <1>2. QED
    BY <1>1, BuilderInvariant, PTL

\* A graph built from its own handles sorts: topological_sort finds no unknown
\* id and no cycle in it, since each node reads older ones.
THEOREM BuiltGraphsSort ==
    Spec => [](\A b \in Builders :
                  slots[b].stage \in {"building", "built"} /\ b \notin mixed =>
                     LET sort == TopologicalSort(GraphOf(b))
                     IN  sort.verdict = "ordered" /\ IsTopological(GraphOf(b), sort.order))
  <1>1. BuilderInv => \A b \in Builders :
                  slots[b].stage \in {"building", "built"} /\ b \notin mixed =>
                     LET sort == TopologicalSort(GraphOf(b))
                     IN  sort.verdict = "ordered" /\ IsTopological(GraphOf(b), sort.order)
    <2> SUFFICES ASSUME BuilderInv, NEW b \in Builders, b \notin mixed,
                        slots[b].stage \in {"building", "built"}
                 PROVE  LET sort == TopologicalSort(GraphOf(b))
                        IN  sort.verdict = "ordered" /\ IsTopological(GraphOf(b), sort.order)
      OBVIOUS
    <2>1. PICK g, sort : g = GraphOf(b) /\ sort = TopologicalSort(g)
      OBVIOUS
    <2>2. Sound(g) /\ Closed(g)
      BY <2>1 DEF BuilderInv, SlotInv, IsSlot, InUse, Chained, GraphOf
    <2>3. sort.verdict = "ordered" /\ IsTopological(g, sort.order)
      BY <2>1, <2>2, ClosedSorts
    <2>4. QED
      BY <2>1, <2>3
  <1>2. QED
    BY <1>1, BuilderInvariant, PTL
=============================================================================
