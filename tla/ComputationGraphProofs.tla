----------------------- MODULE ComputationGraphProofs -----------------------
(***************************************************************************)
(* Proofs about the operations of ComputationGraph.  Sound says what every *)
(* one of them keeps of any graph, whoever calls it; Grows that it changes *)
(* nothing that is there.  Both of the graph's makers, GraphBuilder and    *)
(* OnnxLoad, are proved about with them.                                   *)
(***************************************************************************)
EXTENDS ComputationGraph, GraphSortProofs

-----------------------------------------------------------------------------
(* What every operation keeps of a graph *)

Edges     == [from : Nat, to : Nat, to_port : Nat, dims : Seq(Nat)]
Ref(v, w) == [to |-> v, from |-> w]
IsList(s) == s \in Seq(ToSet(s))

Record(n, nodes, refs, inits, inputs, outputs, edges) ==
    [n |-> n, nodes |-> nodes, refs |-> refs, inits |-> inits,
     inputs |-> inputs, outputs |-> outputs, edges |-> edges]

IsRecord(g) ==
    g = Record(g.n, g.nodes, g.refs, g.inits, g.inputs, g.outputs, g.edges)

Noded(g) ==
    /\ g.n \in Nat
    /\ g.nodes = [v \in Ids(g) |-> g.nodes[v]]
    /\ \A v \in Ids(g) : g.nodes[v].ins \in Seq(Nat) /\ g.nodes[v].dims \in Seq(Nat)

Referred(g) ==
    /\ g.refs \in Seq([to : Ids(g), from : Nat])
    /\ \A v \in Ids(g) : \A w \in Producers(g, v) : \E r \in DOMAIN g.refs : g.refs[r] = Ref(v, w)
    /\ \A r \in DOMAIN g.refs : /\ g.refs[r].to \in Ids(g)
                                /\ g.refs[r].from \in Producers(g, g.refs[r].to)

Registered(g) ==
    /\ g.inputs \in Seq(Ids(g)) /\ Distinct(g.inputs)
    /\ g.outputs \in Seq(Ids(g)) /\ Distinct(g.outputs)
    /\ \A v \in Ids(g) : IsInput(g, v) => v \in ToSet(g.inputs)

\* The entries that RefsOf collects.
Listed(g) == g.refs = RefsOf(g.n, g.nodes)

Sound(g) ==
    /\ IsRecord(g) /\ Noded(g) /\ Listed(g) /\ Referred(g) /\ Registered(g)
    /\ IsList(g.inits) /\ g.edges \in Seq(Edges)

\* A node reads older ones.
Closed(g) == \A v \in Ids(g) : \A w \in Producers(g, v) : w \in Ids(g) /\ w < v

\* One graph grows into another: what it has stays where it is.
Grows(g, h) ==
    /\ g.n <= h.n
    /\ \A v \in Ids(g) : h.nodes[v] = g.nodes[v]
    /\ Len(g.inits) <= Len(h.inits)
    /\ \A p \in 1 .. Len(g.inits) : h.inits[p] = g.inits[p]

-----------------------------------------------------------------------------
(* The entries of the input lists *)

\* The entries of one node, and what the loop has collected after k nodes.
Entries(nodes, v) == [p \in DOMAIN nodes[v].ins |-> [to |-> v, from |-> nodes[v].ins[p]]]

Collects(n, nodes, f) ==
    /\ f[0] = <<>>
    /\ \A k \in 0 .. n - 1 : f[k + 1] = f[k] \o Entries(nodes, k)

\* RefsOf is what such a loop has at its end.
LEMMA RefsCollect ==
    ASSUME NEW n \in Nat, NEW nodes, \A v \in 0 .. n - 1 : nodes[v].ins \in Seq(Nat)
    PROVE  \E f : Collects(n, nodes, f) /\ RefsOf(n, nodes) = f[n]
  <1> DEFINE ids  == [j \in 1 .. n |-> j - 1]
             V    == Seq([to : Nat, from : Nat])
             op(q, v) == q \o Entries(nodes, v)
             F    == [p \in (1 .. n) \X V |-> op(p[2], ids[p[1]])]
             c    == CHOOSE f : f = [s \in SUBSET (1 .. n) |->
                       IF s = {} THEN <<>> ELSE op(f[s \ {Max(s)}], ids[Max(s)])]
  <1>1. n \in Nat
    OBVIOUS
  <1>2. \A j \in 1 .. n : ids[j] = j - 1 /\ j - 1 \in 0 .. n - 1
    BY <1>1
  <1>3. RefsOf(n, nodes) = c[1 .. n]
    <2>1. DOMAIN ids = 1 .. n
      OBVIOUS
    <2>2. QED
      BY <2>1, Zenon DEF RefsOf, FoldLeft, MapThenFoldSet, Entries
  <1> HIDE DEF ids
  <1>4. ASSUME NEW q \in V, NEW v \in 0 .. n - 1 PROVE op(q, v) \in V
    <2>1. PICK R, e, ins : R = [to : Nat, from : Nat] /\ e = Entries(nodes, v) /\ ins = nodes[v].ins
      OBVIOUS
    <2>2. v \in Nat /\ ins \in Seq(Nat)
      BY <1>1, <2>1
    <2>3. e = [p \in 1 .. Len(ins) |-> [to |-> v, from |-> ins[p]]]
      BY <2>1, <2>2 DEF Entries
    <2>4. \A p \in 1 .. Len(ins) : [to |-> v, from |-> ins[p]] \in R
      BY <2>1, <2>2
    <2>5. e \in Seq(R)
      BY <2>2, <2>3, <2>4
    <2>6. q \in Seq(R)
      BY <2>1
    <2>7. q \o e \in Seq(R)
      BY <2>5, <2>6
    <2>8. QED
      BY <2>1, <2>7
  <1>5. F \in [(1 .. n) \X V -> V]
    <2> SUFFICES ASSUME NEW p \in (1 .. n) \X V
                 PROVE  op(p[2], ids[p[1]]) \in V
      OBVIOUS
    <2>1. p[2] \in V /\ ids[p[1]] \in 0 .. n - 1
      BY <1>2
    <2> HIDE DEF op
    <2>2. QED
      BY <1>4, <2>1
  <1>6. <<>> \in V
    OBVIOUS
  <1>7. PICK it : IsFold(n, V, <<>>, F, it)
    <2> HIDE DEF F, V
    <2>1. QED
      BY <1>1, <1>5, <1>6, FoldExists
  <1>8. it = [s \in SUBSET (1 .. n) |->
                IF s = {} THEN <<>> ELSE op(it[s \ {Max(s)}], ids[Max(s)])]
    <2>1. it \in [SUBSET (1 .. n) -> V]
      BY <1>7 DEF IsFold
    <2>2. ASSUME NEW s \in SUBSET (1 .. n), s # {}
          PROVE  it[s] = op(it[s \ {Max(s)}], ids[Max(s)])
      <3>1. Max(s) \in 1 .. n
        BY <1>1, <2>2, MaxIs
      <3>2. it[s \ {Max(s)}] \in V
        BY <2>1
      <3>3. it[s] = F[<<Max(s), it[s \ {Max(s)}]>>]
        BY <1>7, <2>2 DEF IsFold
      <3> HIDE DEF op, V
      <3>4. QED
        BY <3>1, <3>2, <3>3
    <2> HIDE DEF op
    <2>3. \A s \in SUBSET (1 .. n) :
             it[s] = IF s = {} THEN <<>> ELSE op(it[s \ {Max(s)}], ids[Max(s)])
      BY <1>7, <2>2 DEF IsFold
    <2>4. QED
      BY <2>1, <2>3
  <1>9. c = [s \in SUBSET (1 .. n) |->
               IF s = {} THEN <<>> ELSE op(c[s \ {Max(s)}], ids[Max(s)])]
    BY <1>8, Zenon
  <1> HIDE DEF c, V
  <1>10. PICK f : f = [k \in 0 .. n |-> c[1 .. k]]
    OBVIOUS
  <1>11. f[0] = <<>> /\ f[n] = c[1 .. n]
    <2>1. 1 .. 0 = {} /\ 0 \in 0 .. n /\ n \in 0 .. n
      BY <1>1
    <2>2. c[{}] = <<>>
      BY <1>9
    <2>3. QED
      BY <1>10, <2>1, <2>2
  <1>12. ASSUME NEW k \in 0 .. n - 1 PROVE f[k + 1] = f[k] \o Entries(nodes, k)
    <2>1. /\ k \in Nat /\ k + 1 \in 1 .. n /\ k + 1 \in 0 .. n /\ k \in 0 .. n
          /\ 1 .. k + 1 \in SUBSET (1 .. n) /\ 1 .. k + 1 # {}
      <3>1. /\ k \in Nat /\ k + 1 \in 1 .. n
            /\ 1 .. k + 1 \in SUBSET (1 .. n) /\ 1 .. k + 1 # {}
        BY <1>1, PrefixOf
      <3>2. QED
        BY <1>1, <3>1
    <2>2. c[1 .. k + 1] = op(c[(1 .. k + 1) \ {Max(1 .. k + 1)}], ids[Max(1 .. k + 1)])
      BY <1>9, <2>1
    <2>3. c[1 .. k + 1] = op(c[1 .. k], ids[k + 1])
      BY <2>1, <2>2, LastOf
    <2>4. ids[k + 1] = k
      BY <1>2, <2>1
    <2>5. c[1 .. k + 1] = c[1 .. k] \o Entries(nodes, k)
      BY <2>3, <2>4
    <2>6. QED
      BY <1>10, <2>1, <2>5
  <1>13. QED
    BY <1>3, <1>11, <1>12 DEF Collects

\* One more node adds its entries at the end.
LEMMA RefsGrow ==
    ASSUME NEW n \in Nat, NEW nodes, NEW more,
           \A v \in 0 .. n - 1 : nodes[v].ins \in Seq(Nat) /\ more[v] = nodes[v],
           more[n].ins \in Seq(Nat)
    PROVE  RefsOf(n + 1, more) = RefsOf(n, nodes) \o Entries(more, n)
  <1>1. PICK f : Collects(n, nodes, f) /\ RefsOf(n, nodes) = f[n]
    BY RefsCollect
  <1>2. PICK h : Collects(n + 1, more, h) /\ RefsOf(n + 1, more) = h[n + 1]
    <2>1. n + 1 \in Nat /\ \A v \in 0 .. (n + 1) - 1 : v \in 0 .. n - 1 \/ v = n
      OBVIOUS
    <2>2. \A v \in 0 .. (n + 1) - 1 : more[v].ins \in Seq(Nat)
      BY <2>1
    <2>3. QED
      BY <2>1, <2>2, RefsCollect
  <1> DEFINE P == {k \in 0 .. n : f[k] = h[k]}
  <1>3. 0 \in P
    BY <1>1, <1>2 DEF Collects
  <1>4. ASSUME NEW k \in 0 .. n - 1, k \in P PROVE k + 1 \in P
    <2>1. k + 1 \in 0 .. n /\ k \in 0 .. (n + 1) - 1
      OBVIOUS
    <2>2. Entries(nodes, k) = Entries(more, k)
      BY DEF Entries
    <2>3. f[k + 1] = f[k] \o Entries(nodes, k) /\ h[k + 1] = h[k] \o Entries(more, k)
      BY <1>1, <1>2, <2>1 DEF Collects
    <2>4. QED
      BY <1>4, <2>1, <2>2, <2>3
  <1>5. n \in P
    <2> HIDE DEF P
    <2>1. \A k \in 0 .. n : k \in P
      BY <1>3, <1>4, UpTo
    <2>2. QED
      BY <2>1
  <1>6. n \in 0 .. (n + 1) - 1
    OBVIOUS
  <1>7. h[n + 1] = h[n] \o Entries(more, n)
    BY <1>2, <1>6 DEF Collects
  <1>8. QED
    BY <1>1, <1>2, <1>5, <1>7

\* A sequence over any set is a list.
LEMMA SeqIsList ==
    ASSUME NEW S, NEW s \in Seq(S)
    PROVE  IsList(s)
  <1>1. PICK n, T : n = Len(s) /\ T = ToSet(s)
    OBVIOUS
  <1>2. n \in Nat /\ s = [p \in 1 .. n |-> s[p]] /\ \A p \in 1 .. n : s[p] \in T
    BY <1>1, Members
  <1>3. QED
    BY <1>1, <1>2 DEF IsList

\* A list has a length, and positions up to it.
LEMMA Listing ==
    ASSUME NEW s, IsList(s)
    PROVE  Len(s) \in Nat /\ DOMAIN s = 1 .. Len(s)
  <1>1. PICK T : T = ToSet(s)
    OBVIOUS
  <1>2. s \in Seq(T)
    BY <1>1 DEF IsList
  <1>3. QED
    BY <1>2

\* No node, no entry.
LEMMA NoRefs ==
    ASSUME NEW nodes
    PROVE  RefsOf(0, nodes) = <<>>
  <1>1. \A v \in 0 .. 0 - 1 : nodes[v].ins \in Seq(Nat)
    OBVIOUS
  <1>2. PICK f : Collects(0, nodes, f) /\ RefsOf(0, nodes) = f[0]
    BY <1>1, RefsCollect
  <1>3. QED
    BY <1>2 DEF Collects

-----------------------------------------------------------------------------
(* The operations on graphs *)

\* ComputationGraph::new
LEMMA EmptyIsSound == Sound(EmptyGraph)
  <1>1. Ids(EmptyGraph) = {} /\ EmptyGraph.n = 0
    BY DEF Ids, EmptyGraph
  <1>2. IsRecord(EmptyGraph) /\ Noded(EmptyGraph)
    BY <1>1 DEF IsRecord, Record, Noded, EmptyGraph
  <1>3. Referred(EmptyGraph)
    <2>1. EmptyGraph.refs = <<>>
      BY DEF EmptyGraph
    <2>2. QED
      BY <1>1, <2>1 DEF Referred
  <1>3a. Listed(EmptyGraph)
    <2>1. EmptyGraph.refs = <<>> /\ EmptyGraph.n = 0
      BY DEF EmptyGraph
    <2>2. QED
      BY <2>1, NoRefs DEF Listed
  <1>4. Registered(EmptyGraph)
    <2>1. EmptyGraph.inputs = <<>> /\ EmptyGraph.outputs = <<>>
      BY DEF EmptyGraph
    <2>2. QED
      BY <1>1, <2>1 DEF Registered, Distinct
  <1>5. IsList(EmptyGraph.inits) /\ EmptyGraph.edges \in Seq(Edges)
    BY DEF EmptyGraph, IsList
  <1>6. QED
    BY <1>2, <1>3, <1>3a, <1>4, <1>5 DEF Sound

\* Four fields of a graph are replaced, one after the other.
LEMMA FieldsSet ==
    ASSUME NEW g, IsRecord(g), NEW x, NEW y, NEW z, NEW w
    PROVE  [g EXCEPT !.n = x, !.nodes = y, !.refs = z, !.inputs = w]
             = Record(x, y, z, g.inits, w, g.outputs, g.edges)
  <1>1. PICK n, nodes, refs, inits, inputs, outputs, edge_list :
           /\ n = g.n /\ nodes = g.nodes /\ refs = g.refs /\ inits = g.inits
           /\ inputs = g.inputs /\ outputs = g.outputs /\ edge_list = g.edges
    OBVIOUS
  <1> DEFINE g0 == Record(n, nodes, refs, inits, inputs, outputs, edge_list)
             g1 == Record(x, nodes, refs, inits, inputs, outputs, edge_list)
             g2 == Record(x, y, refs, inits, inputs, outputs, edge_list)
             g3 == Record(x, y, z, inits, inputs, outputs, edge_list)
             g4 == Record(x, y, z, inits, w, outputs, edge_list)
  <1>2. /\ [g0 EXCEPT !.n = x] = g1 /\ [g1 EXCEPT !.nodes = y] = g2
        /\ [g2 EXCEPT !.refs = z] = g3 /\ [g3 EXCEPT !.inputs = w] = g4
    BY DEF Record
  <1>3. g = g0
    BY <1>1 DEF IsRecord
  <1> HIDE DEF g0, g1, g2, g3, g4
  <1>4. [g0 EXCEPT !.n = x, !.nodes = y, !.refs = z, !.inputs = w] = g4
    BY <1>2, Zenon
  <1>5. g4 = Record(x, y, z, g.inits, w, g.outputs, g.edges)
    BY <1>1 DEF g4
  <1>6. QED
    BY <1>3, <1>4, <1>5, Zenon

\* h is g with one more node.
Pushed(g, node, h) ==
    /\ IsRecord(h)
    /\ h.n = g.n + 1 /\ g.n \in Ids(h) /\ Ids(h) = Ids(g) \cup {g.n}
    /\ g.n \notin Ids(g) /\ g.n \in Nat
    /\ h.nodes = [v \in Ids(h) |-> IF v = g.n THEN node ELSE g.nodes[v]]
    /\ h.refs = g.refs \o [p \in 1 .. Len(node.ins) |-> Ref(g.n, node.ins[p])]
    /\ h.inputs = IF node.op.kind = "Input" THEN Append(g.inputs, g.n) ELSE g.inputs
    /\ h.inits = g.inits /\ h.outputs = g.outputs /\ h.edges = g.edges

\* push_node appends one node, its entries and, for an Input, its mark.
LEMMA PushIs ==
    ASSUME NEW g, Sound(g), NEW node, node.ins \in Seq(Nat)
    PROVE  Pushed(g, node, PushNode(g, node))
  <1> DEFINE h == PushNode(g, node)
  <1>1. IsRecord(g) /\ g.n \in Nat /\ g.nodes = [v \in Ids(g) |-> g.nodes[v]]
    BY DEF Sound, Noded
  <1>2. DOMAIN node.ins = 1 .. Len(node.ins)
    OBVIOUS
  <1>3. /\ IsRecord(h) /\ h.n = g.n + 1
        /\ h.nodes = [v \in 0 .. g.n |-> IF v = g.n THEN node ELSE g.nodes[v]]
        /\ h.refs = g.refs \o [p \in DOMAIN node.ins |-> [to |-> g.n, from |-> node.ins[p]]]
        /\ h.inputs = IF node.op.kind = "Input" THEN Append(g.inputs, g.n) ELSE g.inputs
        /\ h.inits = g.inits /\ h.outputs = g.outputs /\ h.edges = g.edges
    <2>1. PICK x, y, z, w :
             /\ x = g.n + 1
             /\ y = [v \in 0 .. g.n |-> IF v = g.n THEN node ELSE g.nodes[v]]
             /\ z = g.refs \o [p \in DOMAIN node.ins |-> [to |-> g.n, from |-> node.ins[p]]]
             /\ w = IF node.op.kind = "Input" THEN Append(g.inputs, g.n) ELSE g.inputs
      OBVIOUS
    <2>2. h = [g EXCEPT !.n = x, !.nodes = y, !.refs = z, !.inputs = w]
      BY <2>1, Zenon DEF PushNode
    <2>3. h = Record(x, y, z, g.inits, w, g.outputs, g.edges)
      BY <1>1, <2>2, FieldsSet
    <2>4. QED
      BY <2>1, <2>3 DEF Record, IsRecord
  <1>4. Ids(h) = Ids(g) \cup {g.n} /\ g.n \in Ids(h) /\ g.n \notin Ids(g) /\ Ids(h) = 0 .. g.n
    BY <1>1, <1>3 DEF Ids
  <1>5. h.nodes = [v \in Ids(h) |-> IF v = g.n THEN node ELSE g.nodes[v]]
    BY <1>3, <1>4
  <1>6. QED
    BY <1>1, <1>2, <1>3, <1>4, <1>5 DEF Pushed, Ref

\* A sequence without repetition gets a new last element.
LEMMA AppendDistinct ==
    ASSUME NEW S, NEW s \in Seq(S), Distinct(s), NEW v, v \notin S
    PROVE  Distinct(Append(s, v))
  <1>1. PICK n, t : n = Len(s) /\ t = Append(s, v)
    OBVIOUS
  <1>2. /\ n \in Nat /\ Len(t) = n + 1 /\ t[n + 1] = v
        /\ \A a \in 1 .. n : t[a] = s[a] /\ s[a] \in S
    BY <1>1
  <1>3. 1 .. n + 1 = (1 .. n) \cup {n + 1}
    BY <1>2
  <1>4. \A a, b \in 1 .. n : s[a] = s[b] => a = b
    BY <1>1 DEF Distinct
  <1>5. Distinct(t)
    BY <1>2, <1>3, <1>4 DEF Distinct
  <1>6. QED
    BY <1>1, <1>5

\* push_node keeps a graph sound.
LEMMA PushKeeps ==
    ASSUME NEW g, Sound(g), NEW node, node.ins \in Seq(Nat), node.dims \in Seq(Nat)
    PROVE  Sound(PushNode(g, node)) /\ Grows(g, PushNode(g, node))
  <1>1. PICK h : h = PushNode(g, node)
    OBVIOUS
  <1>2. PICK m : m = g.n
    OBVIOUS
  <1>2a. PICK ports : ports = [p \in 1 .. Len(node.ins) |-> Ref(m, node.ins[p])]
    OBVIOUS
  <1>3. /\ IsRecord(h) /\ h.n = m + 1 /\ m \in Ids(h) /\ Ids(h) = Ids(g) \cup {m}
        /\ m \notin Ids(g) /\ m \in Nat
        /\ h.nodes = [v \in Ids(h) |-> IF v = m THEN node ELSE g.nodes[v]]
        /\ h.refs = g.refs \o ports
        /\ h.inputs = IF node.op.kind = "Input" THEN Append(g.inputs, m) ELSE g.inputs
        /\ h.inits = g.inits /\ h.outputs = g.outputs /\ h.edges = g.edges
    <2>1. Pushed(g, node, h)
      BY <1>1, PushIs
    <2>2. QED
      BY <1>2, <1>2a, <2>1, Zenon DEF Pushed
  <1>4. /\ h.nodes[m] = node
        /\ \A v \in Ids(g) : h.nodes[v] = g.nodes[v]
    BY <1>3
  <1>5. Noded(h)
    <2>1. \A v \in Ids(h) : h.nodes[v].ins \in Seq(Nat) /\ h.nodes[v].dims \in Seq(Nat)
      <3>1. \A v \in Ids(g) : g.nodes[v].ins \in Seq(Nat) /\ g.nodes[v].dims \in Seq(Nat)
        BY DEF Sound, Noded
      <3>2. QED
        BY <1>3, <1>4, <3>1
    <2>2. h.n \in Nat /\ h.nodes = [v \in Ids(h) |-> h.nodes[v]]
      BY <1>3
    <2>3. QED
      BY <2>1, <2>2 DEF Noded
  <1>6. Referred(h)
    <2>1. PICK R, rg, rh, k, j : /\ R = [to : Ids(h), from : Nat]
                                 /\ rg = g.refs /\ rh = h.refs /\ k = Len(g.refs)
                                 /\ j = Len(node.ins)
      OBVIOUS
    <2>2. rg \in Seq(R) /\ k \in Nat /\ DOMAIN rg = 1 .. k /\ k = Len(rg)
      <3>1. PICK Q : Q = [to : Ids(g), from : Nat]
        OBVIOUS
      <3>2. rg \in Seq(Q)
        BY <2>1, <3>1 DEF Sound, Referred
      <3>3. Q \subseteq R
        BY <1>3, <2>1, <3>1
      <3>4. k = Len(rg)
        BY <2>1
      <3>5. QED
        BY <3>2, <3>3, <3>4
    <2>3. ports \in Seq(R) /\ Len(ports) = j /\ j \in Nat
      <3>1. j \in Nat
        BY <2>1
      <3>2. \A p \in 1 .. j : Ref(m, node.ins[p]) \in R
        BY <1>3, <2>1 DEF Ref
      <3>3. QED
        BY <1>2a, <2>1, <3>1, <3>2
    <2>4. /\ rh \in Seq(R) /\ Len(rh) = k + j /\ DOMAIN rh = 1 .. k + j
          /\ \A r \in 1 .. k : rh[r] = rg[r]
          /\ \A p \in 1 .. j : rh[k + p] = ports[p]
      <3>1. rh = rg \o ports
        BY <1>3, <2>1
      <3>2. rg \in Seq(R) /\ ports \in Seq(R)
        BY <2>2, <2>3
      <3>3. /\ rh \in Seq(R) /\ Len(rh) = Len(rg) + Len(ports)
            /\ \A r \in 1 .. Len(rg) : rh[r] = rg[r]
            /\ \A p \in 1 .. Len(ports) : rh[Len(rg) + p] = ports[p]
        BY <3>1, <3>2, Joined
      <3>4. DOMAIN rh = 1 .. Len(rh)
        BY <3>3
      <3>5. Len(rg) = k /\ Len(ports) = j
        BY <2>2, <2>3
      <3>6. QED
        BY <3>3, <3>4, <3>5
    <2>5. ASSUME NEW v \in Ids(h), NEW w \in Producers(h, v)
          PROVE  \E r \in DOMAIN rh : rh[r] = Ref(v, w)
      <3>1. CASE v = m
        <4>1. PICK p \in 1 .. j : node.ins[p] = w
          <5>1. w \in ToSet(node.ins)
            BY <1>4, <2>5, <3>1 DEF Producers
          <5>2. \E p \in 1 .. Len(node.ins) : node.ins[p] = w
            BY <5>1, Members
          <5>3. QED
            BY <2>1, <5>2
        <4>2. ports[p] = Ref(v, w)
          BY <1>2a, <2>1, <3>1, <4>1
        <4>3. k + p \in 1 .. k + j /\ rh[k + p] = Ref(v, w)
          BY <2>2, <2>3, <2>4, <4>2
        <4>4. QED
          BY <2>4, <4>3
      <3>2. CASE v \in Ids(g)
        <4>1. w \in Producers(g, v)
          BY <1>4, <2>5, <3>2 DEF Producers
        <4>2. PICK r \in DOMAIN rg : rg[r] = Ref(v, w)
          BY <2>1, <3>2, <4>1 DEF Sound, Referred
        <4>3. r \in 1 .. k /\ r \in 1 .. k + j
          BY <2>2, <2>3
        <4>4. QED
          BY <2>4, <4>2, <4>3
      <3>3. QED
        BY <1>3, <3>1, <3>2
    <2>6. ASSUME NEW r \in 1 .. k + j
          PROVE  rh[r].to \in Ids(h) /\ rh[r].from \in Producers(h, rh[r].to)
      <3>1. CASE r <= k
        <4>1. r \in DOMAIN rg /\ rh[r] = rg[r]
          BY <2>2, <2>3, <2>4, <3>1
        <4>2. rg[r].to \in Ids(g) /\ rg[r].from \in Producers(g, rg[r].to)
          BY <2>1, <4>1 DEF Sound, Referred
        <4>3. Producers(h, rg[r].to) = Producers(g, rg[r].to)
          BY <1>4, <4>2 DEF Producers
        <4>4. QED
          BY <1>3, <4>1, <4>2, <4>3
      <3>2. CASE r > k
        <4>1. PICK p \in 1 .. j : r = k + p
          <5>1. r - k \in 1 .. j /\ r = k + (r - k)
            BY <2>2, <2>3, <3>2
          <5>2. QED
            BY <5>1
        <4>2. rh[r] = Ref(m, node.ins[p])
          BY <1>2a, <2>1, <2>4, <4>1
        <4>3. node.ins[p] \in ToSet(node.ins)
          BY <2>1, Members
        <4>4. QED
          BY <1>3, <1>4, <4>2, <4>3 DEF Ref, Producers
      <3>3. QED
        BY <2>2, <2>3, <3>1, <3>2
    <2>7. QED
      BY <2>1, <2>4, <2>5, <2>6 DEF Referred
  <1>7. Registered(h)
    <2> DEFINE I == Ids(h)
    <2>1. /\ g.inputs \in Seq(Ids(g)) /\ Distinct(g.inputs)
          /\ g.outputs \in Seq(Ids(g)) /\ Distinct(g.outputs) /\ Ids(g) \subseteq I /\ m \in I
      BY <1>3 DEF Sound, Registered
    <2> HIDE DEF I
    <2>2. g.inputs \in Seq(I) /\ g.outputs \in Seq(I)
      BY <2>1
    <2>3. \A v \in Ids(g) : IsInput(h, v) => v \in ToSet(g.inputs)
      BY <1>4 DEF Sound, Registered, IsInput
    <2>4. CASE node.op.kind = "Input"
      <3>1. h.inputs = Append(g.inputs, m)
        BY <1>3, <2>4
      <3>2. h.inputs \in Seq(I) /\ ToSet(h.inputs) = ToSet(g.inputs) \cup {m}
        BY <2>1, <2>2, <3>1, Appended
      <3>3. Distinct(h.inputs)
        BY <1>3, <2>1, <3>1, AppendDistinct
      <3>4. \A v \in Ids(h) : IsInput(h, v) => v \in ToSet(h.inputs)
        BY <1>3, <2>3, <3>2
      <3>5. QED
        BY <1>3, <2>1, <2>2, <3>2, <3>3, <3>4 DEF Registered, I
    <2>5. CASE node.op.kind # "Input"
      <3>1. h.inputs = g.inputs /\ ~IsInput(h, m)
        BY <1>3, <1>4, <2>5 DEF IsInput
      <3>2. \A v \in Ids(h) : IsInput(h, v) => v \in ToSet(h.inputs)
        BY <1>3, <2>3, <3>1
      <3>3. QED
        BY <1>3, <2>1, <2>2, <3>1, <3>2 DEF Registered, I
    <2>6. QED
      BY <2>4, <2>5
  <1>7a. Listed(h)
    <2>1. g.refs = RefsOf(m, g.nodes) /\ Ids(g) = 0 .. m - 1
      BY <1>2 DEF Sound, Listed, Ids
    <2>2. \A v \in 0 .. m - 1 : g.nodes[v].ins \in Seq(Nat) /\ h.nodes[v] = g.nodes[v]
      BY <1>4, <2>1 DEF Sound, Noded
    <2>3. RefsOf(m + 1, h.nodes) = RefsOf(m, g.nodes) \o Entries(h.nodes, m)
      <3>1. \A v \in 0 .. m - 1 : g.nodes[v].ins \in Seq(Nat) /\ h.nodes[v] = g.nodes[v]
        BY <2>2
      <3>2. m \in Nat /\ h.nodes[m].ins \in Seq(Nat)
        BY <1>3, <1>4
      <3>3. QED
        BY <3>1, <3>2, RefsGrow
    <2>4. Entries(h.nodes, m) = ports
      <3>1. DOMAIN node.ins = 1 .. Len(node.ins)
        OBVIOUS
      <3>2. QED
        BY <1>2a, <1>4, <3>1 DEF Entries, Ref
    <2>5. QED
      BY <1>3, <2>1, <2>3, <2>4 DEF Listed
  <1>8. Sound(h)
    BY <1>3, <1>5, <1>6, <1>7, <1>7a DEF Sound
  <1>9. Grows(g, h)
    <2>1. Len(g.inits) \in Nat
      BY Listing DEF Sound
    <2>2. QED
      BY <1>2, <1>3, <1>4, <2>1 DEF Grows
  <1>10. QED
    BY <1>1, <1>8, <1>9

\* One field of a graph is replaced.
LEMMA FieldSet ==
    ASSUME NEW g, IsRecord(g), NEW x
    PROVE  /\ [g EXCEPT !.inits = x]
                = Record(g.n, g.nodes, g.refs, x, g.inputs, g.outputs, g.edges)
           /\ [g EXCEPT !.inputs = x]
                = Record(g.n, g.nodes, g.refs, g.inits, x, g.outputs, g.edges)
           /\ [g EXCEPT !.outputs = x]
                = Record(g.n, g.nodes, g.refs, g.inits, g.inputs, x, g.edges)
           /\ [g EXCEPT !.edges = x]
                = Record(g.n, g.nodes, g.refs, g.inits, g.inputs, g.outputs, x)
  BY DEF IsRecord, Record

\* h has the nodes of g, and registries that name them.
Relisted(g, h) ==
    /\ IsRecord(h) /\ h.n = g.n /\ h.nodes = g.nodes /\ h.refs = g.refs
    /\ h.inputs \in Seq(Ids(g)) /\ Distinct(h.inputs) /\ ToSet(g.inputs) \subseteq ToSet(h.inputs)
    /\ h.outputs \in Seq(Ids(g)) /\ Distinct(h.outputs)
    /\ IsList(h.inits) /\ h.edges \in Seq(Edges)

\* Only the nodes and the registries matter for a graph to be sound.
LEMMA RelistKeeps ==
    ASSUME NEW g, Sound(g), NEW h, Relisted(g, h)
    PROVE  Sound(h)
  <1>1. Ids(h) = Ids(g) /\ h.nodes = g.nodes /\ h.n = g.n /\ h.refs = g.refs
    BY DEF Relisted, Ids
  <1>2. Noded(h)
    <2>1. Noded(g)
      BY DEF Sound
    <2>2. QED
      BY <1>1, <2>1, Zenon DEF Noded
  <1>3. Referred(h)
    <2>1. Referred(g)
      BY DEF Sound
    <2>2. \A v \in Ids(g) : Producers(h, v) = Producers(g, v)
      BY <1>1 DEF Producers
    <2>3. QED
      BY <1>1, <2>1, <2>2, Zenon DEF Referred
  <1>3a. Listed(h)
    <2>1. Listed(g)
      BY DEF Sound
    <2>2. QED
      BY <1>1, <2>1, Zenon DEF Listed
  <1>4. Registered(h)
    <2>1. \A v \in Ids(g) : IsInput(h, v) => v \in ToSet(h.inputs)
      BY <1>1 DEF Sound, Registered, Relisted, IsInput
    <2>2. QED
      BY <1>1, <2>1 DEF Registered, Relisted
  <1>5. QED
    BY <1>2, <1>3, <1>3a, <1>4 DEF Sound, Relisted

\* What h has of g stays where it is, when the initializers are the same.
LEMMA SameGrows ==
    ASSUME NEW g, Sound(g), NEW h, h.n = g.n, h.nodes = g.nodes, h.inits = g.inits
    PROVE  Grows(g, h)
  <1>1. g.n \in Nat
    BY DEF Sound, Noded
  <1>2. Len(g.inits) \in Nat
    BY Listing DEF Sound
  <1>3. QED
    BY <1>1, <1>2 DEF Grows

\* add_initializer keeps a graph sound, and its nodes.
LEMMA InitKeeps ==
    ASSUME NEW g, Sound(g), NEW init, NEW h, h = [g EXCEPT !.inits = Append(@, init)]
    PROVE  /\ Sound(h) /\ Grows(g, h)
           /\ h.n = g.n /\ h.nodes = g.nodes /\ h.refs = g.refs /\ h.edges = g.edges
           /\ h.inits = Append(g.inits, init)
  <1>1. PICK x : x = Append(g.inits, init)
    OBVIOUS
  <1>2. h = Record(g.n, g.nodes, g.refs, x, g.inputs, g.outputs, g.edges)
    BY <1>1, FieldSet DEF Sound
  <1>3. /\ IsRecord(h) /\ h.n = g.n /\ h.nodes = g.nodes /\ h.refs = g.refs
        /\ h.inits = x /\ h.inputs = g.inputs /\ h.outputs = g.outputs /\ h.edges = g.edges
    <2>1. PICK n, nodes, refs, inputs, outputs, edge_list :
             /\ n = g.n /\ nodes = g.nodes /\ refs = g.refs
             /\ inputs = g.inputs /\ outputs = g.outputs /\ edge_list = g.edges
      OBVIOUS
    <2>2. h = Record(n, nodes, refs, x, inputs, outputs, edge_list)
      BY <1>2, <2>1
    <2>3. /\ h.n = n /\ h.nodes = nodes /\ h.refs = refs
          /\ h.inits = x /\ h.inputs = inputs /\ h.outputs = outputs /\ h.edges = edge_list
      BY <2>2 DEF Record
    <2>4. IsRecord(h)
      BY <2>2, <2>3, Zenon DEF IsRecord
    <2>5. QED
      BY <2>1, <2>3, <2>4
  <1>4. PICK S : S = ToSet(g.inits) \cup {init}
    OBVIOUS
  <1>5. g.inits \in Seq(S) /\ init \in S
    <2>1. PICK T : T = ToSet(g.inits)
      OBVIOUS
    <2>2. g.inits \in Seq(T) /\ T \subseteq S
      BY <1>4, <2>1 DEF Sound, IsList
    <2>3. QED
      BY <1>4, <2>2
  <1>6. /\ x \in Seq(S) /\ Len(g.inits) \in Nat /\ Len(x) = Len(g.inits) + 1
        /\ \A p \in 1 .. Len(g.inits) : x[p] = g.inits[p]
    BY <1>1, <1>5
  <1>6a. IsList(x)
    BY <1>6, SeqIsList
  <1>7. Sound(h)
    <2>1. Relisted(g, h)
      BY <1>3, <1>6a DEF Relisted, Sound, Registered
    <2>2. QED
      BY <2>1, RelistKeeps
  <1>8. Grows(g, h)
    <2>1. g.n \in Nat
      BY DEF Sound, Noded
    <2>2. QED
      BY <1>3, <1>6, <2>1 DEF Grows
  <1>9. QED
    BY <1>1, <1>3, <1>7, <1>8

\* push_edge and add_edge keep a graph sound, and its nodes.
LEMMA EdgesKeep ==
    ASSUME NEW g, Sound(g), NEW es \in Seq(Edges), NEW h, h = PushEdges(g, es)
    PROVE  /\ Sound(h) /\ Grows(g, h)
           /\ h.n = g.n /\ h.nodes = g.nodes /\ h.refs = g.refs /\ h.inits = g.inits
           /\ h.edges = g.edges \o es
  <1>1. PICK x : x = g.edges \o es
    OBVIOUS
  <1>2. h = Record(g.n, g.nodes, g.refs, g.inits, g.inputs, g.outputs, x)
    BY <1>1, FieldSet DEF Sound, PushEdges
  <1>3. /\ IsRecord(h) /\ h.n = g.n /\ h.nodes = g.nodes /\ h.refs = g.refs
        /\ h.inits = g.inits /\ h.inputs = g.inputs /\ h.outputs = g.outputs /\ h.edges = x
    BY <1>2 DEF Record, IsRecord
  <1>4. x \in Seq(Edges)
    <2>1. PICK S : S = Edges
      OBVIOUS
    <2>2. g.edges \in Seq(S) /\ es \in Seq(S)
      BY <2>1 DEF Sound
    <2>3. QED
      BY <1>1, <2>1, <2>2
  <1>5. Sound(h)
    <2>1. Relisted(g, h)
      BY <1>3, <1>4 DEF Relisted, Sound, Registered
    <2>2. QED
      BY <2>1, RelistKeeps
  <1>6. Grows(g, h)
    BY <1>3, SameGrows
  <1>7. QED
    BY <1>1, <1>3, <1>5, <1>6

\* Marking a node keeps the marks, and registers the node once.
LEMMA MarkIs ==
    ASSUME NEW S, NEW marked \in Seq(S), Distinct(marked), NEW id \in S
    PROVE  /\ Mark(marked, id) \in Seq(S) /\ Distinct(Mark(marked, id))
           /\ ToSet(Mark(marked, id)) = ToSet(marked) \cup {id}
  <1>1. CASE id \in ToSet(marked)
    BY <1>1 DEF Mark
  <1>2. CASE id \notin ToSet(marked)
    <2>1. Mark(marked, id) = Append(marked, id)
      BY <1>2 DEF Mark
    <2>2. Append(marked, id) \in Seq(S) /\ ToSet(Append(marked, id)) = ToSet(marked) \cup {id}
      BY Appended
    <2>3. Distinct(Append(marked, id))
      <3>1. PICK T : T = ToSet(marked)
        OBVIOUS
      <3>2. marked \in Seq(T) /\ id \notin T
        <4>1. \A a \in 1 .. Len(marked) : marked[a] \in T
          BY <3>1, Members
        <4>2. QED
          BY <1>2, <3>1, <4>1
      <3>3. QED
        BY <3>2, AppendDistinct
    <2>4. QED
      BY <2>1, <2>2, <2>3
  <1>3. QED
    BY <1>1, <1>2

\* mark_input and mark_output
LEMMA MarksKeep ==
    ASSUME NEW g, Sound(g), NEW id \in Ids(g), NEW h,
           h = [g EXCEPT !.inputs = Mark(@, id)] \/ h = [g EXCEPT !.outputs = Mark(@, id)]
    PROVE  /\ Sound(h) /\ Grows(g, h)
           /\ h.n = g.n /\ h.nodes = g.nodes /\ h.refs = g.refs /\ h.inits = g.inits
           /\ h.edges = g.edges
  <1>1. PICK I, x, y : I = Ids(g) /\ x = Mark(g.inputs, id) /\ y = Mark(g.outputs, id)
    OBVIOUS
  <1>2. /\ g.inputs \in Seq(I) /\ Distinct(g.inputs) /\ g.outputs \in Seq(I) /\ Distinct(g.outputs)
        /\ IsList(g.inits) /\ g.edges \in Seq(Edges) /\ IsRecord(g) /\ id \in I
    BY <1>1 DEF Sound, Registered
  <1>3. /\ x \in Seq(I) /\ Distinct(x) /\ ToSet(g.inputs) \subseteq ToSet(x)
        /\ y \in Seq(I) /\ Distinct(y)
    BY <1>1, <1>2, MarkIs
  <1>4. \/ h = Record(g.n, g.nodes, g.refs, g.inits, x, g.outputs, g.edges)
        \/ h = Record(g.n, g.nodes, g.refs, g.inits, g.inputs, y, g.edges)
    BY <1>1, <1>2, FieldSet
  <1>5. /\ IsRecord(h) /\ h.n = g.n /\ h.nodes = g.nodes /\ h.refs = g.refs
        /\ h.inits = g.inits /\ h.inputs \in {g.inputs, x} /\ h.outputs \in {g.outputs, y}
        /\ h.edges = g.edges
    BY <1>4 DEF Record, IsRecord
  <1>6. Relisted(g, h)
    BY <1>1, <1>2, <1>3, <1>5 DEF Relisted
  <1>7. QED
    BY <1>5, <1>6, RelistKeeps, SameGrows

\* The nodes that infer_outputs finds.
Heads(g) == {v \in Ids(g) : ~IsInput(g, v) /\ v \notin Consumed(g)}

\* infer_outputs
LEMMA InferKeeps ==
    ASSUME NEW g, Sound(g), NEW h, h = InferOutputs(g)
    PROVE  /\ Sound(h) /\ Grows(g, h)
           /\ h.n = g.n /\ h.nodes = g.nodes /\ h.refs = g.refs /\ h.inits = g.inits
           /\ h.edges = g.edges
           /\ h.outputs \in Seq(Ids(g)) /\ Distinct(h.outputs) /\ ToSet(h.outputs) = Heads(g)
  <1>1. PICK n, I, x : n = g.n /\ I = 0 .. n - 1 /\ x = Picked(n, Heads(g))
    OBVIOUS
  <1>2. n \in Nat /\ I = Ids(g) /\ Heads(g) \in SUBSET (0 .. n - 1)
    BY <1>1 DEF Sound, Noded, Ids, Heads
  <1>3. x \in Seq(0 .. n - 1) /\ Distinct(x) /\ ToSet(x) = Heads(g)
    BY <1>1, <1>2, PickedAre
  <1>4. h = Record(g.n, g.nodes, g.refs, g.inits, g.inputs, x, g.edges)
    <2>1. h = [g EXCEPT !.outputs = x]
      BY <1>1 DEF InferOutputs, Heads
    <2>2. QED
      BY <2>1, FieldSet DEF Sound
  <1>5. /\ IsRecord(h) /\ h.n = g.n /\ h.nodes = g.nodes /\ h.refs = g.refs
        /\ h.inits = g.inits /\ h.inputs = g.inputs /\ h.outputs = x /\ h.edges = g.edges
    BY <1>4 DEF Record, IsRecord
  <1>6. x \in Seq(Ids(g))
    BY <1>1, <1>2, <1>3
  <1>7. Relisted(g, h)
    BY <1>3, <1>5, <1>6 DEF Relisted, Sound, Registered
  <1>8. QED
    BY <1>3, <1>5, <1>6, <1>7, RelistKeeps, SameGrows

-----------------------------------------------------------------------------
(* What a sound graph is to its readers *)

\* It is one that execute_graph's proofs assume (GraphsAssumption).
LEMMA SoundIsWellFormed ==
    ASSUME NEW g, Sound(g)
    PROVE  WellFormed(g)
  <1>1. DOMAIN g.inits = 1 .. Len(g.inits)
    BY Listing DEF Sound
  <1>2. /\ g.n \in Nat
        /\ g.refs \in Seq([to : Ids(g), from : Nat])
        /\ \A r \in DOMAIN g.refs : g.refs[r].from \in Producers(g, g.refs[r].to)
        /\ \A v \in Ids(g) : \A w \in Producers(g, v) :
              \E r \in DOMAIN g.refs : g.refs[r] = [to |-> v, from |-> w]
    BY DEF Sound, Noded, Referred, Ref
  <1>3. /\ g.inputs \in Seq(Ids(g)) /\ g.outputs \in Seq(Ids(g))
        /\ \A v \in Ids(g) : g.nodes[v].ins \in Seq(Nat) /\ g.nodes[v].dims \in Seq(Nat)
        /\ \A v \in Ids(g) : IsInput(g, v) => v \in ToSet(g.inputs)
    BY DEF Sound, Noded, Registered
  <1>4. IsInjective(g.inputs)
    <2>1. DOMAIN g.inputs = 1 .. Len(g.inputs)
      BY <1>3
    <2>2. Distinct(g.inputs)
      BY DEF Sound, Registered
    <2>3. QED
      BY <2>1, <2>2 DEF Distinct, IsInjective
  <1>5. QED
    BY <1>1, <1>2, <1>3, <1>4, Zenon DEF WellFormed

\* topological_sort orders it if its nodes read older ones.
LEMMA ClosedSorts ==
    ASSUME NEW g, Sound(g), Closed(g), NEW sort, sort = TopologicalSort(g)
    PROVE  sort.verdict = "ordered" /\ IsTopological(g, sort.order)
  <1>1. /\ g.n \in Nat /\ g.refs \in Seq([to : Ids(g), from : Nat])
        /\ \A r \in DOMAIN g.refs : /\ g.refs[r].to \in Ids(g)
                                    /\ g.refs[r].from \in Producers(g, g.refs[r].to)
    BY DEF Sound, Noded, Referred
  <1>2. \A r \in DOMAIN g.refs : g.refs[r].from \in Ids(g) /\ g.refs[r].from < g.refs[r].to
    BY <1>1 DEF Closed
  <1>3. IsGraph(g)
    BY <1>1 DEF IsGraph, Edge
  <1>4. ~NamesUnknown(g)
    BY <1>1, <1>2 DEF NamesUnknown, Ids
  <1>5. ~HasCycle(g)
    <2> SUFFICES ASSUME NEW S \in SUBSET Ids(g), Entangled(g, S) PROVE FALSE
      BY DEF HasCycle
    <2>1. S \in SUBSET Nat /\ S # {}
      BY <1>1 DEF Entangled, Ids
    <2>2. PICK v \in S : \A w \in S : v <= w
      BY <2>1, Least
    <2>3. PICK r \in DOMAIN g.refs : g.refs[r].to = v /\ g.refs[r].from \in S
      BY DEF Entangled
    <2>4. g.refs[r].from < v /\ v <= g.refs[r].from /\ v \in Nat /\ g.refs[r].from \in Nat
      BY <1>2, <2>1, <2>2, <2>3
    <2>5. QED
      BY <2>4
  <1>6. /\ sort.verdict \in {"unknown", "cycle", "ordered"}
        /\ sort.verdict = "unknown" <=> NamesUnknown(g)
        /\ sort.verdict = "cycle"   <=> ~NamesUnknown(g) /\ HasCycle(g)
        /\ sort.verdict = "ordered" => IsTopological(g, sort.order)
    BY <1>3, SortIsTopological
  <1>7. QED
    BY <1>4, <1>5, <1>6
=============================================================================
