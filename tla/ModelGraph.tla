----------------------------- MODULE ModelGraph -----------------------------
(***************************************************************************)
(* A ComputationGraph as the runtime reads it (tpt-infer-graph/src/        *)
(* graph.rs), and what exec.rs computes from a graph alone.                *)
(*                                                                         *)
(* A graph is a record: n, the node count; nodes, a function on 0 .. n-1   *)
(* to [op, ins, dims, name]; refs, the entries of the input lists in node  *)
(* order; inits, the initializers [name, len]; inputs and outputs, the     *)
(* marked ids.  A node without a name has NoName.                          *)
(***************************************************************************)
EXTENDS Kernels, GraphSort

CONSTANT NoName

\* A map with one more entry, or another value of it.
Put(f, x, y) == [z \in DOMAIN f \cup {x} |-> IF z = x THEN y ELSE f[z]]

IsInput(g, v) == g.nodes[v].op.kind = "Input"
Producers(g, v) == ToSet(g.nodes[v].ins)

\* The entries of the input lists, as the loops over graph.nodes() meet them.
RefsOf(n, nodes) ==
    FoldLeft(LAMBDA refs, v :
                refs \o [p \in DOMAIN nodes[v].ins |-> [to |-> v, from |-> nodes[v].ins[p]]],
             <<>>, [j \in 1 .. n |-> j - 1])

\* What the graph API guarantees of a graph (push_node, mark_input, mark_output
\* and RefsOf): input lists may name ids it does not have, the marks may not, no
\* node is marked twice, and every Input node is marked.
WellFormed(g) ==
    /\ g.n \in Nat
    /\ g.refs \in Seq([to : Ids(g), from : Nat])
    /\ \A r \in DOMAIN g.refs : g.refs[r].from \in Producers(g, g.refs[r].to)
    /\ g.inputs \in Seq(Ids(g)) /\ IsInjective(g.inputs)
    /\ g.outputs \in Seq(Ids(g))
    /\ DOMAIN g.inits = 1 .. Len(g.inits)
    /\ \A v \in Ids(g) :
          /\ g.nodes[v].ins \in Seq(Nat) /\ g.nodes[v].dims \in Seq(Nat)
          /\ IsInput(g, v) => v \in ToSet(g.inputs)
          /\ \A w \in Producers(g, v) :
                \E r \in DOMAIN g.refs : g.refs[r] = [to |-> v, from |-> w]

NodeNumel(g, v) == NumEl(g.nodes[v].dims)

\* Mutant: the last initializer with the node's name.
LastInitializerOf(g, v) ==
    IF g.nodes[v].name = NoName THEN 0
    ELSE SelectLastInSeq(g.inits, LAMBDA it : it.name = g.nodes[v].name)

\* The first initializer with the node's name; 0 if there is none.
InitializerOf(g, v) ==
    IF g.nodes[v].name = NoName THEN 0
    ELSE SelectInSeq(g.inits, LAMBDA it : it.name = g.nodes[v].name)

\* The elements of initializer p, and of the slice supplied as input s.
Weight(g, p)      == [e \in 1 .. g.inits[p].len |-> <<"weight", p, e>>]
Slice(request, s) == [e \in 1 .. request[s] |-> <<"slice", s, e>>]

-----------------------------------------------------------------------------
(* required_arena_bytes; sums saturate *)

UsizeBytes == 8
BindBytes  == 16
F32Bytes   == 4
ArenaSlack == 128

SatAdd(a, b) == IF a + b > UsizeMax THEN UsizeMax ELSE a + b

EdgeCount(g) == Len(g.refs)

ActivationNumel(g) ==
    FoldLeft(LAMBDA acc, v : IF IsInput(g, v) THEN acc
                             ELSE SatAdd(acc, IF NodeNumel(g, v) = Overflow THEN UsizeMax
                                              ELSE NodeNumel(g, v)),
             0, [j \in 1 .. g.n |-> j - 1])

SatBytes(count, size) == IF count > UsizeMax \div size THEN UsizeMax ELSE count * size

RequiredArenaBytes(g) ==
    SatAdd(SatAdd(SatBytes(5 * g.n + 1 + EdgeCount(g), UsizeBytes), SatBytes(g.n, BindBytes)),
           SatAdd(SatBytes(ActivationNumel(g), F32Bytes), ArenaSlack))
=============================================================================
