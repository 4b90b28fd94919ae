------------------------------- MODULE Execute -------------------------------
(***************************************************************************)
(* tpt-infer-runtime/src/exec.rs, execute_graph: one inference call after  *)
(* another over one arena.  A call takes six scratch slices, sorts, binds  *)
(* the input nodes, lays the activations out, and runs the nodes in order; *)
(* any step may fail, and leaves the arena's cursor where it is.  Between  *)
(* calls the caller resets the arena, or does not.                         *)
(*                                                                         *)
(* The arena is BumpArena's; the sort is one step here and a loop in Kahn. *)
(***************************************************************************)
EXTENDS GraphMeaning

CONSTANTS
    Graphs, Requests, Bufs, MaxCalls, NoRegion

VARIABLES
    graph,
    pc, i,                      \* the part of execute_graph that runs, its loop index
    request, avail, reply,      \* the call's slices, the bytes it found, its result
    calls,
    order, binds, used, total, acts,    \* the locals, and what their slices hold
    buf, offset, held, result           \* the arena

arenaVars == <<buf, offset, held, result>>
callVars  == <<request, avail, calls>>
locals    == <<order, binds, used, total, acts>>
vars      == <<graph, pc, i, reply, callVars, locals, arenaVars>>

Usize      == [size |-> UsizeBytes, align |-> 8]
BindLayout == [size |-> BindBytes, align |-> 8]
F32        == [size |-> F32Bytes, align |-> 4]

ScratchSlices == <<"indegree", "adj_off", "adj", "cur", "queue", "order">>

Arena == INSTANCE BumpArena WITH
            Holders <- ToSet(ScratchSlices) \cup {"binds", "acts"},
            Layouts <- {Usize, BindLayout, F32},
            Lens    <- Nat,
            Aligns  <- {}

\* No reply yet.
Pending == [err |-> "pending", node |-> NoNode, outs |-> <<>>]

Service == INSTANCE InferenceService WITH
            phase <- IF pc \in {"idle", "return"} THEN "idle" ELSE "running"

ASSUME ExecuteAssumption ==
    /\ MaxCalls \in Nat
    /\ Bits \in Nat \ {0}
    /\ Bufs \subseteq [addr : Nat \ {0}, len : Nat]
    /\ \A b \in Bufs : b.addr + b.len <= UsizeMax
    /\ Requests \subseteq Seq(Nat)

\* The graphs are such as the graph API makes.
ASSUME GraphsAssumption == \A g \in Graphs : WellFormed(g)

\* Their operators are variants of the enum; a permutation is the active part of a
\* Shape, which is an array of usize.
ASSUME OperatorsAssumption ==
    \A g \in Graphs : \A v \in Ids(g) :
        /\ g.nodes[v].op.kind \in Kinds
        /\ g.nodes[v].op.kind = "Transpose" => g.nodes[v].op.perm \in Seq(Nat)

\* NoRegion is not a slice; the mark of memory nobody wrote is the empty tuple, which
\* is no binding and no term.
ASSUME MarkersAssumption == NoRegion \notin Arena!Region /\ Garbage = <<>>

-----------------------------------------------------------------------------
(* How a step goes on *)

Again   == i' = i + 1 /\ UNCHANGED <<pc, reply>>
Goto(p) == pc' = p /\ i' = 1 /\ UNCHANGED reply
Fail(error, node) ==
    /\ pc' = "return" /\ i' = 1
    /\ reply' = Refusal(error, node)

Init ==
    /\ graph \in Graphs
    /\ pc = "idle" /\ i = 1
    /\ request = <<>> /\ avail = 0 /\ reply = Pending /\ calls = 0
    /\ order = <<>> /\ binds = <<>> /\ used = 0 /\ total = 0 /\ acts = <<>>
    /\ Arena!Init

-----------------------------------------------------------------------------
(* The caller *)

Call(req) ==
    /\ pc = "idle" /\ calls < MaxCalls
    /\ pc' = "scratch" /\ i' = 1
    /\ request' = req /\ avail' = buf.len - offset /\ calls' = calls + 1
    /\ reply' = Pending
    /\ UNCHANGED <<graph, locals, arenaVars>>

\* BumpArena::reset between two calls.
Reset ==
    /\ pc = "idle"
    /\ Arena!Reset
    /\ UNCHANGED <<graph, pc, i, reply, callVars, locals>>

-----------------------------------------------------------------------------
(* 1. The topological order *)

ScratchLen(s) ==
    CASE s = "adj_off" -> graph.n + 1
      [] s = "adj"     -> EdgeCount(graph)
      [] OTHER         -> graph.n

AllocScratch ==
    /\ pc = "scratch"
    /\ Arena!AllocSlice(ScratchSlices[i], Usize, ScratchLen(ScratchSlices[i]))
    /\ \/ result' # "Ok" /\ Fail("OutOfMemory", NoNode)
       \/ result' = "Ok" /\ i < Len(ScratchSlices) /\ Again
       \/ result' = "Ok" /\ i = Len(ScratchSlices) /\ Goto("sort")
    /\ UNCHANGED <<graph, callVars, locals>>

\* What the sort makes of each graph.
SortOf == [g \in Graphs |-> TopologicalSort(g)]

\* Mutant: the nodes in the order of their ids.
SortById ==
    /\ pc = "sort"
    /\ LET sort == SortOf[graph]
       IN  IF sort.verdict = "ordered"
           THEN order' = [j \in 1 .. graph.n |-> j - 1] /\ Goto("binds")
           ELSE /\ Fail(IF sort.verdict = "cycle" THEN "CycleDetected" ELSE "UnknownNode", NoNode)
                /\ UNCHANGED order
    /\ UNCHANGED <<graph, callVars, binds, used, total, acts, arenaVars>>

\* The sort gives the order GraphSort gives (Kahn's loops are checked to).
Sort ==
    /\ pc = "sort"
    /\ LET sort    == SortOf[graph]
           unknown == SelectInSeq(graph.refs, LAMBDA r : r.from >= graph.n)
       IN  \/ sort.verdict = "ordered" /\ order' = sort.order /\ Goto("binds")
           \/ sort.verdict = "cycle" /\ Fail("CycleDetected", NoNode) /\ UNCHANGED order
           \/ /\ sort.verdict = "unknown"
              /\ Fail("UnknownNode", graph.refs[unknown].from)
              /\ UNCHANGED order
    /\ UNCHANGED <<graph, callVars, binds, used, total, acts, arenaVars>>

-----------------------------------------------------------------------------
(* 2. Input binding *)

AllocBinds ==
    /\ pc = "binds"
    /\ Arena!AllocSlice("binds", BindLayout, graph.n)
    /\ \/ result' # "Ok" /\ Fail("OutOfMemory", NoNode) /\ UNCHANGED binds
       \/ /\ result' = "Ok" /\ Goto("bind")
          /\ binds' = [v \in Ids(graph) |-> Garbage]
    /\ UNCHANGED <<graph, callVars, order, used, total, acts>>

Bind(v, kind, at) == binds' = [binds EXCEPT ![v] = [kind |-> kind, at |-> at]]

\* Mutant: an input node with an initializer uses up a slice.
BindWeightCounted(v, p) ==
    IF graph.inits[p].len # NodeNumel(graph, v)
    THEN Fail("InitializerMismatch", v) /\ UNCHANGED <<binds, used>>
    ELSE Bind(v, "Weight", p) /\ Again /\ used' = used + 1

BindWeight(v, p) ==
    IF graph.inits[p].len # NodeNumel(graph, v)
    THEN Fail("InitializerMismatch", v) /\ UNCHANGED <<binds, used>>
    ELSE Bind(v, "Weight", p) /\ Again /\ UNCHANGED used

\* Mutant: the next input node reads the same slice.
BindSliceAgain(v) ==
    IF used >= Len(request) THEN Fail("MissingInput", v) /\ UNCHANGED <<binds, used>>
    ELSE IF request[used + 1] # NodeNumel(graph, v)
    THEN Fail("InputDataMismatch", v) /\ UNCHANGED <<binds, used>>
    ELSE Bind(v, "Runtime", used + 1) /\ Again /\ UNCHANGED used

BindSlice(v) ==
    IF used >= Len(request) THEN Fail("MissingInput", v) /\ UNCHANGED <<binds, used>>
    ELSE IF request[used + 1] # NodeNumel(graph, v)
    THEN Fail("InputDataMismatch", v) /\ UNCHANGED <<binds, used>>
    ELSE Bind(v, "Runtime", used + 1) /\ Again /\ used' = used + 1

\* One id of graph.inputs().
BindInput ==
    /\ pc = "bind" /\ i <= Len(graph.inputs)
    /\ LET v == graph.inputs[i]
           p == InitializerOf(graph, v)
       IN  \/ /\ NodeNumel(graph, v) = Overflow
              /\ Fail("ShapeMismatch", NoNode) /\ UNCHANGED <<binds, used>>
           \/ NodeNumel(graph, v) # Overflow /\ p # 0 /\ BindWeight(v, p)
           \/ NodeNumel(graph, v) # Overflow /\ p = 0 /\ BindSlice(v)
    /\ UNCHANGED <<graph, callVars, order, total, acts, arenaVars>>

InputsBound ==
    /\ pc = "bind" /\ i > Len(graph.inputs)
    /\ IF used # Len(request) THEN Fail("InputCountMismatch", NoNode) ELSE Goto("layout")
    /\ UNCHANGED <<graph, callVars, locals, arenaVars>>

-----------------------------------------------------------------------------
(* 3. Activation layout *)

\* Mutant: every node at the start of the buffer.
AssignNoAdvance ==
    /\ pc = "layout" /\ i <= Len(order)
    /\ LET v == order[i]
       IN  \/ IsInput(graph, v) /\ Again /\ UNCHANGED <<binds, total>>
           \/ /\ ~IsInput(graph, v)
              /\ Bind(v, "Act", 0) /\ total' = total + NodeNumel(graph, v) /\ Again
    /\ UNCHANGED <<graph, callVars, order, used, acts, arenaVars>>

\* One id of the order.  A non-input node that was marked as an input loses
\* the slice or the initializer it was bound to.
AssignOffset ==
    /\ pc = "layout" /\ i <= Len(order)
    /\ LET v == order[i]
           n == NodeNumel(graph, v)
       IN  \/ IsInput(graph, v) /\ Again /\ UNCHANGED <<binds, total>>
           \/ /\ ~IsInput(graph, v) /\ n = Overflow
              /\ Fail("ShapeMismatch", NoNode) /\ UNCHANGED <<binds, total>>
           \/ /\ ~IsInput(graph, v) /\ n # Overflow
              /\ Bind(v, "Act", total)
              /\ IF total + n > UsizeMax THEN Fail("OutOfMemory", NoNode) /\ UNCHANGED total
                 ELSE total' = total + n /\ Again
    /\ UNCHANGED <<graph, callVars, order, used, acts, arenaVars>>

AllocActs ==
    /\ pc = "layout" /\ i > Len(order)
    /\ Arena!AllocSlice("acts", F32, total)
    /\ \/ result' # "Ok" /\ Fail("OutOfMemory", NoNode) /\ UNCHANGED acts
       \/ /\ result' = "Ok" /\ Goto("dispatch")
          /\ acts' = [c \in 0 .. total - 1 |-> Garbage]
    /\ UNCHANGED <<graph, callVars, order, binds, used, total>>

-----------------------------------------------------------------------------
(* 4. Dispatch *)

\* Exec::resolve
Resolve(v) ==
    LET b == binds[v]
    IN  [dims |-> graph.nodes[v].dims,
         data |-> IF b = Garbage THEN <<Garbage>>
                  ELSE IF b.kind = "Act" THEN Fill(NodeNumel(graph, v), LAMBDA e : acts[b.at + e])
                  ELSE IF b.kind = "Weight" THEN Weight(graph, b.at)
                  ELSE Slice(request, b.at)]

Cells(v) == binds[v].at .. binds[v].at + NodeNumel(graph, v) - 1

Compute(v) ==
    LET node == graph.nodes[v]
    IN  Run(node.op, [p \in DOMAIN node.ins |-> Resolve(node.ins[p])],
            node.dims, NodeNumel(graph, v), Garbage)

SkipInput ==
    /\ pc = "dispatch" /\ i <= Len(order) /\ IsInput(graph, order[i])
    /\ Again
    /\ UNCHANGED <<graph, callVars, locals, arenaVars>>

DispatchNode ==
    /\ pc = "dispatch" /\ i <= Len(order) /\ ~IsInput(graph, order[i])
    /\ \E done \in {Compute(order[i])} :
          \/ done.err # None /\ Fail(done.err, NoNode) /\ UNCHANGED acts
          \/ /\ done.err = None /\ Again
             /\ acts' = [c \in DOMAIN acts |->
                           IF c \in Cells(order[i])
                           THEN At(done.out, c - binds[order[i]].at) ELSE acts[c]]
    /\ UNCHANGED <<graph, callVars, order, binds, used, total, arenaVars>>

\* 5. The marked outputs become owned tensors.
Collect ==
    /\ pc = "dispatch" /\ i > Len(order)
    /\ IF graph.outputs = <<>> THEN Fail("NoOutputs", NoNode)
       ELSE /\ pc' = "return" /\ i' = 1
            /\ reply' = [err |-> None, node |-> NoNode,
                         outs |-> [o \in DOMAIN graph.outputs |-> Resolve(graph.outputs[o])]]
    /\ UNCHANGED <<graph, callVars, locals, arenaVars>>

\* The locals go out of scope; the bytes stay allocated.
Return ==
    /\ pc = "return" /\ pc' = "idle"
    /\ order' = <<>> /\ binds' = <<>> /\ used' = 0 /\ total' = 0 /\ acts' = <<>>
    /\ Arena!Drop({h \in DOMAIN held : held[h] # NoRegion})
    /\ UNCHANGED <<graph, i, reply, callVars>>

-----------------------------------------------------------------------------
Step ==
    \/ AllocScratch \/ Sort \/ AllocBinds \/ BindInput \/ InputsBound
    \/ AssignOffset \/ AllocActs \/ SkipInput \/ DispatchNode \/ Collect \/ Return

Next == Step \/ Reset \/ \E req \in Requests : Call(req)

\* A call runs to its end; nobody has to call or to reset.
Spec == Init /\ [][Next]_vars /\ WF_vars(Step)

-----------------------------------------------------------------------------
(* Properties *)

Computed == {v \in Ids(graph) : ~IsInput(graph, v)}
LaidOut  == pc = "dispatch" \/ (pc = "layout" /\ i > Len(order))

TypeOK ==
    /\ pc \in {"idle", "scratch", "sort", "binds", "bind", "layout", "dispatch", "return"}
    /\ order \in Seq(Ids(graph))
    /\ \A v \in DOMAIN binds :
          binds[v] # Garbage =>
              binds[v] \in [kind : {"Act"}, at : 0 .. total]
                             \cup [kind : {"Weight"}, at : DOMAIN graph.inits]
                             \cup [kind : {"Runtime"}, at : 1 .. used]
    /\ used \in 0 .. Len(request)
    /\ total \in 0 .. UsizeMax
    /\ avail \in 0 .. buf.len
    /\ Arena!TypeOK

\* The argument of exec.rs:27-44 for its raw slices: once laid out, the ranges
\* of two nodes share no cell, each lies in the one activation slice, and a
\* node's range is above those of the nodes it reads, so the `&mut` a kernel
\* writes through never aliases a `&` it reads through.
RangesDisjoint ==
    LaidOut =>
        /\ \A v \in Computed : binds[v].kind = "Act" /\ Cells(v) \subseteq 0 .. total - 1
        /\ \A v, w \in Computed : v # w => Cells(v) \cap Cells(w) = {}
        /\ \A v \in Computed : \A w \in Producers(graph, v) \cap Computed :
              \A c \in Cells(w), d \in Cells(v) : c < d

\* Arena memory is not initialised, and the code never initialises it as a
\* whole.  What the next node reads has been written in this call all the
\* same: the binding of each of its producers, and every cell of their ranges.
ReadsWritten ==
    pc = "dispatch" /\ i <= Len(order) =>
        \A w \in Producers(graph, order[i]) :
            /\ binds[w] # Garbage
            /\ \A e \in DOMAIN Resolve(w).data : Resolve(w).data[e] # Garbage

\* Every call is answered, with the values of the outputs or with an error the
\* graph, the request or the space left justifies.
ImplementsService == Service!SSpec
=============================================================================
