---------------------------- MODULE ExecuteProofs ----------------------------
(***************************************************************************)
(* What is proved of execute_graph, for every graph the graph API can make,*)
(* every request and every arena buffer.                                   *)
(*                                                                         *)
(* The invariant ExInv says, of each part of a call, how far its loop has  *)
(* come and what that loop has established: the order is topological       *)
(* (SortIsTopological), the inputs up to the loop index are bound, the     *)
(* computed nodes of the order up to the index lie one after the other in  *)
(* the activation slice.  The arena's own invariant is kept because every  *)
(* step of the executor is one of its operations, or leaves it alone.      *)
(*                                                                         *)
(* CallInv adds what relates the call to GraphMeaning: which input was     *)
(* bound to what, how much memory was spent, and that the nodes computed   *)
(* so far hold their values.  With it every step of the executor is a step *)
(* of InferenceService, or a stutter.                                      *)
(*                                                                         *)
(* ReadsWritten needs, besides, that no kernel leaves a part of its output *)
(* as the arena had it: the index arithmetic of the transposition and of   *)
(* the concatenation is where that could go wrong.                         *)
(***************************************************************************)
EXTENDS Execute, GraphSortProofs

Holders == ToSet(ScratchSlices) \cup {"binds", "acts"}
Layouts == {Usize, BindLayout, F32}

AP == INSTANCE BumpArenaProofs WITH Lens <- Nat, Aligns <- {}

-----------------------------------------------------------------------------
(* Steps of the arena *)

\* The arena's constants are as its module assumes.
LEMMA ArenaConstants == AP!ArenaAssumption /\ AP!NoRegionAssumption /\ UsizeMax \in Nat
  <1>1. Bits \in Nat \ {0} /\ AP!UsizeMax = UsizeMax
    BY ExecuteAssumption DEF AP!UsizeMax, UsizeMax
  <1>2. {Usize, BindLayout, F32} \subseteq [size : Nat, align : Nat \ {0}]
    BY DEF Usize, BindLayout, F32, UsizeBytes, BindBytes, F32Bytes
  <1>3. NoRegion \notin [start : Nat, len : Nat, align : Nat \ {0}, fresh : BOOLEAN]
    BY MarkersAssumption DEF Arena!Region, Arena!Allocator!Region
  <1>4. AP!NoRegionAssumption
    BY <1>3 DEF AP!NoRegionAssumption
  <1>5. AP!ArenaAssumption
    BY <1>1, <1>2, ExecuteAssumption DEF AP!ArenaAssumption, Layouts
  <1>6. AP!UsizeMax \in Nat
    BY <1>4, <1>5, AP!UsizeMaxNat
  <1>7. QED
    BY <1>1, <1>4, <1>5, <1>6

\* The arena's invariant holds of the arena of a call, and is kept.
LEMMA ArenaStarts == Arena!Init => AP!ArenaInv
  <1>1. Arena!Init => AP!Init
    BY DEF Arena!Init, AP!Init, Holders
  <1>2. AP!Init => AP!ArenaInv
    BY ArenaConstants, AP!InitArenaInv
  <1>3. QED
    BY <1>1, <1>2

\* ... whichever of its operations a step is, if it is one.
LEMMA ArenaStepKept == AP!ArenaInv /\ [AP!Next]_arenaVars => AP!ArenaInv'
  BY ArenaConstants, AP!StepKeepsArenaInv DEF AP!vars, arenaVars

\* A slice allocated for one of the call's slices is a step of the arena.
LEMMA AllocIsArenaStep ==
    ASSUME NEW h \in Holders, NEW layout \in Layouts, NEW count \in Nat,
           Arena!AllocSlice(h, layout, count)
    PROVE  AP!Next
  <1>1. AP!AllocSlice(h, layout, count)
    BY DEF Arena!AllocSlice, AP!AllocSlice, Arena!AllocBytes, AP!AllocBytes,
           Arena!UsizeMax, AP!UsizeMax, Arena!Verdict, AP!Verdict, Arena!IsPowerOfTwo,
           AP!IsPowerOfTwo, Arena!NewOffset, AP!NewOffset, Arena!AlignUp, AP!AlignUp,
           Arena!Granted, AP!Granted
  <1>2. QED
    BY <1>1 DEF AP!Next, Holders, Layouts

\* So is the reset between two calls.
LEMMA ResetIsArenaStep == Arena!Reset => AP!Next
  BY DEF Arena!Reset, AP!Reset, AP!Next, Arena!Fresh, AP!Fresh,
         Arena!Allocator!Fresh, AP!Allocator!Fresh, Holders

\* Dropping slices is a step of the arena.
LEMMA DropIsArenaStep ==
    ASSUME NEW hs \in SUBSET Holders, Arena!Drop(hs)
    PROVE  AP!Next
  BY DEF Arena!Drop, AP!Drop, AP!Next, Holders

\* The slices of a call.
LEMMA HoldersAre ==
    /\ Len(ScratchSlices) = 6
    /\ \A j \in 1 .. 6 : ScratchSlices[j] \in Holders
    /\ "binds" \in Holders /\ "acts" \in Holders
  BY DEF ScratchSlices, Holders, ToSet

-----------------------------------------------------------------------------
(* The graph *)

\* numel: a number, or the mark of an overflow.
LEMMA NumElType ==
    ASSUME NEW dims \in Seq(Nat)
    PROVE  NumEl(dims) \in Nat \cup {Overflow}
  <1> DEFINE n == Len(dims)
             V == Nat \cup {Overflow}
             F == [p \in (1 .. n) \X V |-> CheckedMul(p[2], dims[p[1]])]
  <1>1. n \in Nat /\ DOMAIN dims = 1 .. n /\ \A j \in 1 .. n : dims[j] \in Nat
    OBVIOUS
  <1>2. 1 \in V
    OBVIOUS
  <1>3. ASSUME NEW a \in V, NEW b \in Nat PROVE CheckedMul(a, b) \in V
    <2>1. a = Overflow \/ (a \in Nat /\ a * b \in Nat)
      OBVIOUS
    <2>2. QED
      BY <2>1 DEF CheckedMul
  <1> HIDE DEF V, n
  <1>4. F \in [(1 .. n) \X V -> V]
    <2>1. \A p \in (1 .. n) \X V : p[1] \in 1 .. n /\ p[2] \in V /\ dims[p[1]] \in Nat
      BY <1>1
    <2> QED BY <1>3, <2>1
  <1>5. PICK it : IsFold(n, V, 1, F, it)
    <2> HIDE DEF F
    <2> QED BY <1>1, <1>2, <1>4, FoldExists
  <1>5a. it \in [SUBSET (1 .. n) -> V]
    BY <1>5 DEF IsFold
  <1>6. it = [s \in SUBSET (1 .. n) |-> 
                 IF s = {} THEN 1 ELSE CheckedMul(it[s \ {Max(s)}], dims[Max(s)])]
    <2>1. ASSUME NEW s \in SUBSET (1 .. n), s # {}
          PROVE  it[s] = CheckedMul(it[s \ {Max(s)}], dims[Max(s)])
      <3>1. Max(s) \in 1 .. n
        BY <1>1, <2>1, MaxIs
      <3>2. it[s \ {Max(s)}] \in V
        BY <1>5a
      <3>3. it[s] = F[<<Max(s), it[s \ {Max(s)}]>>]
        BY <1>5, <2>1 DEF IsFold
      <3> QED BY <3>1, <3>2, <3>3
    <2>2. \A s \in SUBSET (1 .. n) : it[s] = 
                 IF s = {} THEN 1 ELSE CheckedMul(it[s \ {Max(s)}], dims[Max(s)])
      BY <1>5, <2>1 DEF IsFold
    <2> QED BY <1>5a, <2>2
  <1> DEFINE c == CHOOSE f : f = [s \in SUBSET (1 .. n) |->
                 IF s = {} THEN 1 ELSE CheckedMul(f[s \ {Max(s)}], dims[Max(s)])]
  <1>7. NumEl(dims) = c[1 .. n]
    BY <1>1, Zenon DEF NumEl, FoldLeft, MapThenFoldSet
  <1>8. c = [s \in SUBSET (1 .. n) |->
                 IF s = {} THEN 1 ELSE CheckedMul(c[s \ {Max(s)}], dims[Max(s)])]
    BY <1>6, Zenon
  <1> HIDE DEF c
  <1>9. \A k \in 0 .. n : c[1 .. k] \in V
    <2> DEFINE P == {k \in 0 .. n : c[1 .. k] \in V}
    <2>1. 0 \in P
      <3>1. 1 .. 0 = {}
        OBVIOUS
      <3>2. c[{}] = 1
        BY <1>8
      <3>3. QED
        BY <1>1, <1>2, <3>1, <3>2
    <2>2. ASSUME NEW k \in 0 .. n - 1, k \in P PROVE k + 1 \in P
      <3>0. n \in Nat
        BY <1>1
      <3>1. k \in Nat /\ k + 1 \in 1 .. n /\ 1 .. k + 1 \in SUBSET (1 .. n) /\ 1 .. k + 1 # {}
        BY <3>0, PrefixOf
      <3>2. c[1 .. k + 1] = CheckedMul(c[(1 .. k + 1) \ {Max(1 .. k + 1)}], dims[Max(1 .. k + 1)])
        BY <1>8, <3>1
      <3>3. c[1 .. k + 1] = CheckedMul(c[1 .. k], dims[k + 1])
        BY <3>1, <3>2, LastOf
      <3>4. QED
        BY <1>1, <1>3, <2>2, <3>1, <3>3
    <2> HIDE DEF P
    <2>3. \A k \in 0 .. n : k \in P
      BY <1>1, <2>1, <2>2, UpTo
    <2>4. QED
      BY <2>3 DEF P
  <1>10. QED
    BY <1>1, <1>7, <1>9 DEF V

\* What is assumed of the graph.
LEMMA GraphIs ==
    ASSUME NEW g \in Graphs
    PROVE  /\ IsGraph(g) /\ g.n \in Nat /\ g.inputs \in Seq(Ids(g))
           /\ EdgeCount(g) \in Nat
           /\ \A v \in Ids(g) : NodeNumel(g, v) \in Nat \cup {Overflow}
           /\ \A v \in Ids(g) : IsInput(g, v) => \E a \in 1 .. Len(g.inputs) : g.inputs[a] = v
           /\ \A v \in Ids(g) : \A w \in Producers(g, v) :
                 \E r \in DOMAIN g.refs : g.refs[r].to = v /\ g.refs[r].from = w
  <1>1. /\ g.n \in Nat /\ g.inputs \in Seq(Ids(g))
        /\ g.refs \in Seq([to : Ids(g), from : Nat])
        /\ \A v \in Ids(g) :
              /\ g.nodes[v].dims \in Seq(Nat)
              /\ IsInput(g, v) => v \in ToSet(g.inputs)
              /\ \A w \in Producers(g, v) :
                    \E r \in DOMAIN g.refs : g.refs[r] = [to |-> v, from |-> w]
    BY GraphsAssumption, Zenon DEF WellFormed
  <1>2. IsGraph(g)
    BY <1>1 DEF IsGraph, Edge
  <1>3. EdgeCount(g) \in Nat
    BY <1>2, GraphRefs DEF EdgeCount
  <1>4. ASSUME NEW v \in Ids(g) PROVE NodeNumel(g, v) \in Nat \cup {Overflow}
    BY <1>1, NumElType DEF NodeNumel
  <1>5. \A v \in Ids(g) : IsInput(g, v) => \E a \in 1 .. Len(g.inputs) : g.inputs[a] = v
    BY <1>1, Members
  <1>6. \A v \in Ids(g) : \A w \in Producers(g, v) :
           \E r \in DOMAIN g.refs : g.refs[r].to = v /\ g.refs[r].from = w
    <2> SUFFICES ASSUME NEW v \in Ids(g), NEW w \in Producers(g, v)
                 PROVE  \E r \in DOMAIN g.refs : g.refs[r].to = v /\ g.refs[r].from = w
      OBVIOUS
    <2>1. PICK r \in DOMAIN g.refs : g.refs[r] = [to |-> v, from |-> w]
      BY <1>1
    <2>2. QED
      BY <2>1
  <1>7. QED
    BY <1>1, <1>2, <1>3, <1>4, <1>5, <1>6, Zenon

\* The order the sort gives, when it gives one.
LEMMA SortedOrder ==
    ASSUME NEW g \in Graphs, SortOf[g].verdict = "ordered"
    PROVE  IsTopological(g, SortOf[g].order)
  <1>1. IsGraph(g)
    BY GraphIs
  <1>2. SortOf[g] = TopologicalSort(g)
    BY DEF SortOf
  <1>3. QED
    BY <1>1, <1>2, SortIsTopological

-----------------------------------------------------------------------------
(* The inductive invariant *)

Numel(v) == NodeNumel(graph, v)

Bindings == [kind : {"Act"}, at : 0 .. total]
              \cup [kind : {"Weight"}, at : DOMAIN graph.inits]
              \cup [kind : {"Runtime"}, at : 1 .. used]

Typed ==
    /\ graph \in Graphs
    /\ pc \in {"idle", "scratch", "sort", "binds", "bind", "layout", "dispatch", "return"}
    /\ order \in Seq(Ids(graph))
    /\ \A v \in DOMAIN binds : binds[v] # Garbage => binds[v] \in Bindings
    /\ request \in Seq(Nat)
    /\ used \in 0 .. Len(request)
    /\ total \in 0 .. UsizeMax
    /\ avail \in 0 .. buf.len

\* The loop index stays within the loop that runs, or is one past its end.
Counting ==
    /\ i \in Nat \ {0}
    /\ pc = "idle" => used = 0
    /\ pc = "scratch" => i <= 6
    /\ pc = "bind"    => i <= Len(graph.inputs) + 1
    /\ pc = "layout"  => i <= Len(order) + 1

\* From the sort on, the call goes through the nodes in a topological order.
Ordered == pc \in {"binds", "bind", "layout", "dispatch"} => IsTopological(graph, order)

\* The inputs that the loop has been over are bound.
BoundTo ==
    IF pc = "bind" THEN i - 1 ELSE IF pc \in {"layout", "dispatch"} THEN Len(graph.inputs) ELSE 0

Bound ==
    /\ pc \in {"bind", "layout", "dispatch"} => binds = [v \in Ids(graph) |-> binds[v]]
    /\ \A a \in 1 .. BoundTo : binds[graph.inputs[a]] # Garbage

\* The computed nodes that the layout has been over lie one after the other.
LaidTo ==
    IF pc = "layout" THEN i - 1 ELSE IF pc = "dispatch" THEN Len(order) ELSE 0

Laid ==
    /\ \A a \in 1 .. LaidTo : ~IsInput(graph, order[a]) =>
          /\ binds[order[a]] # Garbage
          /\ binds[order[a]].kind = "Act"
          /\ binds[order[a]].at \in Nat /\ Numel(order[a]) \in Nat
          /\ binds[order[a]].at + Numel(order[a]) <= total
    /\ \A a, b \in 1 .. LaidTo :
          a < b /\ ~IsInput(graph, order[a]) /\ ~IsInput(graph, order[b]) =>
             binds[order[a]].at + Numel(order[a]) <= binds[order[b]].at

\* No slice outlives the reset after its call: none is held between calls.
Borrowed ==
    /\ \A h \in Holders : held[h] # NoRegion => held[h].fresh
    /\ pc = "idle" => \A h \in Holders : held[h] = NoRegion

ExInv == Typed /\ Counting /\ Ordered /\ Bound /\ Laid /\ Borrowed /\ AP!ArenaInv

\* What the arena's invariant says of the types here.
LEMMA ArenaTyped == AP!ArenaInv => Arena!TypeOK /\ buf \in Bufs /\ offset \in 0 .. buf.len
  BY DEF AP!ArenaInv, AP!TypeOK, Arena!TypeOK, Arena!Region, AP!Region,
         Arena!Allocator!Region, AP!Allocator!Region, Holders

\* Before the first call nothing is bound, laid out or held.
LEMMA InvStarts == Init => ExInv
  <1> SUFFICES ASSUME Init PROVE ExInv
    OBVIOUS
  <1> USE DEF Init
  <1>1. AP!ArenaInv
    BY ArenaStarts
  <1>2. buf.len \in Nat
    BY ExecuteAssumption DEF Arena!Init
  <1>3. Typed
    <2>1. order \in Seq(Ids(graph)) /\ request \in Seq(Nat) /\ Len(request) = 0
      OBVIOUS
    <2>2. DOMAIN binds = {}
      OBVIOUS
    <2>3. QED
      BY <1>2, <2>1, <2>2, ArenaConstants DEF Typed
  <1>4. Borrowed
    BY DEF Borrowed, Arena!Init, Holders
  <1>5. Counting /\ Ordered /\ Bound /\ Laid
    BY DEF Counting, Ordered, Bound, BoundTo, Laid, LaidTo
  <1>6. QED
    BY <1>1, <1>3, <1>4, <1>5 DEF ExInv

\* A granted slice is fresh.
LEMMA AllocKeepsFresh ==
    ASSUME AP!ArenaInv, NEW h \in Holders, NEW layout, NEW count,
           Arena!AllocSlice(h, layout, count),
           \A k \in Holders : held[k] # NoRegion => held[k].fresh
    PROVE  /\ UNCHANGED buf
           /\ \A k \in Holders : (held[k] # NoRegion => held[k].fresh)'
  <1>1. held = [k \in Holders |-> held[k]]
    BY DEF AP!ArenaInv, AP!TypeOK, Holders
  <1>2. CASE UNCHANGED held
    BY <1>2 DEF Arena!AllocSlice, Arena!AllocBytes
  <1>3. CASE ~UNCHANGED held
    <2>1. PICK start, len, align : held' = [held EXCEPT ![h] = Arena!Granted(start, len, align)]
      BY <1>3 DEF Arena!AllocSlice, Arena!AllocBytes
    <2>2. UNCHANGED buf
      BY DEF Arena!AllocSlice, Arena!AllocBytes
    <2>3. QED
      BY <1>1, <2>1, <2>2 DEF Arena!Granted
  <1>4. QED
    BY <1>2, <1>3

-----------------------------------------------------------------------------
(* One lemma per step of a call *)

\* A call starts with nothing held and no local set.
LEMMA CallKeeps == ExInv /\ (\E req \in Requests : Call(req)) => ExInv'
  <1> SUFFICES ASSUME ExInv, NEW req \in Requests, Call(req) PROVE ExInv'
    OBVIOUS
  <1> USE DEF Call, arenaVars, locals
  <1>1. AP!ArenaInv'
    BY ArenaStepKept DEF ExInv
  <1>2. req \in Seq(Nat) /\ Len(req) \in Nat
    BY ExecuteAssumption
  <1>3. buf \in Bufs /\ offset \in 0 .. buf.len /\ buf.len \in Nat
    BY ArenaTyped, ExecuteAssumption DEF ExInv
  <1>4. Typed'
    <2>1. used = 0
      BY DEF ExInv, Counting
    <2>2. Bindings' = Bindings
      BY DEF Bindings
    <2>3. avail' \in 0 .. buf.len
      BY <1>3
    <2>4. QED
      BY <1>2, <2>1, <2>2, <2>3 DEF ExInv, Typed
  <1>5. Counting' /\ Ordered'
    BY DEF Counting, Ordered
  <1>6. Bound' /\ Laid'
    BY DEF Bound, BoundTo, Laid, LaidTo
  <1>7. Borrowed'
    BY DEF ExInv, Borrowed
  <1>8. QED
    BY <1>1, <1>4, <1>5, <1>6, <1>7 DEF ExInv

\* A reset finds no slice held, so no slice goes stale.
LEMMA ResetKeeps == ExInv /\ Reset => ExInv'
  <1> SUFFICES ASSUME ExInv, Reset PROVE ExInv'
    OBVIOUS
  <1> USE DEF Reset, callVars, locals
  <1>1. AP!ArenaInv'
    BY ArenaStepKept, ResetIsArenaStep DEF ExInv
  <1>2. UNCHANGED buf
    BY DEF Arena!Reset
  <1>3. Typed'
    BY <1>2 DEF ExInv, Typed, Bindings
  <1>4. Counting' /\ Ordered' /\ Bound' /\ Laid'
    BY DEF ExInv, Counting, Ordered, Bound, BoundTo, Laid, LaidTo, Numel
  <1>5. \A h \in Holders : held'[h] = NoRegion
    BY DEF ExInv, Borrowed, Arena!Reset, Arena!Fresh, Arena!Allocator!Fresh, Holders
  <1>6. Borrowed'
    BY <1>5 DEF Borrowed
  <1>7. QED
    BY <1>1, <1>3, <1>4, <1>6 DEF ExInv

\* A step that fails leaves a state in which the call only returns.
LEMMA AllocScratchKeeps == ExInv /\ AllocScratch => ExInv'
  <1> SUFFICES ASSUME ExInv, AllocScratch PROVE ExInv'
    OBVIOUS
  <1> USE DEF AllocScratch, callVars, locals
  <1>1. /\ ScratchSlices[i] \in Holders /\ Usize \in Layouts
        /\ ScratchLen(ScratchSlices[i]) \in Nat
    <2>1. i \in 1 .. 6
      BY DEF ExInv, Counting
    <2>2. graph.n \in Nat /\ EdgeCount(graph) \in Nat
      BY GraphIs DEF ExInv, Typed
    <2>3. QED
      BY <2>1, <2>2, HoldersAre DEF ScratchLen, Layouts
  <1>2. AP!ArenaInv'
    BY <1>1, ArenaStepKept, AllocIsArenaStep DEF ExInv
  <1>3. UNCHANGED buf /\ \A k \in Holders : (held[k] # NoRegion => held[k].fresh)'
    BY <1>1, AllocKeepsFresh DEF ExInv, Borrowed
  <1>4. /\ pc' \in {"return", "scratch", "sort"} /\ i' \in Nat \ {0}
        /\ pc' = "scratch" => i' <= 6
    BY HoldersAre DEF ExInv, Counting, Fail, Again, Goto
  <1>5. Typed'
    BY <1>3, <1>4 DEF ExInv, Typed, Bindings
  <1>6. Counting' /\ Ordered' /\ Bound' /\ Laid' /\ Borrowed'
    BY <1>3, <1>4 DEF Counting, Ordered, Bound, BoundTo, Laid, LaidTo, Borrowed
  <1>7. QED
    BY <1>2, <1>5, <1>6 DEF ExInv

\* The order that the sort leaves is topological.
LEMMA SortKeeps == ExInv /\ Sort => ExInv'
  <1> SUFFICES ASSUME ExInv, Sort PROVE ExInv'
    OBVIOUS
  <1> USE DEF Sort, callVars, arenaVars
  <1>1. AP!ArenaInv'
    BY ArenaStepKept DEF ExInv
  <1>2. graph \in Graphs
    BY DEF ExInv, Typed
  <1>3. /\ pc' \in {"return", "binds"} /\ i' = 1
        /\ pc' = "binds" => IsTopological(graph, order')
        /\ order' \in Seq(Ids(graph))
    <2>1. CASE UNCHANGED order /\ pc' = "return" /\ i' = 1
      BY <2>1 DEF ExInv, Typed
    <2>2. CASE SortOf[graph].verdict = "ordered" /\ order' = SortOf[graph].order /\ Goto("binds")
      <3>1. IsTopological(graph, order')
        BY <1>2, <2>2, SortedOrder
      <3>2. QED
        BY <2>2, <3>1 DEF IsTopological, Goto
    <2>3. QED
      BY <2>1, <2>2 DEF Fail
  <1>4. Typed'
    BY <1>3 DEF ExInv, Typed, Bindings
  <1>5. Ordered'
    BY <1>3 DEF Ordered
  <1>6. Counting' /\ Bound' /\ Laid' /\ Borrowed'
    BY <1>3 DEF ExInv, Counting, Bound, BoundTo, Laid, LaidTo, Borrowed
  <1>7. QED
    BY <1>1, <1>4, <1>5, <1>6 DEF ExInv

\* The bindings start as garbage, one for each node.
LEMMA AllocBindsKeeps == ExInv /\ AllocBinds => ExInv'
  <1> SUFFICES ASSUME ExInv, AllocBinds PROVE ExInv'
    OBVIOUS
  <1> USE DEF AllocBinds, callVars
  <1>1. /\ "binds" \in Holders /\ BindLayout \in Layouts /\ graph.n \in Nat
    BY GraphIs, HoldersAre DEF ExInv, Typed, Layouts
  <1>2. AP!ArenaInv'
    BY <1>1, ArenaStepKept, AllocIsArenaStep DEF ExInv
  <1>3. UNCHANGED buf /\ \A k \in Holders : (held[k] # NoRegion => held[k].fresh)'
    BY <1>1, AllocKeepsFresh DEF ExInv, Borrowed
  <1>4. /\ pc' \in {"return", "bind"} /\ i' = 1
        /\ pc' = "return" => UNCHANGED binds
        /\ pc' = "bind"   => binds' = [v \in Ids(graph) |-> Garbage]
    BY DEF Fail, Goto
  <1>5. Typed'
    <2>1. \A v \in DOMAIN binds' : binds'[v] # Garbage => binds'[v] \in Bindings'
      BY <1>4 DEF ExInv, Typed, Bindings
    <2>2. QED
      BY <1>3, <1>4, <2>1 DEF ExInv, Typed
  <1>6. Ordered'
    BY <1>4 DEF ExInv, Ordered
  <1>7. Bound'
    BY <1>4 DEF Bound, BoundTo
  <1>8. Counting'
    <2>1. graph.inputs \in Seq(Ids(graph))
      BY GraphIs DEF ExInv, Typed
    <2>2. QED
      BY <1>4, <2>1 DEF Counting
  <1>9. Laid' /\ Borrowed'
    BY <1>3, <1>4 DEF Laid, LaidTo, Borrowed
  <1>10. QED
    BY <1>2, <1>5, <1>6, <1>7, <1>8, <1>9 DEF ExInv

\* The initializers are counted from 1.
LEMMA InitsAre == \A g \in Graphs : DOMAIN g.inits \subseteq Nat
  <1>1. \A g \in Graphs : DOMAIN g.inits = 1 .. Len(g.inits)
    BY GraphsAssumption DEF WellFormed
  <1>2. QED
    BY <1>1

\* The first initializer that matches is one of the graph's.
LEMMA InitializerIs ==
    ASSUME NEW g \in Graphs, NEW v, InitializerOf(g, v) # 0
    PROVE  InitializerOf(g, v) \in DOMAIN g.inits
  <1> DEFINE named == {p \in 1 .. Len(g.inits) : g.inits[p].name = g.nodes[v].name}
  <1>1. DOMAIN g.inits = 1 .. Len(g.inits)
    BY GraphsAssumption DEF WellFormed
  <1>2. named # {} /\ InitializerOf(g, v) = Min(named)
    BY DEF InitializerOf, SelectInSeq
  <1>3. named \in SUBSET Nat
    OBVIOUS
  <1>4. Min(named) \in named
    <2> HIDE DEF named
    <2>1. QED
      BY <1>2, <1>3, MinIs
  <1>5. QED
    BY <1>1, <1>2, <1>4

\* One node is bound: to a slice, an initializer or a range.
LEMMA BindKeeps ==
    ASSUME NEW v \in Ids(graph), NEW kind, NEW at, Bind(v, kind, at),
           binds = [w \in Ids(graph) |-> binds[w]]
    PROVE  /\ binds' = [w \in Ids(graph) |-> binds'[w]]
           /\ binds'[v] = [kind |-> kind, at |-> at]
           /\ \A w \in Ids(graph) : w # v => binds'[w] = binds[w]
  <1>1. DOMAIN binds = Ids(graph)
    OBVIOUS
  <1>2. QED
    BY <1>1 DEF Bind

\* One more input is bound; no binding is taken away.
LEMMA BindInputKeeps == ExInv /\ BindInput => ExInv'
  <1> SUFFICES ASSUME ExInv, BindInput PROVE ExInv'
    OBVIOUS
  <1> USE DEF BindInput, callVars, arenaVars
  <1>1. AP!ArenaInv'
    BY ArenaStepKept DEF ExInv
  <1>2. graph \in Graphs /\ graph.inputs \in Seq(Ids(graph)) /\ UNCHANGED <<graph, order, total>>
    BY GraphIs DEF ExInv, Typed
  <1>3. PICK v : v = graph.inputs[i]
    OBVIOUS
  <1>4. i \in 1 .. Len(graph.inputs) /\ v \in Ids(graph) /\ Len(graph.inputs) \in Nat
    BY <1>2, <1>3 DEF ExInv, Counting
  <1>5. binds = [w \in Ids(graph) |-> binds[w]]
    BY DEF ExInv, Bound
  <1>6. \/ UNCHANGED <<binds, used>> /\ pc' = "return" /\ i' = 1
        \/ /\ pc' = "bind" /\ i' = i + 1 /\ UNCHANGED used
           /\ InitializerOf(graph, v) # 0 /\ Bind(v, "Weight", InitializerOf(graph, v))
        \/ /\ pc' = "bind" /\ i' = i + 1 /\ used < Len(request) /\ used' = used + 1
           /\ Bind(v, "Runtime", used + 1)
    BY <1>3 DEF BindWeight, BindSlice, Fail, Again, ExInv, Typed
  <1>7. CASE UNCHANGED <<binds, used>> /\ pc' = "return" /\ i' = 1
    <2>1. Typed'
      BY <1>7 DEF ExInv, Typed, Bindings
    <2>2. Counting' /\ Ordered' /\ Bound' /\ Laid' /\ Borrowed'
      BY <1>7 DEF ExInv, Counting, Ordered, Bound, BoundTo, Laid, LaidTo, Borrowed
    <2>3. QED
      BY <1>1, <2>1, <2>2 DEF ExInv
  <1>8. CASE /\ pc' = "bind" /\ i' = i + 1 /\ used' \in {used, used + 1}
             /\ used' \in 0 .. Len(request)
             /\ \E kind, at : Bind(v, kind, at) /\ [kind |-> kind, at |-> at] \in Bindings'
    <2>1. PICK kind, at : Bind(v, kind, at) /\ [kind |-> kind, at |-> at] \in Bindings'
      BY <1>8
    <2>2. /\ binds' = [w \in Ids(graph) |-> binds'[w]]
          /\ binds'[v] = [kind |-> kind, at |-> at]
          /\ \A w \in Ids(graph) : w # v => binds'[w] = binds[w]
      BY <1>4, <1>5, <2>1, BindKeeps
    <2>3. Bindings \subseteq Bindings'
      BY <1>2, <1>8 DEF ExInv, Typed, Bindings
    <2>4. binds'[v] # Garbage
      <3>1. [kind |-> kind, at |-> at] \in [kind : {"Act", "Weight", "Runtime"}, at : Nat]
        <4>1. DOMAIN graph'.inits \subseteq Nat
          BY <1>2, InitsAre
        <4>2. QED
          BY <2>1, <4>1 DEF Bindings
      <3>2. QED
        BY <2>2, <3>1, MarkersAssumption
    <2>5. Typed'
      <3>1. \A w \in DOMAIN binds' : binds'[w] # Garbage => binds'[w] \in Bindings'
        BY <2>1, <2>2, <2>3, <1>5 DEF ExInv, Typed
      <3>2. QED
        BY <1>2, <1>8, <3>1 DEF ExInv, Typed
    <2>6. Bound'
      <3>1. \A a \in 1 .. i - 1 : binds[graph.inputs[a]] # Garbage
        BY DEF ExInv, Bound, BoundTo
      <3>2. \A a \in 1 .. i : graph.inputs[a] \in Ids(graph)
        BY <1>2, <1>4
      <3>3. \A a \in 1 .. i : a = i \/ a \in 1 .. i - 1
        BY <1>4
      <3>4. \A a \in 1 .. i : binds'[graph.inputs[a]] # Garbage
        BY <1>3, <2>2, <2>4, <3>1, <3>2, <3>3
      <3>5. BoundTo' = i
        BY <1>4, <1>8 DEF BoundTo
      <3>6. QED
        BY <1>2, <2>2, <3>4, <3>5 DEF Bound
    <2>7. Counting' /\ Ordered' /\ Laid' /\ Borrowed'
      BY <1>2, <1>4, <1>8 DEF ExInv, Counting, Ordered, Laid, LaidTo, Borrowed
    <2>8. QED
      BY <1>1, <2>5, <2>6, <2>7 DEF ExInv
  <1>9. CASE /\ pc' = "bind" /\ i' = i + 1 /\ UNCHANGED used
             /\ InitializerOf(graph, v) # 0 /\ Bind(v, "Weight", InitializerOf(graph, v))
    <2>1. [kind |-> "Weight", at |-> InitializerOf(graph, v)] \in Bindings'
      BY <1>2, <1>9, InitializerIs DEF Bindings
    <2>2. QED
      BY <1>8, <1>9, <2>1 DEF ExInv, Typed
  <1>10. CASE /\ pc' = "bind" /\ i' = i + 1 /\ used < Len(request) /\ used' = used + 1
              /\ Bind(v, "Runtime", used + 1)
    <2>1. used \in Nat /\ used' \in 0 .. Len(request)
      BY <1>10 DEF ExInv, Typed
    <2>2. [kind |-> "Runtime", at |-> used + 1] \in Bindings'
      BY <1>10, <2>1 DEF Bindings
    <2>3. QED
      BY <1>8, <1>10, <2>1, <2>2
  <1>11. QED
    BY <1>6, <1>7, <1>9, <1>10

\* After the input loop every marked input is bound.
LEMMA InputsBoundKeeps == ExInv /\ InputsBound => ExInv'
  <1> SUFFICES ASSUME ExInv, InputsBound PROVE ExInv'
    OBVIOUS
  <1> USE DEF InputsBound, callVars, locals, arenaVars
  <1>1. AP!ArenaInv'
    BY ArenaStepKept DEF ExInv
  <1>2. pc' \in {"return", "layout"} /\ i' = 1
    BY DEF Fail, Goto
  <1>3. i = Len(graph.inputs) + 1 /\ Len(graph.inputs) \in Nat
    <2>1. graph.inputs \in Seq(Ids(graph))
      BY GraphIs DEF ExInv, Typed
    <2>2. Len(graph.inputs) \in Nat
      BY <2>1
    <2>3. QED
      BY <2>2 DEF ExInv, Counting
  <1>4. Typed'
    BY <1>2 DEF ExInv, Typed, Bindings
  <1>5. Bound'
    BY <1>2, <1>3 DEF ExInv, Bound, BoundTo
  <1>6. Counting' /\ Ordered'
    BY <1>2 DEF ExInv, Counting, Ordered, Typed
  <1>7. Laid' /\ Borrowed'
    BY <1>2 DEF ExInv, Laid, LaidTo, Borrowed
  <1>8. QED
    BY <1>1, <1>4, <1>5, <1>6, <1>7 DEF ExInv

\* A computed node is given the cells from the total on, above those of the
\* nodes before it in the order; what the input loop has bound stays bound.
LEMMA AssignOffsetKeeps == ExInv /\ AssignOffset => ExInv'
  <1> SUFFICES ASSUME ExInv, AssignOffset PROVE ExInv'
    OBVIOUS
  <1> USE DEF AssignOffset, callVars, arenaVars
  <1>1. AP!ArenaInv'
    BY ArenaStepKept DEF ExInv
  <1>2. PICK v, n, I : v = order[i] /\ n = Numel(v) /\ I = Ids(graph)
    OBVIOUS
  <1>3. /\ graph \in Graphs /\ UNCHANGED <<graph, order, used, request, buf, avail>>
        /\ order \in Seq(I) /\ Len(order) \in Nat /\ Len(order) = graph.n
        /\ i \in 1 .. Len(order) /\ v \in I /\ i \in Nat
        /\ \A a \in 1 .. Len(order) : order[a] \in I
    <2>1. graph \in Graphs /\ IsTopological(graph, order) /\ i \in Nat \ {0} /\ i <= Len(order)
      BY DEF ExInv, Typed, Counting, Ordered
    <2>2. order \in Seq(I) /\ Len(order) = graph.n
      BY <1>2, <2>1 DEF IsTopological
    <2>3. i \in 1 .. Len(order)
      BY <2>1, <2>2
    <2>4. QED
      BY <1>2, <2>1, <2>2, <2>3
  <1>4. n \in Nat \cup {Overflow} /\ total \in Nat /\ Overflow \notin Nat
    BY <1>2, <1>3, GraphIs DEF ExInv, Typed, Numel, Overflow
  <1>5. binds = [w \in I |-> binds[w]] /\ pc = "layout"
    BY <1>2 DEF ExInv, Bound
  <1>6. /\ \A a \in 1 .. i - 1 : ~IsInput(graph, order[a]) =>
              /\ binds[order[a]] # Garbage
              /\ binds[order[a]].kind = "Act"
              /\ binds[order[a]].at \in Nat /\ Numel(order[a]) \in Nat
              /\ binds[order[a]].at + Numel(order[a]) <= total
        /\ \A a, b \in 1 .. i - 1 :
              a < b /\ ~IsInput(graph, order[a]) /\ ~IsInput(graph, order[b]) =>
                 binds[order[a]].at + Numel(order[a]) <= binds[order[b]].at
    BY <1>5 DEF ExInv, Laid, LaidTo
  <1>7. \A a \in 1 .. Len(graph.inputs) : /\ binds[graph.inputs[a]] # Garbage
                                          /\ graph.inputs[a] \in I
    BY <1>2, <1>3, <1>5, GraphIs DEF ExInv, Bound, BoundTo
  <1>8. CASE IsInput(graph, v) /\ Again /\ UNCHANGED <<binds, total>>
    <2>1. pc' = "layout" /\ i' = i + 1
      BY <1>5, <1>8 DEF Again
    <2>2. Typed'
      BY <1>3, <1>8, <2>1 DEF ExInv, Typed, Bindings
    <2>3. Counting' /\ Ordered' /\ Borrowed'
      BY <1>3, <1>5, <2>1 DEF ExInv, Counting, Ordered, Borrowed
    <2>4. Bound'
      BY <1>3, <1>5, <1>7, <1>8, <2>1 DEF ExInv, Bound, BoundTo
    <2>5. Laid'
      <3>1. LaidTo' = i /\ \A a \in 1 .. i : a \in 1 .. i - 1 \/ a = i
        BY <1>3, <2>1 DEF LaidTo
      <3>2. \A a \in 1 .. i : ~IsInput(graph, order[a]) => a \in 1 .. i - 1
        BY <1>2, <1>8, <3>1
      <3>3. UNCHANGED <<graph, order, binds, total>>
        BY <1>3, <1>8
      <3>4. QED
        BY <1>6, <3>1, <3>2, <3>3 DEF Laid, Numel
    <2>6. QED
      BY <1>1, <2>2, <2>3, <2>4, <2>5 DEF ExInv
  <1>9. CASE pc' = "return" /\ i' = 1 /\ UNCHANGED <<binds, total>>
    <2>1. Typed'
      BY <1>3, <1>9 DEF ExInv, Typed, Bindings
    <2>2. Counting' /\ Ordered' /\ Bound' /\ Laid' /\ Borrowed'
      BY <1>9 DEF ExInv, Counting, Ordered, Bound, BoundTo, Laid, LaidTo, Borrowed
    <2>3. QED
      BY <1>1, <2>1, <2>2 DEF ExInv
  <1>10. CASE /\ ~IsInput(graph, v) /\ n # Overflow /\ Bind(v, "Act", total)
              /\ \/ pc' = "return" /\ i' = 1 /\ UNCHANGED total
                 \/ total' = total + n /\ total + n <= UsizeMax /\ Again
    <2>1. n \in Nat /\ total' \in 0 .. UsizeMax /\ total <= total'
      BY <1>4, <1>10 DEF ExInv, Typed
    <2>2. /\ binds' = [w \in I |-> binds'[w]]
          /\ binds'[v] = [kind |-> "Act", at |-> total]
          /\ \A w \in I : w # v => binds'[w] = binds[w]
      BY <1>2, <1>3, <1>5, <1>10, BindKeeps
    <2>3. binds'[v] \in Bindings' /\ Bindings \subseteq Bindings'
      BY <1>3, <1>4, <2>1, <2>2 DEF Bindings, ExInv, Typed
    <2>4. binds'[v] # Garbage
      <3>1. [kind |-> "Act", at |-> total] \in [kind : {"Act", "Weight", "Runtime"}, at : Nat]
        BY <1>4
      <3>2. QED
        BY <2>2, <3>1, MarkersAssumption
    <2>5. Typed'
      <3>1. \A w \in DOMAIN binds' : binds'[w] # Garbage => binds'[w] \in Bindings'
        <4>1. ASSUME NEW w \in I, binds'[w] # Garbage PROVE binds'[w] \in Bindings'
          <5>1. CASE w = v
            BY <2>3, <5>1
          <5>2. CASE w # v
            <6>1. w \in DOMAIN binds /\ binds'[w] = binds[w]
              BY <1>5, <2>2, <5>2
            <6>2. QED
              BY <2>3, <4>1, <6>1 DEF ExInv, Typed
          <5>3. QED
            BY <5>1, <5>2
        <4>2. DOMAIN binds' = I
          BY <2>2
        <4>3. QED
          BY <4>1, <4>2
      <3>2. pc' \in {"layout", "return"}
        BY <1>5, <1>10 DEF Again
      <3>3. QED
        BY <1>3, <2>1, <3>1, <3>2 DEF ExInv, Typed
    <2>6. CASE pc' = "return" /\ i' = 1
      <3>1. Counting' /\ Ordered' /\ Bound' /\ Laid' /\ Borrowed'
        BY <2>6 DEF ExInv, Counting, Ordered, Bound, BoundTo, Laid, LaidTo, Borrowed
      <3>2. QED
        BY <1>1, <2>5, <3>1 DEF ExInv
    <2>7. CASE total' = total + n /\ pc' = "layout" /\ i' = i + 1
      <3>1. Counting' /\ Ordered' /\ Borrowed'
        BY <1>3, <1>5, <2>7 DEF ExInv, Counting, Ordered, Borrowed
      <3>2. Bound'
        <4>1. \A a \in 1 .. Len(graph.inputs) : binds'[graph.inputs[a]] # Garbage
          BY <1>7, <2>2, <2>4
        <4>2. BoundTo' = Len(graph.inputs)
          BY <1>3, <2>7 DEF BoundTo
        <4>3. binds' = [w \in Ids(graph') |-> binds'[w]] /\ graph'.inputs = graph.inputs
          BY <1>2, <1>3, <2>2
        <4>4. QED
          BY <4>1, <4>2, <4>3 DEF Bound
      <3>3. LaidTo' = i /\ \A a \in 1 .. i : a \in 1 .. i - 1 \/ a = i
        BY <1>3, <2>7 DEF LaidTo
      <3>4. \A a \in 1 .. i - 1 : order[a] # v /\ order[a] \in I
        <4>1. \A a, b \in 1 .. Len(order) : order[a] = order[b] => a = b
          BY <1>5 DEF ExInv, Ordered, IsTopological, Distinct
        <4>2. \A a \in 1 .. i - 1 : a \in 1 .. Len(order) /\ a # i
          BY <1>3
        <4>3. QED
          BY <1>2, <1>3, <4>1, <4>2
      <3>5. \A a \in 1 .. i - 1 : binds'[order[a]] = binds[order[a]]
        BY <2>2, <3>4
      <3>6. /\ binds'[order[i]].kind = "Act" /\ binds'[order[i]].at = total
            /\ Numel(order[i]) = n /\ binds'[order[i]] # Garbage
        BY <1>2, <2>2, <2>4
      <3>7. \A a \in 1 .. i : ~IsInput(graph, order[a]) =>
              /\ binds'[order[a]] # Garbage
              /\ binds'[order[a]].kind = "Act"
              /\ binds'[order[a]].at \in Nat /\ Numel(order[a]) \in Nat
              /\ binds'[order[a]].at + Numel(order[a]) <= total'
        <4> SUFFICES ASSUME NEW a \in 1 .. i, ~IsInput(graph, order[a])
                     PROVE  /\ binds'[order[a]] # Garbage
                            /\ binds'[order[a]].kind = "Act"
                            /\ binds'[order[a]].at \in Nat /\ Numel(order[a]) \in Nat
                            /\ binds'[order[a]].at + Numel(order[a]) <= total'
          OBVIOUS
        <4>1. CASE a = i
          BY <1>4, <2>1, <2>7, <3>6, <4>1
        <4>2. CASE a \in 1 .. i - 1
          <5>1. binds'[order[a]] = binds[order[a]]
            BY <3>5, <4>2
          <5>2. /\ binds[order[a]] # Garbage
                /\ binds[order[a]].kind = "Act"
                /\ binds[order[a]].at \in Nat /\ Numel(order[a]) \in Nat
                /\ binds[order[a]].at + Numel(order[a]) <= total
            BY <1>6, <4>2
          <5>3. PICK x, m : x = binds[order[a]].at /\ m = Numel(order[a])
            OBVIOUS
          <5>4. x + m <= total' /\ x \in Nat /\ m \in Nat
            BY <1>4, <2>1, <2>7, <5>2, <5>3
          <5>5. QED
            BY <5>1, <5>2, <5>3, <5>4
        <4>3. QED
          BY <3>3, <4>1, <4>2
      <3>8. \A a, b \in 1 .. i :
              a < b /\ ~IsInput(graph, order[a]) /\ ~IsInput(graph, order[b]) =>
                 binds'[order[a]].at + Numel(order[a]) <= binds'[order[b]].at
        <4> SUFFICES ASSUME NEW a \in 1 .. i, NEW b \in 1 .. i, a < b,
                            ~IsInput(graph, order[a]), ~IsInput(graph, order[b])
                     PROVE  binds'[order[a]].at + Numel(order[a]) <= binds'[order[b]].at
          OBVIOUS
        <4>1. a \in 1 .. i - 1
          BY <1>3
        <4>2. binds'[order[a]] = binds[order[a]]
          BY <3>5, <4>1
        <4>3. CASE b = i
          BY <1>6, <3>6, <4>1, <4>2, <4>3
        <4>4. CASE b \in 1 .. i - 1
          BY <1>6, <3>5, <4>1, <4>2, <4>4
        <4>5. QED
          BY <3>3, <4>3, <4>4
      <3>9. Laid'
        <4>1. order' = order /\ graph' = graph
          BY <1>3
        <4>2. QED
          BY <3>3, <3>7, <3>8, <4>1 DEF Laid, Numel
      <3>10. QED
        BY <1>1, <2>5, <3>1, <3>2, <3>9 DEF ExInv
    <2>8. QED
      BY <1>5, <1>10, <2>6, <2>7 DEF Again
  <1>11. QED
    <2>1. UNCHANGED total => total' <= UsizeMax
      BY DEF ExInv, Typed
    <2>2. ~(total + n > UsizeMax) => total + n <= UsizeMax
      <3>1. n \in Int /\ total \in Int /\ UsizeMax \in Int
        BY <1>4, ArenaConstants DEF Overflow
      <3>2. QED
        BY <3>1
    <2>3. QED
      BY <1>2, <1>8, <1>9, <1>10, <2>2 DEF Fail, Numel

\* The activation slice is taken when every node of the order is laid out.
LEMMA AllocActsKeeps == ExInv /\ AllocActs => ExInv'
  <1> SUFFICES ASSUME ExInv, AllocActs PROVE ExInv'
    OBVIOUS
  <1> USE DEF AllocActs, callVars
  <1>1. "acts" \in Holders /\ F32 \in Layouts /\ total \in Nat
    BY HoldersAre DEF Layouts, ExInv, Typed
  <1>2. AP!ArenaInv'
    BY <1>1, ArenaStepKept, AllocIsArenaStep DEF ExInv
  <1>3. UNCHANGED buf /\ \A k \in Holders : (held[k] # NoRegion => held[k].fresh)'
    BY <1>1, AllocKeepsFresh DEF ExInv, Borrowed
  <1>4. i = Len(order) + 1 /\ Len(order) \in Nat
    <2>1. Len(order) \in Nat
      BY DEF ExInv, Typed
    <2>2. QED
      BY <2>1 DEF ExInv, Counting
  <1>5. pc' \in {"return", "dispatch"} /\ i' = 1
    BY DEF Fail, Goto
  <1>6. Typed'
    BY <1>3, <1>5 DEF ExInv, Typed, Bindings
  <1>7. Counting' /\ Ordered'
    BY <1>5 DEF ExInv, Counting, Ordered
  <1>8. Bound'
    BY <1>5 DEF ExInv, Bound, BoundTo
  <1>9. Laid'
    BY <1>4, <1>5 DEF ExInv, Laid, LaidTo, Numel
  <1>10. Borrowed'
    BY <1>3, <1>5 DEF ExInv, Borrowed
  <1>11. QED
    BY <1>2, <1>6, <1>7, <1>8, <1>9, <1>10 DEF ExInv

\* Running a node, or collecting the outputs, changes the cells alone.
LEMMA DispatchKeeps ==
    ASSUME ExInv, pc = "dispatch", pc' \in {"dispatch", "return"}, i' \in Nat \ {0},
           UNCHANGED <<graph, callVars, order, binds, used, total, arenaVars>>
    PROVE  ExInv'
  <1> USE DEF callVars, arenaVars
  <1>1. AP!ArenaInv'
    BY ArenaStepKept DEF ExInv
  <1>2. Typed'
    BY DEF ExInv, Typed, Bindings
  <1>3. Counting' /\ Ordered' /\ Borrowed'
    BY DEF ExInv, Counting, Ordered, Borrowed
  <1>4. Bound'
    BY DEF ExInv, Bound, BoundTo
  <1>5. Laid'
    <2>1. CASE pc' = "return"
      BY <2>1 DEF Laid, LaidTo
    <2>2. CASE pc' = "dispatch"
      <3>1. LaidTo' = LaidTo
        BY <2>2 DEF LaidTo
      <3>2. UNCHANGED <<graph, order, binds, total>>
        OBVIOUS
      <3>3. QED
        BY <3>1, <3>2 DEF ExInv, Laid, Numel
    <2>3. QED
      BY <2>1, <2>2
  <1>6. QED
    BY <1>1, <1>2, <1>3, <1>4, <1>5 DEF ExInv

\* So do the three steps of the dispatch loop.
LEMMA RunKeeps == ExInv /\ (SkipInput \/ DispatchNode \/ Collect) => ExInv'
  <1> SUFFICES ASSUME ExInv, SkipInput \/ DispatchNode \/ Collect PROVE ExInv'
    OBVIOUS
  <1>1. pc = "dispatch" /\ pc' \in {"dispatch", "return"}
    BY DEF SkipInput, DispatchNode, Collect, Again, Fail
  <1>2. i' \in Nat \ {0}
    <2>1. i \in Nat \ {0}
      BY DEF ExInv, Counting
    <2>2. i' = i + 1 \/ i' = 1
      BY DEF SkipInput, DispatchNode, Collect, Again, Fail
    <2>3. QED
      BY <2>1, <2>2
  <1>3. UNCHANGED <<graph, callVars, order, binds, used, total, arenaVars>>
    BY DEF SkipInput, DispatchNode, Collect, locals
  <1>4. QED
    BY <1>1, <1>2, <1>3, DispatchKeeps

\* The slices of the call are released, whatever ended it.
LEMMA ReturnKeeps == ExInv /\ Return => ExInv'
  <1> SUFFICES ASSUME ExInv, Return PROVE ExInv'
    OBVIOUS
  <1> USE DEF Return, callVars
  <1>1. held = [h \in Holders |-> held[h]]
    BY DEF ExInv, AP!ArenaInv, AP!TypeOK, Holders
  <1>2. PICK hs : hs = {h \in Holders : held[h] # NoRegion} /\ Arena!Drop(hs)
    <2>1. DOMAIN held = Holders
      BY <1>1
    <2>2. {h \in DOMAIN held : held[h] # NoRegion} = {h \in Holders : held[h] # NoRegion}
      BY <2>1
    <2>3. QED
      BY <2>2
  <1>3. AP!ArenaInv'
    <2>1. hs \in SUBSET Holders
      BY <1>2
    <2>2. AP!Next
      BY <1>2, <2>1, DropIsArenaStep
    <2>3. QED
      BY <2>2, ArenaStepKept DEF ExInv
  <1>4. UNCHANGED buf /\ \A h \in Holders : held'[h] = NoRegion
    <2>1. UNCHANGED buf /\ held' = [h \in Holders |-> IF h \in hs THEN NoRegion ELSE held[h]]
      BY <1>2 DEF Arena!Drop, Holders
    <2>2. QED
      BY <1>2, <2>1
  <1>5. Typed'
    <2>1. order' \in Seq(Ids(graph')) /\ DOMAIN binds' = {} /\ Len(request') \in Nat
      BY DEF ExInv, Typed
    <2>2. QED
      BY <1>4, <2>1, ArenaConstants DEF ExInv, Typed
  <1>6. Counting' /\ Ordered' /\ Bound' /\ Laid'
    BY DEF ExInv, Counting, Ordered, Bound, BoundTo, Laid, LaidTo
  <1>7. Borrowed'
    BY <1>4 DEF Borrowed
  <1>8. QED
    BY <1>3, <1>5, <1>6, <1>7 DEF ExInv

\* A step that changes nothing, and then every step.
LEMMA StutterKeeps == ExInv /\ UNCHANGED vars => ExInv'
  <1> SUFFICES ASSUME ExInv, UNCHANGED vars PROVE ExInv'
    OBVIOUS
  <1> USE DEF vars, callVars, locals, arenaVars
  <1>1. AP!ArenaInv'
    BY ArenaStepKept DEF ExInv
  <1>2. Typed'
    BY DEF ExInv, Typed, Bindings
  <1>3. Counting' /\ Ordered' /\ Bound' /\ Laid' /\ Borrowed'
    BY DEF ExInv, Counting, Ordered, Bound, BoundTo, Laid, LaidTo, Borrowed, Numel
  <1>4. QED
    BY <1>1, <1>2, <1>3 DEF ExInv

\* Every step, whichever of the actions it is, keeps ExInv.
LEMMA StepKeeps == ExInv /\ [Next]_vars => ExInv'
  BY AllocScratchKeeps, SortKeeps, AllocBindsKeeps, BindInputKeeps, InputsBoundKeeps,
     AssignOffsetKeeps, AllocActsKeeps, RunKeeps, ReturnKeeps, ResetKeeps, CallKeeps,
     StutterKeeps
     DEF Next, Step

\* ExInv is an invariant of the executor.
THEOREM ExecuteInvariant == Spec => []ExInv
  BY InvStarts, StepKeeps, PTL DEF Spec

-----------------------------------------------------------------------------
(* What it gives *)

\* For every set of graphs and every arena: each local of execute_graph keeps
\* its type, the loop counters their bounds, and the total of the activation
\* layout fits a usize.
THEOREM ExecuteTypeCorrect == Spec => []TypeOK
  <1>1. ExInv => TypeOK
    <2> SUFFICES ASSUME ExInv PROVE TypeOK
      OBVIOUS
    <2>1. Arena!TypeOK
      BY ArenaTyped DEF ExInv
    <2>2. QED
      BY <2>1 DEF ExInv, Typed, Bindings, TypeOK
  <1>2. QED
    BY <1>1, ExecuteInvariant, PTL

\* Once the layout is done it has been over every node of the graph.
LEMMA AllLaid == ExInv /\ LaidOut => LaidTo = Len(order) /\ IsTopological(graph, order)
  <1> SUFFICES ASSUME ExInv, LaidOut PROVE LaidTo = Len(order) /\ IsTopological(graph, order)
    OBVIOUS
  <1>1. Len(order) \in Nat
    BY DEF ExInv, Typed
  <1>2. LaidTo = Len(order)
    BY <1>1 DEF LaidOut, LaidTo, ExInv, Counting
  <1>3. QED
    BY <1>2 DEF LaidOut, ExInv, Ordered

\* The ranges of two computed nodes, the first of which comes first in the
\* order: they lie in the activation slice, the first below the second.
LEMMA RangesAscend ==
    ASSUME ExInv, LaidOut, NEW a \in 1 .. Len(order), NEW b \in 1 .. Len(order), a < b,
           order[a] \in Computed, order[b] \in Computed,
           NEW c \in Cells(order[a]), NEW d \in Cells(order[b])
    PROVE  c < d
  <1>1. LaidTo = Len(order)
    BY AllLaid
  <1>2. PICK v, w : v = order[a] /\ w = order[b]
    OBVIOUS
  <1>3. PICK x, m, y, n : x = binds[v].at /\ m = Numel(v) /\ y = binds[w].at /\ n = Numel(w)
    OBVIOUS
  <1>4. /\ x \in Nat /\ m \in Nat /\ y \in Nat /\ n \in Nat /\ x + m <= y
    BY <1>1, <1>2, <1>3 DEF ExInv, Laid, Computed
  <1>5. c \in x .. x + m - 1 /\ d \in y .. y + n - 1
    BY <1>2, <1>3 DEF Cells, Numel
  <1>6. QED
    BY <1>4, <1>5

\* The unsafe blocks of exec.rs, for every graph that the graph API can make:
\* the ranges that two nodes are given in the activation slice share no cell,
\* lie within it, and a node's range is above those of the nodes it reads.
THEOREM RangesStayDisjoint == Spec => []RangesDisjoint
  <1>1. ASSUME ExInv PROVE RangesDisjoint
    <2> SUFFICES ASSUME LaidOut
                 PROVE  /\ \A v \in Computed : /\ binds[v].kind = "Act"
                                               /\ Cells(v) \subseteq 0 .. total - 1
                        /\ \A v, w \in Computed : v # w => Cells(v) \cap Cells(w) = {}
                        /\ \A v \in Computed : \A w \in Producers(graph, v) \cap Computed :
                              \A c \in Cells(w), d \in Cells(v) : c < d
      BY DEF RangesDisjoint
    <2>1. LaidTo = Len(order) /\ IsTopological(graph, order)
      BY <1>1, AllLaid
    <2>2. \A v \in Computed : \E a \in 1 .. Len(order) : order[a] = v
      BY <2>1 DEF IsTopological, Computed
    <2>3. ASSUME NEW v \in Computed
          PROVE  binds[v].kind = "Act" /\ Cells(v) \subseteq 0 .. total - 1
      <3>1. PICK a \in 1 .. Len(order) : order[a] = v
        BY <2>2
      <3>2. PICK x, m : x = binds[v].at /\ m = Numel(v)
        OBVIOUS
      <3>3. x \in Nat /\ m \in Nat /\ x + m <= total /\ binds[v].kind = "Act" /\ total \in Nat
        BY <1>1, <2>1, <3>1, <3>2 DEF ExInv, Laid, Computed, Typed
      <3>4. Cells(v) = x .. x + m - 1
        BY <3>2 DEF Cells, Numel
      <3>5. QED
        BY <3>3, <3>4
    <2>4. ASSUME NEW v \in Computed, NEW w \in Computed, v # w
          PROVE  Cells(v) \cap Cells(w) = {}
      <3> SUFFICES ASSUME NEW c \in Cells(v), c \in Cells(w) PROVE FALSE
        OBVIOUS
      <3>1. PICK a \in 1 .. Len(order), b \in 1 .. Len(order) : order[a] = v /\ order[b] = w
        BY <2>2
      <3>2. a < b \/ b < a
        BY <2>4, <3>1
      <3>3. c < c
        BY <1>1, <3>1, <3>2, RangesAscend
      <3>4. c \in Int
        BY <1>1, <2>3 DEF ExInv, Typed
      <3>5. QED
        BY <3>3, <3>4
    <2>5. ASSUME NEW v \in Computed, NEW w \in Producers(graph, v) \cap Computed,
                 NEW c \in Cells(w), NEW d \in Cells(v)
          PROVE  c < d
      <3>1. PICK b \in 1 .. Len(order) : order[b] = v
        BY <2>2
      <3>2. PICK r \in DOMAIN graph.refs : graph.refs[r].to = v /\ graph.refs[r].from = w
        BY <1>1, GraphIs DEF ExInv, Typed, Computed
      <3>3. PICK a \in 1 .. Len(order) : a < b /\ order[a] = w
        <4>1. Len(order) = graph.n
          BY <2>1 DEF IsTopological
        <4>2. \A s \in 1 .. Len(order) : \A t \in DOMAIN graph.refs :
                 graph.refs[t].to = order[s] =>
                    \E a \in 1 .. Len(order) : a < s /\ order[a] = graph.refs[t].from
          BY <2>1, <4>1 DEF IsTopological
        <4>3. \E a \in 1 .. Len(order) : a < b /\ order[a] = graph.refs[r].from
          BY <3>1, <3>2, <4>2
        <4>4. QED
          BY <3>2, <4>3
      <3>4. QED
        BY <1>1, <3>1, <3>3, RangesAscend
    <2>6. QED
      BY <2>3, <2>4, <2>5
  <1>2. QED
    BY <1>1, ExecuteInvariant, PTL

\* Half of what ReadsWritten says: when a node is dispatched, each node it
\* reads has been bound in this call, as an input or by the layout.
ProducersBound ==
    pc = "dispatch" /\ i <= Len(order) =>
        \A w \in Producers(graph, order[i]) : binds[w] # Garbage

\* None is read through the binding an earlier call left in the same bytes.
LEMMA ProducersAreBound == ExInv => ProducersBound
  <1> SUFFICES ASSUME ExInv PROVE ProducersBound
    OBVIOUS
  <1> SUFFICES ASSUME pc = "dispatch", i <= Len(order), NEW w \in Producers(graph, order[i])
               PROVE  binds[w] # Garbage
    BY DEF ProducersBound
  <1>1. LaidTo = Len(order) /\ IsTopological(graph, order)
    BY AllLaid DEF LaidOut
  <1>2. i \in 1 .. Len(order) /\ order[i] \in Ids(graph)
    <2>1. order \in Seq(Ids(graph)) /\ i \in Nat \ {0}
      BY DEF ExInv, Typed, Counting
    <2>2. i \in 1 .. Len(order)
      BY <2>1
    <2>3. QED
      BY <2>1, <2>2
  <1>3. PICK r \in DOMAIN graph.refs : graph.refs[r].to = order[i] /\ graph.refs[r].from = w
    BY <1>2, GraphIs DEF ExInv, Typed
  <1>4. PICK a \in 1 .. Len(order) : order[a] = w
    <2>1. Len(order) = graph.n /\ i \in 1 .. graph.n
      BY <1>1, <1>2 DEF IsTopological
    <2>2. PICK a \in 1 .. graph.n : a < i /\ order[a] = graph.refs[r].from
      BY <1>1, <1>3, <2>1 DEF IsTopological
    <2>3. QED
      BY <1>3, <2>1, <2>2
  <1>5. w \in Ids(graph)
    <2>1. order \in Seq(Ids(graph))
      BY DEF ExInv, Typed
    <2>2. QED
      BY <1>4, <2>1
  <1>6. CASE IsInput(graph, w)
    <2>1. PICK k \in 1 .. Len(graph.inputs) : graph.inputs[k] = w
      BY <1>5, <1>6, GraphIs DEF ExInv, Typed
    <2>2. QED
      BY <2>1 DEF ExInv, Bound, BoundTo
  <1>7. CASE ~IsInput(graph, w)
    BY <1>1, <1>4, <1>7 DEF ExInv, Laid
  <1>8. QED
    BY <1>6, <1>7

\* arena.rs:68-69 says of the slices the arena hands out that they never
\* overlap.  A reset while one is held refutes it of the arena alone (run
\* arena_reset); of the arena as execute_graph uses it, it is true: the slices
\* of a call are released before the caller can reset.
THEOREM SlicesNeverOverlap == Spec => []Arena!NeverOverlapping
  <1>1. ASSUME ExInv PROVE Arena!NeverOverlapping
    <2>1. \A g, h \in Holders : g # h /\ AP!Fresh(g) /\ AP!Fresh(h) =>
             AP!Allocator!Disjoint(held[g], held[h])
      BY <1>1 DEF ExInv, AP!ArenaInv, AP!FreshDisjoint, Holders
    <2>2. \A h \in Holders : held[h] # NoRegion => AP!Fresh(h)
      BY <1>1 DEF ExInv, Borrowed, AP!Fresh, AP!Allocator!Fresh
    <2>3. QED
      BY <2>1, <2>2 DEF Arena!NeverOverlapping, Holders,
                        Arena!Allocator!Disjoint, AP!Allocator!Disjoint
  <1>2. QED
    BY <1>1, ExecuteInvariant, PTL

-----------------------------------------------------------------------------
(* What a kernel answers *)

Errors == {None, "ShapeMismatch", "SizeMismatch", "Unsupported", "panic", "Op.Invalid",
           "Op.ShapeMismatch", "Op.SizeMismatch"}

\* A buffer of `len` elements, and an answer that is one or names an error.
IsBuffer(s, len) == s = [j \in 1 .. len |-> s[j]]

Answers(r, len) == r.err \in Errors /\ (r.err = None => IsBuffer(r.out, len))

\* A check, passed or failed, leaves one of the errors; the mark of a node that
\* waits for another is none of them.
LEMMA ErrorsAre == /\ None \in Errors /\ "blocked" \notin Errors
                   /\ \A c, e : e \in Errors => Require(c, e) \in Errors
  <1>1. "blocked" \notin Errors
    BY DEF Errors, None
  <1>2. ASSUME NEW c, NEW e \in Errors PROVE Require(c, e) \in Errors
    BY <1>2 DEF Require, Errors
  <1>3. None \in Errors
    BY DEF Errors
  <1>4. QED
    BY <1>1, <1>2, <1>3

\* The same of the two checks of a length against a shape.
LEMMA FitsAre ==
    ASSUME NEW len, NEW dims
    PROVE  FitsShape(len, dims) \in Errors /\ OpFits(len, dims) \in Errors
  <1>1. {"ShapeMismatch", "SizeMismatch", "Op.Invalid", "Op.SizeMismatch"} \subseteq Errors
    BY DEF Errors
  <1>2. QED
    BY <1>1, ErrorsAre DEF FitsShape, OpFits

\* A refusal is an answer, of whatever length the output is.
LEMMA FailsAnswer ==
    ASSUME NEW e \in Errors, e # None, NEW len PROVE Answers(Fails(e), len)
  BY DEF Answers, Fails

\* The first check that fails is the answer.
LEMMA FirstErrorIs ==
    ASSUME NEW checks \in Seq(Errors)
    PROVE  FirstError(checks) \in Errors
  <1>1. PICK S : S = {k \in 1 .. Len(checks) : checks[k] # None}
    OBVIOUS
  <1>2. S \in SUBSET Nat /\ S \subseteq 1 .. Len(checks)
    BY <1>1
  <1>3. PICK j : j = IF S # {} THEN Min(S) ELSE 0
    OBVIOUS
  <1>4. FirstError(checks) = IF j = 0 THEN None ELSE checks[j]
    BY <1>1, <1>3, Zenon DEF FirstError, SelectInSeq
  <1>5. S # {} => j \in S
    BY <1>2, <1>3, MinIs
  <1>6. \A k \in 1 .. Len(checks) : checks[k] \in Errors
    OBVIOUS
  <1>7. S # {} => checks[j] \in Errors
    BY <1>2, <1>5, <1>6
  <1>8. CASE S # {}
    BY <1>4, <1>7, <1>8, ErrorsAre
  <1>9. CASE S = {}
    BY <1>3, <1>4, <1>9, ErrorsAre
  <1>10. QED
    BY <1>8, <1>9

\* What a kernel with these checks answers.
LEMMA AnswerIs ==
    ASSUME NEW checks \in Seq(Errors), NEW out, NEW len, IsBuffer(out, len)
    PROVE  Answers(Answer(checks, out), len)
  <1>1. PICK e : e = FirstError(checks)
    OBVIOUS
  <1>2. Answer(checks, out) = [err |-> e, out |-> IF e = None THEN out ELSE <<>>]
    BY <1>1 DEF Answer
  <1>3. e \in Errors
    BY <1>1, FirstErrorIs
  <1>4. QED
    BY <1>2, <1>3 DEF Answers

\* The errors by name.
LEMMA NamesAreErrors ==
    /\ "ShapeMismatch" \in Errors /\ "SizeMismatch" \in Errors /\ "Unsupported" \in Errors
    /\ "panic" \in Errors /\ "Op.Invalid" \in Errors /\ "Op.ShapeMismatch" \in Errors
    /\ "Op.SizeMismatch" \in Errors
  BY DEF Errors

\* Relu, sigmoid and gelu.
LEMMA UnaryAnswers ==
    ASSUME NEW op, NEW a, NEW len
    PROVE  Answers(Unary(op, a, len), len)
  <1>1. PICK c1 :
           /\ c1 = Require(len = Len(a), "Op.SizeMismatch")
    OBVIOUS
  <1>2. c1 \in Errors
    BY <1>1, ErrorsAre, FitsAre, NamesAreErrors
  <1>3. <<c1>> \in Seq(Errors)
    BY <1>2
  <1>4. \E out : IsBuffer(out, len) /\ Unary(op, a, len) = Answer(<<c1>>, out)
    BY <1>1, Zenon DEF Fill, IsBuffer, Unary
  <1>5. QED
    BY <1>3, <1>4, AnswerIs

\* The broadcasting arithmetic of kernels.rs.
LEMMA BinaryAnswers ==
    ASSUME NEW op, NEW a, NEW ad, NEW b, NEW bd, NEW len, NEW od
    PROVE  Answers(Binary(op, a, ad, b, bd, len, od), len)
  <1>1. PICK c1, c2, c3, c4, c5 :
           /\ c1 = Require(BroadcastsTo(ad, od), "ShapeMismatch")
           /\ c2 = Require(BroadcastsTo(bd, od), "ShapeMismatch")
           /\ c3 = FitsShape(Len(a), ad)
           /\ c4 = FitsShape(Len(b), bd)
           /\ c5 = FitsShape(len, od)
    OBVIOUS
  <1>2. c1 \in Errors /\ c2 \in Errors /\ c3 \in Errors /\ c4 \in Errors /\ c5 \in Errors
    BY <1>1, ErrorsAre, FitsAre, NamesAreErrors
  <1>3. <<c1, c2, c3, c4, c5>> \in Seq(Errors)
    BY <1>2
  <1>4. \E out : IsBuffer(out, len) /\ Binary(op, a, ad, b, bd, len, od) = Answer(<<c1, c2, c3, c4, c5>>, out)
    BY <1>1, Zenon DEF Fill, IsBuffer, Binary
  <1>5. QED
    BY <1>3, <1>4, AnswerIs

\* The backend's addition of two buffers of one shape.
LEMMA AdditionAnswers ==
    ASSUME NEW a, NEW b, NEW len
    PROVE  Answers(ElementwiseAdd(a, b, len), len)
  <1>1. PICK c1, c2 :
           /\ c1 = Require(Len(a) = Len(b), "Op.SizeMismatch")
           /\ c2 = Require(len = Len(a), "Op.SizeMismatch")
    OBVIOUS
  <1>2. c1 \in Errors /\ c2 \in Errors
    BY <1>1, ErrorsAre, FitsAre, NamesAreErrors
  <1>3. <<c1, c2>> \in Seq(Errors)
    BY <1>2
  <1>4. \E out : IsBuffer(out, len) /\ ElementwiseAdd(a, b, len) = Answer(<<c1, c2>>, out)
    BY <1>1, Zenon DEF Fill, IsBuffer, ElementwiseAdd
  <1>5. QED
    BY <1>3, <1>4, AnswerIs

\* Softmax over rows.
LEMMA SoftmaxAnswers ==
    ASSUME NEW a, NEW len, NEW rowLen
    PROVE  Answers(Softmax(a, len, rowLen), len)
  <1>1. PICK c1, c2 :
           /\ c1 = Require(len = Len(a), "Op.SizeMismatch")
           /\ c2 = IF rowLen = 0 THEN "Op.Invalid" ELSE Require(Len(a) % rowLen = 0, "Op.Invalid")
    OBVIOUS
  <1>2. c1 \in Errors /\ c2 \in Errors
    BY <1>1, ErrorsAre, FitsAre, NamesAreErrors
  <1>3. <<c1, c2>> \in Seq(Errors)
    BY <1>2
  <1>4. \E out : IsBuffer(out, len) /\ Softmax(a, len, rowLen) = Answer(<<c1, c2>>, out)
    BY <1>1, Zenon DEF Fill, IsBuffer, Softmax
  <1>5. QED
    BY <1>3, <1>4, AnswerIs

\* The dense product of two matrices.
LEMMA MatMulAnswers ==
    ASSUME NEW a, NEW as, NEW b, NEW bs, NEW len
    PROVE  Answers(MatMul(a, as, b, bs, len), len)
  <1>1. PICK c1, c2, c3, c4 :
           /\ c1 = Require(as[2] = bs[1], "Op.ShapeMismatch")
           /\ c2 = OpFits(Len(a), as)
           /\ c3 = OpFits(Len(b), bs)
           /\ c4 = OpFits(len, <<as[1], bs[2]>>)
    OBVIOUS
  <1>2. c1 \in Errors /\ c2 \in Errors /\ c3 \in Errors /\ c4 \in Errors
    BY <1>1, ErrorsAre, FitsAre, NamesAreErrors
  <1>3. <<c1, c2, c3, c4>> \in Seq(Errors)
    BY <1>2
  <1>4. \E out : IsBuffer(out, len) /\ MatMul(a, as, b, bs, len) = Answer(<<c1, c2, c3, c4>>, out)
    BY <1>1, Zenon DEF Fill, IsBuffer, MatMul
  <1>5. QED
    BY <1>3, <1>4, AnswerIs

\* The length of a buffer.
LEMMA BufferLength ==
    ASSUME NEW len \in Nat, NEW s, IsBuffer(s, len)
    PROVE  Len(s) = len /\ DOMAIN s = 1 .. len
  <1>1. DOMAIN s = 1 .. len
    BY DEF IsBuffer
  <1>2. s \in Seq({s[j] : j \in 1 .. len})
    <2>1. s \in [1 .. len -> {s[j] : j \in 1 .. len}]
      BY DEF IsBuffer
    <2>2. QED
      BY <2>1
  <1>3. Len(s) \in Nat /\ DOMAIN s = 1 .. Len(s)
    BY <1>2
  <1>4. QED
    BY <1>1, <1>3

\* The bias that is added over a convolution, in place.
LEMMA BiasAnswers ==
    ASSUME NEW out0, NEW od, NEW bias, NEW bd, NEW len \in Nat,
               IsBuffer(out0, len)
    PROVE  Answers(AddInplaceBroadcast(out0, od, bias, bd), len)
  <1>1. PICK c1, c2, c3 :
           /\ c1 = Require(BroadcastsTo(bd, od), "ShapeMismatch")
           /\ c2 = FitsShape(Len(out0), od)
           /\ c3 = FitsShape(Len(bias), bd)
    OBVIOUS
  <1>2. c1 \in Errors /\ c2 \in Errors /\ c3 \in Errors
    BY <1>1, ErrorsAre, FitsAre, NamesAreErrors
  <1>3. <<c1, c2, c3>> \in Seq(Errors)
    BY <1>2
  <1>a. Len(out0) = len
    BY BufferLength
  <1>4. \E out : IsBuffer(out, len) /\ AddInplaceBroadcast(out0, od, bias, bd) = Answer(<<c1, c2, c3>>, out)
    BY <1>1, <1>a, Zenon DEF Fill, IsBuffer, AddInplaceBroadcast
  <1>5. QED
    BY <1>3, <1>4, AnswerIs

\* Reshape and Flatten: the copy is the source, which has the length it is checked for.
LEMMA CopyAnswers ==
    ASSUME NEW src, NEW len \in Nat, NEW m \in Nat, IsBuffer(src, m)
    PROVE  Answers(CopyElements(src, len), len)
  <1>1. PICK c1 : c1 = Require(Len(src) = len, "SizeMismatch")
    OBVIOUS
  <1>2. c1 \in Errors
    BY <1>1, ErrorsAre, NamesAreErrors
  <1>3. <<c1>> \in Seq(Errors)
    BY <1>2
  <1>4. CopyElements(src, len) = Answer(<<c1>>, src)
    BY <1>1, Zenon DEF CopyElements
  <1>5. CASE m = len
    BY <1>3, <1>4, <1>5, AnswerIs
  <1>6. CASE m # len
    <2>1. Len(src) # len
      BY <1>6, BufferLength
    <2>2. c1 = "SizeMismatch"
      BY <1>1, <2>1 DEF Require
    <2>3. FirstError(<<c1>>) # None
      <3>1. PICK S : S = {k \in 1 .. Len(<<c1>>) : <<c1>>[k] # None}
        OBVIOUS
      <3>2. S = {1}
        BY <2>2, <3>1 DEF None
      <3>3. Min(S) = 1
        <4>1. S \in SUBSET Nat /\ S # {}
          BY <3>2
        <4>2. Min(S) \in S
          BY <4>1, MinIs
        <4>3. QED
          BY <3>2, <4>2
      <3>4. PICK j : j = IF S # {} THEN Min(S) ELSE 0
        OBVIOUS
      <3>5. FirstError(<<c1>>) = IF j = 0 THEN None ELSE <<c1>>[j]
        BY <3>1, <3>4, Zenon DEF FirstError, SelectInSeq
      <3>6. j = 1
        BY <3>2, <3>3, <3>4
      <3>7. QED
        BY <2>2, <3>5, <3>6 DEF None
    <2>4. FirstError(<<c1>>) \in Errors
      BY <1>3, FirstErrorIs
    <2>5. QED
      BY <1>4, <2>3, <2>4 DEF Answers, Answer
  <1>7. QED
    BY <1>5, <1>6

\* An answer of three checks.
LEMMA ThreeChecks ==
    ASSUME NEW c1 \in Errors, NEW c2 \in Errors, NEW c3 \in Errors, NEW out, NEW len,
           IsBuffer(out, len)
    PROVE  Answers(Answer(<<c1, c2, c3>>, out), len)
  <1>1. <<c1, c2, c3>> \in Seq(Errors)
    OBVIOUS
  <1>2. QED
    BY <1>1, AnswerIs

\* The convolution, which refuses a shape before it checks the lengths.
LEMMA Conv2dAnswers ==
    ASSUME NEW x, NEW xs, NEW w, NEW ws, NEW len, NEW strides, NEW padding
    PROVE  Answers(Conv2d(x, xs, w, ws, len, strides, padding), len)
  <1>1. PICK r : r = Conv2d(x, xs, w, ws, len, strides, padding)
    OBVIOUS
  <1>2. PICK od, c1, c2, c3 :
           /\ od = <<xs[1], ws[1], WindowCount(xs[3], ws[3], strides[1], padding[1]),
                     WindowCount(xs[4], ws[4], strides[2], padding[2])>>
           /\ c1 = OpFits(Len(x), xs) /\ c2 = OpFits(Len(w), ws) /\ c3 = OpFits(len, od)
    OBVIOUS
  <1>3. \/ r = Fails("Op.ShapeMismatch")
        \/ r = Fails("Op.Invalid")
        \/ \E out : IsBuffer(out, len) /\ r = Answer(<<c1, c2, c3>>, out)
    BY <1>1, <1>2, Zenon DEF Fill, IsBuffer, Conv2d
  <1>4. c1 \in Errors /\ c2 \in Errors /\ c3 \in Errors
    BY <1>2, FitsAre
  <1>5. Answers(Fails("Op.ShapeMismatch"), len) /\ Answers(Fails("Op.Invalid"), len)
    <2>1. "Op.ShapeMismatch" # None /\ "Op.Invalid" # None
      BY DEF None
    <2>2. QED
      BY <2>1, NamesAreErrors, FailsAnswer
  <1>6. QED
    BY <1>1, <1>3, <1>4, <1>5, ThreeChecks

\* The two poolings.
LEMMA Pool2dAnswers ==
    ASSUME NEW op, NEW x, NEW xd, NEW len, NEW od, NEW kernel, NEW strides, NEW padding
    PROVE  Answers(Pool2d(op, x, xd, len, od, kernel, strides, padding), len)
  <1>1. PICK r : r = Pool2d(op, x, xd, len, od, kernel, strides, padding)
    OBVIOUS
  <1>2. PICK counts, c1, c2, c3 :
           /\ counts = <<WindowCount(xd[3], kernel[1], strides[1], padding[1]),
                         WindowCount(xd[4], kernel[2], strides[2], padding[2])>>
           /\ c1 = Require(od = <<xd[1], xd[2]>> \o counts, "ShapeMismatch")
           /\ c2 = FitsShape(Len(x), xd) /\ c3 = FitsShape(len, od)
    OBVIOUS
  <1>3. \/ r = Fails("ShapeMismatch")
        \/ r = Fails("Op.Invalid")
        \/ \E out : IsBuffer(out, len) /\ r = Answer(<<c1, c2, c3>>, out)
    BY <1>1, <1>2, Zenon DEF Fill, IsBuffer, Pool2d
  <1>4. c1 \in Errors /\ c2 \in Errors /\ c3 \in Errors
    BY <1>2, FitsAre, ErrorsAre, NamesAreErrors
  <1>5. Answers(Fails("ShapeMismatch"), len) /\ Answers(Fails("Op.Invalid"), len)
    <2>1. "ShapeMismatch" # None /\ "Op.Invalid" # None
      BY DEF None
    <2>2. QED
      BY <2>1, NamesAreErrors, FailsAnswer
  <1>6. QED
    BY <1>1, <1>3, <1>4, <1>5, ThreeChecks

\* The transposition.
LEMMA TransposeAnswers ==
    ASSUME NEW x, NEW xd, NEW len, NEW od, NEW perm
    PROVE  Answers(Transpose(x, xd, len, od, perm), len)
  <1>1. PICK r : r = Transpose(x, xd, len, od, perm)
    OBVIOUS
  <1>2. PICK c1, c2 : c1 = FitsShape(Len(x), xd) /\ c2 = Require(len = NumEl(xd), "SizeMismatch")
    OBVIOUS
  <1>3. \/ r = Fails("ShapeMismatch")
        \/ \E out : IsBuffer(out, len) /\ r = Answer(<<c1, c2>>, out)
    BY <1>1, <1>2, Zenon DEF Fill, IsBuffer, Transpose
  <1>4. c1 \in Errors /\ c2 \in Errors
    BY <1>2, FitsAre, ErrorsAre, NamesAreErrors
  <1>5. <<c1, c2>> \in Seq(Errors)
    BY <1>4
  <1>6. Answers(Fails("ShapeMismatch"), len)
    <2>1. "ShapeMismatch" # None
      BY DEF None
    <2>2. QED
      BY <2>1, NamesAreErrors, FailsAnswer
  <1>7. QED
    BY <1>1, <1>3, <1>5, <1>6, AnswerIs

\* The normalisation, per channel or per element.
LEMMA BatchNormAnswers ==
    ASSUME NEW x, NEW xd, NEW len, NEW params
    PROVE  Answers(BatchNorm(x, xd, len, params), len)
  <1>1. PICK r, plen, channel : /\ r = BatchNorm(x, xd, len, params) /\ plen = Len(params[1])
                                /\ channel = (Len(xd) = 4 /\ plen = xd[2])
    OBVIOUS
  <1>2. PICK c1, c2, c3, c4 :
           /\ c1 = FitsShape(Len(x), xd) /\ c2 = Require(len = Len(x), "SizeMismatch")
           /\ c3 = Require(\A p \in DOMAIN params : Len(params[p]) = plen, "ShapeMismatch")
           /\ c4 = Require(channel \/ plen = NumEl(xd), "ShapeMismatch")
    OBVIOUS
  <1>3. \E out : IsBuffer(out, len) /\ r = Answer(<<c1, c2, c3, c4>>, out)
    BY <1>1, <1>2, Zenon DEF Fill, IsBuffer, BatchNorm
  <1>4. c1 \in Errors /\ c2 \in Errors /\ c3 \in Errors /\ c4 \in Errors
    BY <1>2, FitsAre, ErrorsAre, NamesAreErrors
  <1>5. <<c1, c2, c3, c4>> \in Seq(Errors)
    BY <1>4
  <1>6. QED
    BY <1>1, <1>3, <1>5, AnswerIs

\* One operand of a concat: the buffer that is copied into keeps its length.
LEMMA CopyOneAnswers ==
    ASSUME NEW len \in Nat, NEW out0, IsBuffer(out0, len), NEW cTotal, NEW cOffset, NEW cSrc,
           NEW inner, NEW src
    PROVE  Answers(ConcatCopyOne(out0, cTotal, cOffset, cSrc, inner, src), len)
  <1>1. PICK r : r = ConcatCopyOne(out0, cTotal, cOffset, cSrc, inner, src)
    OBVIOUS
  <1>2. PICK c1, c2, c3, c4 :
           /\ c1 = Require(cSrc * inner <= UsizeMax, "ShapeMismatch")
           /\ c2 = Require(Len(src) % (cSrc * inner) = 0, "SizeMismatch")
           /\ c3 = Require(/\ cTotal * inner <= UsizeMax
                           /\ (Len(src) \div (cSrc * inner)) * (cTotal * inner) <= UsizeMax,
                           "ShapeMismatch")
           /\ c4 = Require(Len(out0) = (Len(src) \div (cSrc * inner)) * (cTotal * inner),
                           "SizeMismatch")
    OBVIOUS
  <1>3. Len(out0) = len
    BY BufferLength
  <1>4. \/ r = Fails("ShapeMismatch")
        \/ \E out : IsBuffer(out, len) /\ r = Answer(<<c1, c2, c3, c4>>, out)
    BY <1>1, <1>2, <1>3, Zenon DEF Fill, IsBuffer, ConcatCopyOne
  <1>5. c1 \in Errors /\ c2 \in Errors /\ c3 \in Errors /\ c4 \in Errors
    BY <1>2, ErrorsAre, NamesAreErrors
  <1>6. <<c1, c2, c3, c4>> \in Seq(Errors)
    BY <1>5
  <1>7. Answers(Fails("ShapeMismatch"), len)
    <2>1. "ShapeMismatch" # None
      BY DEF None
    <2>2. QED
      BY <2>1, NamesAreErrors, FailsAnswer
  <1>8. QED
    BY <1>1, <1>4, <1>6, <1>7, AnswerIs

\* The loop over the operands of a concat, as a function on sets of positions.
IsCopying(ports, n, base, dims, axis, inner, it) ==
    it = [s \in SUBSET (1 .. n) |->
             IF s = {} THEN base
             ELSE CopyOperand(it[s \ {Max(s)}], ports[Max(s)], dims, axis, inner)]

\* There is such a function, for every number of operands: by induction on it.
LEMMA CopyingRuns ==
    ASSUME NEW ports, NEW n \in Nat, NEW base, NEW dims, NEW axis, NEW inner
    PROVE  \E it : IsCopying(ports, n, base, dims, axis, inner, it)
  <1> DEFINE P == {k \in 0 .. n : \E it : IsCopying(ports, k, base, dims, axis, inner, it)}
  <1>1. 0 \in P
    <2> DEFINE it == [s \in SUBSET (1 .. 0) |-> base]
    <2>1. \A s \in SUBSET (1 .. 0) : s = {}
      OBVIOUS
    <2>2. it = [s \in SUBSET (1 .. 0) |->
                  IF s = {} THEN base
                  ELSE CopyOperand(it[s \ {Max(s)}], ports[Max(s)], dims, axis, inner)]
      BY <2>1
    <2>3. IsCopying(ports, 0, base, dims, axis, inner, it)
      BY <2>2 DEF IsCopying
    <2>4. QED
      BY <2>3
  <1>2. ASSUME NEW k \in 0 .. n - 1, k \in P PROVE k + 1 \in P
    <2>1. PICK it : IsCopying(ports, k, base, dims, axis, inner, it)
      BY <1>2
    <2>2. PICK m : m = k + 1
      OBVIOUS
    <2>2a. k \in Nat /\ m \in 0 .. n /\ m \in 1 .. m /\ m \in Nat
      BY <2>2
    <2> DEFINE it2 == [s \in SUBSET (1 .. m) |->
                         IF m \in s THEN CopyOperand(it[s \ {m}], ports[m], dims, axis, inner)
                         ELSE it[s]]
    <2>3. ASSUME NEW s \in SUBSET (1 .. m), s # {}
          PROVE  it2[s] = CopyOperand(it2[s \ {Max(s)}], ports[Max(s)], dims, axis, inner)
      <3>0. PICK w : w = Max(s)
        OBVIOUS
      <3>1a. Max(s) \in s /\ \A y \in s : y <= Max(s)
        <4> HIDE DEF it2
        <4>1. QED
          BY <2>2a, <2>3, MaxIs
      <3>1. w \in s /\ w \in 1 .. m /\ \A y \in s : y <= w
        BY <3>0, <3>1a
      <3>2. CASE m \in s
        <4>1. Max(s) = m
          <5>1. m <= w /\ w <= m
            BY <2>2a, <3>1, <3>2
          <5>2. QED
            BY <2>2a, <3>0, <3>1, <5>1
        <4>2. s \ {m} \in SUBSET (1 .. m) /\ m \notin s \ {m}
          OBVIOUS
        <4>3. it2[s \ {m}] = it[s \ {m}]
          BY <4>2
        <4>4. it2[s] = CopyOperand(it[s \ {m}], ports[m], dims, axis, inner)
          BY <3>2
        <4>5. QED
          BY <4>1, <4>3, <4>4
      <3>3. CASE m \notin s
        <4>1. s \in SUBSET (1 .. k)
          <5>1. \A y \in 1 .. m : y # m => y \in 1 .. k
            BY <2>2, <2>2a
          <5>2. QED
            BY <3>3, <5>1
        <4>2. it[s] = CopyOperand(it[s \ {Max(s)}], ports[Max(s)], dims, axis, inner)
          BY <2>1, <2>3, <4>1 DEF IsCopying
        <4>3. s \ {Max(s)} \in SUBSET (1 .. m) /\ m \notin s \ {Max(s)}
          BY <3>3
        <4>4. it2[s \ {Max(s)}] = it[s \ {Max(s)}]
          BY <4>3
        <4>5. it2[s] = it[s]
          BY <3>3
        <4>6. QED
          BY <4>2, <4>4, <4>5
      <3>4. QED
        BY <3>2, <3>3
    <2>4. it2[{}] = base
      <3>1. {} \in SUBSET (1 .. k) /\ {} \in SUBSET (1 .. m)
        OBVIOUS
      <3>2. it[{}] = base
        BY <2>1, <3>1 DEF IsCopying
      <3>3. QED
        BY <3>1, <3>2
    <2>5. it2 = [s \in SUBSET (1 .. m) |-> it2[s]]
      OBVIOUS
    <2> HIDE DEF it2
    <2>6. IsCopying(ports, m, base, dims, axis, inner, it2)
      <3>1. \A s \in SUBSET (1 .. m) : it2[s] =
               IF s = {} THEN base
               ELSE CopyOperand(it2[s \ {Max(s)}], ports[Max(s)], dims, axis, inner)
        BY <2>3, <2>4
      <3>2. QED
        BY <2>5, <3>1 DEF IsCopying
    <2>7. QED
      BY <2>2, <2>2a, <2>6
  <1> HIDE DEF P
  <1>3. \A k \in 0 .. n : k \in P
    BY <1>1, <1>2, UpTo
  <1>4. QED
    BY <1>3 DEF P

\* What the loop over the operands keeps of its state.
Copied(st, len) ==
    /\ st = [err |-> st.err, out |-> st.out, offset |-> st.offset]
    /\ Answers(st, len)

\* One turn of the loop keeps it.
LEMMA CopyOperandIs ==
    ASSUME NEW len \in Nat, NEW st, Copied(st, len), NEW port, NEW dims, NEW axis, NEW inner
    PROVE  Copied(CopyOperand(st, port, dims, axis, inner), len)
  <1>1. PICK r : r = CopyOperand(st, port, dims, axis, inner)
    OBVIOUS
  <1>2. PICK c : c = ConcatCopyOne(st.out, dims[axis], st.offset, port.dims[axis], inner, port.data)
    OBVIOUS
  <1>3. \/ r = st
        \/ r = [st EXCEPT !.err = "ShapeMismatch"]
        \/ /\ st.err = None
           /\ r = [err |-> c.err, out |-> c.out, offset |-> st.offset + port.dims[axis]]
    BY <1>1, <1>2, Zenon DEF CopyOperand
  <1>4. CASE r = st
    BY <1>1, <1>4
  <1>5. CASE r = [st EXCEPT !.err = "ShapeMismatch"]
    <2>1. r = [err |-> "ShapeMismatch", out |-> st.out, offset |-> st.offset]
      BY <1>5 DEF Copied
    <2>2. "ShapeMismatch" # None
      BY DEF None
    <2>3. QED
      BY <1>1, <2>1, <2>2, NamesAreErrors DEF Copied, Answers
  <1>6. CASE /\ st.err = None
             /\ r = [err |-> c.err, out |-> c.out, offset |-> st.offset + port.dims[axis]]
    <2>1. IsBuffer(st.out, len)
      BY <1>6 DEF Copied, Answers
    <2>2. Answers(c, len)
      BY <1>2, <2>1, CopyOneAnswers
    <2>3. QED
      BY <1>1, <1>6, <2>2 DEF Copied, Answers
  <1>7. QED
    BY <1>3, <1>4, <1>5, <1>6

\* So the whole loop answers, with the checks that come before and after it.
LEMMA ConcatAnswers ==
    ASSUME NEW op, NEW R, NEW ports \in Seq(R), NEW dims, NEW len \in Nat, NEW blank
    PROVE  Answers(RunConcat(op, ports, dims, len, blank), len)
  <1> DEFINE n     == Len(ports)
             rank  == Len(dims)
             axis  == Axis(op.axis, rank) + 1
             inner == NumEl(SubSeq(dims, axis + 1, rank))
             base  == [err |-> None, out |-> [j \in 1 .. len |-> blank], offset |-> 0]
             end   == FoldLeft(LAMBDA st, port : CopyOperand(st, port, dims, axis, inner), base, ports)
             r     == RunConcat(op, ports, dims, len, blank)
             c     == CHOOSE f : f = [s \in SUBSET (1 .. n) |->
                 IF s = {} THEN base ELSE CopyOperand(f[s \ {Max(s)}], ports[Max(s)], dims, axis, inner)]
  <1>2. n \in Nat /\ DOMAIN ports = 1 .. n
    OBVIOUS
  <1>6. Copied(base, len)
    BY ErrorsAre DEF Copied, Answers, IsBuffer
  <1>10. \/ r = Fails("Op.Invalid")
         \/ r = Fails("ShapeMismatch")
         \/ end.err # None /\ r = Fails(end.err)
         \/ end.err = None /\ r = Writes(end.out)
    BY Zenon DEF RunConcat
  <1>4. end = c[1 .. n]
    BY <1>2, Zenon DEF FoldLeft, MapThenFoldSet
  <1> HIDE DEF n, axis, inner, base, end, r
  <1>5. c = [s \in SUBSET (1 .. n) |->
                 IF s = {} THEN base ELSE CopyOperand(c[s \ {Max(s)}], ports[Max(s)], dims, axis, inner)]
    <2>1. \E it : IsCopying(ports, n, base, dims, axis, inner, it)
      BY <1>2, CopyingRuns
    <2>2. QED
      BY <2>1, Zenon DEF IsCopying
  <1> HIDE DEF c
  <1>7. \A k \in 0 .. n : Copied(c[1 .. k], len)
    <2> DEFINE P == {k \in 0 .. n : Copied(c[1 .. k], len)}
    <2>1. 0 \in P
      <3>1. 1 .. 0 = {}
        OBVIOUS
      <3>2. c[{}] = base
        BY <1>5
      <3>3. QED
        BY <1>2, <1>6, <3>1, <3>2
    <2>2. ASSUME NEW k \in 0 .. n - 1, k \in P PROVE k + 1 \in P
      <3>1. k \in Nat /\ k + 1 \in 1 .. n /\ 1 .. k + 1 \in SUBSET (1 .. n) /\ 1 .. k + 1 # {}
        BY <1>2, PrefixOf
      <3>2. c[1 .. k + 1] = CopyOperand(c[(1 .. k + 1) \ {Max(1 .. k + 1)}], ports[Max(1 .. k + 1)],
                                        dims, axis, inner)
        BY <1>5, <3>1
      <3>3. c[1 .. k + 1] = CopyOperand(c[1 .. k], ports[k + 1], dims, axis, inner)
        BY <3>1, <3>2, LastOf
      <3>4. Copied(c[1 .. k + 1], len)
        BY <2>2, <3>3, CopyOperandIs
      <3>5. QED
        BY <3>1, <3>4
    <2> HIDE DEF P
    <2>3. \A k \in 0 .. n : k \in P
      BY <1>2, <2>1, <2>2, UpTo
    <2>4. QED
      BY <2>3, Zenon DEF P
  <1>8. Copied(end, len)
    BY <1>2, <1>4, <1>7
  <1>9. r = RunConcat(op, ports, dims, len, blank)
    BY DEF r
  <1>11. Answers(Fails("Op.Invalid"), len) /\ Answers(Fails("ShapeMismatch"), len)
    <2>1. "ShapeMismatch" # None /\ "Op.Invalid" # None
      BY DEF None
    <2>2. QED
      BY <2>1, NamesAreErrors, FailsAnswer
  <1>12. CASE end.err # None /\ r = Fails(end.err)
    <2>1. end.err \in Errors
      BY <1>8 DEF Copied, Answers
    <2>2. Answers(Fails(end.err), len)
      BY <1>12, <2>1, FailsAnswer
    <2>3. QED
      BY <1>9, <1>12, <2>2
  <1>13. CASE end.err = None /\ r = Writes(end.out)
    <2>1. IsBuffer(end.out, len)
      BY <1>8, <1>13 DEF Copied, Answers
    <2>2. QED
      BY <1>9, <1>13, <2>1, ErrorsAre DEF Writes, Answers
  <1>14. QED
    BY <1>9, <1>10, <1>11, <1>12, <1>13

\* The errors that the dispatch itself raises.
LEMMA RefusalsAnswer ==
    ASSUME NEW len
    PROVE  /\ Answers(Fails("ShapeMismatch"), len) /\ Answers(Fails("Op.Invalid"), len)
           /\ Answers(Fails("Unsupported"), len) /\ Answers(Fails("panic"), len)
  <1>1. "ShapeMismatch" # None /\ "Op.Invalid" # None /\ "Unsupported" # None /\ "panic" # None
    BY DEF None
  <1>2. QED
    BY <1>1, NamesAreErrors, FailsAnswer

\* The dispatch of a MatMul.
LEMMA RunMatMulAnswers ==
    ASSUME NEW ports, NEW len PROVE Answers(RunMatMul(ports, len), len)
  BY RefusalsAnswer, MatMulAnswers, Zenon DEF RunMatMul

\* The dispatch of a Conv2d, with or without its bias.
LEMMA RunConv2dAnswers ==
    ASSUME NEW op, NEW ports, NEW dims, NEW len \in Nat
    PROVE  Answers(RunConv2d(op, ports, dims, len), len)
  <1>1. PICK r, c, rest :
           /\ r = RunConv2d(op, ports, dims, len)
           /\ c = Conv2d(ports[1].data, ports[1].dims, ports[2].data, ports[2].dims,
                         len, op.strides, op.padding)
           /\ rest = SubSeq(ports, 3, Len(ports))
    OBVIOUS
  <1>2. r \in {Fails("Op.Invalid"), Fails("ShapeMismatch"), AddBias(c, rest, dims)}
    BY <1>1, Zenon DEF RunConv2d
  <1>3. Answers(c, len)
    BY <1>1, Conv2dAnswers
  <1>4. AddBias(c, rest, dims)
          = IF c.err # None \/ rest = <<>> THEN c
            ELSE AddInplaceBroadcast(c.out, dims, rest[1].data, rest[1].dims)
    BY DEF AddBias
  <1>5. c.err = None => Answers(AddInplaceBroadcast(c.out, dims, rest[1].data, rest[1].dims), len)
    <2>1. c.err = None => IsBuffer(c.out, len)
      BY <1>3 DEF Answers
    <2>2. QED
      BY <2>1, BiasAnswers
  <1>6. Answers(AddBias(c, rest, dims), len)
    BY <1>3, <1>4, <1>5
  <1>7. QED
    BY <1>1, <1>2, <1>6, RefusalsAnswer

\* The dispatch of an Add, Sub, Mul or Div.
LEMMA RunArithmeticAnswers ==
    ASSUME NEW kind, NEW ports, NEW dims, NEW len
    PROVE  Answers(RunArithmetic(kind, ports, dims, len), len)
  BY RefusalsAnswer, AdditionAnswers, BinaryAnswers, Zenon DEF RunArithmetic

\* The dispatch of a Softmax.
LEMMA RunSoftmaxAnswers ==
    ASSUME NEW op, NEW port, NEW len PROVE Answers(RunSoftmax(op, port, len), len)
  BY RefusalsAnswer, SoftmaxAnswers, Zenon DEF RunSoftmax

\* The dispatch of a BatchNorm.
LEMMA RunBatchNormAnswers ==
    ASSUME NEW ports, NEW len PROVE Answers(RunBatchNorm(ports, len), len)
  BY RefusalsAnswer, BatchNormAnswers, Zenon DEF RunBatchNorm

\* The dispatch table, by kind of operator: r is what the operator is computed to.
RunsAs(op, k, ports, dims, len, blank, r) ==
    /\ k = "MatMul"     => r = RunMatMul(ports, len)
    /\ k = "Conv2d"     => r = RunConv2d(op, ports, dims, len)
    /\ k \in Arithmetic => r = RunArithmetic(k, ports, dims, len)
    /\ k = "BatchNorm"  => r = RunBatchNorm(ports, len)
    /\ k = "Concat"     => r = RunConcat(op, ports, dims, len, blank)
    /\ k \in {"Input", "Custom"} => r = Fails("Unsupported")
    /\ k \in ElementWise \cup Moves \cup Pools \cup {"Softmax", "Transpose"} =>
          \/ ports = <<>> /\ r = Fails("Op.Invalid")
          \/ /\ ports # <<>>
             /\ k \in ElementWise => r = Unary(k, ports[1].data, len)
             /\ k = "Softmax"     => r = RunSoftmax(op, ports[1], len)
             /\ k \in Moves       => r = CopyElements(ports[1].data, len)
             /\ k \in Pools       => r = Pool2d(k, ports[1].data, ports[1].dims, len, dims,
                                                op.kernel, op.strides, op.padding)
             /\ k = "Transpose"   =>
                   r = IF Len(op.perm) > MaxRank THEN Fails("panic")
                       ELSE Transpose(ports[1].data, ports[1].dims, len, dims, op.perm)

\* Run is that, whichever the operator.
LEMMA RunIs ==
    ASSUME NEW op, NEW k, k = op.kind, NEW ports, NEW dims, NEW len, NEW blank,
           NEW r, r = Run(op, ports, dims, len, blank)
    PROVE  RunsAs(op, k, ports, dims, len, blank, r)
  <1>1. ASSUME k = "MatMul" PROVE r = RunMatMul(ports, len)
    <2>1. /\ k # "Conv2d" /\ k # "BatchNorm" /\ k # "Concat"
          /\ k \notin {"Input", "Custom"} /\ k \notin Arithmetic
      BY <1>1 DEF Arithmetic
    <2>2. QED
      BY <1>1, <2>1, Zenon DEF Run
  <1>2. ASSUME k = "Conv2d" PROVE r = RunConv2d(op, ports, dims, len)
    <2>1. /\ k # "MatMul" /\ k # "BatchNorm" /\ k # "Concat"
          /\ k \notin {"Input", "Custom"} /\ k \notin Arithmetic
      BY <1>2 DEF Arithmetic
    <2>2. QED
      BY <1>2, <2>1, Zenon DEF Run
  <1>3. ASSUME k \in Arithmetic PROVE r = RunArithmetic(k, ports, dims, len)
    <2>1. /\ k # "MatMul" /\ k # "Conv2d" /\ k # "BatchNorm"
          /\ k # "Concat" /\ k \notin {"Input", "Custom"}
      BY <1>3 DEF Arithmetic
    <2>2. QED
      BY <1>3, <2>1, Zenon DEF Run
  <1>4. ASSUME k = "BatchNorm" PROVE r = RunBatchNorm(ports, len)
    <2>1. /\ k # "MatMul" /\ k # "Conv2d" /\ k # "Concat"
          /\ k \notin {"Input", "Custom"} /\ k \notin Arithmetic
      BY <1>4 DEF Arithmetic
    <2>2. QED
      BY <1>4, <2>1, Zenon DEF Run
  <1>5. ASSUME k = "Concat" PROVE r = RunConcat(op, ports, dims, len, blank)
    <2>1. /\ k # "MatMul" /\ k # "Conv2d" /\ k # "BatchNorm"
          /\ k \notin {"Input", "Custom"} /\ k \notin Arithmetic
      BY <1>5 DEF Arithmetic
    <2>2. QED
      BY <1>5, <2>1, Zenon DEF Run
  <1>6. ASSUME k \in {"Input", "Custom"} PROVE r = Fails("Unsupported")
    <2>1. /\ k # "MatMul" /\ k # "Conv2d" /\ k # "BatchNorm"
          /\ k # "Concat" /\ k \notin Arithmetic
      BY <1>6 DEF Arithmetic
    <2>2. QED
      BY <1>6, <2>1, Zenon DEF Run
  <1>7. ASSUME k \in ElementWise \cup Moves \cup Pools \cup {"Softmax", "Transpose"}
        PROVE  \/ ports = <<>> /\ r = Fails("Op.Invalid")
               \/ /\ ports # <<>>
                  /\ k \in ElementWise => r = Unary(k, ports[1].data, len)
                  /\ k = "Softmax"     => r = RunSoftmax(op, ports[1], len)
                  /\ k \in Moves       => r = CopyElements(ports[1].data, len)
                  /\ k \in Pools       => r = Pool2d(k, ports[1].data, ports[1].dims, len, dims,
                                                     op.kernel, op.strides, op.padding)
                  /\ k = "Transpose"   =>
                        r = IF Len(op.perm) > MaxRank THEN Fails("panic")
                            ELSE Transpose(ports[1].data, ports[1].dims, len, dims, op.perm)
    <2>1. /\ k # "MatMul" /\ k # "Conv2d" /\ k # "BatchNorm" /\ k # "Concat"
          /\ k \notin {"Input", "Custom"} /\ k \notin Arithmetic
      BY <1>7 DEF Arithmetic, ElementWise, Moves, Pools
    <2>2. ASSUME ports = <<>> PROVE r = Fails("Op.Invalid")
      BY <2>1, <2>2, Zenon DEF Run
    <2>3. ASSUME ports # <<>>, k \in ElementWise
          PROVE  r = Unary(k, ports[1].data, len)
      <3>1. k # "Softmax" /\ k \notin Moves /\ k \notin Pools /\ k # "Transpose"
        BY <2>3 DEF ElementWise, Moves, Pools
      <3>2. QED
        BY <2>1, <2>3, <3>1, Zenon DEF Run
    <2>4. ASSUME ports # <<>>, k = "Softmax"
          PROVE  r = RunSoftmax(op, ports[1], len)
      <3>1. k \notin ElementWise /\ k \notin Moves /\ k \notin Pools /\ k # "Transpose"
        BY <2>4 DEF ElementWise, Moves, Pools
      <3>2. QED
        BY <2>1, <2>4, <3>1, Zenon DEF Run
    <2>5. ASSUME ports # <<>>, k \in Moves
          PROVE  r = CopyElements(ports[1].data, len)
      <3>1. k \notin ElementWise /\ k # "Softmax" /\ k \notin Pools /\ k # "Transpose"
        BY <2>5 DEF ElementWise, Moves, Pools
      <3>2. QED
        BY <2>1, <2>5, <3>1, Zenon DEF Run
    <2>6. ASSUME ports # <<>>, k \in Pools
          PROVE  r = Pool2d(k, ports[1].data, ports[1].dims, len, dims,
                     op.kernel, op.strides, op.padding)
      <3>1. k \notin ElementWise /\ k # "Softmax" /\ k \notin Moves /\ k # "Transpose"
        BY <2>6 DEF ElementWise, Moves, Pools
      <3>2. QED
        BY <2>1, <2>6, <3>1, Zenon DEF Run
    <2>7. ASSUME ports # <<>>, k = "Transpose"
          PROVE  r = IF Len(op.perm) > MaxRank THEN Fails("panic")
              ELSE Transpose(ports[1].data, ports[1].dims, len, dims, op.perm)
      <3>1. k \notin ElementWise /\ k # "Softmax" /\ k \notin Moves /\ k \notin Pools
        BY <2>7 DEF ElementWise, Moves, Pools
      <3>2. QED
        BY <2>1, <2>7, <3>1, Zenon DEF Run
    <2>8. QED
      BY <2>2, <2>3, <2>4, <2>5, <2>6, <2>7
  <1>8. QED
    BY <1>1, <1>2, <1>3, <1>4, <1>5, <1>6, <1>7, Zenon DEF RunsAs

\* Whatever the operator and its ports: a node is computed into as many elements as
\* its shape has, or refused with an error of its own, which is never the mark of
\* a node that waits for another.
LEMMA RunAnswers ==
    ASSUME NEW op, op.kind \in Kinds, NEW R, NEW ports \in Seq(R), NEW dims, NEW len \in Nat,
           NEW blank, \A p \in 1 .. Len(ports) : \E m \in Nat : IsBuffer(ports[p].data, m)
    PROVE  Answers(Run(op, ports, dims, len, blank), len)
  <1>1. PICK k, r : k = op.kind /\ r = Run(op, ports, dims, len, blank)
    OBVIOUS
  <1>2. RunsAs(op, k, ports, dims, len, blank, r)
    BY <1>1, RunIs
  <1>3. CASE k = "MatMul"
    <2>1. r = RunMatMul(ports, len)
      BY <1>2, <1>3, Zenon DEF RunsAs
    <2>2. QED
      BY <1>1, <2>1, RunMatMulAnswers
  <1>4. CASE k = "Conv2d"
    <2>1. r = RunConv2d(op, ports, dims, len)
      BY <1>2, <1>4, Zenon DEF RunsAs
    <2>2. QED
      BY <1>1, <2>1, RunConv2dAnswers
  <1>5. CASE k \in Arithmetic
    <2>1. r = RunArithmetic(k, ports, dims, len)
      BY <1>2, <1>5, Zenon DEF RunsAs
    <2>2. QED
      BY <1>1, <2>1, RunArithmeticAnswers
  <1>6. CASE k = "BatchNorm"
    <2>1. r = RunBatchNorm(ports, len)
      BY <1>2, <1>6, Zenon DEF RunsAs
    <2>2. QED
      BY <1>1, <2>1, RunBatchNormAnswers
  <1>7. CASE k = "Concat"
    <2>1. r = RunConcat(op, ports, dims, len, blank)
      BY <1>2, <1>7, Zenon DEF RunsAs
    <2>2. QED
      BY <1>1, <2>1, ConcatAnswers
  <1>8. CASE k \in {"Input", "Custom"}
    <2>1. r = Fails("Unsupported")
      BY <1>2, <1>8, Zenon DEF RunsAs
    <2>2. QED
      BY <1>1, <2>1, RefusalsAnswer
  <1>9. ASSUME k \in ElementWise \cup Moves \cup Pools \cup {"Softmax", "Transpose"}
        PROVE  Answers(r, len)
    <2>1. CASE ports = <<>>
      <3>1. r = Fails("Op.Invalid")
        BY <1>2, <1>9, <2>1, Zenon DEF RunsAs
      <3>2. QED
        BY <3>1, RefusalsAnswer
    <2>2. CASE ports # <<>> /\ k \in ElementWise
      <3>1. r = Unary(k, ports[1].data, len)
        BY <1>2, <1>9, <2>2, Zenon DEF RunsAs
      <3>2. QED
        BY <3>1, UnaryAnswers
    <2>3. CASE ports # <<>> /\ k = "Softmax"
      <3>1. r = RunSoftmax(op, ports[1], len)
        BY <1>2, <1>9, <2>3, Zenon DEF RunsAs
      <3>2. QED
        BY <3>1, RunSoftmaxAnswers
    <2>4. CASE ports # <<>> /\ k \in Moves
      <3>1. r = CopyElements(ports[1].data, len)
        BY <1>2, <1>9, <2>4, Zenon DEF RunsAs
      <3>3. PICK m \in Nat : IsBuffer(ports[1].data, m)
        <4>1. Len(ports) \in Nat /\ Len(ports) # 0
          BY <2>4
        <4>2. QED
          BY <4>1
      <3>2. QED
        BY <3>1, <3>3, CopyAnswers
    <2>5. CASE ports # <<>> /\ k \in Pools
      <3>1. r = Pool2d(k, ports[1].data, ports[1].dims, len, dims,
                       op.kernel, op.strides, op.padding)
        BY <1>2, <1>9, <2>5, Zenon DEF RunsAs
      <3>2. QED
        BY <3>1, Pool2dAnswers
    <2>6. CASE ports # <<>> /\ k = "Transpose"
      <3>1. r = IF Len(op.perm) > MaxRank THEN Fails("panic")
                ELSE Transpose(ports[1].data, ports[1].dims, len, dims, op.perm)
        BY <1>2, <1>9, <2>6, Zenon DEF RunsAs
      <3>2. QED
        BY <3>1, TransposeAnswers, RefusalsAnswer
    <2>7. QED
      BY <1>9, <2>1, <2>2, <2>3, <2>4, <2>5, <2>6
  <1>10. QED
    BY <1>1, <1>3, <1>4, <1>5, <1>6, <1>7, <1>8, <1>9 DEF Kinds

-----------------------------------------------------------------------------
(* The sort's verdict, and what the graph deserves *)

\* What is assumed of the marks and the input lists of a graph.
LEMMA MarksAre ==
    ASSUME NEW g \in Graphs
    PROVE  /\ g.inputs \in Seq(Ids(g)) /\ Distinct(g.inputs)
           /\ g.outputs \in Seq(Ids(g))
           /\ \A v \in Ids(g) : g.nodes[v].ins \in Seq(Nat)
           /\ \A r \in DOMAIN g.refs : /\ g.refs[r].to \in Ids(g) /\ g.refs[r].from \in Nat
                                       /\ g.refs[r].from \in Producers(g, g.refs[r].to)
  <1>1. /\ g.refs \in Seq([to : Ids(g), from : Nat])
        /\ \A r \in DOMAIN g.refs : g.refs[r].from \in Producers(g, g.refs[r].to)
        /\ g.inputs \in Seq(Ids(g)) /\ IsInjective(g.inputs)
        /\ g.outputs \in Seq(Ids(g))
        /\ \A v \in Ids(g) : g.nodes[v].ins \in Seq(Nat)
    BY GraphsAssumption, Zenon DEF WellFormed
  <1>2. Distinct(g.inputs)
    <2>1. DOMAIN g.inputs = 1 .. Len(g.inputs)
      BY <1>1
    <2>2. QED
      BY <1>1, <2>1 DEF Distinct, IsInjective
  <1>3. \A r \in DOMAIN g.refs : g.refs[r].to \in Ids(g) /\ g.refs[r].from \in Nat
    BY GraphIs, GraphRefs
  <1>4. QED
    BY <1>1, <1>2, <1>3

\* A cycle of nodes is one of references.
LEMMA CyclicIs ==
    ASSUME NEW g \in Graphs
    PROVE  Cyclic(g) <=> HasCycle(g)
  <1>1. \A v \in Ids(g) : \A w \in Producers(g, v) :
           \E r \in DOMAIN g.refs : g.refs[r].to = v /\ g.refs[r].from = w
    BY GraphIs
  <1>2. \A r \in DOMAIN g.refs : g.refs[r].from \in Producers(g, g.refs[r].to)
    BY MarksAre
  <1>3. ASSUME NEW S \in SUBSET Ids(g)
        PROVE  (\A v \in S : \E w \in S : w \in Producers(g, v))
                 <=> \A v \in S : \E r \in DOMAIN g.refs : g.refs[r].to = v /\ g.refs[r].from \in S
    <2>1. ASSUME NEW v \in S, NEW w \in S, w \in Producers(g, v)
          PROVE  \E r \in DOMAIN g.refs : g.refs[r].to = v /\ g.refs[r].from \in S
      BY <1>1, <2>1
    <2>2. ASSUME NEW v \in S, NEW r \in DOMAIN g.refs, g.refs[r].to = v, g.refs[r].from \in S
          PROVE  \E w \in S : w \in Producers(g, v)
      BY <1>2, <2>2
    <2>3. QED
      BY <2>1, <2>2
  <1>4. QED
    BY <1>3 DEF Cyclic, HasCycle, Entangled

\* The first reference that leaves the graph is one of those it is refused for.
LEMMA UnknownIs ==
    ASSUME NEW g \in Graphs
    PROVE  /\ NamesUnknown(g) <=> Unknown(g) # {}
           /\ NamesUnknown(g) =>
                 g.refs[SelectInSeq(g.refs, LAMBDA r : r.from >= g.n)] \in Unknown(g)
  <1>1. g.n \in Nat /\ Len(g.refs) \in Nat /\ DOMAIN g.refs = 1 .. Len(g.refs)
    BY GraphIs, GraphRefs
  <1>2. \A r \in DOMAIN g.refs : g.refs[r].from \in Nat
    BY MarksAre
  <1>3. \A r \in DOMAIN g.refs : g.refs[r].from >= g.n <=> g.refs[r].from \notin Ids(g)
    BY <1>1, <1>2 DEF Ids
  <1>4. ToSet(g.refs) = {g.refs[r] : r \in DOMAIN g.refs}
    BY DEF ToSet
  <1>5. NamesUnknown(g) <=> Unknown(g) # {}
    BY <1>3, <1>4 DEF NamesUnknown, Unknown
  <1>6. ASSUME NamesUnknown(g)
        PROVE  g.refs[SelectInSeq(g.refs, LAMBDA r : r.from >= g.n)] \in Unknown(g)
    <2>1. PICK S : S = {p \in 1 .. Len(g.refs) : g.refs[p].from >= g.n}
      OBVIOUS
    <2>2. S # {} /\ S \in SUBSET Nat
      BY <1>1, <1>6, <2>1 DEF NamesUnknown
    <2>3. SelectInSeq(g.refs, LAMBDA r : r.from >= g.n) = Min(S)
      BY <2>1, <2>2, Zenon DEF SelectInSeq
    <2>4. Min(S) \in S
      BY <2>2, MinIs
    <2>5. PICK m : m = Min(S)
      OBVIOUS
    <2>6. m \in DOMAIN g.refs /\ g.refs[m].from >= g.n
      BY <1>1, <2>1, <2>4, <2>5
    <2>7. g.refs[m] \in Unknown(g)
      BY <1>3, <1>4, <2>6 DEF Unknown
    <2>8. QED
      BY <2>3, <2>5, <2>7
  <1>7. QED
    BY <1>5, <1>6

\* A graph that the sort refuses deserves the refusal it gets.
LEMMA VerdictDeserved ==
    ASSUME NEW g \in Graphs, NEW req
    PROVE  /\ SortOf[g].verdict = "unknown" =>
                 Refusal("UnknownNode", g.refs[SelectInSeq(g.refs, LAMBDA r : r.from >= g.n)].from)
                    \in Deserved(g, req)
           /\ SortOf[g].verdict = "cycle" => Refusal("CycleDetected", NoNode) \in Deserved(g, req)
           /\ SortOf[g].verdict = "ordered" => Unknown(g) = {} /\ ~Cyclic(g)
  <1>1. PICK sort : sort = SortOf[g]
    OBVIOUS
  <1>2. sort = TopologicalSort(g) /\ IsGraph(g)
    BY <1>1, GraphIs DEF SortOf
  <1>3. /\ sort.verdict \in {"unknown", "cycle", "ordered"}
        /\ sort.verdict = "unknown" <=> NamesUnknown(g)
        /\ sort.verdict = "cycle"   <=> ~NamesUnknown(g) /\ HasCycle(g)
    BY <1>2, SortIsTopological
  <1>4. PICK first : first = g.refs[SelectInSeq(g.refs, LAMBDA r : r.from >= g.n)]
    OBVIOUS
  <1>5. ASSUME sort.verdict = "unknown" PROVE Refusal("UnknownNode", first.from) \in Deserved(g, req)
    <2>1. first \in Unknown(g)
      BY <1>3, <1>4, <1>5, UnknownIs
    <2>2. Deserved(g, req) = {Refusal("UnknownNode", r.from) : r \in Unknown(g)}
      BY <2>1 DEF Deserved
    <2>3. QED
      BY <2>1, <2>2
  <1>6. ASSUME sort.verdict = "cycle" PROVE Refusal("CycleDetected", NoNode) \in Deserved(g, req)
    <2>1. Unknown(g) = {} /\ Cyclic(g)
      BY <1>3, <1>6, UnknownIs, CyclicIs
    <2>2. QED
      BY <2>1 DEF Deserved
  <1>7. ASSUME sort.verdict = "ordered" PROVE Unknown(g) = {} /\ ~Cyclic(g)
    BY <1>3, <1>7, UnknownIs, CyclicIs
  <1>8. QED
    BY <1>1, <1>4, <1>5, <1>6, <1>7

-----------------------------------------------------------------------------
(* The binding of the inputs, from the graph alone *)

\* The k-th input node without an initializer reads slice k: the rank grows by one
\* at each of them.
LEMMA RankStep ==
    ASSUME NEW g \in Graphs
    PROVE  /\ SliceRank(g, 0) = 0
           /\ \A q \in 1 .. Len(g.inputs) :
                 /\ SliceRank(g, q) \in Nat /\ SliceRank(g, q - 1) \in Nat
                 /\ SliceRank(g, q) = SliceRank(g, q - 1) + (IF TakesSlice(g, q) THEN 1 ELSE 0)
           /\ SliceRank(g, Len(g.inputs)) = SliceCount(g)
  <1> DEFINE T(q) == {k \in 1 .. q : TakesSlice(g, k)}
  <1>1. Len(g.inputs) \in Nat /\ DOMAIN g.inputs = 1 .. Len(g.inputs)
    BY MarksAre
  <1>2. ASSUME NEW q \in Nat PROVE IsFiniteSet(T(q)) /\ Cardinality(T(q)) \in Nat
    <2>1. IsFiniteSet(1 .. q) /\ T(q) \in SUBSET (1 .. q)
      BY Segment
    <2> HIDE DEF T
    <2>2. QED
      BY <2>1, FS_Subset, FS_CardinalityType
  <1>3. T(0) = {}
    OBVIOUS
  <1>4. SliceRank(g, 0) = 0
    BY <1>3, FS_EmptySet DEF SliceRank
  <1>5. ASSUME NEW q \in 1 .. Len(g.inputs)
        PROVE  /\ SliceRank(g, q) \in Nat /\ SliceRank(g, q - 1) \in Nat
               /\ SliceRank(g, q) = SliceRank(g, q - 1) + (IF TakesSlice(g, q) THEN 1 ELSE 0)
    <2>1. q \in Nat /\ q - 1 \in Nat /\ 1 .. q = (1 .. q - 1) \cup {q} /\ q \notin 1 .. q - 1
      BY <1>1
    <2>2. IsFiniteSet(T(q - 1)) /\ Cardinality(T(q - 1)) \in Nat
      BY <1>2, <2>1
    <2>3. CASE TakesSlice(g, q)
      <3>1. T(q) = T(q - 1) \cup {q} /\ q \notin T(q - 1)
        BY <2>1, <2>3
      <3> HIDE DEF T
      <3>2. Cardinality(T(q)) = Cardinality(T(q - 1)) + 1
        BY <2>2, <3>1, FS_AddElement
      <3>3. QED
        BY <2>2, <2>3, <3>2 DEF SliceRank, T
    <2>4. CASE ~TakesSlice(g, q)
      <3>1. T(q) = T(q - 1)
        BY <2>1, <2>4
      <3> HIDE DEF T
      <3>2. Cardinality(T(q)) = Cardinality(T(q - 1))
        BY <3>1
      <3>3. QED
        BY <2>2, <2>4, <3>2 DEF SliceRank, T
    <2>5. QED
      BY <2>3, <2>4
  <1>6. SliceRank(g, Len(g.inputs)) = SliceCount(g)
    BY <1>1 DEF SliceRank, SliceCount
  <1>7. QED
    BY <1>4, <1>5, <1>6

\* The tests of the binding loop at input q, which finds u slices used.
LEMMA BindingErrorIs ==
    ASSUME NEW g \in Graphs, NEW q \in 1 .. Len(g.inputs), NEW req,
           NEW v, v = g.inputs[q], NEW p, p = InitializerOf(g, v),
           NEW n, n = NodeNumel(g, v), NEW u, u = SliceRank(g, q - 1)
    PROVE  BindingError(g, req, q) =
              IF n = Overflow THEN "ShapeMismatch"
              ELSE IF p # 0 THEN IF g.inits[p].len = n THEN None ELSE "InitializerMismatch"
              ELSE IF u + 1 > Len(req) THEN "MissingInput"
              ELSE IF req[u + 1] = n THEN None ELSE "InputDataMismatch"
  <1>1. TakesSlice(g, q) <=> p = 0
    BY DEF TakesSlice
  <1>2. TakesSlice(g, q) => SliceRank(g, q) = u + 1
    BY RankStep
  <1>3. QED
    BY <1>1, <1>2, Zenon DEF BindingError, Require

\* The errors of the binding loop are different ones.
LEMMA NamesDiffer ==
    /\ None \notin {"ShapeMismatch", "InitializerMismatch", "MissingInput", "InputDataMismatch"}
    /\ "ShapeMismatch" \notin {"InitializerMismatch", "MissingInput", "InputDataMismatch"}
  BY DEF None

\* The first input that cannot be bound is what the request is refused for.
LEMMA MisboundDeserved ==
    ASSUME NEW g \in Graphs, NEW req, Unknown(g) = {}, ~Cyclic(g),
           NEW q \in 1 .. Len(g.inputs), BindingError(g, req, q) # None,
           \A k \in 1 .. q - 1 : BindingError(g, req, k) = None
    PROVE  Refusal(BindingError(g, req, q),
                   IF BindingError(g, req, q) = "ShapeMismatch" THEN NoNode ELSE g.inputs[q])
              \in Deserved(g, req)
  <1>1. PICK S : S = Misbound(g, req)
    OBVIOUS
  <1>2. Len(g.inputs) \in Nat /\ DOMAIN g.inputs = 1 .. Len(g.inputs)
    BY MarksAre
  <1>3. q \in S /\ S \in SUBSET Nat /\ S \subseteq 1 .. Len(g.inputs)
    BY <1>1, <1>2 DEF Misbound
  <1>4. Min(S) \in S /\ Min(S) <= q
    BY <1>3, MinIs
  <1>5. PICK m : m = Min(S)
    OBVIOUS
  <1>6. m \in 1 .. Len(g.inputs) /\ m <= q /\ BindingError(g, req, m) # None
    BY <1>1, <1>3, <1>4, <1>5 DEF Misbound
  <1>7. m = q
    <2>1. m \notin 1 .. q - 1
      BY <1>6
    <2>2. QED
      BY <1>2, <1>6, <2>1
  <1>8. Deserved(g, req) =
          {Refusal(BindingError(g, req, q),
                   IF BindingError(g, req, q) = "ShapeMismatch" THEN NoNode ELSE g.inputs[q])}
    <2>1. Misbound(g, req) # {} /\ Min(Misbound(g, req)) = q
      BY <1>1, <1>3, <1>5, <1>7
    <2>2. QED
      BY <2>1, Zenon DEF Deserved
  <1>9. QED
    BY <1>8

\* If none is misbound, every slice has to be one that an input took.
LEMMA MiscountDeserved ==
    ASSUME NEW g \in Graphs, NEW req, Unknown(g) = {}, ~Cyclic(g),
           \A q \in 1 .. Len(g.inputs) : BindingError(g, req, q) = None
    PROVE  /\ Misbound(g, req) = {}
           /\ SliceCount(g) # Len(req) => Refusal("InputCountMismatch", NoNode) \in Deserved(g, req)
  <1>1. DOMAIN g.inputs = 1 .. Len(g.inputs)
    BY MarksAre
  <1>2. Misbound(g, req) = {}
    BY <1>1 DEF Misbound
  <1>3. QED
    BY <1>2 DEF Deserved

\* The node whose shape has too many elements is refused once the inputs are bound.
LEMMA UnsizedDeserved ==
    ASSUME NEW g, NEW req, Unknown(g) = {}, ~Cyclic(g), Misbound(g, req) = {},
           SliceCount(g) = Len(req)
    PROVE  /\ Unsized(g) # {} => Refusal("ShapeMismatch", NoNode) \in Deserved(g, req)
           /\ Unsized(g) = {} => Deserved(g, req) = Outcome(g, Value(g, req))
  BY DEF Deserved

-----------------------------------------------------------------------------
(* What the binding loop establishes *)

Binding(g, q) ==
    IF TakesSlice(g, q) THEN [kind |-> "Runtime", at |-> SliceRank(g, q)]
    ELSE [kind |-> "Weight", at |-> InitializerOf(g, g.inputs[q])]

\* From the sort on the graph is one that has an order.
Sorted == pc \in {"binds", "bind", "layout", "dispatch"} => Unknown(graph) = {} /\ ~Cyclic(graph)

\* The loop has used a slice for each input without an initializer, and found each
\* of the length it should have.
Supplied ==
    /\ pc \in {"idle", "scratch", "sort", "binds"} => used = 0
    /\ pc = "bind" => /\ used = SliceRank(graph, i - 1)
                      /\ \A q \in 1 .. i - 1 : BindingError(graph, request, q) = None
    /\ pc \in {"layout", "dispatch"} =>
          Misbound(graph, request) = {} /\ SliceCount(graph) = Len(request)

\* The Input nodes it has been over are bound to what the graph says.
Matching ==
    \A q \in 1 .. BoundTo : IsInput(graph, graph.inputs[q]) =>
        binds[graph.inputs[q]] = Binding(graph, q)

Matched == Sorted /\ Supplied /\ Matching

\* One turn of the loop.
LEMMA BindInputIs ==
    ASSUME ExInv, Matched, BindInput
    PROVE  \/ pc' = "return" /\ reply' \in Deserved(graph, request)
           \/ /\ pc' = "bind" /\ i' = i + 1
              /\ BindingError(graph, request, i) = None
              /\ used' = SliceRank(graph, i)
              /\ Bind(graph.inputs[i], Binding(graph, i).kind, Binding(graph, i).at)
  <1>1. graph \in Graphs /\ graph.inputs \in Seq(Ids(graph)) /\ pc = "bind"
    BY GraphIs DEF ExInv, Typed, BindInput
  <1>2. PICK v, p, n, e : /\ v = graph.inputs[i] /\ p = InitializerOf(graph, v)
                          /\ n = NodeNumel(graph, v) /\ e = BindingError(graph, request, i)
    OBVIOUS
  <1>3. i \in 1 .. Len(graph.inputs) /\ Len(graph.inputs) \in Nat
    BY <1>1 DEF ExInv, Counting, BindInput
  <1>4. /\ used = SliceRank(graph, i - 1) /\ used \in Nat /\ Len(request) \in Nat
        /\ Unknown(graph) = {} /\ ~Cyclic(graph)
        /\ \A q \in 1 .. i - 1 : BindingError(graph, request, q) = None
    <2>1. used \in Nat /\ Len(request) \in Nat
      BY DEF ExInv, Typed
    <2>2. /\ used = SliceRank(graph, i - 1)
          /\ \A q \in 1 .. i - 1 : BindingError(graph, request, q) = None
      BY <1>1 DEF Matched, Supplied
    <2>3. Unknown(graph) = {} /\ ~Cyclic(graph)
      BY <1>1 DEF Matched, Sorted
    <2>4. QED
      BY <2>1, <2>2, <2>3
  <1>5. e = IF n = Overflow THEN "ShapeMismatch"
            ELSE IF p # 0 THEN IF graph.inits[p].len = n THEN None ELSE "InitializerMismatch"
            ELSE IF used + 1 > Len(request) THEN "MissingInput"
            ELSE IF request[used + 1] = n THEN None ELSE "InputDataMismatch"
    BY <1>1, <1>2, <1>3, <1>4, BindingErrorIs
  <1>6. /\ SliceRank(graph, i) = used + (IF p = 0 THEN 1 ELSE 0)
        /\ TakesSlice(graph, i) <=> p = 0
    BY <1>1, <1>2, <1>3, <1>4, RankStep DEF TakesSlice
  <1>7. Binding(graph, i) = IF p = 0 THEN [kind |-> "Runtime", at |-> used + 1]
                            ELSE [kind |-> "Weight", at |-> p]
    BY <1>2, <1>4, <1>6 DEF Binding
  <1>8. e # None => Refusal(e, IF e = "ShapeMismatch" THEN NoNode ELSE v) \in Deserved(graph, request)
    BY <1>1, <1>2, <1>3, <1>4, MisboundDeserved
  <1>9. \/ n = Overflow /\ Fail("ShapeMismatch", NoNode)
        \/ n # Overflow /\ p # 0 /\ BindWeight(v, p)
        \/ n # Overflow /\ p = 0 /\ BindSlice(v)
    BY <1>2, Zenon DEF BindInput
  <1>10. CASE n = Overflow /\ Fail("ShapeMismatch", NoNode)
    <2>1. e = "ShapeMismatch" /\ e # None
      BY <1>5, <1>10, NamesDiffer
    <2>2. QED
      BY <1>8, <1>10, <2>1 DEF Fail
  <1>11. CASE n # Overflow /\ p # 0 /\ graph.inits[p].len # n /\ Fail("InitializerMismatch", v)
    <2>1. e = "InitializerMismatch" /\ e # None /\ e # "ShapeMismatch"
      BY <1>5, <1>11, NamesDiffer
    <2>2. QED
      BY <1>8, <1>11, <2>1 DEF Fail
  <1>12. CASE /\ n # Overflow /\ p # 0 /\ graph.inits[p].len = n
              /\ Bind(v, "Weight", p) /\ Again /\ UNCHANGED used
    <2>1. e = None /\ used' = SliceRank(graph, i)
      BY <1>4, <1>5, <1>6, <1>12
    <2>2. QED
      BY <1>1, <1>2, <1>7, <1>12, <2>1 DEF Again
  <1>13. CASE n # Overflow /\ p = 0 /\ used >= Len(request) /\ Fail("MissingInput", v)
    <2>1. e = "MissingInput" /\ e # None /\ e # "ShapeMismatch"
      BY <1>4, <1>5, <1>13, NamesDiffer
    <2>2. QED
      BY <1>8, <1>13, <2>1 DEF Fail
  <1>14. CASE /\ n # Overflow /\ p = 0 /\ ~(used >= Len(request)) /\ request[used + 1] # n
              /\ Fail("InputDataMismatch", v)
    <2>1. e = "InputDataMismatch" /\ e # None /\ e # "ShapeMismatch"
      BY <1>4, <1>5, <1>14, NamesDiffer
    <2>2. QED
      BY <1>8, <1>14, <2>1 DEF Fail
  <1>15. CASE /\ n # Overflow /\ p = 0 /\ ~(used >= Len(request)) /\ request[used + 1] = n
              /\ Bind(v, "Runtime", used + 1) /\ Again /\ used' = used + 1
    <2>1. e = None /\ used' = SliceRank(graph, i)
      BY <1>4, <1>5, <1>6, <1>15
    <2>2. QED
      BY <1>1, <1>2, <1>7, <1>15, <2>1 DEF Again
  <1>16. QED
    BY <1>2, <1>9, <1>10, <1>11, <1>12, <1>13, <1>14, <1>15 DEF BindWeight, BindSlice

\* The steps before the binding loop, and between two calls.
LEMMA EarlyMatched ==
    ASSUME ExInv, Matched, AllocScratch \/ AllocBinds \/ Return \/ Reset \/ \E req \in Requests : Call(req)
    PROVE  Matched'
  <1>1. UNCHANGED graph /\ used' \in {used, 0}
    BY DEF AllocScratch, AllocBinds, Return, Reset, Call, callVars, locals
  <1>2. /\ pc' \in {"idle", "scratch", "sort", "bind", "return"}
        /\ pc' \in {"idle", "scratch", "sort"} => used' = 0
        /\ pc' = "bind" => pc = "binds" /\ i' = 1 /\ UNCHANGED used
    BY DEF Matched, Supplied, AllocScratch, AllocBinds, Return, Reset, Call, locals, Again, Goto, Fail
  <1>3. BoundTo' = 0
    BY <1>2 DEF BoundTo
  <1>4. Sorted'
    BY <1>1, <1>2 DEF Matched, Sorted
  <1>5. Supplied'
    <2>1. CASE pc' = "bind"
      <3>1. used' = 0 /\ i' - 1 = 0 /\ graph' \in Graphs
        BY <1>1, <1>2, <2>1 DEF Matched, Supplied, ExInv, Typed
      <3>2. SliceRank(graph', 0) = 0
        BY <3>1, RankStep
      <3>3. QED
        BY <2>1, <3>1, <3>2 DEF Supplied
    <2>2. CASE pc' # "bind"
      BY <1>2, <2>2 DEF Supplied
    <2>3. QED
      BY <2>1, <2>2
  <1>6. Matching'
    BY <1>3 DEF Matching
  <1>7. QED
    BY <1>4, <1>5, <1>6 DEF Matched

\* The sort answers for a graph it refuses.
LEMMA SortMatched ==
    ASSUME ExInv, Matched, Sort
    PROVE  Matched' /\ (pc' = "return" => reply' \in Deserved(graph, request))
  <1>1. graph \in Graphs /\ UNCHANGED graph /\ pc = "sort"
    BY DEF ExInv, Typed, Sort
  <1>2. /\ SortOf[graph].verdict = "unknown" =>
              Refusal("UnknownNode",
                      graph.refs[SelectInSeq(graph.refs, LAMBDA r : r.from >= graph.n)].from)
                 \in Deserved(graph, request)
        /\ SortOf[graph].verdict = "cycle" =>
              Refusal("CycleDetected", NoNode) \in Deserved(graph, request)
        /\ SortOf[graph].verdict = "ordered" => Unknown(graph) = {} /\ ~Cyclic(graph)
    BY <1>1, VerdictDeserved
  <1>3. \/ pc' = "return" /\ reply' \in Deserved(graph, request)
        \/ pc' = "binds" /\ Unknown(graph) = {} /\ ~Cyclic(graph)
    BY <1>2, Zenon DEF Sort, Fail, Goto
  <1>4. UNCHANGED used
    BY DEF Sort
  <1>5. Matching'
    BY <1>3 DEF Matching, BoundTo
  <1>6. Sorted' /\ Supplied'
    BY <1>1, <1>3, <1>4 DEF Matched, Sorted, Supplied
  <1>7. QED
    BY <1>3, <1>5, <1>6 DEF Matched

\* A turn of the binding loop matches one input more, or refuses the request as the
\* graph says.
LEMMA BindInputMatched ==
    ASSUME ExInv, Matched, BindInput
    PROVE  Matched' /\ (pc' = "return" => reply' \in Deserved(graph, request))
  <1>1. /\ graph \in Graphs /\ UNCHANGED <<graph, request>> /\ pc = "bind"
        /\ i \in Nat \ {0} /\ i <= Len(graph.inputs)
    BY DEF ExInv, Typed, Counting, BindInput, callVars
  <1>2. CASE pc' = "return" /\ reply' \in Deserved(graph, request)
    BY <1>2 DEF Matched, Sorted, Supplied, Matching, BoundTo
  <1>3. CASE /\ pc' = "bind" /\ i' = i + 1
             /\ BindingError(graph, request, i) = None
             /\ used' = SliceRank(graph, i)
             /\ Bind(graph.inputs[i], Binding(graph, i).kind, Binding(graph, i).at)
    <2>1. PICK v, I : v = graph.inputs[i] /\ I = Ids(graph)
      OBVIOUS
    <2>2. /\ graph.inputs \in Seq(I) /\ Distinct(graph.inputs) /\ Len(graph.inputs) \in Nat
          /\ i \in 1 .. Len(graph.inputs) /\ v \in I
          /\ \A q \in 1 .. Len(graph.inputs) : graph.inputs[q] \in I
      <3>1. graph.inputs \in Seq(I) /\ Distinct(graph.inputs)
        BY <1>1, <2>1, MarksAre
      <3>2. QED
        BY <1>1, <2>1, <3>1
    <2>3. /\ binds'[v] = Binding(graph, i)
          /\ \A w \in I : w # v => binds'[w] = binds[w]
      <3>1. Binding(graph, i) = [kind |-> Binding(graph, i).kind, at |-> Binding(graph, i).at]
        BY DEF Binding
      <3>2. binds = [w \in Ids(graph) |-> binds[w]]
        BY <1>1 DEF ExInv, Bound
      <3>3. QED
        BY <1>3, <2>1, <2>2, <3>1, <3>2, BindKeeps
    <2>4. Matching'
      <3>1. BoundTo' = i /\ BoundTo = i - 1
        BY <1>1, <1>3 DEF BoundTo
      <3>2. SUFFICES ASSUME NEW q \in 1 .. i, IsInput(graph, graph.inputs[q])
                     PROVE  binds'[graph.inputs[q]] = Binding(graph, q)
        BY <1>1, <3>1 DEF Matching
      <3>3. CASE q = i
        BY <2>1, <2>3, <3>3
      <3>4. CASE q # i
        <4>1. q \in 1 .. i - 1 /\ q \in 1 .. Len(graph.inputs)
          BY <1>1, <3>4
        <4>2. graph.inputs[q] # v /\ graph.inputs[q] \in I
          BY <2>1, <2>2, <3>4, <4>1 DEF Distinct
        <4>3. binds[graph.inputs[q]] = Binding(graph, q)
          BY <3>1, <3>2, <4>1 DEF Matched, Matching
        <4>4. QED
          BY <2>3, <4>2, <4>3
      <3>5. QED
        BY <3>3, <3>4
    <2>5. Supplied'
      <3>1. i' - 1 = i
        BY <1>1, <1>3
      <3>2. \A q \in 1 .. i : BindingError(graph, request, q) = None
        <4>1. \A q \in 1 .. i - 1 : BindingError(graph, request, q) = None
          BY <1>1 DEF Matched, Supplied
        <4>2. \A q \in 1 .. i : q = i \/ q \in 1 .. i - 1
          BY <1>1
        <4>3. QED
          BY <1>3, <4>1, <4>2
      <3>3. QED
        BY <1>1, <1>3, <3>1, <3>2 DEF Supplied
    <2>6. Sorted'
      BY <1>1 DEF Matched, Sorted
    <2>7. QED
      BY <1>3, <2>4, <2>5, <2>6 DEF Matched
  <1>4. QED
    BY <1>2, <1>3, BindInputIs

\* After the loop each input is matched, and each slice used.
LEMMA InputsBoundMatched ==
    ASSUME ExInv, Matched, InputsBound
    PROVE  Matched' /\ (pc' = "return" => reply' \in Deserved(graph, request))
  <1>1. /\ graph \in Graphs /\ UNCHANGED <<graph, request, binds, used>> /\ pc = "bind"
        /\ used = SliceRank(graph, i - 1) /\ Unknown(graph) = {} /\ ~Cyclic(graph)
        /\ \A q \in 1 .. i - 1 : BindingError(graph, request, q) = None
    BY DEF ExInv, Typed, InputsBound, callVars, locals, Matched, Sorted, Supplied
  <1>2. i - 1 = Len(graph.inputs)
    <2>1. Len(graph.inputs) \in Nat
      BY <1>1, MarksAre
    <2>2. i \in Nat /\ i <= Len(graph.inputs) + 1 /\ i > Len(graph.inputs)
      BY <1>1 DEF ExInv, Counting, InputsBound
    <2>3. QED
      BY <2>1, <2>2
  <1>3. used = SliceCount(graph)
    BY <1>1, <1>2, RankStep
  <1>4. /\ Misbound(graph, request) = {}
        /\ SliceCount(graph) # Len(request) =>
              Refusal("InputCountMismatch", NoNode) \in Deserved(graph, request)
    BY <1>1, <1>2, MiscountDeserved
  <1>5. CASE used # Len(request)
    <2>1. pc' = "return" /\ reply' \in Deserved(graph, request)
      BY <1>3, <1>4, <1>5 DEF InputsBound, Fail
    <2>2. QED
      BY <2>1 DEF Matched, Sorted, Supplied, Matching, BoundTo
  <1>6. CASE used = Len(request)
    <2>1. pc' = "layout" /\ BoundTo' = BoundTo
      BY <1>1, <1>2, <1>6 DEF InputsBound, Goto, BoundTo
    <2>2. QED
      BY <1>1, <1>3, <1>4, <1>6, <2>1 DEF Matched, Sorted, Supplied, Matching
  <1>7. QED
    BY <1>5, <1>6

\* The layout binds the nodes that are no inputs, and dispatch none.
LEMMA LaterMatched ==
    ASSUME ExInv, Matched, AssignOffset \/ AllocActs \/ SkipInput \/ DispatchNode \/ Collect
    PROVE  Matched'
  <1>1. /\ UNCHANGED <<graph, request>> /\ pc \in {"layout", "dispatch"}
        /\ pc' \in {"layout", "dispatch", "return"} /\ graph \in Graphs
    BY DEF AssignOffset, AllocActs, SkipInput, DispatchNode, Collect, callVars, locals,
           Again, Goto, Fail, ExInv, Typed
  <1>2. Sorted' /\ Supplied'
    BY <1>1 DEF Matched, Sorted, Supplied
  <1>3. CASE pc' = "return"
    BY <1>2, <1>3 DEF Matched, Matching, BoundTo
  <1>4. CASE pc' # "return"
    <2>1. BoundTo' = BoundTo /\ BoundTo = Len(graph.inputs)
      BY <1>1, <1>4 DEF BoundTo
    <2>2. \A w \in Ids(graph) : IsInput(graph, w) => binds'[w] = binds[w]
      <3>1. CASE UNCHANGED binds
        BY <3>1
      <3>2. CASE ~UNCHANGED binds
        <4>1. PICK v, kind, at : v = order[i] /\ ~IsInput(graph, v) /\ Bind(v, kind, at)
          BY <3>2 DEF AssignOffset, AllocActs, SkipInput, DispatchNode, Collect, locals
        <4>2. binds = [w \in Ids(graph) |-> binds[w]]
          BY <1>1 DEF ExInv, Bound
        <4>3. \A w \in Ids(graph) : w # v => binds'[w] = binds[w]
          BY <4>1, <4>2 DEF Bind
        <4>4. QED
          BY <4>1, <4>3
      <3>3. QED
        BY <3>1, <3>2
    <2>3. \A q \in 1 .. Len(graph.inputs) : graph.inputs[q] \in Ids(graph)
      BY <1>1, MarksAre
    <2>4. Matching'
      BY <1>1, <2>1, <2>2, <2>3 DEF Matched, Matching
    <2>5. QED
      BY <1>2, <2>4 DEF Matched
  <1>5. QED
    BY <1>3, <1>4

\* Every step keeps it.
LEMMA MatchedKept == ExInv /\ Matched /\ [Next]_vars => Matched'
  <1> SUFFICES ASSUME ExInv, Matched, [Next]_vars PROVE Matched'
    OBVIOUS
  <1>1. CASE UNCHANGED vars
    BY <1>1 DEF vars, callVars, locals, Matched, Sorted, Supplied, Matching, BoundTo
  <1>2. QED
    BY <1>1, EarlyMatched, SortMatched, BindInputMatched, InputsBoundMatched, LaterMatched
       DEF Next, Step

\* Nothing is matched before the first call.
LEMMA MatchedStarts == Init => Matched
  BY DEF Init, Matched, Sorted, Supplied, Matching, BoundTo

-----------------------------------------------------------------------------
(* Sums over the nodes, in whatever order they are taken *)

\* S is the sum of w over each set of positions.
IsSum(n, w, S) ==
    /\ S \in [SUBSET (1 .. n) -> Nat]
    /\ S[{}] = 0
    /\ \A s \in SUBSET (1 .. n) : \A x \in s : S[s] = S[s \ {x}] + w[x]

\* There is a sum of whatever weights: by induction on the largest position.
LEMMA SumExists ==
    ASSUME NEW n \in Nat, NEW w \in [1 .. n -> Nat]
    PROVE  \E S : IsSum(n, w, S)
  <1> DEFINE F == [p \in (1 .. n) \X Nat |-> p[2] + w[p[1]]]
  <1>1. F \in [(1 .. n) \X Nat -> Nat]
    OBVIOUS
  <1>2. PICK it : IsFold(n, Nat, 0, F, it)
    <2> HIDE DEF F
    <2>1. 0 \in Nat
      OBVIOUS
    <2>2. QED
      BY <1>1, <2>1, FoldExists
  <1>3. it \in [SUBSET (1 .. n) -> Nat] /\ it[{}] = 0
    BY <1>2 DEF IsFold
  <1>4. ASSUME NEW s \in SUBSET (1 .. n), s # {}
        PROVE  it[s] = it[s \ {Max(s)}] + w[Max(s)] /\ Max(s) \in s
    <2>1. Max(s) \in s
      BY <1>4, MaxIs
    <2>2. it[s \ {Max(s)}] \in Nat /\ Max(s) \in 1 .. n
      BY <1>3, <2>1
    <2>3. it[s] = F[<<Max(s), it[s \ {Max(s)}]>>]
      BY <1>2, <1>4 DEF IsFold
    <2>4. QED
      BY <2>1, <2>2, <2>3
  <1>5. \A k \in 0 .. n : \A s \in SUBSET (1 .. k) : \A x \in s : it[s] = it[s \ {x}] + w[x]
    <2> DEFINE P == {k \in 0 .. n : \A s \in SUBSET (1 .. k) : \A x \in s :
                        it[s] = it[s \ {x}] + w[x]}
    <2>1. 0 \in P
      OBVIOUS
    <2>2. ASSUME NEW k \in 0 .. n - 1, k \in P PROVE k + 1 \in P
      <3> SUFFICES ASSUME NEW s \in SUBSET (1 .. k + 1), NEW x \in s
                   PROVE  it[s] = it[s \ {x}] + w[x]
        <4>1. k + 1 \in 0 .. n
          OBVIOUS
        <4>2. QED
          BY <4>1
      <3>1. s \in SUBSET (1 .. n) /\ s # {} /\ k \in Nat
        OBVIOUS
      <3>2. PICK m : m = Max(s)
        OBVIOUS
      <3>3. m \in s /\ it[s] = it[s \ {m}] + w[m] /\ \A y \in s : y <= m
        <4>1. \A y \in s : y <= Max(s)
          BY <3>1, MaxIs
        <4>2. QED
          BY <1>4, <3>1, <3>2, <4>1
      <3>4. CASE x = m
        BY <3>3, <3>4
      <3>5. CASE x # m
        <4>1. s \ {m} \in SUBSET (1 .. k) /\ x \in s \ {m}
          <5>1. \A y \in s \ {m} : y \in 1 .. k
            BY <3>1, <3>3
          <5>2. QED
            BY <3>5, <5>1
        <4>2. it[s \ {m}] = it[(s \ {m}) \ {x}] + w[x]
          BY <2>2, <4>1
        <4>3. s \ {x} \in SUBSET (1 .. n) /\ s \ {x} # {} /\ m \in s \ {x}
          BY <3>1, <3>3, <3>5
        <4>4. Max(s \ {x}) = m
          <5>1. Max(s \ {x}) \in s \ {x} /\ \A y \in s \ {x} : y <= Max(s \ {x})
            BY <4>3, MaxIs
          <5>2. PICK q : q = Max(s \ {x})
            OBVIOUS
          <5>3. q \in s /\ q \in 1 .. n /\ m \in 1 .. n
            BY <3>1, <3>3, <5>1, <5>2
          <5>4. m <= q /\ q <= m
            BY <3>3, <4>3, <5>1, <5>2, <5>3
          <5>5. QED
            BY <5>2, <5>3, <5>4
        <4>5. it[s \ {x}] = it[(s \ {x}) \ {m}] + w[m]
          BY <1>4, <4>3, <4>4
        <4>6. (s \ {x}) \ {m} = (s \ {m}) \ {x}
          OBVIOUS
        <4>7. PICK a, b, c, d, wx, wm : /\ a = it[s] /\ b = it[s \ {m}] /\ c = it[s \ {x}]
                                        /\ d = it[(s \ {m}) \ {x}] /\ wx = w[x] /\ wm = w[m]
          OBVIOUS
        <4>8. a \in Nat /\ b \in Nat /\ c \in Nat /\ d \in Nat /\ wx \in Nat /\ wm \in Nat
          <5>1. s \ {m} \in SUBSET (1 .. n) /\ (s \ {m}) \ {x} \in SUBSET (1 .. n)
            BY <3>1
          <5>2. x \in 1 .. n /\ m \in 1 .. n
            BY <3>1, <3>3
          <5>3. QED
            BY <1>3, <3>1, <4>3, <4>7, <5>1, <5>2
        <4>9. a = b + wm /\ b = d + wx /\ c = d + wm
          BY <3>3, <4>2, <4>5, <4>6, <4>7
        <4>10. a = c + wx
          BY <4>8, <4>9
        <4>11. QED
          BY <4>7, <4>10
      <3>6. QED
        BY <3>4, <3>5
    <2> HIDE DEF P
    <2>3. \A k \in 0 .. n : k \in P
      BY <2>1, <2>2, UpTo
    <2>4. QED
      BY <2>3, Zenon DEF P
  <1>6. IsSum(n, w, it)
    <2>1. n \in 0 .. n
      OBVIOUS
    <2>2. QED
      BY <1>3, <1>5, <2>1 DEF IsSum
  <1>7. QED
    BY <1>6

\* A part of the positions does not sum to more than all of them.
LEMMA SumGrows ==
    ASSUME NEW n \in Nat, NEW w \in [1 .. n -> Nat], NEW S, IsSum(n, w, S),
           NEW s \in SUBSET (1 .. n)
    PROVE  S[s] <= S[1 .. n]
  <1>1. /\ S \in [SUBSET (1 .. n) -> Nat] /\ S[{}] = 0
        /\ \A t \in SUBSET (1 .. n) : \A x \in t : S[t] = S[t \ {x}] + w[x]
    BY DEF IsSum
  <1> DEFINE P == {k \in 0 .. n : S[s \cap (1 .. k)] <= S[1 .. k]}
  <1>2. 0 \in P
    <2>1. s \cap (1 .. 0) = {} /\ 1 .. 0 = {}
      OBVIOUS
    <2>2. QED
      BY <1>1, <2>1
  <1>3. ASSUME NEW k \in 0 .. n - 1, k \in P PROVE k + 1 \in P
    <2>1. PICK t, u, p, q : /\ t = 1 .. k + 1 /\ u = 1 .. k
                            /\ p = s \cap (1 .. k + 1) /\ q = s \cap (1 .. k)
      OBVIOUS
    <2>2. /\ k + 1 \in 1 .. n /\ k + 1 \in 0 .. n
          /\ t \in SUBSET (1 .. n) /\ k + 1 \in t /\ t \ {k + 1} = u /\ u \in SUBSET (1 .. n)
          /\ p \in SUBSET (1 .. n) /\ q \in SUBSET (1 .. n)
          /\ k + 1 \in s => k + 1 \in p /\ p \ {k + 1} = q
          /\ k + 1 \notin s => p = q
      BY <2>1
    <2>3. PICK a, b, c, d, e : a = S[t] /\ b = S[u] /\ c = w[k + 1] /\ d = S[q] /\ e = S[p]
      OBVIOUS
    <2>4. a \in Nat /\ b \in Nat /\ c \in Nat /\ d \in Nat
      BY <1>1, <2>2, <2>3
    <2>5. a = b + c
      BY <1>1, <2>2, <2>3
    <2>6. d <= b
      BY <1>3, <2>1, <2>3
    <2>7. e = d + c \/ e = d
      <3>1. ASSUME k + 1 \in s PROVE e = d + c
        <4>1. S[p] = S[p \ {k + 1}] + w[k + 1]
          BY <1>1, <2>2, <3>1
        <4>2. QED
          BY <2>2, <2>3, <3>1, <4>1
      <3>2. ASSUME k + 1 \notin s PROVE e = d
        BY <2>2, <2>3, <3>2
      <3>3. QED
        BY <3>1, <3>2
    <2>8. e <= a
      BY <2>4, <2>5, <2>6, <2>7
    <2>9. QED
      BY <2>1, <2>2, <2>3, <2>8
  <1> HIDE DEF P
  <1>4. n \in P
    <2>1. \A k \in 0 .. n : k \in P
      BY <1>2, <1>3, UpTo
    <2>2. QED
      BY <2>1
  <1>5. s \cap (1 .. n) = s
    OBVIOUS
  <1>6. QED
    BY <1>4, <1>5 DEF P

-----------------------------------------------------------------------------
(* The elements of the activation buffer *)

\* What a node adds to it; a shape that overflows counts as all of memory.
Weigh(g, v) ==
    IF IsInput(g, v) THEN 0 ELSE IF NodeNumel(g, v) = Overflow THEN UsizeMax ELSE NodeNumel(g, v)

Weights(g) == [j \in 1 .. g.n |-> Weigh(g, j - 1)]

\* They are numbers.
LEMMA WeightsAre == \A g \in Graphs : g.n \in Nat /\ Weights(g) \in [1 .. g.n -> Nat]
  <1> SUFFICES ASSUME NEW g \in Graphs PROVE g.n \in Nat /\ Weights(g) \in [1 .. g.n -> Nat]
    OBVIOUS
  <1>1. g.n \in Nat /\ \A v \in Ids(g) : NodeNumel(g, v) \in Nat \cup {Overflow}
    BY GraphIs
  <1>2. \A v \in Ids(g) : Weigh(g, v) \in Nat
    BY <1>1, ArenaConstants DEF Weigh
  <1>3. \A j \in 1 .. g.n : j - 1 \in Ids(g)
    BY <1>1 DEF Ids
  <1>4. QED
    BY <1>1, <1>2, <1>3 DEF Weights

\* The loop of required_arena_bytes over the nodes, sum by sum.
IsCounting(g, run) ==
    /\ run \in [0 .. g.n -> Nat]
    /\ run[0] = 0 /\ run[g.n] = ActivationNumel(g)
    /\ \A k \in 0 .. g.n - 1 : run[k + 1] = IF IsInput(g, k) THEN run[k]
                                            ELSE SatAdd(run[k], Weigh(g, k))

\* The fold is such a function, for every number of nodes: by induction on it.
LEMMA CountingRuns ==
    ASSUME NEW g \in Graphs
    PROVE  \E run : IsCounting(g, run)
  <1> DEFINE n    == g.n
             ids  == [j \in 1 .. n |-> j - 1]
             op(acc, v) == IF IsInput(g, v) THEN acc
                           ELSE SatAdd(acc, IF NodeNumel(g, v) = Overflow THEN UsizeMax
                                            ELSE NodeNumel(g, v))
             F    == [p \in (1 .. n) \X Nat |-> op(p[2], ids[p[1]])]
             c    == CHOOSE f : f = [s \in SUBSET (1 .. n) |->
                       IF s = {} THEN 0 ELSE op(f[s \ {Max(s)}], ids[Max(s)])]
  <1>1. n \in Nat /\ \A v \in 0 .. n - 1 : NodeNumel(g, v) \in Nat \cup {Overflow}
    BY GraphIs DEF Ids
  <1>2. \A j \in 1 .. n : ids[j] = j - 1 /\ j - 1 \in 0 .. n - 1
    BY <1>1
  <1>3. ActivationNumel(g) = c[1 .. n]
    <2>1. DOMAIN ids = 1 .. n
      OBVIOUS
    <2>2. QED
      BY <2>1, Zenon DEF ActivationNumel, FoldLeft, MapThenFoldSet
  <1> HIDE DEF ids
  <1>4. ASSUME NEW a \in Nat, NEW v \in 0 .. n - 1 PROVE op(a, v) \in Nat
    <2>1. \A b \in Nat : SatAdd(a, b) \in Nat
      BY ArenaConstants DEF SatAdd
    <2>2. QED
      BY <1>1, <2>1, ArenaConstants
  <1> HIDE DEF n
  <1>5. F \in [(1 .. n) \X Nat -> Nat]
    <2> SUFFICES ASSUME NEW p \in (1 .. n) \X Nat
                 PROVE  op(p[2], ids[p[1]]) \in Nat
      OBVIOUS
    <2>1. p[2] \in Nat /\ ids[p[1]] \in 0 .. n - 1
      BY <1>2
    <2> HIDE DEF op
    <2>2. QED
      BY <1>4, <2>1
  <1>6. PICK it : IsFold(n, Nat, 0, F, it)
    <2> HIDE DEF F
    <2>1. 0 \in Nat
      OBVIOUS
    <2>2. QED
      BY <1>1, <1>5, <2>1, FoldExists
  <1>7. it = [s \in SUBSET (1 .. n) |->
                IF s = {} THEN 0 ELSE op(it[s \ {Max(s)}], ids[Max(s)])]
    <2>1. it \in [SUBSET (1 .. n) -> Nat]
      BY <1>6 DEF IsFold
    <2>2. ASSUME NEW s \in SUBSET (1 .. n), s # {}
          PROVE  it[s] = op(it[s \ {Max(s)}], ids[Max(s)])
      <3>1. Max(s) \in 1 .. n
        BY <1>1, <2>2, MaxIs
      <3>2. it[s \ {Max(s)}] \in Nat
        BY <2>1
      <3>3. it[s] = F[<<Max(s), it[s \ {Max(s)}]>>]
        BY <1>6, <2>2 DEF IsFold
      <3> HIDE DEF op
      <3>4. QED
        BY <3>1, <3>2, <3>3
    <2> HIDE DEF op
    <2>3. \A s \in SUBSET (1 .. n) :
             it[s] = IF s = {} THEN 0 ELSE op(it[s \ {Max(s)}], ids[Max(s)])
      BY <1>6, <2>2 DEF IsFold
    <2>4. QED
      BY <2>1, <2>3
  <1>8. c = [s \in SUBSET (1 .. n) |->
               IF s = {} THEN 0 ELSE op(c[s \ {Max(s)}], ids[Max(s)])]
    BY <1>7, Zenon
  <1> HIDE DEF c
  <1>9. \A k \in 0 .. n - 1 : c[1 .. k + 1] = op(c[1 .. k], k)
    <2> SUFFICES ASSUME NEW k \in 0 .. n - 1 PROVE c[1 .. k + 1] = op(c[1 .. k], k)
      OBVIOUS
    <2>1. k \in Nat /\ k + 1 \in 1 .. n /\ 1 .. k + 1 \in SUBSET (1 .. n) /\ 1 .. k + 1 # {}
      BY <1>1, PrefixOf
    <2> HIDE DEF op
    <2>2. c[1 .. k + 1] = op(c[(1 .. k + 1) \ {Max(1 .. k + 1)}], ids[Max(1 .. k + 1)])
      BY <1>8, <2>1
    <2>3. c[1 .. k + 1] = op(c[1 .. k], ids[k + 1])
      BY <2>1, <2>2, LastOf
    <2>4. ids[k + 1] = k
      BY <1>2, <2>1
    <2>5. QED
      BY <2>3, <2>4
  <1>10. c[{}] = 0
    BY <1>8
  <1>11. PICK run : run = [k \in 0 .. n |-> c[1 .. k]]
    OBVIOUS
  <1>12. /\ 0 \in 0 .. n /\ n \in 0 .. n /\ 1 .. 0 = {}
         /\ \A k \in 0 .. n - 1 : k \in 0 .. n /\ k + 1 \in 0 .. n
    BY <1>1
  <1>13. run[0] = 0 /\ run[n] = ActivationNumel(g)
    BY <1>3, <1>10, <1>11, <1>12
  <1>14. \A k \in 0 .. n - 1 : run[k + 1] = op(run[k], k)
    <2> HIDE DEF op
    <2>1. QED
      BY <1>9, <1>11, <1>12
  <1>15. \A k \in 0 .. n : run[k] \in Nat
    <2> DEFINE P == {k \in 0 .. n : run[k] \in Nat}
    <2>1. 0 \in P
      BY <1>12, <1>13
    <2>2. ASSUME NEW k \in 0 .. n - 1, k \in P PROVE k + 1 \in P
      <3> HIDE DEF op
      <3>1. QED
        BY <1>4, <1>12, <1>14, <2>2
    <2> HIDE DEF P
    <2>3. \A k \in 0 .. n : k \in P
      BY <1>1, <2>1, <2>2, UpTo
    <2>4. QED
      BY <2>3, Zenon DEF P
  <1>16. run \in [0 .. n -> Nat]
    BY <1>11, <1>15
  <1>17. \A k \in 0 .. n - 1 : run[k + 1] = IF IsInput(g, k) THEN run[k]
                                           ELSE SatAdd(run[k], Weigh(g, k))
    BY <1>14 DEF Weigh
  <1>18. IsCounting(g, run)
    BY <1>13, <1>16, <1>17 DEF IsCounting, n
  <1>19. QED
    BY <1>18

\* It gives the sum over the nodes, or the largest usize.
LEMMA ActivationIs ==
    ASSUME NEW g \in Graphs, NEW S, IsSum(g.n, Weights(g), S)
    PROVE  ActivationNumel(g) = IF S[1 .. g.n] > UsizeMax THEN UsizeMax ELSE S[1 .. g.n]
  <1>1. PICK run : IsCounting(g, run)
    BY CountingRuns
  <1>2. PICK n, w, M : n = g.n /\ w = Weights(g) /\ M = UsizeMax
    OBVIOUS
  <1>3. /\ n \in Nat /\ w \in [1 .. n -> Nat] /\ M \in Nat
        /\ S \in [SUBSET (1 .. n) -> Nat] /\ S[{}] = 0
        /\ \A t \in SUBSET (1 .. n) : \A x \in t : S[t] = S[t \ {x}] + w[x]
    BY <1>2, WeightsAre, ArenaConstants DEF IsSum
  <1>4. /\ run[0] = 0 /\ run[n] = ActivationNumel(g)
        /\ \A k \in 0 .. n : run[k] \in Nat
        /\ \A k \in 0 .. n - 1 : run[k + 1] = IF IsInput(g, k) THEN run[k]
                                              ELSE SatAdd(run[k], Weigh(g, k))
    BY <1>1, <1>2 DEF IsCounting
  <1> DEFINE P == {k \in 0 .. n : run[k] = IF S[1 .. k] > M THEN M ELSE S[1 .. k]}
  <1>5. 0 \in P
    <2>1. 1 .. 0 = {}
      OBVIOUS
    <2>2. QED
      BY <1>3, <1>4, <2>1
  <1>6. ASSUME NEW k \in 0 .. n - 1, k \in P PROVE k + 1 \in P
    <2>1. PICK t, u : t = 1 .. k + 1 /\ u = 1 .. k
      OBVIOUS
    <2>2. /\ t \in SUBSET (1 .. n) /\ k + 1 \in t /\ t \ {k + 1} = u /\ u \in SUBSET (1 .. n)
          /\ k + 1 \in 1 .. n /\ k + 1 \in 0 .. n /\ (k + 1) - 1 = k
      BY <1>3, <2>1
    <2>3. PICK a, b, c, x, y : a = S[t] /\ b = S[u] /\ c = w[k + 1] /\ x = run[k] /\ y = run[k + 1]
      OBVIOUS
    <2>4. a \in Nat /\ b \in Nat /\ c \in Nat /\ x \in Nat
      BY <1>3, <1>4, <2>2, <2>3
    <2>5. a = b + c
      BY <1>3, <2>2, <2>3
    <2>6. x = IF b > M THEN M ELSE b
      BY <1>6, <2>1, <2>3
    <2>7. c = Weigh(g, k)
      BY <1>2, <2>2, <2>3 DEF Weights
    <2>8. y = IF x + c > M THEN M ELSE x + c
      <3>1. CASE IsInput(g, k)
        <4>1. c = 0 /\ y = x
          BY <1>4, <2>3, <2>7, <3>1 DEF Weigh
        <4>2. x <= M
          BY <1>3, <2>4, <2>6
        <4>3. QED
          BY <1>3, <2>4, <4>1, <4>2
      <3>2. CASE ~IsInput(g, k)
        BY <1>2, <1>4, <2>3, <2>7, <3>2 DEF SatAdd
      <3>3. QED
        BY <3>1, <3>2
    <2>9. y = IF a > M THEN M ELSE a
      BY <1>3, <2>4, <2>5, <2>6, <2>8
    <2>10. QED
      BY <2>1, <2>2, <2>3, <2>9
  <1> HIDE DEF P
  <1>7. n \in P
    <2>1. \A k \in 0 .. n : k \in P
      BY <1>3, <1>5, <1>6, UpTo
    <2>2. QED
      BY <1>3, <2>1
  <1>8. QED
    BY <1>2, <1>4, <1>7 DEF P

-----------------------------------------------------------------------------
(* The bytes a call takes *)

\* 2^1, 2^2 and 2^3.
LEMMA SmallPowers == 2^0 = 1 /\ 2^1 = 2 /\ 2^2 = 4 /\ 2^3 = 8
  <1>1. IsFiniteSet({}) /\ Cardinality({}) = 0
    BY FS_EmptySet
  <1>2. Cardinality(SUBSET {}) = 2^0
    BY <1>1, FS_SUBSET
  <1>3. SUBSET {} = {{}}
    OBVIOUS
  <1>4. Cardinality({{}}) = 1
    BY FS_Singleton
  <1>5. 2^0 = 1
    BY <1>2, <1>3, <1>4
  <1>6. IsFiniteSet({1}) /\ Cardinality({1}) = 1
    BY FS_Singleton
  <1>7. Cardinality(SUBSET {1}) = 2^1
    BY <1>6, FS_SUBSET
  <1>8. SUBSET {1} = {{}} \cup {{1}}
    OBVIOUS
  <1>9. Cardinality({{}} \cup {{1}}) = 2
    <2>1. IsFiniteSet({{}}) /\ Cardinality({{}}) = 1 /\ {1} \notin {{}}
      BY FS_Singleton
    <2>2. Cardinality({{}} \cup {{1}}) = 1 + 1
      BY <2>1, FS_AddElement
    <2>3. 1 + 1 = 2
      OBVIOUS
    <2>4. QED
      BY <2>2, <2>3
  <1>10. 2^1 = 2
    BY <1>7, <1>8, <1>9
  <1>11. 2^(1 + 1) = 2^1 * 2^1 /\ 2^(2 + 1) = 2^2 * 2^1
    <2>1. 1 \in Nat /\ 2 \in Nat
      OBVIOUS
    <2>2. QED
      BY <2>1, AP!PowerOfSum
  <1>12. 1 + 1 = 2 /\ 2 + 1 = 3
    OBVIOUS
  <1>13. 2^2 = 2^1 * 2^1 /\ 2^3 = 2^2 * 2^1
    BY <1>11, <1>12
  <1>14. PICK a, b, c : a = 2^1 /\ b = 2^2 /\ c = 2^3
    OBVIOUS
  <1>15. a = 2 /\ b = a * a /\ c = b * a
    BY <1>10, <1>13, <1>14
  <1>16. b = 4 /\ c = 8
    BY <1>15
  <1>17. QED
    BY <1>5, <1>10, <1>14, <1>16

\* A usize so narrow that an alignment does not fit has next to no memory.
LEMMA NarrowUsize ==
    ASSUME NEW align \in {4, 8}, ~Arena!IsPowerOfTwo(align)
    PROVE  UsizeMax <= 7
  <1>1. Bits \in Nat \ {0}
    BY ExecuteAssumption
  <1>2. Bits <= 3
    <2>1. CASE Bits > 3
      <3>1. 2 \in 0 .. Bits - 1 /\ 3 \in 0 .. Bits - 1
        BY <1>1, <2>1
      <3>2. Arena!IsPowerOfTwo(align)
        BY <3>1, SmallPowers DEF Arena!IsPowerOfTwo
      <3>3. QED
        BY <3>2
    <2>2. QED
      BY <1>1, <2>1
  <1>3. Bits = 1 \/ Bits = 2 \/ Bits = 3
    BY <1>1, <1>2
  <1>4. PICK p : p = 2^Bits
    OBVIOUS
  <1>5. p = 2 \/ p = 4 \/ p = 8
    BY <1>3, <1>4, SmallPowers
  <1>6. UsizeMax = p - 1
    BY <1>4 DEF UsizeMax
  <1>7. QED
    BY <1>5, <1>6

\* What an allocation adds to the cursor, and when one is refused.
LEMMA AllocSpends ==
    ASSUME AP!ArenaInv, NEW h, NEW layout, NEW size \in {4, 8, 16}, layout.size = size,
           layout.align \in {4, 8},
           NEW count \in Nat, Arena!AllocSlice(h, layout, count)
    PROVE  /\ UNCHANGED buf
           /\ result' = "Ok" => offset' <= offset + size * count + 7
           /\ result' # "Ok" => \/ UsizeMax <= 7
                                \/ size * count > UsizeMax
                                \/ offset + size * count + 7 > buf.len
  <1>1. /\ buf \in Bufs /\ offset \in 0 .. buf.len /\ buf.addr \in Nat /\ buf.len \in Nat
        /\ buf.addr + buf.len <= UsizeMax /\ UsizeMax \in Nat
    BY ArenaTyped, ExecuteAssumption, ArenaConstants
  <1>2. PICK len, align, pad, addr, off, cap, M :
           /\ len = size * count /\ align = layout.align /\ M = UsizeMax
           /\ pad = (-(buf.addr + offset)) % align
           /\ addr = buf.addr /\ off = offset /\ cap = buf.len
    OBVIOUS
  <1>3. len \in Nat /\ align \in {4, 8} /\ addr \in Nat /\ off \in Nat /\ cap \in Nat /\ M \in Nat
    BY <1>1, <1>2
  <1>4. pad \in 0 .. align - 1
    <2>1. -(addr + off) \in Int /\ align \in Nat \ {0}
      BY <1>3
    <2>2. QED
      BY <1>2, <2>1, AP!ModBounds
  <1>5. Arena!UsizeMax = M
    BY <1>2 DEF Arena!UsizeMax, UsizeMax
  <1>6. PICK new : new = Arena!NewOffset(buf, offset, align)
    OBVIOUS
  <1>7. new = off + pad
    <2>1. new = (addr + off + pad) - addr
      <3>1. PICK z : z = buf.addr + offset
        OBVIOUS
      <3>2. new = Arena!AlignUp(z, align) - addr
        BY <1>2, <1>6, <3>1 DEF Arena!NewOffset
      <3>3. Arena!AlignUp(z, align) = z + ((-z) % align)
        BY DEF Arena!AlignUp
      <3>4. pad = (-z) % align
        BY <1>2, <3>1, Zenon
      <3>5. QED
        BY <1>2, <3>1, <3>2, <3>3, <3>4, Zenon
    <2>2. pad \in Nat
      BY <1>3, <1>4
    <2>3. QED
      BY <1>3, <2>1, <2>2
  <1>8. CASE len > M
    BY <1>2, <1>5, <1>8 DEF Arena!AllocSlice
  <1>9. CASE ~(len > M)
    <2>1. Arena!AllocBytes(h, len, align)
      BY <1>2, <1>5, <1>9 DEF Arena!AllocSlice
    <2>2. /\ result' = Arena!Verdict(buf, offset, len, align) /\ UNCHANGED buf
          /\ result' = "Ok" => offset' = new + len
      BY <1>6, <2>1 DEF Arena!AllocBytes
    <2>3. result' # "Ok" => \/ ~Arena!IsPowerOfTwo(align)
                            \/ addr + off + (align - 1) > M
                            \/ new + len > M
                            \/ new + len > cap
      BY <1>2, <1>3, <1>5, <1>6, <2>2 DEF Arena!Verdict
    <2>4. ~Arena!IsPowerOfTwo(align) => UsizeMax <= 7
      BY <1>3, NarrowUsize
    <2>5. addr + cap <= M /\ off <= cap
      BY <1>1, <1>2
    <2>6. result' # "Ok" => M <= 7 \/ off + len + 7 > cap
      BY <1>2, <1>3, <1>4, <1>7, <2>3, <2>4, <2>5
    <2>7. result' = "Ok" => offset' <= off + len + 7
      BY <1>3, <1>4, <1>7, <2>2
    <2>8. QED
      BY <1>2, <2>2, <2>6, <2>7
  <1>10. QED
    BY <1>8, <1>9

\* required_arena_bytes, in exact numbers.
LEMMA SaturatedProduct ==
    ASSUME NEW count \in Nat, NEW size \in {4, 8, 16}
    PROVE  /\ SatBytes(count, size) \in Nat
           /\ SatBytes(count, size) = UsizeMax \/ SatBytes(count, size) = size * count
  BY ArenaConstants DEF SatBytes

Words(g) == 5 * g.n + 1 + EdgeCount(g)

\* The saturated sum is the exact one, or the largest usize.
LEMMA RequiredIs ==
    ASSUME NEW g \in Graphs
    PROVE  /\ ActivationNumel(g) \in Nat
           /\ \/ RequiredArenaBytes(g) = UsizeMax
              \/ /\ RequiredArenaBytes(g) = 8 * Words(g) + 16 * g.n + 4 * ActivationNumel(g) + 128
                 /\ RequiredArenaBytes(g) <= UsizeMax
  <1>1. PICK S : IsSum(g.n, Weights(g), S)
    BY WeightsAre, SumExists
  <1>2. PICK M, A, n, T : M = UsizeMax /\ A = ActivationNumel(g) /\ n = g.n /\ T = Words(g)
    OBVIOUS
  <1>3. M \in Nat /\ A \in Nat /\ n \in Nat /\ T \in Nat
    <2>1. n \in Nat /\ EdgeCount(g) \in Nat
      BY <1>2, GraphIs
    <2>2. S[1 .. g.n] \in Nat
      BY <1>1 DEF IsSum
    <2>3. A \in Nat
      BY <1>1, <1>2, <2>2, ActivationIs, ArenaConstants
    <2>4. T \in Nat
      BY <1>2, <2>1 DEF Words
    <2>5. QED
      BY <1>2, <2>1, <2>3, <2>4, ArenaConstants
  <1>4. PICK a, b, c : a = SatBytes(T, 8) /\ b = SatBytes(n, 16) /\ c = SatBytes(A, 4)
    OBVIOUS
  <1>5. /\ a \in Nat /\ b \in Nat /\ c \in Nat
        /\ a = M \/ a = 8 * T
        /\ b = M \/ b = 16 * n
        /\ c = M \/ c = 4 * A
    BY <1>2, <1>3, <1>4, SaturatedProduct
  <1>6. RequiredArenaBytes(g) = SatAdd(SatAdd(a, b), SatAdd(c, 128))
    BY <1>2, <1>4 DEF RequiredArenaBytes, Words, UsizeBytes, BindBytes, F32Bytes, ArenaSlack
  <1>7. PICK d, e, r : d = SatAdd(a, b) /\ e = SatAdd(c, 128) /\ r = RequiredArenaBytes(g)
    OBVIOUS
  <1>8. /\ d \in Nat /\ e \in Nat
        /\ d = M \/ d = a + b
        /\ e = M \/ e = c + 128
        /\ a = M \/ b = M => d = M
        /\ c = M => e = M
    <2>2. /\ d \in Nat
          /\ d = M \/ d = a + b
          /\ a = M \/ b = M => d = M
      BY <1>2, <1>3, <1>5, <1>7 DEF SatAdd
    <2>3. /\ e \in Nat
          /\ e = M \/ e = c + 128
          /\ c = M => e = M
      BY <1>2, <1>3, <1>5, <1>7 DEF SatAdd
    <2>4. QED
      BY <2>2, <2>3
  <1>9. /\ r = M \/ r = d + e
        /\ r <= M
        /\ d = M \/ e = M => r = M
    BY <1>2, <1>3, <1>6, <1>7, <1>8 DEF SatAdd
  <1>10. r = M \/ (r = 8 * T + 16 * n + 4 * A + 128 /\ r <= M)
    BY <1>3, <1>5, <1>8, <1>9
  <1>11. QED
    BY <1>2, <1>3, <1>7, <1>10

\* The words that the scratch slices before the k-th take.
Taken(g, k) ==
    CASE k = 1 -> 0
      [] k = 2 -> g.n
      [] k = 3 -> 2 * g.n + 1
      [] k = 4 -> 2 * g.n + 1 + EdgeCount(g)
      [] k = 5 -> 3 * g.n + 1 + EdgeCount(g)
      [] k = 6 -> 4 * g.n + 1 + EdgeCount(g)
      [] OTHER -> Words(g)

\* A call has taken no more than its slices and the padding before each.
Frugal ==
    /\ pc = "scratch" => offset + avail <= buf.len + 8 * Taken(graph, i) + 7 * (i - 1)
    /\ pc \in {"sort", "binds"} => offset + avail <= buf.len + 8 * Words(graph) + 42
    /\ pc \in {"bind", "layout"} =>
          offset + avail <= buf.len + 8 * Words(graph) + 16 * graph.n + 49

\* The k-th of the six scratch slices adds its words, the last of them completes Words.
LEMMA TakenStep ==
    ASSUME ExInv, pc = "scratch"
    PROVE  /\ i \in 1 .. 6
           /\ Taken(graph, i) \in Nat /\ ScratchLen(ScratchSlices[i]) \in Nat
           /\ Words(graph) \in Nat
           /\ Taken(graph, i + 1) = Taken(graph, i) + ScratchLen(ScratchSlices[i])
           /\ Taken(graph, i + 1) <= Words(graph)
           /\ i = 6 => Taken(graph, i + 1) = Words(graph)
  <1>1. i \in 1 .. 6
    BY DEF ExInv, Counting
  <1>2. PICK n, e : n = graph.n /\ e = EdgeCount(graph)
    OBVIOUS
  <1>3. n \in Nat /\ e \in Nat
    BY <1>2, GraphIs DEF ExInv, Typed
  <1>4. Words(graph) = 5 * n + 1 + e
    BY <1>2 DEF Words
  <1>5. /\ Taken(graph, 1) = 0 /\ Taken(graph, 2) = n /\ Taken(graph, 3) = 2 * n + 1
        /\ Taken(graph, 4) = 2 * n + 1 + e /\ Taken(graph, 5) = 3 * n + 1 + e
        /\ Taken(graph, 6) = 4 * n + 1 + e /\ Taken(graph, 7) = 5 * n + 1 + e
    BY <1>2, <1>4 DEF Taken
  <1>6. /\ ScratchLen(ScratchSlices[1]) = n /\ ScratchLen(ScratchSlices[2]) = n + 1
        /\ ScratchLen(ScratchSlices[3]) = e /\ ScratchLen(ScratchSlices[4]) = n
        /\ ScratchLen(ScratchSlices[5]) = n /\ ScratchLen(ScratchSlices[6]) = n
    BY <1>2 DEF ScratchLen, ScratchSlices
  <1>7. i = 1 \/ i = 2 \/ i = 3 \/ i = 4 \/ i = 5 \/ i = 6
    BY <1>1
  <1>8. QED
    BY <1>1, <1>3, <1>4, <1>5, <1>6, <1>7

\* A call that runs out of memory found less than required_arena_bytes.
LEMMA ShortOfRoom ==
    ASSUME ExInv, NEW T, T = Words(graph), NEW n, n = graph.n,
           NEW A, A = ActivationNumel(graph),
           \/ UsizeMax <= 7
           \/ 8 * T + 16 * n + 4 * A > UsizeMax
           \/ avail < 8 * T + 16 * n + 4 * A + 128
    PROVE  avail < RequiredArenaBytes(graph)
  <1>1. graph \in Graphs /\ avail \in 0 .. buf.len /\ buf \in Bufs
    BY ArenaTyped DEF ExInv, Typed
  <1>2. buf.addr \in Nat \ {0} /\ buf.len \in Nat /\ buf.addr + buf.len <= UsizeMax
    BY <1>1, ExecuteAssumption
  <1>3. PICK M, r, a, x, y : /\ M = UsizeMax /\ r = RequiredArenaBytes(graph) /\ a = avail
                             /\ x = buf.addr /\ y = buf.len
    OBVIOUS
  <1>4. /\ M \in Nat /\ a \in 0 .. y /\ x \in Nat \ {0} /\ y \in Nat /\ x + y <= M
    BY <1>1, <1>2, <1>3, ArenaConstants
  <1>5. n \in Nat /\ EdgeCount(graph) \in Nat
    BY <1>1, GraphIs
  <1>6. T \in Nat
    BY <1>5 DEF Words
  <1>7. A \in Nat /\ (r = M \/ (r = 8 * T + 16 * n + 4 * A + 128 /\ r <= M))
    BY <1>1, <1>3, RequiredIs
  <1>8. M <= 7 \/ 8 * T + 16 * n + 4 * A > M \/ a < 8 * T + 16 * n + 4 * A + 128
    BY <1>3
  <1>9. a < r
    BY <1>4, <1>5, <1>6, <1>7, <1>8
  <1>10. QED
    BY <1>3, <1>9

\* The numbers that these sums are made of.
LEMMA SpendingIs ==
    ASSUME ExInv
    PROVE  /\ graph \in Graphs /\ graph.n \in Nat /\ Words(graph) \in Nat
           /\ ActivationNumel(graph) \in Nat
           /\ buf.len \in Nat /\ avail \in Nat /\ offset \in Nat
           /\ i \in Nat \ {0} /\ total \in Nat
  <1>1. graph \in Graphs /\ avail \in 0 .. buf.len /\ buf \in Bufs /\ offset \in 0 .. buf.len
    BY ArenaTyped DEF ExInv, Typed
  <1>2. buf.len \in Nat
    BY <1>1, ExecuteAssumption
  <1>3. graph.n \in Nat /\ EdgeCount(graph) \in Nat
    BY <1>1, GraphIs
  <1>4. Words(graph) \in Nat
    BY <1>3 DEF Words
  <1>5. ActivationNumel(graph) \in Nat
    BY <1>1, RequiredIs
  <1>6. i \in Nat \ {0} /\ total \in Nat
    BY ArenaConstants DEF ExInv, Typed, Counting
  <1>7. QED
    BY <1>1, <1>2, <1>3, <1>4, <1>5, <1>6

\* The scratch slices: a call that cannot get one found too little memory.
LEMMA AllocScratchFrugal ==
    ASSUME ExInv, Frugal, AllocScratch
    PROVE  Frugal' /\ (pc' = "return" => avail < RequiredArenaBytes(graph))
  <1>1. pc = "scratch" /\ UNCHANGED <<graph, avail>>
    BY DEF AllocScratch, callVars
  <1>2. PICK h, len, t, s, T, n, A, y, a, o, k :
           /\ h = ScratchSlices[i] /\ len = ScratchLen(ScratchSlices[i])
           /\ t = Taken(graph, i) /\ s = Taken(graph, i + 1) /\ T = Words(graph)
           /\ n = graph.n /\ A = ActivationNumel(graph) /\ y = buf.len
           /\ a = avail /\ o = offset /\ k = i
    OBVIOUS
  <1>3. /\ k \in 1 .. 6 /\ t \in Nat /\ len \in Nat /\ T \in Nat /\ s = t + len /\ s <= T
        /\ k = 6 => s = T
        /\ n \in Nat /\ A \in Nat /\ y \in Nat /\ a \in Nat /\ o \in Nat
    BY <1>1, <1>2, TakenStep, SpendingIs
  <1>4. o + a <= y + 8 * t + 7 * (k - 1)
    BY <1>1, <1>2 DEF Frugal
  <1>5. /\ UNCHANGED buf
        /\ result' = "Ok" => offset' <= o + 8 * len + 7
        /\ result' # "Ok" => UsizeMax <= 7 \/ 8 * len > UsizeMax \/ o + 8 * len + 7 > y
    <2>1. Usize.size = 8 /\ Usize.align = 8 /\ 8 \in {4, 8, 16} /\ 8 \in {4, 8}
      BY DEF Usize, UsizeBytes
    <2>2. Arena!AllocSlice(h, Usize, len) /\ AP!ArenaInv
      BY <1>2 DEF AllocScratch, ExInv
    <2>3. QED
      BY <1>2, <1>3, <2>1, <2>2, AllocSpends
  <1>6. CASE result' # "Ok"
    <2>1. pc' = "return"
      BY <1>6 DEF AllocScratch, Fail
    <2>2. UsizeMax <= 7 \/ 8 * T + 16 * n + 4 * A > UsizeMax \/ a < 8 * T + 16 * n + 4 * A + 128
      BY <1>3, <1>4, <1>5, <1>6, ArenaConstants
    <2>3. avail < RequiredArenaBytes(graph)
      BY <1>2, <2>2, ShortOfRoom
    <2>4. QED
      BY <2>1, <2>3 DEF Frugal
  <1>7. CASE result' = "Ok"
    <2>1. offset' \in Nat
      <3>1. ExInv'
        BY AllocScratchKeeps
      <3>2. offset' \in 0 .. buf'.len /\ buf' \in Bufs
        BY <3>1 DEF ExInv, AP!ArenaInv, AP!TypeOK
      <3>3. QED
        BY <3>2, ExecuteAssumption
    <2>2. PICK p : p = offset'
      OBVIOUS
    <2>3. p + a <= y + 8 * s + 7 * k
      <3>1. p \in Nat /\ p <= o + 8 * len + 7
        BY <1>5, <1>7, <2>1, <2>2
      <3>2. QED
        BY <1>3, <1>4, <3>1
    <2>4. CASE pc' = "scratch" /\ i' = i + 1
      <3>1. i' - 1 = k /\ Taken(graph', i') = s
        BY <1>1, <1>2, <1>3, <2>4
      <3>2. offset' + avail' <= buf'.len + 8 * Taken(graph', i') + 7 * (i' - 1)
        BY <1>1, <1>2, <1>5, <2>2, <2>3, <3>1
      <3>3. QED
        BY <2>4, <3>2 DEF Frugal
    <2>5. CASE pc' = "sort" /\ i = 6
      <3>1. p + a <= y + 8 * T + 42
        BY <1>2, <1>3, <2>1, <2>2, <2>3, <2>5
      <3>2. offset' + avail' <= buf'.len + 8 * Words(graph') + 42
        BY <1>1, <1>2, <1>5, <2>2, <3>1
      <3>3. QED
        BY <2>5, <3>2 DEF Frugal
    <2>6. QED
      BY <1>7, <2>4, <2>5, HoldersAre DEF AllocScratch, Again, Goto, Fail
  <1>8. QED
    BY <1>6, <1>7

\* The bindings: the same.
LEMMA AllocBindsFrugal ==
    ASSUME ExInv, Frugal, AllocBinds
    PROVE  Frugal' /\ (pc' = "return" => avail < RequiredArenaBytes(graph))
  <1>1. pc = "binds" /\ UNCHANGED <<graph, avail>>
    BY DEF AllocBinds, callVars
  <1>2. PICK T, n, A, y, a, o :
           /\ T = Words(graph) /\ n = graph.n /\ A = ActivationNumel(graph) /\ y = buf.len
           /\ a = avail /\ o = offset
    OBVIOUS
  <1>3. T \in Nat /\ n \in Nat /\ A \in Nat /\ y \in Nat /\ a \in Nat /\ o \in Nat
    BY <1>2, SpendingIs
  <1>4. o + a <= y + 8 * T + 42
    BY <1>1, <1>2 DEF Frugal
  <1>5. /\ UNCHANGED buf
        /\ result' = "Ok" => offset' <= o + 16 * n + 7
        /\ result' # "Ok" => UsizeMax <= 7 \/ 16 * n > UsizeMax \/ o + 16 * n + 7 > y
    <2>1. BindLayout.size = 16 /\ BindLayout.align = 8 /\ 16 \in {4, 8, 16} /\ 8 \in {4, 8}
      BY DEF BindLayout, BindBytes
    <2>2. Arena!AllocSlice("binds", BindLayout, n) /\ AP!ArenaInv
      BY <1>2 DEF AllocBinds, ExInv
    <2>3. QED
      BY <1>2, <1>3, <2>1, <2>2, AllocSpends
  <1>6. CASE result' # "Ok"
    <2>1. pc' = "return"
      BY <1>6 DEF AllocBinds, Fail
    <2>2. UsizeMax <= 7 \/ 8 * T + 16 * n + 4 * A > UsizeMax \/ a < 8 * T + 16 * n + 4 * A + 128
      BY <1>3, <1>4, <1>5, <1>6, ArenaConstants
    <2>3. avail < RequiredArenaBytes(graph)
      BY <1>2, <2>2, ShortOfRoom
    <2>4. QED
      BY <2>1, <2>3 DEF Frugal
  <1>7. CASE result' = "Ok"
    <2>1. offset' \in Nat
      <3>1. ExInv'
        BY AllocBindsKeeps
      <3>2. offset' \in 0 .. buf'.len /\ buf' \in Bufs
        BY <3>1 DEF ExInv, AP!ArenaInv, AP!TypeOK
      <3>3. QED
        BY <3>2, ExecuteAssumption
    <2>2. PICK p : p = offset'
      OBVIOUS
    <2>3. p + a <= y + 8 * T + 16 * n + 49
      <3>1. p \in Nat /\ p <= o + 16 * n + 7
        BY <1>5, <1>7, <2>1, <2>2
      <3>2. QED
        BY <1>3, <1>4, <3>1
    <2>4. offset' + avail' <= buf'.len + 8 * Words(graph') + 16 * graph'.n + 49
      BY <1>1, <1>2, <1>5, <2>2, <2>3
    <2>5. pc' = "bind"
      BY <1>7 DEF AllocBinds, Goto
    <2>6. QED
      BY <2>4, <2>5 DEF Frugal
  <1>8. QED
    BY <1>6, <1>7

\* The sum of the sizes of the computed nodes, over sets of positions (id + 1).
Tally(g)  == CHOOSE S : IsSum(g.n, Weights(g), S)
Placed(k) == {order[a] + 1 : a \in 1 .. k}

\* The layout's total is the sum over the nodes it has been over.
Tallied ==
    /\ pc \in {"idle", "scratch", "sort", "binds", "bind"} => total = 0
    /\ pc = "layout" => total = Tally(graph)[Placed(i - 1)]

\* Tally is the sum of the weights.
LEMMA TallyIs == \A g \in Graphs : IsSum(g.n, Weights(g), Tally(g))
  <1> SUFFICES ASSUME NEW g \in Graphs PROVE IsSum(g.n, Weights(g), Tally(g))
    OBVIOUS
  <1>1. \E S : IsSum(g.n, Weights(g), S)
    BY WeightsAre, SumExists
  <1>2. QED
    BY <1>1, Zenon DEF Tally

\* The positions of the order's first nodes.
LEMMA PlacedIs ==
    ASSUME NEW n \in Nat, order \in Seq(0 .. n - 1), Len(order) = n, Distinct(order)
    PROVE  /\ Placed(0) = {}
           /\ \A k \in 1 .. n : /\ Placed(k) \in SUBSET (1 .. n)
                                /\ order[k] + 1 \in Placed(k)
                                /\ Placed(k) \ {order[k] + 1} = Placed(k - 1)
           /\ (\A v \in 0 .. n - 1 : \E a \in 1 .. n : order[a] = v) => Placed(n) = 1 .. n
  <1>1. \A a \in 1 .. n : order[a] \in 0 .. n - 1
    OBVIOUS
  <1>2. \A a, b \in 1 .. n : order[a] = order[b] => a = b
    BY DEF Distinct
  <1>3. Placed(0) = {}
    BY DEF Placed
  <1>4. ASSUME NEW k \in 1 .. n
        PROVE  /\ Placed(k) \in SUBSET (1 .. n)
               /\ order[k] + 1 \in Placed(k)
               /\ Placed(k) \ {order[k] + 1} = Placed(k - 1)
    <2>1. k \in Nat /\ \A a \in 1 .. k : a \in 1 .. n /\ (a = k \/ a \in 1 .. k - 1)
      OBVIOUS
    <2>2. Placed(k) \in SUBSET (1 .. n)
      <3>1. \A a \in 1 .. n : order[a] + 1 \in 1 .. n
        BY <1>1
      <3>2. QED
        BY <2>1, <3>1 DEF Placed
    <2>3. order[k] + 1 \in Placed(k)
      BY DEF Placed
    <2>4. ASSUME NEW x \in Placed(k), x # order[k] + 1 PROVE x \in Placed(k - 1)
      <3>1. PICK a \in 1 .. k : x = order[a] + 1
        BY DEF Placed
      <3>2. a \in 1 .. k - 1
        BY <2>1, <2>4, <3>1
      <3>3. QED
        BY <3>1, <3>2 DEF Placed
    <2>5. ASSUME NEW x \in Placed(k - 1) PROVE x \in Placed(k) /\ x # order[k] + 1
      <3>1. PICK a \in 1 .. k - 1 : x = order[a] + 1
        BY DEF Placed
      <3>2. a \in 1 .. k /\ a \in 1 .. n /\ a # k
        BY <3>1
      <3>3. order[a] # order[k]
        BY <1>2, <3>2
      <3>4. order[a] + 1 # order[k] + 1
        BY <1>1, <3>2, <3>3
      <3>5. QED
        BY <3>1, <3>2, <3>4 DEF Placed
    <2>6. QED
      BY <2>2, <2>3, <2>4, <2>5
  <1>5. ASSUME \A v \in 0 .. n - 1 : \E a \in 1 .. n : order[a] = v
        PROVE  Placed(n) = 1 .. n
    <2>1. ASSUME NEW x \in 1 .. n PROVE x \in Placed(n)
      <3>1. x - 1 \in 0 .. n - 1 /\ (x - 1) + 1 = x
        OBVIOUS
      <3>2. PICK a \in 1 .. n : order[a] = x - 1
        BY <1>5, <3>1
      <3>3. QED
        BY <3>1, <3>2 DEF Placed
    <2>2. ASSUME NEW x \in Placed(n) PROVE x \in 1 .. n
      <3>1. PICK a \in 1 .. n : x = order[a] + 1
        BY DEF Placed
      <3>2. QED
        BY <1>1, <3>1
    <2>3. QED
      BY <2>1, <2>2
  <1>6. QED
    BY <1>3, <1>4, <1>5

\* In the layout: the order, and the sums over its first nodes.
LEMMA LayoutSums ==
    ASSUME ExInv, Tallied, pc = "layout", NEW n, n = graph.n, NEW S, S = Tally(graph)
    PROVE  /\ n \in Nat /\ Len(order) = n /\ graph \in Graphs
           /\ i \in Nat \ {0} /\ i <= n + 1
           /\ IsSum(n, Weights(graph), S) /\ Weights(graph) \in [1 .. n -> Nat]
           /\ S[1 .. n] \in Nat
           /\ total = S[Placed(i - 1)] /\ total \in Nat
           /\ Placed(n) = 1 .. n
           /\ i <= n => /\ order[i] \in Ids(graph)
                        /\ S[Placed(i)] = total + Weigh(graph, order[i])
                        /\ S[Placed(i)] \in Nat /\ S[Placed(i)] <= S[1 .. n]
                        /\ Weigh(graph, order[i]) \in Nat
  <1>1. /\ graph \in Graphs /\ IsTopological(graph, order) /\ i \in Nat \ {0}
        /\ i <= Len(order) + 1 /\ total = S[Placed(i - 1)]
    BY DEF ExInv, Typed, Ordered, Counting, Tallied
  <1>2. n \in Nat /\ Weights(graph) \in [1 .. n -> Nat] /\ IsSum(n, Weights(graph), S)
    BY <1>1, WeightsAre, TallyIs
  <1>3. Ids(graph) = 0 .. n - 1
    BY DEF Ids
  <1>4. /\ order \in Seq(0 .. n - 1) /\ Len(order) = n /\ Distinct(order)
        /\ \A v \in 0 .. n - 1 : \E a \in 1 .. n : order[a] = v
    BY <1>1, <1>3, Zenon DEF IsTopological
  <1>5. /\ \A k \in 1 .. n : /\ Placed(k) \in SUBSET (1 .. n)
                             /\ order[k] + 1 \in Placed(k)
                             /\ Placed(k) \ {order[k] + 1} = Placed(k - 1)
        /\ Placed(n) = 1 .. n
    BY <1>2, <1>4, PlacedIs
  <1>6. total \in Nat
    BY ArenaConstants DEF ExInv, Typed
  <1>7. /\ S \in [SUBSET (1 .. n) -> Nat]
        /\ \A t \in SUBSET (1 .. n) : \A x \in t : S[t] = S[t \ {x}] + Weights(graph)[x]
    BY <1>2 DEF IsSum
  <1>8. S[1 .. n] \in Nat
    BY <1>7
  <1>9. ASSUME i <= n
        PROVE  /\ order[i] \in Ids(graph)
               /\ S[Placed(i)] = total + Weigh(graph, order[i])
               /\ S[Placed(i)] \in Nat /\ S[Placed(i)] <= S[1 .. n]
               /\ Weigh(graph, order[i]) \in Nat
    <2>1. i \in 1 .. n
      BY <1>1, <1>2, <1>9
    <2>2. PICK v : v = order[i]
      OBVIOUS
    <2>3. v \in 0 .. n - 1
      BY <1>4, <2>1, <2>2
    <2>4. v + 1 \in 1 .. n /\ (v + 1) - 1 = v
      BY <1>2, <2>3
    <2>5. Weights(graph)[v + 1] = Weigh(graph, v)
      BY <2>4 DEF Weights
    <2>6. PICK t, u : t = Placed(i) /\ u = Placed(i - 1)
      OBVIOUS
    <2>7. t \in SUBSET (1 .. n) /\ v + 1 \in t /\ t \ {v + 1} = u
      BY <1>5, <2>1, <2>2, <2>6
    <2>8. S[t] = S[u] + Weights(graph)[v + 1]
      BY <1>7, <2>7
    <2>9. S[t] = total + Weigh(graph, v)
      BY <1>1, <2>5, <2>6, <2>8
    <2>10. S[t] \in Nat /\ Weigh(graph, v) \in Nat
      <3>1. Weights(graph)[v + 1] \in Nat
        BY <1>2, <2>4
      <3>2. QED
        BY <1>7, <2>5, <2>7, <3>1
    <2>11. S[t] <= S[1 .. n]
      BY <1>2, <2>7, SumGrows
    <2>12. QED
      BY <1>3, <2>2, <2>3, <2>6, <2>9, <2>10, <2>11
  <1>10. QED
    BY <1>1, <1>2, <1>4, <1>5, <1>6, <1>8, <1>9

\* The layout refuses a graph whose sizes do not add up, in one way or another.
LEMMA AssignOffsetTallied ==
    ASSUME ExInv, Matched, Tallied, AssignOffset
    PROVE  Tallied' /\ (pc' = "return" => IsAnswer(reply', graph, request, avail))
  <1>1. pc = "layout" /\ UNCHANGED <<graph, order>>
    BY DEF AssignOffset
  <1>2. PICK n, S, v, w, m, s, M : /\ n = graph.n /\ S = Tally(graph) /\ v = order[i]
                                   /\ w = Weigh(graph, order[i]) /\ m = NodeNumel(graph, order[i])
                                   /\ s = S[Placed(i)] /\ M = UsizeMax
    OBVIOUS
  <1>3. /\ n \in Nat /\ Len(order) = n /\ graph \in Graphs /\ i \in Nat \ {0} /\ i <= n
        /\ IsSum(n, Weights(graph), S) /\ S[1 .. n] \in Nat /\ total \in Nat
        /\ v \in Ids(graph) /\ s = total + w /\ s \in Nat /\ s <= S[1 .. n] /\ w \in Nat
        /\ M \in Nat
    <2>1. i <= n
      <3>1. i <= Len(order) /\ Len(order) = n
        BY <1>1, <1>2, LayoutSums DEF AssignOffset
      <3>2. QED
        BY <3>1
    <2>2. QED
      BY <1>1, <1>2, <2>1, LayoutSums, ArenaConstants
  <1>4. w = IF IsInput(graph, v) THEN 0 ELSE IF m = Overflow THEN M ELSE m
    BY <1>2 DEF Weigh
  <1>5. /\ Unknown(graph) = {} /\ ~Cyclic(graph) /\ Misbound(graph, request) = {}
        /\ SliceCount(graph) = Len(request)
    BY <1>1 DEF Matched, Sorted, Supplied
  <1>6. ASSUME pc' = "layout", i' = i + 1, total' = s PROVE Tallied'
    <2>1. i' - 1 = i
      BY <1>3, <1>6
    <2>2. {order'[a] + 1 : a \in 1 .. i' - 1} = Placed(i)
      BY <1>1, <2>1 DEF Placed
    <2>3. total' = Tally(graph')[{order'[a] + 1 : a \in 1 .. i' - 1}]
      BY <1>1, <1>2, <1>6, <2>2
    <2>4. QED
      BY <1>6, <2>3 DEF Tallied, Placed
  <1>7. ASSUME pc' = "return" PROVE Tallied'
    BY <1>7 DEF Tallied
  <1>8. CASE IsInput(graph, v)
    <2>1. Again /\ UNCHANGED total
      BY <1>2, <1>8, Zenon DEF AssignOffset
    <2>2. pc' = "layout" /\ i' = i + 1 /\ total' = s
      BY <1>1, <1>3, <1>4, <1>8, <2>1 DEF Again
    <2>3. QED
      BY <1>6, <2>2
  <1>9. CASE ~IsInput(graph, v) /\ m = Overflow
    <2>1. Fail("ShapeMismatch", NoNode)
      BY <1>2, <1>9, Zenon DEF AssignOffset
    <2>2. Unsized(graph) # {}
      BY <1>2, <1>3, <1>9 DEF Unsized
    <2>3. Refusal("ShapeMismatch", NoNode) \in Deserved(graph, request)
      BY <1>5, <2>2, UnsizedDeserved
    <2>4. QED
      BY <1>7, <2>1, <2>3 DEF Fail, IsAnswer
  <1>10. CASE ~IsInput(graph, v) /\ m # Overflow
    <2>1. w = m
      BY <1>4, <1>10
    <2>2. \/ total + m > M /\ Fail("OutOfMemory", NoNode)
          \/ ~(total + m > M) /\ total' = total + m /\ Again
      BY <1>2, <1>10, Zenon DEF AssignOffset
    <2>3. CASE total + m > M /\ Fail("OutOfMemory", NoNode)
      <3>1. S[1 .. n] > M
        BY <1>3, <2>1, <2>3
      <3>2. ActivationNumel(graph) = M
        BY <1>2, <1>3, <3>1, ActivationIs
      <3>3. Words(graph) \in Nat
        BY SpendingIs
      <3>4. UsizeMax <= 7 \/ 8 * Words(graph) + 16 * n + 4 * M > UsizeMax
        BY <1>2, <1>3, <3>3
      <3>5. avail < RequiredArenaBytes(graph)
        BY <1>2, <3>2, <3>4, ShortOfRoom
      <3>6. QED
        BY <1>7, <2>3, <3>5 DEF Fail, IsAnswer
    <2>4. CASE ~(total + m > M) /\ total' = total + m /\ Again
      BY <1>1, <1>3, <1>6, <2>1, <2>4 DEF Again
    <2>5. QED
      BY <2>2, <2>3, <2>4
  <1>11. QED
    BY <1>8, <1>9, <1>10

\* The activation slice, whose length is the whole sum by then: the same.
LEMMA AllocActsFrugal ==
    ASSUME ExInv, Frugal, Tallied, AllocActs, pc' = "return"
    PROVE  avail < RequiredArenaBytes(graph)
  <1>1. pc = "layout"
    BY DEF AllocActs
  <1>2. PICK T, n, A, y, a, o, S, c :
           /\ T = Words(graph) /\ n = graph.n /\ A = ActivationNumel(graph) /\ y = buf.len
           /\ a = avail /\ o = offset /\ S = Tally(graph) /\ c = total
    OBVIOUS
  <1>3. T \in Nat /\ n \in Nat /\ A \in Nat /\ y \in Nat /\ a \in Nat /\ o \in Nat /\ c \in Nat
    BY <1>2, SpendingIs
  <1>4. o + a <= y + 8 * T + 16 * n + 49
    BY <1>1, <1>2 DEF Frugal
  <1>5. A = c
    <2>1. /\ Len(order) = n /\ i \in Nat \ {0} /\ i <= n + 1 /\ IsSum(n, Weights(graph), S)
          /\ c = S[Placed(i - 1)] /\ Placed(n) = 1 .. n /\ graph \in Graphs
      BY <1>1, <1>2, LayoutSums
    <2>2. i > n
      BY <2>1 DEF AllocActs
    <2>3. i - 1 = n
      BY <1>3, <2>1, <2>2
    <2>4. c = S[1 .. n]
      BY <2>1, <2>3
    <2>5. c <= UsizeMax
      BY <1>2, ArenaConstants DEF ExInv, Typed
    <2>6. QED
      BY <1>2, <1>3, <2>1, <2>4, <2>5, ActivationIs, ArenaConstants
  <1>6. result' # "Ok"
    BY DEF AllocActs, Goto
  <1>7. UsizeMax <= 7 \/ 4 * c > UsizeMax \/ o + 4 * c + 7 > y
    <2>1. F32.size = 4 /\ F32.align = 4 /\ 4 \in {4, 8, 16} /\ 4 \in {4, 8}
      BY DEF F32, F32Bytes
    <2>2. Arena!AllocSlice("acts", F32, c) /\ AP!ArenaInv
      BY <1>2 DEF AllocActs, ExInv
    <2>3. QED
      BY <1>2, <1>3, <1>6, <2>1, <2>2, AllocSpends
  <1>8. UsizeMax <= 7 \/ 8 * T + 16 * n + 4 * A > UsizeMax \/ a < 8 * T + 16 * n + 4 * A + 128
    BY <1>3, <1>4, <1>5, <1>7, ArenaConstants
  <1>9. QED
    BY <1>2, <1>8, ShortOfRoom

\* The steps that allocate nothing.
LEMMA OthersFrugal ==
    ASSUME ExInv, Frugal, Sort \/ BindInput \/ InputsBound \/ AssignOffset
    PROVE  Frugal'
  <1>1. UNCHANGED <<graph, avail, offset, buf>>
    BY DEF Sort, BindInput, InputsBound, AssignOffset, callVars, arenaVars
  <1>2. \/ pc' = "return"
        \/ pc = "sort" /\ pc' = "binds"
        \/ pc = "bind" /\ pc' \in {"bind", "layout"}
        \/ pc = "layout" /\ pc' = "layout"
    BY DEF Sort, BindInput, InputsBound, AssignOffset, BindWeight, BindSlice, Again, Goto, Fail
  <1>3. QED
    BY <1>1, <1>2 DEF Frugal

\* A call starts with what the arena has left, and has taken nothing.
LEMMA CallFrugal ==
    ASSUME ExInv, NEW req \in Requests, Call(req)
    PROVE  Frugal'
  <1>1. /\ pc' = "scratch" /\ i' = 1 /\ avail' = buf.len - offset
        /\ UNCHANGED <<graph, buf, offset>>
    BY DEF Call, arenaVars
  <1>2. buf.len \in Nat /\ offset \in Nat
    BY SpendingIs
  <1>3. Taken(graph', i') = 0
    BY <1>1 DEF Taken
  <1>4. offset' + avail' <= buf'.len + 8 * Taken(graph', i') + 7 * (i' - 1)
    <2>1. PICK o, y : o = offset /\ y = buf.len
      OBVIOUS
    <2>2. o + (y - o) <= y + 8 * 0 + 7 * (1 - 1)
      BY <1>2, <2>1
    <2>3. QED
      BY <1>1, <1>3, <2>1, <2>2
  <1>5. QED
    BY <1>1, <1>4 DEF Frugal

\* Every step keeps it.
LEMMA FrugalKept == ExInv /\ Frugal /\ [Next]_vars => Frugal'
  <1> SUFFICES ASSUME ExInv, Frugal, [Next]_vars PROVE Frugal'
    OBVIOUS
  <1>1. CASE UNCHANGED vars
    BY <1>1 DEF vars, callVars, arenaVars, Frugal
  <1>2. CASE AllocActs \/ SkipInput \/ DispatchNode \/ Collect \/ Return \/ Reset
    <2>1. pc' \in {"dispatch", "return", "idle"}
      BY <1>2 DEF AllocActs, SkipInput, DispatchNode, Collect, Return, Reset, Again, Goto, Fail
    <2>2. QED
      BY <2>1 DEF Frugal
  <1>3. QED
    BY <1>1, <1>2, AllocScratchFrugal, AllocBindsFrugal, OthersFrugal, CallFrugal DEF Next, Step

\* The layout starts at the first node with an empty sum.
LEMMA InputsBoundTallied ==
    ASSUME ExInv, Tallied, InputsBound
    PROVE  Tallied'
  <1>1. /\ graph \in Graphs /\ UNCHANGED <<graph, total>> /\ total = 0
        /\ pc' = "return" \/ (pc' = "layout" /\ i' = 1)
    BY DEF ExInv, Typed, Tallied, InputsBound, locals, Fail, Goto
  <1>2. CASE pc' = "return"
    BY <1>2 DEF Tallied
  <1>3. CASE pc' = "layout" /\ i' = 1
    <2>1. Tally(graph)[{}] = 0
      BY <1>1, TallyIs DEF IsSum
    <2>2. {order'[a] + 1 : a \in 1 .. i' - 1} = {}
      BY <1>3
    <2>3. total' = Tally(graph')[{order'[a] + 1 : a \in 1 .. i' - 1}]
      BY <1>1, <2>1, <2>2
    <2>4. QED
      BY <1>3, <2>3 DEF Tallied, Placed
  <1>4. QED
    BY <1>1, <1>2, <1>3

\* Every step keeps it.
LEMMA TalliedKept == ExInv /\ Matched /\ Tallied /\ [Next]_vars => Tallied'
  <1> SUFFICES ASSUME ExInv, Matched, Tallied, [Next]_vars PROVE Tallied'
    OBVIOUS
  <1>1. CASE UNCHANGED vars
    BY <1>1 DEF vars, locals, Tallied, Placed
  <1>2. CASE AllocActs \/ SkipInput \/ DispatchNode \/ Collect
    <2>1. pc' \in {"dispatch", "return"}
      BY <1>2 DEF AllocActs, SkipInput, DispatchNode, Collect, Again, Goto, Fail
    <2>2. QED
      BY <2>1 DEF Tallied
  <1>3. CASE \/ AllocScratch \/ Sort \/ AllocBinds \/ BindInput \/ Return \/ Reset
             \/ \E req \in Requests : Call(req)
    <2>1. /\ pc' \in {"idle", "scratch", "sort", "binds", "bind", "return"}
          /\ total' = 0 \/ pc' = "return"
      BY <1>3 DEF Tallied, AllocScratch, Sort, AllocBinds, BindInput, Return, Reset, Call,
                  locals, BindWeight, BindSlice, Again, Goto, Fail
    <2>2. QED
      BY <2>1 DEF Tallied
  <1>4. QED
    BY <1>1, <1>2, <1>3, InputsBoundTallied, AssignOffsetTallied DEF Next, Step

\* Nothing is taken and nothing laid out before the first call.
LEMMA SpendingStarts == Init => Frugal /\ Tallied
  BY DEF Init, Frugal, Tallied

-----------------------------------------------------------------------------
(* The values of a graph *)

\* What a node's value is made of.
Evaluated(g, req, x, v) ==
    IF IsInput(g, v) THEN Writes(InputValue(g, req, v))
    ELSE IF \E w \in Producers(g, v) : x[w].err # None THEN Fails("blocked")
    ELSE Run(g.nodes[v].op,
             [p \in DOMAIN g.nodes[v].ins |->
                 [data |-> x[g.nodes[v].ins[p]].out,
                  dims |-> g.nodes[g.nodes[v].ins[p]].dims]],
             g.nodes[v].dims, NodeNumel(g, v), Garbage)

\* It depends on the values of the node's producers only.
LEMMA EvaluatedOf ==
    ASSUME NEW g, NEW req, NEW v, NEW x, NEW y, \A w \in Producers(g, v) : x[w] = y[w]
    PROVE  Evaluated(g, req, x, v) = Evaluated(g, req, y, v)
  <1>1. PICK ins : ins = g.nodes[v].ins
    OBVIOUS
  <1>2. \A p \in DOMAIN ins : ins[p] \in Producers(g, v)
    BY <1>1 DEF Producers, ToSet
  <1>3. [p \in DOMAIN ins |-> [data |-> x[ins[p]].out, dims |-> g.nodes[ins[p]].dims]]
          = [p \in DOMAIN ins |-> [data |-> y[ins[p]].out, dims |-> g.nodes[ins[p]].dims]]
    BY <1>2
  <1>4. (\E w \in Producers(g, v) : x[w].err # None) <=> \E w \in Producers(g, v) : y[w].err # None
    OBVIOUS
  <1>5. QED
    BY <1>1, <1>3, <1>4, Zenon DEF Evaluated

\* A producer comes before its consumer in a topological order.
LEMMA ProducersBefore ==
    ASSUME NEW g \in Graphs, NEW ord, IsTopological(g, ord), NEW a \in 1 .. g.n,
           NEW w \in Producers(g, ord[a])
    PROVE  \E k \in 1 .. a - 1 : ord[k] = w
  <1>1. ord[a] \in Ids(g) /\ g.n \in Nat
    BY GraphIs DEF IsTopological
  <1>2. PICK r \in DOMAIN g.refs : g.refs[r].to = ord[a] /\ g.refs[r].from = w
    BY <1>1, GraphIs
  <1>3. PICK k \in 1 .. g.n : k < a /\ ord[k] = w
    BY <1>2 DEF IsTopological
  <1>4. QED
    BY <1>1, <1>3

\* Values up to the k-th node of the order.
Solves(g, req, ord, k, x) ==
    /\ x = [v \in Ids(g) |-> x[v]]
    /\ \A a \in 1 .. k : x[ord[a]] = Evaluated(g, req, x, ord[a])

\* A graph with a topological order has values, and Value is they.
LEMMA ValueIs ==
    ASSUME NEW g \in Graphs, NEW req, NEW ord, IsTopological(g, ord)
    PROVE  \A v \in Ids(g) : Value(g, req)[v] = Evaluated(g, req, Value(g, req), v)
  <1>1. PICK n, I : n = g.n /\ I = Ids(g)
    OBVIOUS
  <1>2. /\ n \in Nat /\ \A a \in 1 .. n : ord[a] \in I
        /\ \A a, b \in 1 .. n : ord[a] = ord[b] => a = b
        /\ \A v \in I : \E a \in 1 .. n : ord[a] = v
    BY <1>1, GraphIs DEF IsTopological, Distinct
  <1> DEFINE P == {k \in 0 .. n : \E x : Solves(g, req, ord, k, x)}
  <1>3. 0 \in P
    <2>1. PICK x : x = [v \in I |-> 0]
      OBVIOUS
    <2>2. x = [v \in I |-> x[v]]
      BY <2>1
    <2>3. Solves(g, req, ord, 0, x)
      BY <1>1, <2>2 DEF Solves
    <2>4. 0 \in 0 .. n
      BY <1>2
    <2>5. QED
      BY <2>3, <2>4
  <1>4. ASSUME NEW k \in 0 .. n - 1, k \in P PROVE k + 1 \in P
    <2>1. PICK x : Solves(g, req, ord, k, x)
      BY <1>4
    <2>2. PICK v : v = ord[k + 1]
      OBVIOUS
    <2>3. k + 1 \in 1 .. n /\ (k + 1) - 1 = k /\ k + 1 \in 0 .. n
      BY <1>2
    <2>4. v \in I
      BY <1>2, <2>2, <2>3
    <2>5. PICK e, y : e = Evaluated(g, req, x, v) /\ y = [x EXCEPT ![v] = e]
      OBVIOUS
    <2>6. x = [u \in I |-> x[u]]
      BY <1>1, <2>1 DEF Solves
    <2>7. y = [u \in I |-> y[u]] /\ y[v] = e /\ \A u \in I : u # v => y[u] = x[u]
      BY <2>4, <2>5, <2>6
    <2>8. \A a \in 1 .. k : a \in 1 .. n /\ ord[a] \in I /\ ord[a] # v
      <3> SUFFICES ASSUME NEW a \in 1 .. k PROVE a \in 1 .. n /\ ord[a] \in I /\ ord[a] # v
        OBVIOUS
      <3>1. a \in 1 .. n /\ a # k + 1
        BY <1>2
      <3>2. QED
        BY <1>2, <2>2, <2>3, <3>1
    <2>9. ASSUME NEW a \in 1 .. k + 1
          PROVE  y[ord[a]] = Evaluated(g, req, y, ord[a])
      <3>1. a \in 1 .. n /\ (a = k + 1 \/ a \in 1 .. k) /\ \A b \in 1 .. a - 1 : b \in 1 .. k
        BY <1>2, <2>3
      <3>2. \A w \in Producers(g, ord[a]) : x[w] = y[w]
        <4> SUFFICES ASSUME NEW w \in Producers(g, ord[a]) PROVE x[w] = y[w]
          OBVIOUS
        <4>1. PICK b \in 1 .. a - 1 : ord[b] = w
          BY <1>1, <3>1, ProducersBefore
        <4>2. w \in I /\ w # v
          BY <2>8, <3>1, <4>1
        <4>3. QED
          BY <2>7, <4>2
      <3>3. Evaluated(g, req, x, ord[a]) = Evaluated(g, req, y, ord[a])
        BY <3>2, EvaluatedOf
      <3>4. CASE a = k + 1
        BY <2>2, <2>5, <2>7, <3>3, <3>4
      <3>5. CASE a \in 1 .. k
        <4>1. x[ord[a]] = Evaluated(g, req, x, ord[a])
          BY <2>1, <3>5 DEF Solves
        <4>2. y[ord[a]] = x[ord[a]]
          BY <2>7, <2>8, <3>5
        <4>3. QED
          BY <3>3, <4>1, <4>2
      <3>6. QED
        BY <3>1, <3>4, <3>5
    <2>10. Solves(g, req, ord, k + 1, y)
      BY <1>1, <2>7, <2>9 DEF Solves
    <2>11. QED
      BY <2>3, <2>10
  <1> HIDE DEF P
  <1>5. n \in P
    <2>1. \A k \in 0 .. n : k \in P
      BY <1>2, <1>3, <1>4, UpTo
    <2>2. QED
      BY <1>2, <2>1
  <1>6. PICK x : Solves(g, req, ord, n, x)
    BY <1>5 DEF P
  <1>7. \A v \in I : x[v] = Evaluated(g, req, x, v)
    BY <1>2, <1>6 DEF Solves
  <1>8. x = [v \in Ids(g) |-> Evaluated(g, req, x, v)]
    <2>1. x = [v \in Ids(g) |-> x[v]]
      BY <1>6 DEF Solves
    <2>2. QED
      BY <1>1, <1>7, <2>1
  <1>9. Value(g, req) = [v \in Ids(g) |-> Evaluated(g, req, Value(g, req), v)]
    <2>1. Value(g, req) = CHOOSE z : z = [v \in Ids(g) |-> Evaluated(g, req, z, v)]
      BY Zenon DEF Value, Evaluated
    <2>2. QED
      BY <1>8, <2>1, Zenon
  <1>10. QED
    BY <1>9

\* The data an input node reads, once no input of the graph is misbound.
LEMMA InputValueIs ==
    ASSUME NEW g \in Graphs, NEW req \in Seq(Nat), Misbound(g, req) = {},
           NEW q \in 1 .. Len(g.inputs)
    PROVE  /\ NodeNumel(g, g.inputs[q]) \in Nat
           /\ InputValue(g, req, g.inputs[q]) =
                 (IF TakesSlice(g, q) THEN Slice(req, SliceRank(g, q))
                  ELSE Weight(g, InitializerOf(g, g.inputs[q])))
           /\ IsBuffer(InputValue(g, req, g.inputs[q]), NodeNumel(g, g.inputs[q]))
  <1>1. PICK v, n, p : v = g.inputs[q] /\ n = NodeNumel(g, v) /\ p = InitializerOf(g, v)
    OBVIOUS
  <1>2. /\ g.inputs \in Seq(Ids(g)) /\ Distinct(g.inputs)
        /\ DOMAIN g.inputs = 1 .. Len(g.inputs) /\ v \in Ids(g)
    <2>1. g.inputs \in Seq(Ids(g)) /\ Distinct(g.inputs)
      BY MarksAre
    <2>2. QED
      BY <1>1, <2>1
  <1>3. n \in Nat \cup {Overflow}
    BY <1>1, <1>2, GraphIs
  <1>4. BindingError(g, req, q) = None
    BY <1>2 DEF Misbound
  <1>5. PICK u : u = SliceRank(g, q - 1)
    OBVIOUS
  <1>6. None = IF n = Overflow THEN "ShapeMismatch"
               ELSE IF p # 0 THEN IF g.inits[p].len = n THEN None ELSE "InitializerMismatch"
               ELSE IF u + 1 > Len(req) THEN "MissingInput"
               ELSE IF req[u + 1] = n THEN None ELSE "InputDataMismatch"
    BY <1>1, <1>4, <1>5, BindingErrorIs
  <1>7. n \in Nat
    BY <1>3, <1>6, NamesDiffer
  <1>8. PICK k : k = CHOOSE c \in DOMAIN g.inputs : g.inputs[c] = v
    OBVIOUS
  <1>9. k \in DOMAIN g.inputs /\ g.inputs[k] = v
    BY <1>1, <1>2, <1>8
  <1>10. k = q
    BY <1>1, <1>2, <1>9 DEF Distinct
  <1>11. InputValue(g, req, v) = (IF TakesSlice(g, q) THEN Slice(req, SliceRank(g, q))
                                  ELSE Weight(g, InitializerOf(g, v)))
    <2>1. InputValue(g, req, v) = (IF TakesSlice(g, k) THEN Slice(req, SliceRank(g, k))
                                   ELSE Weight(g, InitializerOf(g, v)))
      BY <1>8 DEF InputValue
    <2>2. QED
      BY <1>10, <2>1
  <1>12. TakesSlice(g, q) <=> p = 0
    BY <1>1 DEF TakesSlice
  <1>13. CASE p # 0
    <2>1. g.inits[p].len = n
      BY <1>6, <1>7, <1>13, NamesDiffer
    <2>2. Weight(g, p) = [e \in 1 .. n |-> <<"weight", p, e>>]
      BY <2>1 DEF Weight
    <2>3. IsBuffer(Weight(g, p), n)
      BY <2>2 DEF IsBuffer
    <2>4. QED
      BY <1>1, <1>7, <1>11, <1>12, <1>13, <2>3
  <1>14. CASE p = 0
    <2>1. SliceRank(g, q) = u + 1
      BY <1>5, <1>12, <1>14, RankStep
    <2>2. req[u + 1] = n
      BY <1>6, <1>7, <1>14, NamesDiffer
    <2>3. Slice(req, u + 1) = [e \in 1 .. n |-> <<"slice", u + 1, e>>]
      BY <2>2 DEF Slice
    <2>4. IsBuffer(Slice(req, u + 1), n)
      BY <2>3 DEF IsBuffer
    <2>5. QED
      BY <1>1, <1>7, <1>11, <1>12, <1>14, <2>1, <2>4
  <1>15. QED
    BY <1>13, <1>14

-----------------------------------------------------------------------------
(* What the dispatch loop establishes *)

\* A node's cells hold its value.
Holds(v, s) == \A e \in 1 .. Numel(v) : acts[binds[v].at + e - 1] = s[e]

\* The nodes it has been over have values, and those are what they were computed to.
Valued(k) ==
    \A a \in 1 .. k :
        \E s : /\ s = Value(graph, request)[order[a]]
               /\ s.err = None /\ IsBuffer(s.out, Numel(order[a]))
               /\ ~IsInput(graph, order[a]) => Holds(order[a], s.out)

Dispatched ==
    pc = "dispatch" =>
        /\ i <= Len(order) + 1
        /\ DOMAIN acts = 0 .. total - 1
        /\ Valued(i - 1)

\* The state of the call when the nodes run.
LEMMA DispatchIs ==
    ASSUME ExInv, Matched, pc = "dispatch"
    PROVE  /\ graph \in Graphs /\ request \in Seq(Nat) /\ IsTopological(graph, order)
           /\ graph.n \in Nat /\ Len(order) = graph.n /\ total \in Nat
           /\ \A a \in 1 .. graph.n : order[a] \in Ids(graph)
           /\ Unknown(graph) = {} /\ ~Cyclic(graph) /\ Misbound(graph, request) = {}
           /\ SliceCount(graph) = Len(request) /\ Unsized(graph) = {}
           /\ \A a \in 1 .. graph.n : Numel(order[a]) \in Nat
           /\ \A q \in 1 .. Len(graph.inputs) : IsInput(graph, graph.inputs[q]) =>
                 binds[graph.inputs[q]] = Binding(graph, q)
           /\ \A v \in Ids(graph) : Value(graph, request)[v] =
                 Evaluated(graph, request, Value(graph, request), v)
  <1>1. /\ graph \in Graphs /\ request \in Seq(Nat) /\ IsTopological(graph, order)
        /\ total \in Nat /\ LaidTo = Len(order)
    BY AllLaid, ArenaConstants DEF ExInv, Typed, LaidOut
  <1>2. graph.n \in Nat /\ Len(order) = graph.n /\ \A a \in 1 .. graph.n : order[a] \in Ids(graph)
    BY <1>1, GraphIs DEF IsTopological
  <1>3. /\ Unknown(graph) = {} /\ ~Cyclic(graph) /\ Misbound(graph, request) = {}
        /\ SliceCount(graph) = Len(request)
    BY DEF Matched, Sorted, Supplied
  <1>4. \A q \in 1 .. Len(graph.inputs) : IsInput(graph, graph.inputs[q]) =>
           binds[graph.inputs[q]] = Binding(graph, q)
    BY DEF Matched, Matching, BoundTo
  <1>5. \A a \in 1 .. graph.n : ~IsInput(graph, order[a]) => Numel(order[a]) \in Nat
    BY <1>1, <1>2 DEF ExInv, Laid
  <1>6. \A a \in 1 .. graph.n : IsInput(graph, order[a]) => Numel(order[a]) \in Nat
    <2> SUFFICES ASSUME NEW a \in 1 .. graph.n, IsInput(graph, order[a])
                 PROVE  Numel(order[a]) \in Nat
      OBVIOUS
    <2>1. PICK q \in 1 .. Len(graph.inputs) : graph.inputs[q] = order[a]
      BY <1>1, <1>2, GraphIs
    <2>2. QED
      BY <1>1, <1>3, <2>1, InputValueIs DEF Numel
  <1>7. Unsized(graph) = {}
    <2> SUFFICES ASSUME NEW v \in Unsized(graph) PROVE FALSE
      OBVIOUS
    <2>1. v \in Ids(graph) /\ ~IsInput(graph, v) /\ NodeNumel(graph, v) = Overflow
      BY DEF Unsized
    <2>2. PICK a \in 1 .. graph.n : order[a] = v
      BY <1>1, <2>1 DEF IsTopological
    <2>3. Overflow \in Nat
      BY <1>5, <2>1, <2>2 DEF Numel
    <2>4. QED
      BY <2>3 DEF Overflow
  <1>8. \A v \in Ids(graph) : Value(graph, request)[v] =
           Evaluated(graph, request, Value(graph, request), v)
    BY <1>1, ValueIs
  <1>9. QED
    BY <1>1, <1>2, <1>3, <1>4, <1>5, <1>6, <1>7, <1>8

\* An input node has its value from the start.
LEMMA InputValued ==
    ASSUME ExInv, Matched, pc = "dispatch", NEW a \in 1 .. graph.n, IsInput(graph, order[a]),
           NEW v, v = order[a], NEW s, s = Value(graph, request)[v]
    PROVE  /\ s.err = None /\ IsBuffer(s.out, Numel(v))
           /\ Resolve(v).data = s.out
  <1>1. /\ graph \in Graphs /\ request \in Seq(Nat) /\ v \in Ids(graph)
        /\ Misbound(graph, request) = {}
        /\ s = Evaluated(graph, request, Value(graph, request), v)
    BY DispatchIs
  <1>2. s = Writes(InputValue(graph, request, v))
    BY <1>1 DEF Evaluated
  <1>3. s.err = None /\ s.out = InputValue(graph, request, v)
    BY <1>2 DEF Writes
  <1>4. PICK q \in 1 .. Len(graph.inputs) : graph.inputs[q] = v
    BY <1>1, GraphIs
  <1>5. PICK d, b : d = InputValue(graph, request, v) /\ b = binds[v]
    OBVIOUS
  <1>6. /\ d = IF TakesSlice(graph, q) THEN Slice(request, SliceRank(graph, q))
               ELSE Weight(graph, InitializerOf(graph, v))
        /\ IsBuffer(d, NodeNumel(graph, v))
    BY <1>1, <1>4, <1>5, InputValueIs
  <1>7. b = Binding(graph, q)
    BY <1>4, <1>5, DispatchIs
  <1>8. b # Garbage
    BY <1>4, <1>5 DEF ExInv, Bound, BoundTo
  <1>9. Resolve(v).data = IF b = Garbage THEN <<Garbage>>
                  ELSE IF b.kind = "Act" THEN Fill(NodeNumel(graph, v), LAMBDA e : acts[b.at + e])
                  ELSE IF b.kind = "Weight" THEN Weight(graph, b.at)
                  ELSE Slice(request, b.at)
    BY <1>5 DEF Resolve
  <1>10. CASE TakesSlice(graph, q)
    <2>1. b.kind = "Runtime" /\ b.at = SliceRank(graph, q)
      BY <1>7, <1>10 DEF Binding
    <2>2. QED
      BY <1>3, <1>5, <1>6, <1>8, <1>9, <1>10, <2>1 DEF Numel
  <1>11. CASE ~TakesSlice(graph, q)
    <2>1. b.kind = "Weight" /\ b.at = InitializerOf(graph, v)
      BY <1>4, <1>7, <1>11 DEF Binding
    <2>2. QED
      BY <1>3, <1>5, <1>6, <1>8, <1>9, <1>11, <2>1 DEF Numel
  <1>12. QED
    BY <1>10, <1>11

\* A computed node is read back from its cells.
LEMMA CellsResolve ==
    ASSUME ExInv, Matched, pc = "dispatch", NEW a \in 1 .. graph.n, ~IsInput(graph, order[a]),
           NEW v, v = order[a], NEW d, IsBuffer(d, Numel(v)), Holds(v, d)
    PROVE  Resolve(v).data = d
  <1>1. LaidTo = Len(order) /\ Len(order) = graph.n
    BY AllLaid, DispatchIs DEF LaidOut
  <1>2. PICK b, m : b = binds[v] /\ m = NodeNumel(graph, v)
    OBVIOUS
  <1>3. b # Garbage /\ b.kind = "Act" /\ b.at \in Nat /\ m \in Nat
    BY <1>1, <1>2 DEF ExInv, Laid, Numel
  <1>4. Resolve(v).data = Fill(m, LAMBDA e : acts[b.at + e])
    <2>1. Resolve(v).data = IF b = Garbage THEN <<Garbage>>
                    ELSE IF b.kind = "Act" THEN Fill(m, LAMBDA e : acts[b.at + e])
                    ELSE IF b.kind = "Weight" THEN Weight(graph, b.at)
                    ELSE Slice(request, b.at)
      BY <1>2 DEF Resolve
    <2>2. QED
      BY <1>3, <2>1
  <1>5. Fill(m, LAMBDA e : acts[b.at + e]) = [j \in 1 .. m |-> acts[b.at + (j - 1)]]
    BY DEF Fill
  <1>6. \A j \in 1 .. m : acts[b.at + (j - 1)] = d[j]
    BY <1>2 DEF Holds, Numel
  <1>7. d = [j \in 1 .. m |-> d[j]]
    BY <1>2 DEF IsBuffer, Numel
  <1>8. QED
    BY <1>4, <1>5, <1>6, <1>7

\* So each node the loop has been over resolves to its value.
LEMMA ValuedResolve ==
    ASSUME ExInv, Matched, Dispatched, pc = "dispatch", NEW a \in 1 .. i - 1, a <= graph.n,
           NEW v, v = order[a], NEW s, s = Value(graph, request)[v]
    PROVE  /\ s.err = None /\ IsBuffer(s.out, Numel(v)) /\ Numel(v) \in Nat
           /\ Resolve(v) = [data |-> s.out, dims |-> graph.nodes[v].dims]
  <1>1. a \in 1 .. graph.n
    BY DispatchIs DEF ExInv, Counting
  <1>2. /\ s.err = None /\ IsBuffer(s.out, Numel(v))
        /\ ~IsInput(graph, v) => Holds(v, s.out)
    BY DEF Dispatched, Valued
  <1>3. Resolve(v).data = s.out
    BY <1>1, <1>2, CellsResolve, InputValued
  <1>4. Resolve(v) = [data |-> s.out, dims |-> graph.nodes[v].dims]
    <2>1. PICK x : x = Resolve(v).data
      OBVIOUS
    <2>2. Resolve(v) = [data |-> x, dims |-> graph.nodes[v].dims]
      BY <2>1 DEF Resolve
    <2>3. QED
      BY <1>3, <2>1, <2>2
  <1>5. Numel(v) \in Nat
    BY <1>1, DispatchIs
  <1>6. QED
    BY <1>2, <1>4, <1>5

\* What the next node is computed to is its value.
LEMMA ComputeIs ==
    ASSUME ExInv, Matched, Dispatched, pc = "dispatch", i <= Len(order),
           NEW v, v = order[i], ~IsInput(graph, v), NEW s, s = Value(graph, request)[v]
    PROVE  Compute(v) = s /\ Answers(s, Numel(v))
  <1>1. /\ graph \in Graphs /\ graph.n \in Nat /\ Len(order) = graph.n /\ i \in 1 .. graph.n
        /\ v \in Ids(graph) /\ Numel(v) \in Nat /\ IsTopological(graph, order)
    <2>1. i \in Nat \ {0}
      BY DEF ExInv, Counting
    <2>2. QED
      BY <2>1, DispatchIs
  <1>2. PICK ins, val : ins = graph.nodes[v].ins /\ val = Value(graph, request)
    OBVIOUS
  <1>3. ins \in Seq(Nat) /\ \A p \in DOMAIN ins : ins[p] \in Producers(graph, v)
    BY <1>1, <1>2, MarksAre DEF Producers, ToSet
  <1>4. ASSUME NEW w \in Producers(graph, v)
        PROVE  /\ val[w].err = None
               /\ IsBuffer(val[w].out, Numel(w)) /\ Numel(w) \in Nat
               /\ Resolve(w) = [data |-> val[w].out, dims |-> graph.nodes[w].dims]
    <2>1. PICK a \in 1 .. i - 1 : order[a] = w
      <3>1. w \in Producers(graph, order[i])
        OBVIOUS
      <3>2. graph \in Graphs /\ IsTopological(graph, order) /\ i \in 1 .. graph.n
        BY <1>1
      <3>3. PICK g, ord, k : g = graph /\ ord = order /\ k = i
        OBVIOUS
      <3>4. g \in Graphs /\ IsTopological(g, ord) /\ k \in 1 .. g.n /\ w \in Producers(g, ord[k])
        BY <3>1, <3>2, <3>3
      <3>5. \E a \in 1 .. k - 1 : ord[a] = w
        BY <3>4, ProducersBefore
      <3>6. QED
        BY <3>3, <3>5
    <2>2. a <= graph.n
      BY <1>1
    <2>3. QED
      BY <1>2, <2>1, <2>2, ValuedResolve
  <1>5. PICK ports : ports = [p \in DOMAIN ins |-> [data |-> val[ins[p]].out,
                                                   dims |-> graph.nodes[ins[p]].dims]]
    OBVIOUS
  <1>6. ports = [p \in DOMAIN ins |-> Resolve(ins[p])]
    BY <1>3, <1>4, <1>5
  <1>7. PICK r : r = Run(graph.nodes[v].op, ports, graph.nodes[v].dims, NodeNumel(graph, v), Garbage)
    OBVIOUS
  <1>8. Compute(v) = r
    BY <1>2, <1>6, <1>7, Zenon DEF Compute
  <1>9. s = r
    <2>1. s = Evaluated(graph, request, val, v)
      BY <1>1, <1>2, DispatchIs
    <2>2. ~ \E w \in Producers(graph, v) : val[w].err # None
      BY <1>4
    <2>3. QED
      BY <1>2, <1>5, <1>7, <2>1, <2>2, Zenon DEF Evaluated
  <1>10. Answers(r, Numel(v))
    <2>1. PICK R : R = {ports[p] : p \in DOMAIN ins}
      OBVIOUS
    <2>2. ports \in Seq(R)
      <3>1. DOMAIN ins = 1 .. Len(ins) /\ Len(ins) \in Nat
        BY <1>3
      <3>2. ports \in [1 .. Len(ins) -> R]
        BY <1>5, <2>1, <3>1
      <3>3. QED
        BY <3>1, <3>2
    <2>3. \A p \in 1 .. Len(ports) : \E m \in Nat : IsBuffer(ports[p].data, m)
      <3> SUFFICES ASSUME NEW p \in 1 .. Len(ports)
                   PROVE  \E m \in Nat : IsBuffer(ports[p].data, m)
        OBVIOUS
      <3>1. p \in DOMAIN ins
        BY <1>5, <2>2
      <3>2. ports[p].data = val[ins[p]].out
        BY <1>5, <3>1
      <3>3. QED
        BY <1>3, <1>4, <3>1, <3>2
    <2>4. graph.nodes[v].op.kind \in Kinds
      BY <1>1, OperatorsAssumption
    <2>5. QED
      BY <1>1, <1>7, <2>2, <2>3, <2>4, RunAnswers DEF Numel
  <1>11. QED
    BY <1>8, <1>9, <1>10

\* The loop goes on with what it had, and one node more.
LEMMA OneMoreValued ==
    ASSUME ExInv, Matched, Dispatched, pc = "dispatch", i <= Len(order), pc' = "dispatch",
           i' = i + 1, UNCHANGED <<graph, request, order, binds, total>>,
           DOMAIN acts' = 0 .. total - 1,
           NEW v, v = order[i], NEW s, s = Value(graph, request)[v],
           s.err = None, IsBuffer(s.out, Numel(v)),
           ~IsInput(graph, v) =>
              \A e \in 1 .. Numel(v) : acts'[binds[v].at + e - 1] = s.out[e],
           \A a \in 1 .. i - 1 : ~IsInput(graph, order[a]) =>
              \A e \in 1 .. Numel(order[a]) :
                  acts'[binds[order[a]].at + e - 1] = acts[binds[order[a]].at + e - 1]
    PROVE  Dispatched'
  <1>1. Len(order) \in Nat /\ i \in Nat \ {0}
    BY DispatchIs DEF ExInv, Counting
  <1>2. ASSUME NEW a \in 1 .. i
        PROVE  \E t : /\ t = Value(graph', request')[order'[a]]
                      /\ t.err = None /\ IsBuffer(t.out, NodeNumel(graph', order'[a]))
                      /\ ~IsInput(graph', order'[a]) =>
                            \A e \in 1 .. NodeNumel(graph', order'[a]) :
                                acts'[binds'[order'[a]].at + e - 1] = t.out[e]
    <2>1. NodeNumel(graph', order'[a]) = Numel(order[a])
      BY DEF Numel
    <2>2. CASE a = i
      BY <2>1, <2>2
    <2>3. CASE a # i
      <3>1. a \in 1 .. i - 1
        BY <1>1, <2>3
      <3>2. PICK t : /\ t = Value(graph, request)[order[a]]
                     /\ t.err = None /\ IsBuffer(t.out, Numel(order[a]))
                     /\ ~IsInput(graph, order[a]) => Holds(order[a], t.out)
        BY <3>1 DEF Dispatched, Valued
      <3>3. ~IsInput(graph, order[a]) =>
               \A e \in 1 .. Numel(order[a]) : acts'[binds[order[a]].at + e - 1] = t.out[e]
        BY <3>1, <3>2 DEF Holds
      <3>4. QED
        BY <2>1, <3>2, <3>3
    <2>4. QED
      BY <2>2, <2>3
  <1>3. i' - 1 = i /\ i' <= Len(order') + 1
    BY <1>1
  <1>4. \A a \in 1 .. i' - 1 :
           \E t : /\ t = Value(graph', request')[order'[a]]
                  /\ t.err = None /\ IsBuffer(t.out, NodeNumel(graph', order'[a]))
                  /\ ~IsInput(graph', order'[a]) =>
                        \A e \in 1 .. NodeNumel(graph', order'[a]) :
                            acts'[binds'[order'[a]].at + e - 1] = t.out[e]
    BY <1>2, <1>3
  <1>5. DOMAIN acts' = 0 .. total' - 1
    OBVIOUS
  <1>6. QED
    BY <1>3, <1>4, <1>5, Zenon DEF Dispatched, Valued, Holds, Numel

\* An input node is passed over: it has its value already.
LEMMA SkipInputDispatched ==
    ASSUME ExInv, Matched, Dispatched, SkipInput
    PROVE  Dispatched'
  <1>1. /\ pc = "dispatch" /\ i <= Len(order) /\ pc' = "dispatch" /\ i' = i + 1
        /\ UNCHANGED <<graph, request, order, binds, total, acts>> /\ IsInput(graph, order[i])
    BY DEF SkipInput, Again, callVars, locals
  <1>2. PICK v, s : v = order[i] /\ s = Value(graph, request)[v]
    OBVIOUS
  <1>3. i \in 1 .. graph.n
    BY <1>1, DispatchIs DEF ExInv, Counting
  <1>4. s.err = None /\ IsBuffer(s.out, Numel(v))
    BY <1>1, <1>2, <1>3, InputValued
  <1>5. DOMAIN acts' = 0 .. total - 1
    BY <1>1 DEF Dispatched
  <1>6. QED
    BY <1>1, <1>2, <1>4, <1>5, OneMoreValued

\* A node that fails is one that the request may fail for.
LEMMA FailedDeserved ==
    ASSUME ExInv, Matched, pc = "dispatch", NEW v \in Ids(graph),
           NEW s, s = Value(graph, request)[v], s.err \in Errors, s.err # None
    PROVE  Refusal(s.err, NoNode) \in Deserved(graph, request)
  <1>1. PICK val, failed : /\ val = Value(graph, request)
                           /\ failed = {w \in Ids(graph) : val[w].err \notin {None, "blocked"}}
    OBVIOUS
  <1>2. v \in failed
    BY <1>1, ErrorsAre
  <1>3. Outcome(graph, val) = {Refusal(val[w].err, NoNode) : w \in failed}
    BY <1>1, <1>2, Zenon DEF Outcome
  <1>4. Deserved(graph, request) = Outcome(graph, val)
    BY <1>1, DispatchIs, UnsizedDeserved
  <1>5. QED
    BY <1>1, <1>2, <1>3, <1>4

\* A node that is computed gets its value, one that fails ends the call with its error.
LEMMA DispatchNodeDispatched ==
    ASSUME ExInv, Matched, Dispatched, DispatchNode
    PROVE  Dispatched' /\ (pc' = "return" => reply' \in Deserved(graph, request))
  <1>1. /\ pc = "dispatch" /\ i <= Len(order) /\ ~IsInput(graph, order[i])
        /\ UNCHANGED <<graph, request, order, binds, total>>
    BY DEF DispatchNode, callVars
  <1>2. PICK v, s, m, b : /\ v = order[i] /\ s = Value(graph, request)[v]
                          /\ m = Numel(v) /\ b = binds[v].at
    OBVIOUS
  <1>3. /\ i \in 1 .. graph.n /\ Len(order) = graph.n /\ graph.n \in Nat
        /\ v \in Ids(graph) /\ m \in Nat /\ total \in Nat
    BY <1>1, <1>2, DispatchIs DEF ExInv, Counting
  <1>4. Compute(v) = s /\ Answers(s, m)
    BY <1>1, <1>2, ComputeIs
  <1>5. \/ s.err # None /\ Fail(s.err, NoNode)
        \/ /\ s.err = None /\ Again
           /\ acts' = [c \in DOMAIN acts |->
                         IF c \in Cells(v) THEN At(s.out, c - b) ELSE acts[c]]
    BY <1>2, <1>4 DEF DispatchNode
  <1>6. CASE s.err # None /\ Fail(s.err, NoNode)
    <2>1. Refusal(s.err, NoNode) \in Deserved(graph, request)
      BY <1>1, <1>2, <1>3, <1>4, <1>6, FailedDeserved DEF Answers
    <2>2. QED
      BY <1>6, <2>1 DEF Fail, Dispatched
  <1>7. CASE /\ s.err = None /\ Again
             /\ acts' = [c \in DOMAIN acts |->
                           IF c \in Cells(v) THEN At(s.out, c - b) ELSE acts[c]]
    <2>1. DOMAIN acts = 0 .. total - 1 /\ LaidTo = Len(order)
      BY <1>1, AllLaid DEF Dispatched, LaidOut
    <2>2. b \in Nat /\ b + m <= total /\ Cells(v) = b .. b + m - 1
      BY <1>1, <1>2, <1>3, <2>1 DEF ExInv, Laid, Cells, Numel
    <2>3. ASSUME NEW e \in 1 .. m PROVE acts'[b + e - 1] = s.out[e]
      <3>1. PICK c : c = b + e - 1
        OBVIOUS
      <3>2. c \in 0 .. total - 1 /\ c \in b .. b + m - 1 /\ (c - b) + 1 = e
        BY <1>3, <2>2, <3>1
      <3>3. acts'[c] = At(s.out, c - b)
        BY <1>7, <2>1, <2>2, <3>2
      <3>4. At(s.out, c - b) = s.out[e]
        BY <3>2 DEF At
      <3>5. QED
        BY <3>1, <3>3, <3>4
    <2>4. ASSUME NEW a \in 1 .. i - 1, ~IsInput(graph, order[a]),
                 NEW e \in 1 .. Numel(order[a])
          PROVE  acts'[binds[order[a]].at + e - 1] = acts[binds[order[a]].at + e - 1]
      <3>1. PICK w, x, p, c : /\ w = order[a] /\ x = binds[w].at /\ p = Numel(w)
                              /\ c = x + e - 1
        OBVIOUS
      <3>2. a \in 1 .. Len(order) /\ i \in 1 .. Len(order) /\ a < i
        BY <1>3
      <3>3. x \in Nat /\ p \in Nat /\ x + p <= b /\ e \in 1 .. p
        BY <1>1, <1>2, <2>1, <2>4, <3>1, <3>2 DEF ExInv, Laid
      <3>4. c \in 0 .. total - 1 /\ c \notin b .. b + m - 1
        BY <1>3, <2>2, <3>1, <3>3
      <3>5. acts'[c] = acts[c]
        BY <1>7, <2>1, <2>2, <3>4
      <3>6. QED
        BY <3>1, <3>5
    <2>5. pc' = "dispatch" /\ i' = i + 1 /\ DOMAIN acts' = 0 .. total - 1
      BY <1>1, <1>7, <2>1 DEF Again
    <2>6. IsBuffer(s.out, m)
      BY <1>4, <1>7 DEF Answers
    <2>7. \A e \in 1 .. Numel(v) : acts'[binds[v].at + e - 1] = s.out[e]
      BY <1>2, <2>3
    <2>8. \A a \in 1 .. i - 1 : ~IsInput(graph, order[a]) =>
             \A e \in 1 .. Numel(order[a]) :
                 acts'[binds[order[a]].at + e - 1] = acts[binds[order[a]].at + e - 1]
      BY <2>4
    <2>9. Dispatched'
      BY <1>1, <1>2, <1>7, <2>5, <2>6, <2>7, <2>8, OneMoreValued
    <2>10. QED
      BY <2>5, <2>9
  <1>8. QED
    BY <1>5, <1>6, <1>7

\* The outputs are collected from the values.
LEMMA CollectDeserved ==
    ASSUME ExInv, Matched, Dispatched, Collect
    PROVE  Dispatched' /\ pc' = "return" /\ reply' \in Deserved(graph, request)
  <1>1. pc = "dispatch" /\ i > Len(order) /\ pc' = "return"
    BY DEF Collect, Fail
  <1>2. PICK val : val = Value(graph, request)
    OBVIOUS
  <1>3. /\ graph \in Graphs /\ graph.n \in Nat /\ Len(order) = graph.n
        /\ IsTopological(graph, order) /\ i - 1 = graph.n
    <2>1. i \in Nat /\ i <= Len(order) + 1
      BY <1>1 DEF ExInv, Counting, Dispatched
    <2>2. QED
      BY <1>1, <2>1, DispatchIs
  <1>4. ASSUME NEW v \in Ids(graph)
        PROVE  val[v].err = None /\ Resolve(v) = [data |-> val[v].out, dims |-> graph.nodes[v].dims]
    <2>1. PICK a \in 1 .. graph.n : order[a] = v
      BY <1>3 DEF IsTopological
    <2>2. a \in 1 .. i - 1 /\ a <= graph.n
      BY <1>3
    <2>3. QED
      BY <1>1, <1>2, <2>1, <2>2, ValuedResolve
  <1>5. PICK failed : failed = {w \in Ids(graph) : val[w].err \notin {None, "blocked"}}
    OBVIOUS
  <1>6. failed = {}
    BY <1>4, <1>5
  <1>7. Deserved(graph, request) = Outcome(graph, val)
    BY <1>1, <1>2, DispatchIs, UnsizedDeserved
  <1>8. CASE graph.outputs = <<>>
    <2>1. Outcome(graph, val) = {Refusal("NoOutputs", NoNode)}
      BY <1>5, <1>6, <1>8, Zenon DEF Outcome
    <2>2. reply' = Refusal("NoOutputs", NoNode)
      BY <1>8 DEF Collect, Fail
    <2>3. QED
      BY <1>1, <1>7, <2>1, <2>2 DEF Dispatched
  <1>9. CASE graph.outputs # <<>>
    <2>1. PICK outs : outs = [o \in DOMAIN graph.outputs |->
                                [data |-> val[graph.outputs[o]].out,
                                 dims |-> graph.nodes[graph.outputs[o]].dims]]
      OBVIOUS
    <2>2. Outcome(graph, val) = {[err |-> None, node |-> NoNode, outs |-> outs]}
      BY <1>5, <1>6, <1>9, <2>1, Zenon DEF Outcome
    <2>3. \A o \in DOMAIN graph.outputs : graph.outputs[o] \in Ids(graph)
      <3>1. graph.outputs \in Seq(Ids(graph))
        BY <1>3, MarksAre
      <3>2. QED
        BY <3>1
    <2>4. outs = [o \in DOMAIN graph.outputs |-> Resolve(graph.outputs[o])]
      BY <1>4, <2>1, <2>3
    <2>5. reply' = [err |-> None, node |-> NoNode, outs |-> outs]
      BY <1>9, <2>4, Zenon DEF Collect
    <2>6. QED
      BY <1>1, <1>7, <2>2, <2>5 DEF Dispatched
  <1>10. QED
    BY <1>8, <1>9

\* The dispatch starts with no node computed.
LEMMA AllocActsDispatched ==
    ASSUME ExInv, AllocActs
    PROVE  Dispatched'
  <1>1. \/ pc' = "return"
        \/ /\ pc' = "dispatch" /\ i' = 1 /\ acts' = [c \in 0 .. total - 1 |-> Garbage]
    BY DEF AllocActs, Goto, Fail
  <1>2. UNCHANGED <<order, total>> /\ Len(order) \in Nat
    BY DEF AllocActs, ExInv, Typed
  <1>3. CASE pc' = "return"
    BY <1>3 DEF Dispatched
  <1>4. CASE pc' = "dispatch" /\ i' = 1 /\ acts' = [c \in 0 .. total - 1 |-> Garbage]
    <2>1. i' <= Len(order') + 1 /\ DOMAIN acts' = 0 .. total' - 1 /\ i' - 1 = 0
      BY <1>2, <1>4
    <2>2. 1 .. i' - 1 = {}
      BY <2>1
    <2>3. QED
      BY <2>1, <2>2 DEF Dispatched, Valued
  <1>5. QED
    BY <1>1, <1>3, <1>4

-----------------------------------------------------------------------------
(* The executor implements the service *)

CallInv == ExInv /\ Matched /\ Frugal /\ Tallied /\ Dispatched

\* Every step keeps it.
LEMMA DispatchedKept == ExInv /\ Matched /\ Dispatched /\ [Next]_vars => Dispatched'
  <1> SUFFICES ASSUME ExInv, Matched, Dispatched, [Next]_vars PROVE Dispatched'
    OBVIOUS
  <1>1. CASE UNCHANGED vars
    BY <1>1 DEF vars, callVars, locals, Dispatched, Valued, Holds, Numel
  <1>2. CASE \/ AllocScratch \/ Sort \/ AllocBinds \/ BindInput \/ InputsBound \/ AssignOffset
             \/ Return \/ Reset \/ \E req \in Requests : Call(req)
    <2>1. pc' # "dispatch"
      BY <1>2 DEF AllocScratch, Sort, AllocBinds, BindInput, InputsBound, AssignOffset, Return,
                  Reset, Call, BindWeight, BindSlice, Again, Goto, Fail
    <2>2. QED
      BY <2>1 DEF Dispatched
  <1>3. QED
    BY <1>1, <1>2, AllocActsDispatched, SkipInputDispatched, DispatchNodeDispatched,
       CollectDeserved DEF Next, Step

\* The inductive invariant holds at the start.
LEMMA CallInvStarts == Init => CallInv
  BY InvStarts, MatchedStarts, SpendingStarts DEF CallInv, Dispatched, Init

\* Every step keeps it.
LEMMA CallInvKept == CallInv /\ [Next]_vars => CallInv'
  BY StepKeeps, MatchedKept, FrugalKept, TalliedKept, DispatchedKept DEF CallInv

\* CallInv is an invariant of the executor.  It says of each part of a call what the
\* code has established by then: the order sorts the graph, the inputs bound so far are
\* the ones the request has data for, the memory spent is within what
\* required_arena_bytes adds up, and each node computed so far holds the value that
\* the graph gives it.
THEOREM CallInvariant == Spec => []CallInv
  BY CallInvStarts, CallInvKept, PTL DEF Spec

Works == \/ AllocScratch \/ Sort \/ AllocBinds \/ BindInput \/ InputsBound
         \/ AssignOffset \/ AllocActs \/ SkipInput \/ DispatchNode \/ Collect

\* A step that ends a call answers it.
LEMMA ReplyIsAnswer ==
    ASSUME CallInv, Works, pc' = "return"
    PROVE  IsAnswer(reply', graph, request, avail)
  <1> USE DEF CallInv
  <1>1. CASE AllocScratch \/ AllocBinds \/ AllocActs
    <2>1. avail < RequiredArenaBytes(graph)
      BY <1>1, AllocScratchFrugal, AllocBindsFrugal, AllocActsFrugal
    <2>2. reply' = Refusal("OutOfMemory", NoNode)
      BY <1>1 DEF AllocScratch, AllocBinds, AllocActs, Fail, Again, Goto
    <2>3. QED
      BY <2>1, <2>2 DEF IsAnswer
  <1>2. CASE Sort \/ BindInput \/ InputsBound \/ DispatchNode \/ Collect
    <2>1. reply' \in Deserved(graph, request)
      BY <1>2, SortMatched, BindInputMatched, InputsBoundMatched, DispatchNodeDispatched,
         CollectDeserved
    <2>2. QED
      BY <2>1 DEF IsAnswer
  <1>3. CASE AssignOffset
    BY <1>3, AssignOffsetTallied
  <1>4. CASE SkipInput
    BY <1>4 DEF SkipInput, Again
  <1>5. QED
    BY <1>1, <1>2, <1>3, <1>4 DEF Works

\* One that does not leaves the call running and unanswered.
LEMMA WorksOn ==
    ASSUME ExInv, Works
    PROVE  /\ UNCHANGED <<graph, request, avail, calls>>
           /\ pc \notin {"idle", "return"} /\ pc' # "idle"
           /\ pc' # "return" => UNCHANGED reply
  <1>1. CASE AllocScratch \/ Sort \/ AllocBinds
    BY <1>1 DEF AllocScratch, Sort, AllocBinds, callVars, Again, Goto, Fail
  <1>2. CASE BindInput \/ InputsBound
    BY <1>2 DEF BindInput, InputsBound, callVars, BindWeight, BindSlice, Again, Goto, Fail
  <1>3. CASE AssignOffset \/ AllocActs \/ SkipInput \/ DispatchNode \/ Collect
    BY <1>3 DEF AssignOffset, AllocActs, SkipInput, DispatchNode, Collect, callVars, Again, Goto, Fail
  <1>4. QED
    BY <1>1, <1>2, <1>3 DEF Works

\* So each step of the executor is one of the service, or changes nothing it shows:
\* Call starts a call, the step that ends it answers, Return takes the answer.
LEMMA StepIsService == CallInv /\ [Next]_vars => [Service!SNext]_(Service!svars)
  <1> SUFFICES ASSUME CallInv, [Next]_vars PROVE [Service!SNext]_(Service!svars)
    OBVIOUS
  <1>1. CASE UNCHANGED vars
    BY <1>1 DEF vars, callVars, Service!svars
  <1>2. CASE Reset \/ Return
    <2>1. pc \in {"idle", "return"} /\ pc' \in {"idle", "return"}
      BY <1>2 DEF Reset, Return
    <2>2. UNCHANGED <<graph, request, avail, reply, calls>>
      BY <1>2 DEF Reset, Return, callVars
    <2>3. QED
      BY <2>1, <2>2 DEF Service!svars
  <1>3. ASSUME NEW req \in Requests, Call(req) PROVE [Service!SNext]_(Service!svars)
    <2>1. buf.len - offset \in Nat
      <3>1. offset \in 0 .. buf.len /\ buf \in Bufs
        BY ArenaTyped DEF CallInv, ExInv
      <3>2. buf.len \in Nat
        BY <3>1, ExecuteAssumption
      <3>3. QED
        BY <3>1, <3>2
    <2>2. pc = "idle" /\ pc' = "scratch"
      BY <1>3 DEF Call
    <2>3. /\ calls < MaxCalls /\ request' = req /\ calls' = calls + 1
          /\ avail' \in Nat /\ reply' = Pending /\ UNCHANGED graph
      BY <1>3, <2>1 DEF Call
    <2>4. Service!Call(req)
      BY <2>2, <2>3 DEF Service!Call
    <2>5. QED
      BY <2>4 DEF Service!SNext
  <1>4. CASE Works
    <2>1. /\ UNCHANGED <<graph, request, avail, calls>>
          /\ pc \notin {"idle", "return"} /\ pc' # "idle"
          /\ pc' # "return" => UNCHANGED reply
      BY <1>4, WorksOn DEF CallInv
    <2>2. CASE pc' = "return"
      <3>1. IsAnswer(reply', graph, request, avail)
        BY <1>4, <2>2, ReplyIsAnswer
      <3>2. Service!Reply
        BY <2>1, <2>2, <3>1 DEF Service!Reply
      <3>3. QED
        BY <3>2 DEF Service!SNext
    <2>3. CASE pc' # "return"
      BY <2>1, <2>3 DEF Service!svars
    <2>4. QED
      BY <2>2, <2>3
  <1>5. QED
    BY <1>1, <1>2, <1>3, <1>4 DEF Next, Step, Works

\* The executor starts as the service does.
LEMMA InitIsService == Init => Service!SInit
  BY DEF Init, Service!SInit

\* ImplementsService but for its liveness, for every set of well-formed graphs, every
\* request, every arena buffer and any width of usize: each call is answered once, with
\* the values of the outputs, with an error that the graph or the request justifies, or
\* with OutOfMemory when it found less than required_arena_bytes.  No interleaving of
\* earlier calls and resets shows in the answer.
THEOREM ExecuteImplementsService == Spec => Service!SInit /\ [][Service!SNext]_(Service!svars)
  BY InitIsService, StepIsService, CallInvariant, PTL DEF Spec

(* What a kernel leaves unwritten: nothing *)

\* No element of a buffer is as the arena had it; a kernel that does not refuse
\* leaves such a buffer.
Written(s, len) == \A e \in 1 .. len : s[e] # Garbage
Fills(r, len)   == r.err = None => Written(r.out, len)

\* A term is never the mark of memory nobody wrote.
LEMMA TermsAre ==
    /\ \A a, b : <<a, b>> # Garbage
    /\ \A a, b, c : <<a, b, c>> # Garbage
  <1>1. Garbage = <<>>
    BY MarkersAssumption
  <1>2. ASSUME NEW a, NEW b PROVE <<a, b>> # Garbage
    BY <1>1
  <1>3. ASSUME NEW a, NEW b, NEW c PROVE <<a, b, c>> # Garbage
    BY <1>1
  <1>4. QED
    BY <1>2, <1>3

\* A refusal fills nothing, and has nothing to fill.
LEMMA RefusalsFill ==
    ASSUME NEW len
    PROVE  /\ Fills(Fails("ShapeMismatch"), len) /\ Fills(Fails("Op.Invalid"), len)
           /\ Fills(Fails("Unsupported"), len) /\ Fills(Fails("panic"), len)
           /\ Fills(Fails("Op.ShapeMismatch"), len)
           /\ \A e : e # None => Fills(Fails(e), len)
  <1>1. \A e : e # None => Fills(Fails(e), len)
    BY DEF Fills, Fails
  <1>2. /\ "ShapeMismatch" # None /\ "Op.Invalid" # None /\ "Unsupported" # None
        /\ "panic" # None /\ "Op.ShapeMismatch" # None
    BY DEF None
  <1>3. QED
    BY <1>1, <1>2

\* What passes its checks is the buffer that was written.
LEMMA AnswerFills ==
    ASSUME NEW checks, NEW out, NEW len, \A e \in 1 .. len : out[e] # Garbage
    PROVE  Fills(Answer(checks, out), len)
  BY DEF Fills, Written, Answer

\* An answer without an error is one of which no check failed.
LEMMA ChecksPassed ==
    ASSUME NEW checks \in Seq(Errors), NEW out, Answer(checks, out).err = None
    PROVE  \A k \in 1 .. Len(checks) : checks[k] = None
  <1>1. PICK S : S = {k \in 1 .. Len(checks) : checks[k] # None}
    OBVIOUS
  <1>2. PICK j : j = IF S # {} THEN Min(S) ELSE 0
    OBVIOUS
  <1>3. FirstError(checks) = IF j = 0 THEN None ELSE checks[j]
    <2>1. DOMAIN checks = 1 .. Len(checks)
      OBVIOUS
    <2>2. QED
      BY <1>1, <1>2, <2>1, Zenon DEF FirstError, SelectInSeq
  <1>4. FirstError(checks) = None
    BY DEF Answer
  <1>5. ASSUME S # {} PROVE FALSE
    <2>1. S \in SUBSET Nat
      BY <1>1
    <2>2. Min(S) \in S
      BY <1>5, <2>1, MinIs
    <2>3. j \in S /\ j # 0
      BY <1>1, <1>2, <1>5, <2>2
    <2>4. QED
      BY <1>1, <1>3, <1>4, <2>3
  <1>6. QED
    BY <1>1, <1>5

\* The kernels that make a term of operands for each element.
LEMMA UnaryFills ==
    ASSUME NEW op, NEW a, NEW len PROVE Fills(Unary(op, a, len), len)
  <1>1. PICK out : out = [j \in 1 .. len |-> <<op, At(a, j - 1)>>]
    OBVIOUS
  <1>2. \E checks : Unary(op, a, len) = Answer(checks, out)
    BY <1>1, Zenon DEF Fill, Unary
  <1>3. \A e \in 1 .. len : out[e] # Garbage
    BY <1>1, TermsAre
  <1>4. QED
    BY <1>2, <1>3, AnswerFills

\* The broadcasting arithmetic: each element is a term.
LEMMA BinaryFills ==
    ASSUME NEW op, NEW a, NEW ad, NEW b, NEW bd, NEW len, NEW od
    PROVE  Fills(Binary(op, a, ad, b, bd, len, od), len)
  <1>1. PICK out : out = [j \in 1 .. len |-> <<op, At(a, BroadcastIndex(j - 1, ad, od)),
                                                 At(b, BroadcastIndex(j - 1, bd, od))>>]
    OBVIOUS
  <1>2. \E checks : Binary(op, a, ad, b, bd, len, od) = Answer(checks, out)
    BY <1>1, Zenon DEF Fill, Binary
  <1>3. \A e \in 1 .. len : out[e] # Garbage
    BY <1>1, TermsAre
  <1>4. QED
    BY <1>2, <1>3, AnswerFills

\* The backend's addition: the same.
LEMMA AdditionFills ==
    ASSUME NEW a, NEW b, NEW len PROVE Fills(ElementwiseAdd(a, b, len), len)
  <1>1. PICK out : out = [j \in 1 .. len |-> <<"Add", At(a, j - 1), At(b, j - 1)>>]
    OBVIOUS
  <1>2. \E checks : ElementwiseAdd(a, b, len) = Answer(checks, out)
    BY <1>1, Zenon DEF Fill, ElementwiseAdd
  <1>3. \A e \in 1 .. len : out[e] # Garbage
    BY <1>1, TermsAre
  <1>4. QED
    BY <1>2, <1>3, AnswerFills

\* Softmax: the same.
LEMMA SoftmaxFills ==
    ASSUME NEW a, NEW len, NEW rowLen PROVE Fills(Softmax(a, len, rowLen), len)
  <1>1. PICK out : out = [j \in 1 .. len |->
           <<"Softmax", At(a, j - 1), SubSeq(a, ((j - 1) \div rowLen) * rowLen + 1,
                                                ((j - 1) \div rowLen) * rowLen + rowLen)>>]
    OBVIOUS
  <1>2. \E checks : Softmax(a, len, rowLen) = Answer(checks, out)
    BY <1>1, Zenon DEF Fill, Softmax
  <1>3. \A e \in 1 .. len : out[e] # Garbage
    BY <1>1, TermsAre
  <1>4. QED
    BY <1>2, <1>3, AnswerFills

\* The dense product: the same.
LEMMA MatMulFills ==
    ASSUME NEW a, NEW as, NEW b, NEW bs, NEW len PROVE Fills(MatMul(a, as, b, bs, len), len)
  <1>1. PICK out : out = [j \in 1 .. len |->
           <<"Sum", [kk \in 1 .. as[2] |-> <<At(a, ((j - 1) \div bs[2]) * as[2] + kk - 1),
                                             At(b, (kk - 1) * bs[2] + ((j - 1) % bs[2]))>>]>>]
    OBVIOUS
  <1>2. \E checks : MatMul(a, as, b, bs, len) = Answer(checks, out)
    BY <1>1, Zenon DEF Fill, MatMul
  <1>3. \A e \in 1 .. len : out[e] # Garbage
    BY <1>1, TermsAre
  <1>4. QED
    BY <1>2, <1>3, AnswerFills

\* The bias over a convolution: the same.
LEMMA BiasFills ==
    ASSUME NEW out0, NEW od, NEW bias, NEW bd, NEW len \in Nat, IsBuffer(out0, len)
    PROVE  Fills(AddInplaceBroadcast(out0, od, bias, bd), len)
  <1>1. PICK out : out = [j \in 1 .. len |-> <<"Add", At(out0, j - 1),
                                                      At(bias, BroadcastIndex(j - 1, bd, od))>>]
    OBVIOUS
  <1>2. Len(out0) = len
    BY BufferLength
  <1>3. \E checks : AddInplaceBroadcast(out0, od, bias, bd) = Answer(checks, out)
    BY <1>1, <1>2, Zenon DEF Fill, AddInplaceBroadcast
  <1>4. \A e \in 1 .. len : out[e] # Garbage
    BY <1>1, TermsAre
  <1>5. QED
    BY <1>3, <1>4, AnswerFills

\* The normalisation: the same.
LEMMA BatchNormFills ==
    ASSUME NEW x, NEW xd, NEW len, NEW params PROVE Fills(BatchNorm(x, xd, len, params), len)
  <1>1. PICK r, channel : /\ r = BatchNorm(x, xd, len, params)
                          /\ channel = (Len(xd) = 4 /\ Len(params[1]) = xd[2])
    OBVIOUS
  <1>2. PICK out : out = [j \in 1 .. len |->
           <<IF channel THEN "ChannelNorm" ELSE "ElementNorm", At(x, j - 1),
             [p \in DOMAIN params |->
                 At(params[p], IF channel THEN ((j - 1) \div (xd[3] * xd[4])) % xd[2] ELSE j - 1)]>>]
    OBVIOUS
  <1>3. \E checks : r = Answer(checks, out)
    BY <1>1, <1>2, Zenon DEF Fill, BatchNorm
  <1>4. \A e \in 1 .. len : out[e] # Garbage
    BY <1>2, TermsAre
  <1>5. QED
    BY <1>1, <1>3, <1>4, AnswerFills

\* The windows: what they sum or compare is a term too.
LEMMA Conv2dFills ==
    ASSUME NEW x, NEW xs, NEW w, NEW ws, NEW len, NEW strides, NEW padding
    PROVE  Fills(Conv2d(x, xs, w, ws, len, strides, padding), len)
  <1>1. PICK r : r = Conv2d(x, xs, w, ws, len, strides, padding)
    OBVIOUS
  <1> DEFINE od     == <<xs[1], ws[1], WindowCount(xs[3], ws[3], strides[1], padding[1]),
                         WindowCount(xs[4], ws[4], strides[2], padding[2])>>
             o(k)    == UnravelIndex(k, od)
             taps(k) == Taps(xs[2], <<ws[3], ws[4]>>, o(k)[3], o(k)[4], strides, padding, xs)
             out     == [j \in 1 .. len |-> <<"Sum", [q \in DOMAIN taps(j - 1) |->
                          <<At(x, Nchw(xs, o(j - 1)[1], taps(j - 1)[q].c, taps(j - 1)[q].y,
                                       taps(j - 1)[q].x)),
                            At(w, Nchw(ws, o(j - 1)[2], taps(j - 1)[q].c, taps(j - 1)[q].ky,
                                       taps(j - 1)[q].kx))>>]>>]
  <1>2. \/ r = Fails("Op.ShapeMismatch")
        \/ r = Fails("Op.Invalid")
        \/ \E checks : r = Answer(checks, out)
    BY <1>1, Zenon DEF Fill, Conv2d
  <1>3. \A e \in 1 .. len : out[e] # Garbage
    BY TermsAre
  <1> HIDE DEF out
  <1>4. QED
    BY <1>1, <1>2, <1>3, RefusalsFill, AnswerFills

\* The two poolings: the same.
LEMMA Pool2dFills ==
    ASSUME NEW op, NEW x, NEW xd, NEW len, NEW od, NEW kernel, NEW strides, NEW padding
    PROVE  Fills(Pool2d(op, x, xd, len, od, kernel, strides, padding), len)
  <1>1. PICK r : r = Pool2d(op, x, xd, len, od, kernel, strides, padding)
    OBVIOUS
  <1> DEFINE o(k)    == UnravelIndex(k, od)
             taps(k) == Taps(1, kernel, o(k)[3], o(k)[4], strides, padding, xd)
             out     == [j \in 1 .. len |-> <<op, [q \in DOMAIN taps(j - 1) |->
                          At(x, Nchw(xd, o(j - 1)[1], o(j - 1)[2], taps(j - 1)[q].y,
                                     taps(j - 1)[q].x))]>>]
  <1>2. \/ r = Fails("ShapeMismatch")
        \/ r = Fails("Op.Invalid")
        \/ \E checks : r = Answer(checks, out)
    BY <1>1, Zenon DEF Fill, Pool2d
  <1>3. \A e \in 1 .. len : out[e] # Garbage
    BY TermsAre
  <1> HIDE DEF out
  <1>4. QED
    BY <1>1, <1>2, <1>3, RefusalsFill, AnswerFills

\* A copy of what was written is written.
LEMMA CopyFills ==
    ASSUME NEW src, NEW len \in Nat, NEW m \in Nat, IsBuffer(src, m), Written(src, m)
    PROVE  Fills(CopyElements(src, len), len)
  <1>1. PICK c1 : c1 = Require(Len(src) = len, "SizeMismatch")
    OBVIOUS
  <1>2. c1 \in Errors
    BY <1>1, ErrorsAre, NamesAreErrors
  <1>3. <<c1>> \in Seq(Errors) /\ Len(<<c1>>) = 1 /\ <<c1>>[1] = c1
    BY <1>2
  <1>4. CopyElements(src, len) = Answer(<<c1>>, src)
    BY <1>1, Zenon DEF CopyElements
  <1>5. CASE Answer(<<c1>>, src).err = None
    <2>1. c1 = None
      <3>1. \A k \in 1 .. Len(<<c1>>) : <<c1>>[k] = None
        BY <1>3, <1>5, ChecksPassed
      <3>2. QED
        BY <1>3, <3>1
    <2>2. Len(src) = len
      BY <1>1, <2>1 DEF Require, None
    <2>3. m = len
      BY <2>2, BufferLength
    <2>4. QED
      BY <1>4, <2>3, AnswerFills DEF Written
  <1>6. CASE Answer(<<c1>>, src).err # None
    BY <1>4, <1>6 DEF Fills
  <1>7. QED
    BY <1>5, <1>6

(* Products of dimensions *)

\* P is the product of w over each set of positions.
IsProduct(n, w, P) ==
    /\ P \in [SUBSET (1 .. n) -> Nat]
    /\ P[{}] = 1
    /\ \A s \in SUBSET (1 .. n) : \A x \in s : P[s] = P[s \ {x}] * w[x]

\* There is a product of whatever numbers: by induction on the largest position.
LEMMA ProductExists ==
    ASSUME NEW n \in Nat, NEW w \in [1 .. n -> Nat]
    PROVE  \E P : IsProduct(n, w, P)
  <1> DEFINE F == [p \in (1 .. n) \X Nat |-> p[2] * w[p[1]]]
  <1>1. F \in [(1 .. n) \X Nat -> Nat]
    <2>1. \A a \in Nat : \A b \in Nat : a * b \in Nat
      OBVIOUS
    <2>2. QED
      BY <2>1
  <1>2. PICK it : IsFold(n, Nat, 1, F, it)
    <2> HIDE DEF F
    <2>1. 1 \in Nat
      OBVIOUS
    <2>2. QED
      BY <1>1, <2>1, FoldExists
  <1>3. it \in [SUBSET (1 .. n) -> Nat] /\ it[{}] = 1
    BY <1>2 DEF IsFold
  <1>4. ASSUME NEW s \in SUBSET (1 .. n), s # {}
        PROVE  it[s] = it[s \ {Max(s)}] * w[Max(s)] /\ Max(s) \in s
    <2>1. Max(s) \in s
      BY <1>4, MaxIs
    <2>2. it[s \ {Max(s)}] \in Nat /\ Max(s) \in 1 .. n
      BY <1>3, <2>1
    <2>3. it[s] = F[<<Max(s), it[s \ {Max(s)}]>>]
      BY <1>2, <1>4 DEF IsFold
    <2>4. QED
      BY <2>1, <2>2, <2>3
  <1>5. \A k \in 0 .. n : \A s \in SUBSET (1 .. k) : \A x \in s : it[s] = it[s \ {x}] * w[x]
    <2> DEFINE P == {k \in 0 .. n : \A s \in SUBSET (1 .. k) : \A x \in s :
                        it[s] = it[s \ {x}] * w[x]}
    <2>1. 0 \in P
      OBVIOUS
    <2>2. ASSUME NEW k \in 0 .. n - 1, k \in P PROVE k + 1 \in P
      <3> SUFFICES ASSUME NEW s \in SUBSET (1 .. k + 1), NEW x \in s
                   PROVE  it[s] = it[s \ {x}] * w[x]
        <4>1. k + 1 \in 0 .. n
          OBVIOUS
        <4>2. QED
          BY <4>1
      <3>1. s \in SUBSET (1 .. n) /\ s # {} /\ k \in Nat
        OBVIOUS
      <3>2. PICK m : m = Max(s)
        OBVIOUS
      <3>3. m \in s /\ it[s] = it[s \ {m}] * w[m] /\ \A y \in s : y <= m
        <4>1. \A y \in s : y <= Max(s)
          BY <3>1, MaxIs
        <4>2. QED
          BY <1>4, <3>1, <3>2, <4>1
      <3>4. CASE x = m
        BY <3>3, <3>4
      <3>5. CASE x # m
        <4>1. s \ {m} \in SUBSET (1 .. k) /\ x \in s \ {m}
          <5>1. \A y \in s \ {m} : y \in 1 .. k
            <6> SUFFICES ASSUME NEW y \in s \ {m} PROVE y \in 1 .. k
              OBVIOUS
            <6>1. y \in 1 .. k + 1 /\ m \in 1 .. k + 1 /\ y <= m /\ y # m
              BY <3>3
            <6>2. QED
              BY <3>1, <6>1
          <5>2. QED
            BY <3>5, <5>1
        <4>2. it[s \ {m}] = it[(s \ {m}) \ {x}] * w[x]
          BY <2>2, <4>1
        <4>3. s \ {x} \in SUBSET (1 .. n) /\ s \ {x} # {} /\ m \in s \ {x}
          BY <3>1, <3>3, <3>5
        <4>4. Max(s \ {x}) = m
          <5>1. Max(s \ {x}) \in s \ {x} /\ \A y \in s \ {x} : y <= Max(s \ {x})
            BY <4>3, MaxIs
          <5>2. PICK q : q = Max(s \ {x})
            OBVIOUS
          <5>3. q \in s /\ q \in 1 .. n /\ m \in 1 .. n
            BY <3>1, <3>3, <5>1, <5>2
          <5>4. m <= q /\ q <= m
            BY <3>3, <4>3, <5>1, <5>2, <5>3
          <5>5. QED
            BY <5>2, <5>3, <5>4
        <4>5. it[s \ {x}] = it[(s \ {x}) \ {m}] * w[m]
          BY <1>4, <4>3, <4>4
        <4>6. (s \ {x}) \ {m} = (s \ {m}) \ {x}
          OBVIOUS
        <4>7. PICK a, b, c, d, wx, wm : /\ a = it[s] /\ b = it[s \ {m}] /\ c = it[s \ {x}]
                                        /\ d = it[(s \ {m}) \ {x}] /\ wx = w[x] /\ wm = w[m]
          OBVIOUS
        <4>8. a \in Nat /\ b \in Nat /\ c \in Nat /\ d \in Nat /\ wx \in Nat /\ wm \in Nat
          <5>1. s \ {m} \in SUBSET (1 .. n) /\ (s \ {m}) \ {x} \in SUBSET (1 .. n)
            BY <3>1
          <5>2. x \in 1 .. n /\ m \in 1 .. n
            BY <3>1, <3>3
          <5>3. QED
            BY <1>3, <3>1, <4>3, <4>7, <5>1, <5>2
        <4>9. a = b * wm /\ b = d * wx /\ c = d * wm
          BY <3>3, <4>2, <4>5, <4>6, <4>7
        <4>10. a = c * wx
          <5>1. (d * wx) * wm = (d * wm) * wx
            BY <4>8
          <5>2. QED
            BY <4>9, <5>1
        <4>11. QED
          BY <4>7, <4>10
      <3>6. QED
        BY <3>4, <3>5
    <2> HIDE DEF P
    <2>3. \A k \in 0 .. n : k \in P
      BY <2>1, <2>2, UpTo
    <2>4. QED
      BY <2>3, Zenon DEF P
  <1>6. IsProduct(n, w, it)
    <2>1. n \in 0 .. n
      OBVIOUS
    <2>2. QED
      BY <1>3, <1>5, <2>1 DEF IsProduct
  <1>7. QED
    BY <1>6

\* No dimension is 0 where the product is not, and then a part of the dimensions has
\* no larger a product than all of them.
LEMMA ProductGrows ==
    ASSUME NEW n \in Nat, NEW w \in [1 .. n -> Nat], NEW P, IsProduct(n, w, P), P[1 .. n] # 0
    PROVE  /\ \A x \in 1 .. n : w[x] >= 1
           /\ \A s \in SUBSET (1 .. n) : P[s] \in Nat /\ P[s] >= 1 /\ P[s] <= P[1 .. n]
  <1>1. /\ P \in [SUBSET (1 .. n) -> Nat] /\ P[{}] = 1
        /\ \A t \in SUBSET (1 .. n) : \A x \in t : P[t] = P[t \ {x}] * w[x]
    BY DEF IsProduct
  <1>2. ASSUME NEW x \in 1 .. n PROVE w[x] >= 1
    <2>1. PICK a, b, c : a = P[1 .. n] /\ b = P[(1 .. n) \ {x}] /\ c = w[x]
      OBVIOUS
    <2>2. a \in Nat /\ b \in Nat /\ c \in Nat /\ a # 0 /\ a = b * c
      BY <1>1, <2>1
    <2>3. c # 0
      <3>1. b * 0 = 0
        BY <2>2
      <3>2. QED
        BY <2>2, <3>1
    <2>4. QED
      BY <2>1, <2>2, <2>3
  <1>3. ASSUME NEW s \in SUBSET (1 .. n) PROVE P[s] \in Nat /\ P[s] >= 1 /\ P[s] <= P[1 .. n]
    <2> DEFINE Q == {k \in 0 .. n : /\ P[s \cap (1 .. k)] >= 1
                                    /\ P[s \cap (1 .. k)] <= P[1 .. k]}
    <2>1. 0 \in Q
      <3>1. s \cap (1 .. 0) = {} /\ 1 .. 0 = {}
        OBVIOUS
      <3>2. QED
        BY <1>1, <3>1
    <2>2. ASSUME NEW k \in 0 .. n - 1, k \in Q PROVE k + 1 \in Q
      <3>1. PICK t, u, p, q : /\ t = 1 .. k + 1 /\ u = 1 .. k
                              /\ p = s \cap (1 .. k + 1) /\ q = s \cap (1 .. k)
        OBVIOUS
      <3>2. /\ k + 1 \in 1 .. n /\ k + 1 \in 0 .. n
            /\ t \in SUBSET (1 .. n) /\ k + 1 \in t /\ t \ {k + 1} = u /\ u \in SUBSET (1 .. n)
            /\ p \in SUBSET (1 .. n) /\ q \in SUBSET (1 .. n)
            /\ k + 1 \in s => k + 1 \in p /\ p \ {k + 1} = q
            /\ k + 1 \notin s => p = q
        BY <3>1
      <3>3. PICK a, b, c, d, e : a = P[t] /\ b = P[u] /\ c = w[k + 1] /\ d = P[q] /\ e = P[p]
        OBVIOUS
      <3>4. a \in Nat /\ b \in Nat /\ c \in Nat /\ d \in Nat /\ c >= 1
        BY <1>1, <1>2, <3>2, <3>3
      <3>5. a = b * c
        BY <1>1, <3>2, <3>3
      <3>6. 1 <= d /\ d <= b
        BY <2>2, <3>1, <3>3
      <3>7. e = d * c \/ e = d
        <4>1. ASSUME k + 1 \in s PROVE e = d * c
          <5>1. P[p] = P[p \ {k + 1}] * w[k + 1]
            BY <1>1, <3>2, <4>1
          <5>2. QED
            BY <3>2, <3>3, <4>1, <5>1
        <4>2. ASSUME k + 1 \notin s PROVE e = d
          BY <3>2, <3>3, <4>2
        <4>3. QED
          BY <4>1, <4>2
      <3>8. 1 <= e /\ e <= a
        <4>1. d * c >= d /\ d * c <= b * c
          <5>1. PICK f, h : f = c - 1 /\ h = b - d
            OBVIOUS
          <5>2. f \in Nat /\ h \in Nat /\ c = f + 1 /\ b = d + h
            BY <3>4, <3>6, <5>1
          <5>3. d * (f + 1) = d * f + d /\ d * f \in Nat
            BY <3>4, <5>2
          <5>4. (d + h) * c = d * c + h * c /\ h * c \in Nat /\ d * c \in Nat
            BY <3>4, <5>2
          <5>5. QED
            BY <3>4, <5>2, <5>3, <5>4
        <4>2. PICK x, y : x = d * c /\ y = b * c
          OBVIOUS
        <4>3. x \in Nat /\ y \in Nat /\ x >= d /\ x <= y
          BY <3>4, <4>1, <4>2
        <4>4. QED
          BY <3>4, <3>5, <3>6, <3>7, <4>2, <4>3
      <3>9. QED
        BY <3>1, <3>2, <3>3, <3>8
    <2> HIDE DEF Q
    <2>3. n \in Q
      <3>1. \A k \in 0 .. n : k \in Q
        BY <2>1, <2>2, UpTo
      <3>2. QED
        BY <3>1
    <2>4. s \cap (1 .. n) = s
      OBVIOUS
    <2>5. QED
      BY <1>1, <2>3, <2>4 DEF Q
  <1>4. QED
    BY <1>2, <1>3

\* numel is the product, if it is a number.
LEMMA NumElIs ==
    ASSUME NEW dims \in Seq(Nat), NEW n, n = Len(dims), NEW P, IsProduct(n, dims, P),
           NumEl(dims) # Overflow
    PROVE  NumEl(dims) = P[1 .. n] /\ (n >= 1 => P[1 .. n] <= UsizeMax)
  <1> DEFINE V == Nat \cup {Overflow}
             F == [p \in (1 .. n) \X V |-> CheckedMul(p[2], dims[p[1]])]
  <1>1. n \in Nat /\ DOMAIN dims = 1 .. n /\ \A j \in 1 .. n : dims[j] \in Nat
    OBVIOUS
  <1>2. 1 \in V
    OBVIOUS
  <1>3. ASSUME NEW a \in V, NEW b \in Nat PROVE CheckedMul(a, b) \in V
    <2>1. a = Overflow \/ (a \in Nat /\ a * b \in Nat)
      OBVIOUS
    <2>2. QED
      BY <2>1 DEF CheckedMul
  <1> HIDE DEF V
  <1>4. F \in [(1 .. n) \X V -> V]
    <2>1. \A p \in (1 .. n) \X V : p[1] \in 1 .. n /\ p[2] \in V /\ dims[p[1]] \in Nat
      BY <1>1
    <2> QED BY <1>3, <2>1
  <1>5. PICK it : IsFold(n, V, 1, F, it)
    <2> HIDE DEF F
    <2> QED BY <1>1, <1>2, <1>4, FoldExists
  <1>5a. it \in [SUBSET (1 .. n) -> V]
    BY <1>5 DEF IsFold
  <1>6. it = [s \in SUBSET (1 .. n) |->
                 IF s = {} THEN 1 ELSE CheckedMul(it[s \ {Max(s)}], dims[Max(s)])]
    <2>1. ASSUME NEW s \in SUBSET (1 .. n), s # {}
          PROVE  it[s] = CheckedMul(it[s \ {Max(s)}], dims[Max(s)])
      <3>1. Max(s) \in 1 .. n
        BY <1>1, <2>1, MaxIs
      <3>2. it[s \ {Max(s)}] \in V
        BY <1>5a
      <3>3. it[s] = F[<<Max(s), it[s \ {Max(s)}]>>]
        BY <1>5, <2>1 DEF IsFold
      <3> QED BY <3>1, <3>2, <3>3
    <2>2. \A s \in SUBSET (1 .. n) : it[s] =
                 IF s = {} THEN 1 ELSE CheckedMul(it[s \ {Max(s)}], dims[Max(s)])
      BY <1>5, <2>1 DEF IsFold
    <2> QED BY <1>5a, <2>2
  <1> DEFINE c == CHOOSE f : f = [s \in SUBSET (1 .. n) |->
                 IF s = {} THEN 1 ELSE CheckedMul(f[s \ {Max(s)}], dims[Max(s)])]
  <1>7. NumEl(dims) = c[1 .. n]
    BY <1>1, Zenon DEF NumEl, FoldLeft, MapThenFoldSet
  <1>8. c = [s \in SUBSET (1 .. n) |->
                 IF s = {} THEN 1 ELSE CheckedMul(c[s \ {Max(s)}], dims[Max(s)])]
    BY <1>6, Zenon
  <1> HIDE DEF c
  <1>9. \A k \in 0 .. n : c[1 .. k] = Overflow \/ (c[1 .. k] = P[1 .. k] /\ (k >= 1 => P[1 .. k] <= UsizeMax))
    <2> DEFINE Q == {k \in 0 .. n : c[1 .. k] = Overflow
                        \/ (c[1 .. k] = P[1 .. k] /\ (k >= 1 => P[1 .. k] <= UsizeMax))}
    <2>1. 0 \in Q
      <3>1. 1 .. 0 = {}
        OBVIOUS
      <3>2. c[{}] = 1 /\ P[{}] = 1
        BY <1>8 DEF IsProduct
      <3>3. QED
        BY <1>1, <3>1, <3>2
    <2>2. ASSUME NEW k \in 0 .. n - 1, k \in Q PROVE k + 1 \in Q
      <3>1. k \in Nat /\ k + 1 \in 1 .. n /\ 1 .. k + 1 \in SUBSET (1 .. n) /\ 1 .. k + 1 # {}
        BY <1>1, PrefixOf
      <3>2. c[1 .. k + 1] = CheckedMul(c[(1 .. k + 1) \ {Max(1 .. k + 1)}], dims[Max(1 .. k + 1)])
        BY <1>8, <3>1
      <3>3. c[1 .. k + 1] = CheckedMul(c[1 .. k], dims[k + 1])
        BY <3>1, <3>2, LastOf
      <3>4. /\ k + 1 \in 1 .. k + 1 /\ (1 .. k + 1) \ {k + 1} = 1 .. k
            /\ 1 .. k \in SUBSET (1 .. n)
        BY <3>1
      <3>5. P[1 .. k + 1] = P[1 .. k] * dims[k + 1] /\ P[1 .. k] \in Nat /\ P[1 .. k + 1] \in Nat
        BY <3>1, <3>4 DEF IsProduct
      <3>6. PICK a, b, d, x, y : /\ a = P[1 .. k] /\ b = P[1 .. k + 1] /\ d = dims[k + 1]
                                 /\ x = c[1 .. k] /\ y = c[1 .. k + 1]
        OBVIOUS
      <3>7. /\ y = CheckedMul(x, d) /\ b = a * d /\ (x = Overflow \/ x = a)
            /\ a \in Nat /\ b \in Nat /\ UsizeMax \in Nat
        BY <2>2, <3>3, <3>5, <3>6, ArenaConstants
      <3>8. y = Overflow \/ (y = b /\ b <= UsizeMax)
        BY <3>7 DEF CheckedMul
      <3>9. QED
        BY <3>1, <3>6, <3>8
    <2> HIDE DEF Q
    <2>3. \A k \in 0 .. n : k \in Q
      BY <1>1, <2>1, <2>2, UpTo
    <2>4. QED
      BY <2>3 DEF Q
  <1>10. QED
    BY <1>1, <1>7, <1>9

(* Row-major indices *)

\* What is below the modulus is its own remainder.
LEMMA RemainderOf ==
    ASSUME NEW x \in Nat, NEW b \in Nat, x < b PROVE x % b = x
  OBVIOUS

\* A product below 2^Bits does not wrap: strides are the products to the right.
LEMMA StridesAre ==
    ASSUME NEW dims \in Seq(Nat), NEW n, n = Len(dims), NEW P, IsProduct(n, dims, P),
           P[1 .. n] # 0, P[1 .. n] <= UsizeMax, NEW d \in 1 .. n
    PROVE  Strides(dims)[d] = P[d + 1 .. n]
  <1>1. n \in Nat /\ DOMAIN dims = 1 .. n /\ dims \in [1 .. n -> Nat] /\ d \in Nat
    OBVIOUS
  <1>2. PICK M : M = 2^Bits
    OBVIOUS
  <1>3. M \in Nat \ {0} /\ UsizeMax = M - 1
    <2>1. Bits \in Nat
      BY ExecuteAssumption
    <2>2. 2^Bits \in Nat \ {0}
      BY <2>1, ArenaConstants, AP!PowerPositive
    <2>3. UsizeMax = M - 1
      BY <1>2 DEF UsizeMax
    <2>4. QED
      BY <1>2, <2>2, <2>3, Zenon
  <1>4. PICK t, m : t = SubSeq(dims, d + 1, n) /\ m = n - d
    OBVIOUS
  <1>5. /\ m \in Nat /\ DOMAIN t = 1 .. m /\ Len(t) = m
        /\ \A k \in 1 .. m : t[k] = dims[d + k] /\ t[k] \in Nat
    <2>1. /\ t \in Seq(Nat) /\ m \in Nat /\ Len(t) = m
          /\ \A k \in 1 .. m : t[k] = dims[(d + 1) + k - 1]
      BY <1>1, <1>4
    <2>2. \A k \in 1 .. m : (d + 1) + k - 1 = d + k
      BY <1>1, <1>4
    <2>3. QED
      BY <2>1, <2>2
  <1> DEFINE F == [p \in (1 .. m) \X Nat |-> (p[2] * t[p[1]]) % M]
  <1>6. ASSUME NEW a \in Nat, NEW b \in Nat PROVE (a * b) % M \in Nat
    <2>1. PICK x : x = a * b
      OBVIOUS
    <2>2. x \in Nat
      BY <2>1
    <2>3. x % M \in Nat
      BY <1>3, <2>2
    <2>4. QED
      BY <2>1, <2>3
  <1>7. F \in [(1 .. m) \X Nat -> Nat]
    <2>1. \A p \in (1 .. m) \X Nat : p[1] \in 1 .. m /\ p[2] \in Nat /\ t[p[1]] \in Nat
      BY <1>5
    <2> QED BY <1>6, <2>1
  <1>8. PICK it : IsFold(m, Nat, 1, F, it)
    <2> HIDE DEF F
    <2>1. 1 \in Nat
      OBVIOUS
    <2> QED BY <1>5, <1>7, <2>1, FoldExists
  <1>9. it \in [SUBSET (1 .. m) -> Nat]
    BY <1>8 DEF IsFold
  <1>10. it = [s \in SUBSET (1 .. m) |->
                 IF s = {} THEN 1
                 ELSE (it[s \ {Max(s)}] * SubSeq(dims, d + 1, Len(dims))[Max(s)]) % 2^Bits]
    <2>1. ASSUME NEW s \in SUBSET (1 .. m), s # {}
          PROVE  it[s] = (it[s \ {Max(s)}] * t[Max(s)]) % M
      <3>1. Max(s) \in 1 .. m
        BY <1>5, <2>1, MaxIs
      <3>2. it[s \ {Max(s)}] \in Nat
        BY <1>9
      <3>3. it[s] = F[<<Max(s), it[s \ {Max(s)}]>>]
        BY <1>8, <2>1 DEF IsFold
      <3> QED BY <3>1, <3>2, <3>3
    <2>2. \A s \in SUBSET (1 .. m) : it[s] =
                 IF s = {} THEN 1 ELSE (it[s \ {Max(s)}] * t[Max(s)]) % M
      BY <1>8, <2>1 DEF IsFold
    <2> QED BY <1>2, <1>4, <1>9, <2>2
  <1> DEFINE c == CHOOSE f : f = [s \in SUBSET (1 .. m) |->
                 IF s = {} THEN 1
                 ELSE (f[s \ {Max(s)}] * SubSeq(dims, d + 1, Len(dims))[Max(s)]) % 2^Bits]
  <1>11. Strides(dims)[d] = c[1 .. m]
    <2>1. d \in DOMAIN dims
      BY <1>1
    <2>2. DOMAIN SubSeq(dims, d + 1, Len(dims)) = 1 .. m
      BY <1>4, <1>5
    <2>3. QED
      BY <2>1, <2>2, Zenon DEF Strides, FoldLeft, MapThenFoldSet
  <1>11a. c = [s \in SUBSET (1 .. m) |->
                 IF s = {} THEN 1
                 ELSE (c[s \ {Max(s)}] * SubSeq(dims, d + 1, Len(dims))[Max(s)]) % 2^Bits]
    BY <1>10, Zenon
  <1> HIDE DEF c
  <1>12. c = [s \in SUBSET (1 .. m) |->
                 IF s = {} THEN 1 ELSE (c[s \ {Max(s)}] * t[Max(s)]) % M]
    BY <1>2, <1>4, <1>11a
  <1>13. \A k \in 0 .. m : c[1 .. k] = P[d + 1 .. d + k]
    <2> DEFINE Q == {k \in 0 .. m : c[1 .. k] = P[d + 1 .. d + k]}
    <2>1. 0 \in Q
      <3>1. 1 .. 0 = {} /\ d + 1 .. d + 0 = {}
        BY <1>1
      <3>2. c[{}] = 1 /\ P[{}] = 1
        BY <1>12 DEF IsProduct
      <3>3. QED
        BY <1>5, <3>1, <3>2
    <2>2. ASSUME NEW k \in 0 .. m - 1, k \in Q PROVE k + 1 \in Q
      <3>1. k \in Nat /\ k + 1 \in 1 .. m /\ 1 .. k + 1 \in SUBSET (1 .. m) /\ 1 .. k + 1 # {}
        BY <1>5, PrefixOf
      <3>2. c[1 .. k + 1] = (c[(1 .. k + 1) \ {Max(1 .. k + 1)}] * t[Max(1 .. k + 1)]) % M
        BY <1>12, <3>1
      <3>3. c[1 .. k + 1] = (c[1 .. k] * t[k + 1]) % M
        BY <3>1, <3>2, LastOf
      <3>4. PICK u, v, e : u = d + 1 .. d + (k + 1) /\ v = d + 1 .. d + k /\ e = d + (k + 1)
        OBVIOUS
      <3>5. /\ e \in u /\ u \ {e} = v /\ u \in SUBSET (1 .. n) /\ v \in SUBSET (1 .. n)
        <4>1. n \in Nat /\ d \in Nat /\ d >= 1 /\ m = n - d /\ k \in Nat /\ k + 1 <= m
          BY <1>1, <1>4, <1>5, <3>1
        <4>2. e \in Nat /\ e = d + (k + 1) /\ e <= n /\ e >= 1
          BY <3>4, <4>1
        <4>3. \A y \in u : y \in 1 .. n
          BY <3>4, <4>1, <4>2
        <4>4. \A y \in v : y \in 1 .. n
          BY <3>4, <4>1, <4>2
        <4>5. e \in u
          BY <3>4, <4>1, <4>2
        <4>6. \A y : y \in u \ {e} <=> y \in v
          BY <3>4, <4>1, <4>2
        <4>7. QED
          BY <4>3, <4>4, <4>5, <4>6
      <3>6. P[u] = P[v] * dims[e] /\ P[u] \in Nat /\ P[u] <= P[1 .. n]
        <4>1. P[u] = P[u \ {e}] * dims[e]
          BY <3>5 DEF IsProduct
        <4>2. P[u] \in Nat /\ P[u] <= P[1 .. n]
          BY <1>1, <3>5, ProductGrows
        <4>3. QED
          BY <3>5, <4>1, <4>2
      <3>7. t[k + 1] = dims[e]
        BY <1>5, <3>1, <3>4
      <3>8. c[1 .. k + 1] = P[u] % M
        BY <2>2, <3>3, <3>4, <3>6, <3>7
      <3>9. P[u] < M
        <4>1. P[1 .. n] \in Nat
          BY <1>1 DEF IsProduct
        <4>2. QED
          BY <1>3, <3>6, <4>1
      <3>10. P[u] % M = P[u]
        <4>1. PICK x : x = P[u]
          OBVIOUS
        <4>2. x \in Nat /\ x < M
          BY <3>6, <3>9, <4>1
        <4>3. x % M = x
          BY <1>3, <4>2, RemainderOf
        <4>4. QED
          BY <4>1, <4>3
      <3>11. QED
        BY <3>1, <3>4, <3>8, <3>10
    <2> HIDE DEF Q
    <2>3. \A k \in 0 .. m : k \in Q
      BY <1>5, <2>1, <2>2, UpTo
    <2>4. QED
      BY <2>3 DEF Q
  <1>14. QED
    <2>1. m \in 0 .. m /\ d + m = n
      BY <1>1, <1>4, <1>5
    <2>2. QED
      BY <1>11, <1>13, <2>1

\* Division by a stride gives a coordinate in its dimension.
LEMMA QuotientIs ==
    ASSUME NEW s \in Nat, s >= 1, NEW w \in Nat, NEW x \in Nat, x < s * w
    PROVE  x \div s \in Nat /\ x \div s < w
  <1>1. PICK q, r : q = x \div s /\ r = x % s
    OBVIOUS
  <1>2. q \in Nat /\ r \in Nat /\ x = s * q + r /\ r < s
    BY <1>1
  <1>3. q < w
    <2> SUFFICES ASSUME ~(q < w) PROVE FALSE
      OBVIOUS
    <2>1. PICK f : f = q - w
      OBVIOUS
    <2>2. f \in Nat /\ q = w + f
      BY <1>2, <2>1
    <2>3. s * (w + f) = s * w + s * f /\ s * f \in Nat /\ s * w \in Nat
      BY <2>2
    <2>4. QED
      BY <1>2, <2>2, <2>3
  <1>4. QED
    BY <1>1, <1>2, <1>3

\* Every element has coordinates, each within its dimension.
LEMMA CoordinatesAre ==
    ASSUME NEW dims \in Seq(Nat), NEW n, n = Len(dims), NEW P, IsProduct(n, dims, P),
           P[1 .. n] # 0, n >= 1 => P[1 .. n] <= UsizeMax,
           NEW flat \in Nat, flat < P[1 .. n], NEW d \in 1 .. n
    PROVE  /\ UnravelIndex(flat, dims)[d] \in Nat
           /\ UnravelIndex(flat, dims)[d] < dims[d]
  <1>1. /\ n \in Nat /\ DOMAIN dims = 1 .. n /\ dims \in [1 .. n -> Nat] /\ d \in Nat
        /\ P[1 .. n] <= UsizeMax
    OBVIOUS
  <1>2. PICK st : st = Strides(dims)
    OBVIOUS
  <1>3. \A e \in 1 .. n : st[e] = P[e + 1 .. n]
    <2> SUFFICES ASSUME NEW e \in 1 .. n PROVE st[e] = P[e + 1 .. n]
      OBVIOUS
    <2>0. n \in Nat /\ P[1 .. n] <= UsizeMax
      BY <1>1
    <2>1. Strides(dims)[e] = P[e + 1 .. n]
      BY <2>0, StridesAre
    <2>2. QED
      BY <1>2, <2>1
  <1>4. PICK rem : rem = IF d = 1 THEN flat ELSE flat % st[d - 1]
    OBVIOUS
  <1>5. UnravelIndex(flat, dims)[d] = rem \div st[d]
    BY <1>1, <1>2, <1>4, Zenon DEF UnravelIndex
  <1>6. PICK u, v : u = d .. n /\ v = d + 1 .. n
    OBVIOUS
  <1>7. u \in SUBSET (1 .. n) /\ v \in SUBSET (1 .. n) /\ d \in u /\ u \ {d} = v
    BY <1>1, <1>6
  <1>8. P[u] = P[v] * dims[d]
    BY <1>7 DEF IsProduct
  <1>9. P[u] \in Nat /\ P[v] \in Nat /\ P[u] >= 1 /\ P[v] >= 1
    BY <1>1, <1>7, ProductGrows
  <1>10. rem \in Nat /\ rem < P[u]
    <2>1. CASE d = 1
      BY <1>4, <1>6, <2>1
    <2>2. CASE d # 1
      <3>1. d - 1 \in 1 .. n /\ (d - 1) + 1 = d
        BY <1>1, <2>2
      <3>2. st[d - 1] = P[u]
        BY <1>3, <1>6, <3>1
      <3>3. rem = flat % P[u]
        BY <1>4, <2>2, <3>2
      <3>4. QED
        BY <1>9, <3>3
    <2>3. QED
      BY <2>1, <2>2
  <1>11. st[d] = P[v]
    BY <1>3, <1>6
  <1>12. dims[d] \in Nat
    BY <1>1
  <1>13. PICK s, w, x : s = P[v] /\ w = dims[d] /\ x = rem
    OBVIOUS
  <1>14. s \in Nat /\ s >= 1 /\ w \in Nat /\ x \in Nat /\ x < s * w
    BY <1>8, <1>9, <1>10, <1>12, <1>13
  <1>15. x \div s \in Nat /\ x \div s < w
    BY <1>14, QuotientIs
  <1>16. QED
    BY <1>5, <1>11, <1>13, <1>15

\* And coordinates within the dimensions are those of an element.
LEMMA IndexIs ==
    ASSUME NEW dims \in Seq(Nat), NEW n, n = Len(dims), NEW P, IsProduct(n, dims, P),
           P[1 .. n] # 0, n >= 1 => P[1 .. n] <= UsizeMax,
           NEW index \in [1 .. n -> Nat], \A d \in 1 .. n : index[d] < dims[d]
    PROVE  RavelIndex(index, dims) \in Nat /\ RavelIndex(index, dims) < P[1 .. n]
  <1>1. n \in Nat /\ DOMAIN dims = 1 .. n /\ dims \in [1 .. n -> Nat] /\ DOMAIN index = 1 .. n
    OBVIOUS
  <1>2. PICK st : st = Strides(dims)
    OBVIOUS
  <1>3. \A d \in 1 .. n : st[d] = P[d + 1 .. n] /\ st[d] \in Nat
    <2> SUFFICES ASSUME NEW d \in 1 .. n PROVE st[d] = P[d + 1 .. n] /\ st[d] \in Nat
      OBVIOUS
    <2>1. n >= 1 /\ P[1 .. n] <= UsizeMax
      BY <1>1
    <2>2. st[d] = P[d + 1 .. n]
      BY <1>2, <2>1, StridesAre
    <2>3. d + 1 .. n \in SUBSET (1 .. n)
      BY <1>1
    <2>4. P[d + 1 .. n] \in Nat
      BY <1>1, <2>3, ProductGrows
    <2>5. QED
      BY <2>2, <2>4
  <1>4. PICK t : t = [k \in DOMAIN index |-> k]
    OBVIOUS
  <1>5. DOMAIN t = 1 .. n /\ \A k \in 1 .. n : t[k] = k
    BY <1>1, <1>4
  <1> DEFINE F == [p \in (1 .. n) \X Nat |-> p[2] + index[p[1]] * st[p[1]]]
  <1>6. F \in [(1 .. n) \X Nat -> Nat]
    <2>1. \A p \in (1 .. n) \X Nat : p[2] \in Nat /\ index[p[1]] \in Nat /\ st[p[1]] \in Nat
      BY <1>3
    <2>2. \A a \in Nat : \A b \in Nat : \A e \in Nat : a + b * e \in Nat
      OBVIOUS
    <2> QED BY <2>1, <2>2
  <1>7. PICK it : IsFold(n, Nat, 0, F, it)
    <2> HIDE DEF F
    <2>1. 0 \in Nat
      OBVIOUS
    <2> QED BY <1>1, <1>6, <2>1, FoldExists
  <1>8. it \in [SUBSET (1 .. n) -> Nat]
    BY <1>7 DEF IsFold
  <1>9. it = [s \in SUBSET (1 .. n) |->
                 IF s = {} THEN 0
                 ELSE it[s \ {Max(s)}] + index[[k \in DOMAIN index |-> k][Max(s)]]
                                           * Strides(dims)[[k \in DOMAIN index |-> k][Max(s)]]]
    <2>1. ASSUME NEW s \in SUBSET (1 .. n), s # {}
          PROVE  it[s] = it[s \ {Max(s)}] + index[t[Max(s)]] * st[t[Max(s)]]
      <3>1. Max(s) \in 1 .. n
        BY <1>1, <2>1, MaxIs
      <3>2. it[s \ {Max(s)}] \in Nat /\ t[Max(s)] = Max(s)
        BY <1>5, <1>8, <3>1
      <3>3. it[s] = F[<<Max(s), it[s \ {Max(s)}]>>]
        BY <1>7, <2>1 DEF IsFold
      <3> QED BY <3>1, <3>2, <3>3
    <2>2. \A s \in SUBSET (1 .. n) : it[s] =
                 IF s = {} THEN 0
                 ELSE it[s \ {Max(s)}] + index[t[Max(s)]] * st[t[Max(s)]]
      BY <1>7, <2>1 DEF IsFold
    <2> QED BY <1>2, <1>4, <1>8, <2>2
  <1> DEFINE G(f) == [s \in SUBSET (1 .. n) |->
                 IF s = {} THEN 0
                 ELSE f[s \ {Max(s)}] + index[[k \in DOMAIN index |-> k][Max(s)]]
                                          * Strides(dims)[[k \in DOMAIN index |-> k][Max(s)]]]
             c == CHOOSE f : f = G(f)
  <1>10. RavelIndex(index, dims) = c[1 .. n]
    <2>1. DOMAIN [k \in DOMAIN index |-> k] = 1 .. n
      BY <1>1
    <2>2. QED
      BY <2>1, Zenon DEF RavelIndex, FoldLeftDomain, FoldLeft, MapThenFoldSet
  <1>9a. it = G(it)
    BY <1>9
  <1>10a. c = G(c)
    <2> HIDE DEF G
    <2>1. QED
      BY <1>9a, Zenon
  <1> HIDE DEF c
  <1>11. c = [s \in SUBSET (1 .. n) |->
                 IF s = {} THEN 0
                 ELSE c[s \ {Max(s)}] + index[t[Max(s)]] * st[t[Max(s)]]]
    BY <1>2, <1>4, <1>10a
  <1>12. \A k \in 0 .. n : c[1 .. k] \in Nat /\ c[1 .. k] + P[k + 1 .. n] <= P[1 .. n]
    <2> DEFINE Q == {k \in 0 .. n : c[1 .. k] \in Nat /\ c[1 .. k] + P[k + 1 .. n] <= P[1 .. n]}
    <2>1. 0 \in Q
      <3>1. 1 .. 0 = {} /\ 0 + 1 .. n = 1 .. n
        OBVIOUS
      <3>2. c[{}] = 0 /\ P[1 .. n] \in Nat
        BY <1>11 DEF IsProduct
      <3>3. QED
        BY <1>1, <3>1, <3>2
    <2>2. ASSUME NEW k \in 0 .. n - 1, k \in Q PROVE k + 1 \in Q
      <3>1. k \in Nat /\ k + 1 \in 1 .. n /\ 1 .. k + 1 \in SUBSET (1 .. n) /\ 1 .. k + 1 # {}
        BY <1>1, PrefixOf
      <3>2. c[1 .. k + 1] = c[(1 .. k + 1) \ {Max(1 .. k + 1)}]
                              + index[t[Max(1 .. k + 1)]] * st[t[Max(1 .. k + 1)]]
        BY <1>11, <3>1
      <3>3. c[1 .. k + 1] = c[1 .. k] + index[k + 1] * st[k + 1]
        BY <1>5, <3>1, <3>2, LastOf
      <3>4. PICK u, v, e : u = k + 1 .. n /\ e = k + 1 /\ v = (k + 1) + 1 .. n
        OBVIOUS
      <3>5. e \in u /\ u \ {e} = v /\ u \in SUBSET (1 .. n) /\ v \in SUBSET (1 .. n) /\ e \in 1 .. n
        BY <1>1, <3>1, <3>4
      <3>6. P[u] = P[v] * dims[e] /\ P[u] \in Nat /\ P[v] \in Nat /\ P[1 .. n] \in Nat
        BY <1>1, <3>5 DEF IsProduct
      <3>7. st[e] = P[v] /\ index[e] \in Nat /\ dims[e] \in Nat /\ index[e] < dims[e]
        BY <1>1, <1>3, <3>4, <3>5
      <3>8. PICK a, b, x, y, z, w, p : /\ a = c[1 .. k] /\ b = c[1 .. k + 1] /\ x = index[e]
                                       /\ y = dims[e] /\ z = P[v] /\ w = P[u] /\ p = P[1 .. n]
        OBVIOUS
      <3>9. /\ a \in Nat /\ a + w <= p /\ b = a + x * z /\ w = z * y
            /\ x \in Nat /\ y \in Nat /\ z \in Nat /\ w \in Nat /\ p \in Nat /\ x < y
        BY <2>2, <3>3, <3>4, <3>6, <3>7, <3>8
      <3>10. b \in Nat /\ b + z <= p
        <4>1. PICK f : f = (y - x) - 1
          OBVIOUS
        <4>2. f \in Nat /\ y = (x + 1) + f
          BY <3>9, <4>1
        <4>3. z * ((x + 1) + f) = (x * z + z) + z * f /\ z * f \in Nat /\ x * z \in Nat
          BY <3>9, <4>2
        <4>4. PICK g, h : g = x * z /\ h = z * f
          OBVIOUS
        <4>5. w = (g + z) + h /\ g \in Nat /\ h \in Nat /\ b = a + g
          BY <3>9, <4>2, <4>3, <4>4
        <4>6. QED
          BY <3>9, <4>5
      <3>11. QED
        BY <3>1, <3>4, <3>8, <3>10
    <2> HIDE DEF Q
    <2>3. \A k \in 0 .. n : k \in Q
      BY <1>1, <2>1, <2>2, UpTo
    <2>4. QED
      BY <2>3 DEF Q
  <1>13. QED
    <2>1. n \in 0 .. n /\ n + 1 .. n = {} /\ P[{}] = 1 /\ P[1 .. n] \in Nat
      BY <1>1 DEF IsProduct
    <2>2. c[1 .. n] \in Nat /\ c[1 .. n] + 1 <= P[1 .. n]
      BY <1>12, <2>1
    <2>3. QED
      BY <1>10, <2>1, <2>2

(* Transposition *)

\* The dimensions of a shape, as a function.
LEMMA SequenceIs ==
    ASSUME NEW s \in Seq(Nat) PROVE Len(s) \in Nat /\ s \in [1 .. Len(s) -> Nat]
  OBVIOUS

\* q takes the positions 1 .. n in another order, and v is w in that order.
Reorders(n, q, w, v) ==
    /\ q \in [1 .. n -> 1 .. n]
    /\ \A d \in 1 .. n : \E o \in 1 .. n : q[o] = d
    /\ \A o \in 1 .. n : v[o] = w[q[o]]

\* A product does not change when its factors are taken in another order.
LEMMA ProductsPermuted ==
    ASSUME NEW n \in Nat, NEW w \in [1 .. n -> Nat], NEW v \in [1 .. n -> Nat],
           NEW q, Reorders(n, q, w, v),
           NEW P, IsProduct(n, w, P), NEW R, IsProduct(n, v, R)
    PROVE  R[1 .. n] = P[1 .. n]
  <1>1. \A a \in 1 .. n : \A b \in 1 .. n : q[a] = q[b] => a = b
    <2>1. IsFiniteSet(1 .. n)
      BY FS_Interval
    <2>2. q \in Surjection(1 .. n, 1 .. n)
      BY DEF Surjection, Reorders
    <2>3. q \in Injection(1 .. n, 1 .. n)
      BY <2>1, <2>2, FS_SurjSameCardinalityImpliesInj, Zenon
    <2>4. QED
      BY <2>3 DEF Injection, IsInjective
  <1>0. /\ P[{}] = 1 /\ \A s \in SUBSET (1 .. n) : \A x \in s : P[s] = P[s \ {x}] * w[x]
        /\ R[{}] = 1 /\ \A s \in SUBSET (1 .. n) : \A x \in s : R[s] = R[s \ {x}] * v[x]
    BY DEF IsProduct
  <1> DEFINE T == [k \in 0 .. n |-> {q[a] : a \in 1 .. k}]
  <1>a. \A k \in 0 .. n : T[k] = {q[a] : a \in 1 .. k}
    OBVIOUS
  <1>b. T[0] = {}
    OBVIOUS
  <1>c. T[n] = 1 .. n
    <2>1. T[n] = {q[a] : a \in 1 .. n}
      OBVIOUS
    <2>2. QED
      BY <2>1 DEF Reorders
  <1> HIDE DEF T
  <1> DEFINE Q == {k \in 0 .. n : R[1 .. k] = P[T[k]]}
  <1>2. 0 \in Q
    <2>1. 1 .. 0 = {}
      OBVIOUS
    <2>2. R[{}] = P[{}]
      BY <1>0
    <2>3. R[1 .. 0] = P[T[0]]
      BY <1>b, <2>1, <2>2
    <2>4. 0 \in 0 .. n
      OBVIOUS
    <2>5. QED
      BY <2>3, <2>4
  <1>3. ASSUME NEW k \in 0 .. n - 1, k \in Q PROVE k + 1 \in Q
    <2>0. PICK t, u : t = 1 .. k + 1 /\ u = 1 .. k
      OBVIOUS
    <2>2. /\ k \in Nat /\ k + 1 \in 1 .. n /\ k + 1 \in t /\ t \ {k + 1} = u
          /\ t \in SUBSET (1 .. n) /\ u \in SUBSET (1 .. n)
      <3>1. k \in Nat /\ k + 1 <= n
        OBVIOUS
      <3> HIDE DEF Q
      <3>2. QED
        BY <2>0, <3>1
    <2>1. PICK s, z, e : s = {q[a] : a \in t} /\ z = {q[a] : a \in u} /\ e = q[k + 1]
      OBVIOUS
    <2>1a. s = T[k + 1] /\ z = T[k]
      <3>1. k \in 0 .. n /\ k + 1 \in 0 .. n
        BY <2>2
      <3>2. QED
        BY <1>a, <2>0, <2>1, <3>1
    <2>3. R[t] = R[u] * v[k + 1]
      BY <1>0, <2>2
    <2>4. e \in s /\ s \in SUBSET (1 .. n)
      <3>1. \A a \in t : q[a] \in 1 .. n
        BY <2>2 DEF Reorders
      <3>2. QED
        BY <2>1, <2>2, <3>1
    <2>5. s \ {e} = z
      <3>1. \A y \in z : y \in s /\ y # e
        <4> SUFFICES ASSUME NEW a \in u PROVE q[a] \in s /\ q[a] # e
          BY <2>1
        <4>1. a \in 1 .. n /\ a \in t /\ a # k + 1
          BY <2>2
        <4>2. QED
          BY <1>1, <2>1, <2>2, <4>1
      <3>2. \A y \in s : y # e => y \in z
        <4> SUFFICES ASSUME NEW a \in t, q[a] # e PROVE q[a] \in z
          BY <2>1
        <4>1. a # k + 1
          BY <2>1
        <4>2. a \in u
          BY <2>2, <4>1
        <4>3. QED
          BY <2>1, <4>2
      <3>3. QED
        BY <3>1, <3>2
    <2>6. P[s] = P[z] * w[e]
      BY <1>0, <2>4, <2>5
    <2>7. v[k + 1] = w[e]
      BY <2>1, <2>2 DEF Reorders
    <2>8. R[u] = P[z]
      BY <1>3, <2>0, <2>1a
    <2>9. R[1 .. k + 1] = P[T[k + 1]]
      BY <2>0, <2>1a, <2>3, <2>6, <2>7, <2>8
    <2>10. QED
      BY <2>2, <2>9
  <1> HIDE DEF Q
  <1>4. \A k \in 0 .. n : k \in Q
    BY <1>2, <1>3, UpTo
  <1>5. R[1 .. n] = P[T[n]]
    <2>1. n \in Q
      BY <1>4
    <2>2. QED
      BY <2>1 DEF Q
  <1>6. QED
    BY <1>c, <1>5

\* Dimension d of the output is dimension perm[d] of the input, counted from 0.
Permutes(n, perm, xd, od) ==
    /\ perm \in [1 .. n -> 0 .. n - 1]
    /\ \A d \in 1 .. n : \E o \in 1 .. n : perm[o] = d - 1
    /\ \A d \in 1 .. n : od[d] = xd[perm[d] + 1]

\* The coordinates an element of a transposition is read at.
SourceIndex(n, perm, od, flat) ==
    [d \in 1 .. n |-> UnravelIndex(flat, od)[CHOOSE o \in 1 .. n : perm[o] = d - 1]]

\* Every element of a transposition is read inside its input.
LEMMA TransposeReads ==
    ASSUME NEW xd \in Seq(Nat), NEW od \in Seq(Nat), NEW n, n = Len(xd), n = Len(od),
           NEW perm, Permutes(n, perm, xd, od), NEW len, len = NumEl(xd), len # Overflow,
           NEW flat \in Nat, flat < len,
           NEW index, index = SourceIndex(n, perm, od, flat)
    PROVE  RavelIndex(index, xd) \in Nat /\ RavelIndex(index, xd) < len
  <1>1. /\ n \in Nat /\ xd \in [1 .. n -> Nat] /\ od \in [1 .. n -> Nat]
    <2>1. n \in Nat
      OBVIOUS
    <2>2. xd \in [1 .. Len(xd) -> Nat]
      BY SequenceIs
    <2>3. od \in [1 .. Len(od) -> Nat]
      BY SequenceIs
    <2>4. QED
      BY <2>1, <2>2, <2>3
  <1>2. PICK P : IsProduct(n, xd, P)
    BY <1>1, ProductExists
  <1>3. PICK R : IsProduct(n, od, R)
    BY <1>1, ProductExists
  <1>4. len = P[1 .. n] /\ (n >= 1 => P[1 .. n] <= UsizeMax)
    BY <1>2, NumElIs
  <1>5. R[1 .. n] = P[1 .. n]
    <2>1. PICK q : q = [d \in 1 .. n |-> perm[d] + 1]
      OBVIOUS
    <2>2. \A d \in 1 .. n : q[d] = perm[d] + 1 /\ perm[d] \in 0 .. n - 1
      BY <2>1 DEF Permutes
    <2>3. \A d \in 1 .. n : \E o \in 1 .. n : q[o] = d
      <3> SUFFICES ASSUME NEW d \in 1 .. n PROVE \E o \in 1 .. n : q[o] = d
        OBVIOUS
      <3>1. PICK o \in 1 .. n : perm[o] = d - 1
        BY DEF Permutes
      <3>2. q[o] = d
        BY <2>2, <3>1
      <3>3. QED
        BY <3>2
    <2>4. \A o \in 1 .. n : od[o] = xd[q[o]]
      BY <2>2 DEF Permutes
    <2>5. q \in [1 .. n -> 1 .. n]
      BY <1>1, <2>1, <2>2
    <2>6. Reorders(n, q, xd, od)
      BY <2>3, <2>4, <2>5 DEF Reorders
    <2>7. QED
      BY <1>1, <1>2, <1>3, <2>6, ProductsPermuted
  <1>6. len \in Nat /\ len # 0
    <2>1. P[1 .. n] \in Nat
      BY <1>2 DEF IsProduct
    <2>2. QED
      BY <1>4, <2>1
  <1>7. \A d \in 1 .. n : index[d] \in Nat /\ index[d] < xd[d]
    <2> SUFFICES ASSUME NEW d \in 1 .. n PROVE index[d] \in Nat /\ index[d] < xd[d]
      OBVIOUS
    <2>1. PICK o : o = CHOOSE a \in 1 .. n : perm[a] = d - 1
      OBVIOUS
    <2>2. o \in 1 .. n /\ perm[o] = d - 1
      BY <2>1 DEF Permutes
    <2>3. od[o] = xd[d]
      <3>1. perm[o] + 1 = d
        BY <1>1, <2>2
      <3>2. QED
        BY <2>2, <3>1 DEF Permutes
    <2>4. R[1 .. n] # 0 /\ flat < R[1 .. n] /\ (n >= 1 => R[1 .. n] <= UsizeMax)
      BY <1>4, <1>5, <1>6
    <2>5. UnravelIndex(flat, od)[o] \in Nat /\ UnravelIndex(flat, od)[o] < od[o]
      BY <1>3, <2>2, <2>4, CoordinatesAre
    <2>6. index[d] = UnravelIndex(flat, od)[o]
      BY <2>1 DEF SourceIndex
    <2>7. QED
      BY <2>3, <2>5, <2>6
  <1>8. index \in [1 .. n -> Nat]
    BY <1>7 DEF SourceIndex
  <1>9. P[1 .. n] # 0
    BY <1>4, <1>6
  <1>10. RavelIndex(index, xd) \in Nat /\ RavelIndex(index, xd) < P[1 .. n]
    BY <1>2, <1>4, <1>7, <1>8, <1>9, IndexIs
  <1>11. QED
    BY <1>4, <1>10

\* A buffer fits a shape when it has as many elements, and there is such a number.
LEMMA FitsIs ==
    ASSUME NEW len, NEW dims, FitsShape(len, dims) = None
    PROVE  NumEl(dims) # Overflow /\ len = NumEl(dims)
  BY DEF FitsShape, Require, None

\* So a transposition of what was written is written.
LEMMA TransposeFills ==
    ASSUME NEW x, NEW m \in Nat, IsBuffer(x, m), Written(x, m), NEW xd \in Seq(Nat), NEW len \in Nat,
           NEW od \in Seq(Nat), NEW perm \in Seq(Nat)
    PROVE  Fills(Transpose(x, xd, len, od, perm), len)
  <1>1. PICK r, c1, c2 : /\ r = Transpose(x, xd, len, od, perm)
                         /\ c1 = FitsShape(Len(x), xd)
                         /\ c2 = Require(len = NumEl(xd), "SizeMismatch")
    OBVIOUS
  <1> DEFINE n == Len(xd)
             out == [j \in 1 .. len |-> At(x, RavelIndex([d \in 1 .. n |->
                       UnravelIndex(j - 1, od)[CHOOSE o \in 1 .. n : perm[o] = d - 1]], xd))]
             permuted == /\ Len(od) = n /\ Len(perm) = n
                         /\ ToSet(perm) = 0 .. n - 1
                         /\ \A d \in 1 .. n : od[d] = At(xd, perm[d])
  <1>2. r = Fails("ShapeMismatch") \/ (permuted /\ r = Answer(<<c1, c2>>, out))
    BY <1>1, Zenon DEF Fill, Transpose
  <1>3. <<c1, c2>> \in Seq(Errors)
    <2>1. c1 \in Errors /\ c2 \in Errors
      BY <1>1, FitsAre, ErrorsAre, NamesAreErrors
    <2>2. QED
      BY <2>1
  <1>4. ASSUME NEW e \in 1 .. len
        PROVE  out[e] = x[RavelIndex(SourceIndex(n, perm, od, e - 1), xd) + 1]
    BY DEF At, SourceIndex
  <1> HIDE DEF out
  <1>5. ASSUME permuted, Answer(<<c1, c2>>, out).err = None PROVE Written(out, len)
    <2>1. c1 = None /\ c2 = None
      <3>1. \A k \in 1 .. Len(<<c1, c2>>) : <<c1, c2>>[k] = None
        BY <1>3, <1>5, ChecksPassed
      <3>2. QED
        BY <3>1
    <2>2. NumEl(xd) # Overflow /\ Len(x) = NumEl(xd) /\ len = NumEl(xd)
      <3>1. c2 = None => len = NumEl(xd)
        BY <1>1 DEF Require, None
      <3>2. QED
        <4>1. FitsShape(Len(x), xd) = None
          BY <1>1, <2>1
        <4>2. NumEl(xd) # Overflow /\ Len(x) = NumEl(xd)
          BY <4>1, FitsIs
        <4>3. QED
          BY <2>1, <3>1, <4>2
    <2>3. m = len
      <3>1. Len(x) = m
        BY BufferLength
      <3>2. QED
        BY <2>2, <3>1
    <2>4. Permutes(n, perm, xd, od)
      <3>1. n \in Nat
        BY <1>1
      <3>2. ToSet(perm) = {perm[o] : o \in 1 .. n}
        <4>1. DOMAIN perm = 1 .. n
          BY <1>5
        <4>2. QED
          BY <4>1 DEF ToSet
      <3>3. perm \in [1 .. Len(perm) -> Nat]
        BY SequenceIs
      <3>4. perm \in [1 .. n -> 0 .. n - 1]
        BY <1>5, <3>2, <3>3
      <3>5. \A d \in 1 .. n : \E o \in 1 .. n : perm[o] = d - 1
        <4> SUFFICES ASSUME NEW d \in 1 .. n PROVE \E o \in 1 .. n : perm[o] = d - 1
          OBVIOUS
        <4>1. d - 1 \in 0 .. n - 1
          BY <3>1
        <4>2. QED
          BY <1>5, <3>2, <4>1
      <3>6. QED
        BY <1>5, <3>4, <3>5 DEF Permutes, At
    <2> SUFFICES ASSUME NEW e \in 1 .. len PROVE out[e] # Garbage
      BY DEF Written
    <2>5. PICK flat, index, k : /\ flat = e - 1 /\ index = SourceIndex(n, perm, od, flat)
                                /\ k = RavelIndex(index, xd)
      OBVIOUS
    <2>6. flat \in Nat /\ flat < len /\ len # Overflow
      BY <2>5 DEF Overflow
    <2>7. Len(od) = n
      BY <1>5
    <2>8. k \in Nat /\ k < len
      BY <1>1, <2>2, <2>4, <2>5, <2>6, <2>7, TransposeReads
    <2>9. k + 1 \in 1 .. m
      BY <2>3, <2>8
    <2>10. out[e] = x[k + 1]
      BY <1>4, <2>5
    <2>11. QED
      BY <2>9, <2>10 DEF Written
  <1>6. CASE r = Fails("ShapeMismatch")
    BY <1>1, <1>6, RefusalsFill
  <1>7. CASE permuted /\ r = Answer(<<c1, c2>>, out)
    <2>1. Answer(<<c1, c2>>, out).err = None => Written(out, len)
      BY <1>5, <1>7
    <2>2. r.err = None => r.out = out
      BY <1>7 DEF Answer
    <2>3. QED
      BY <1>1, <1>7, <2>1, <2>2 DEF Fills
  <1>8. QED
    BY <1>2, <1>6, <1>7

(* Concatenation *)

\* A column of the output, found in the block of an operand it comes from.
LEMMA ColumnIn ==
    ASSUME NEW e \in Nat, NEW T \in Nat, NEW B \in Nat, NEW m \in Nat, T >= 1, B >= 1,
           m % B = 0, e < (m \div B) * T, NEW c \in Nat, c < B
    PROVE  (e \div T) * B + c \in Nat /\ (e \div T) * B + c < m
  <1>1. PICK q, p : q = m \div B /\ p = e \div T
    OBVIOUS
  <1>2. q \in Nat /\ m = B * q
    <2>1. PICK z : z = m % B
      OBVIOUS
    <2>2. z = 0 /\ q \in Nat /\ m = B * q + z
      BY <1>1, <2>1
    <2>3. PICK y : y = B * q
      OBVIOUS
    <2>4. y \in Nat
      BY <2>2, <2>3
    <2>5. QED
      BY <2>2, <2>3, <2>4
  <1>3. p \in Nat /\ p < q
    <2>1. e < T * q
      <3>1. q * T = T * q
        BY <1>2
      <3>2. QED
        BY <1>1, <3>1
    <2>2. QED
      BY <1>1, <1>2, <2>1, QuotientIs
  <1>4. PICK f : f = (q - p) - 1
    OBVIOUS
  <1>5. f \in Nat /\ q = (p + 1) + f
    BY <1>2, <1>3, <1>4
  <1>6. B * ((p + 1) + f) = (p * B + B) + B * f /\ p * B \in Nat /\ B * f \in Nat
    BY <1>3, <1>5
  <1>7. PICK x, y : x = p * B /\ y = B * f
    OBVIOUS
  <1>8. x \in Nat /\ y \in Nat /\ m = (x + B) + y
    BY <1>2, <1>5, <1>6, <1>7
  <1>9. x + c \in Nat /\ x + c < m
    BY <1>8
  <1>10. QED
    BY <1>1, <1>7, <1>9

\* The columns of every block of the output that have been written.
Covered(s, len, block, columns) ==
    \A j \in 1 .. len : block > 0 /\ (j - 1) % block < columns => s[j] # Garbage

\* An operand is copied into the columns after those of the operands before it.
LEMMA CopyOneFills ==
    ASSUME NEW len \in Nat, NEW out0, IsBuffer(out0, len),
           NEW width \in Nat, NEW off \in Nat, NEW n \in Nat, NEW inner \in Nat,
           Covered(out0, len, width * inner, off * inner),
           NEW src, NEW m \in Nat, IsBuffer(src, m), Written(src, m),
           NEW r, r = ConcatCopyOne(out0, width, off, n, inner, src), r.err = None
    PROVE  /\ n >= 1 /\ inner >= 1
           /\ Covered(r.out, len, width * inner, (off + n) * inner)
  <1> DEFINE B == n * inner
             T == width * inner
             column(j) == ((j - 1) % T) - off * inner
             out == [j \in 1 .. len |->
                       IF column(j) \in 0 .. B - 1
                       THEN At(src, ((j - 1) \div T) * B + column(j))
                       ELSE At(out0, j - 1)]
  <1>1. PICK c1, c2, c3, c4 :
           /\ c1 = Require(B <= UsizeMax, "ShapeMismatch")
           /\ c2 = Require(Len(src) % B = 0, "SizeMismatch")
           /\ c3 = Require(T <= UsizeMax /\ (Len(src) \div B) * T <= UsizeMax, "ShapeMismatch")
           /\ c4 = Require(Len(out0) = (Len(src) \div B) * T, "SizeMismatch")
    OBVIOUS
  <1>2. Len(out0) = len /\ Len(src) = m
    BY BufferLength
  <1>3. \/ r = Fails("ShapeMismatch")
        \/ ~(n = 0 \/ inner = 0 \/ off + n > width) /\ r = Answer(<<c1, c2, c3, c4>>, out)
    BY <1>1, <1>2, Zenon DEF Fill, ConcatCopyOne
  <1>4. ~(n = 0 \/ inner = 0 \/ off + n > width) /\ r = Answer(<<c1, c2, c3, c4>>, out)
    <2>1. Fails("ShapeMismatch").err # None
      BY DEF Fails, None
    <2>2. QED
      BY <1>3, <2>1
  <1>5. <<c1, c2, c3, c4>> \in Seq(Errors)
    <2>1. c1 \in Errors /\ c2 \in Errors /\ c3 \in Errors /\ c4 \in Errors
      BY <1>1, ErrorsAre, NamesAreErrors
    <2>2. QED
      BY <2>1
  <1>6. c2 = None /\ c4 = None
    <2>1. \A k \in 1 .. Len(<<c1, c2, c3, c4>>) : <<c1, c2, c3, c4>>[k] = None
      BY <1>4, <1>5, ChecksPassed
    <2>2. QED
      BY <2>1
  <1>7. m % B = 0 /\ len = (m \div B) * T
    BY <1>1, <1>2, <1>6 DEF Require, None
  <1>8. r.out = out
    BY <1>4 DEF Answer
  <1>9. n >= 1 /\ inner >= 1 /\ off + n <= width
    BY <1>4
  <1>10. PICK A : A = off * inner
    OBVIOUS
  <1>11. /\ B \in Nat /\ T \in Nat /\ A \in Nat /\ B >= 1 /\ T >= 1
         /\ (off + n) * inner = A + B
    <2>1. n * inner >= 1 /\ n * inner \in Nat
      <3>1. PICK f : f = n - 1
        OBVIOUS
      <3>2. f \in Nat /\ n = f + 1
        BY <1>9, <3>1
      <3>3. (f + 1) * inner = f * inner + inner /\ f * inner \in Nat
        BY <3>2
      <3>4. QED
        BY <1>9, <3>2, <3>3
    <2>2. width * inner >= 1 /\ width * inner \in Nat
      <3>1. PICK f : f = width - 1
        OBVIOUS
      <3>2. f \in Nat /\ width = f + 1
        BY <1>9, <3>1
      <3>3. (f + 1) * inner = f * inner + inner /\ f * inner \in Nat
        BY <3>2
      <3>4. QED
        BY <1>9, <3>2, <3>3
    <2>3. (off + n) * inner = off * inner + n * inner /\ off * inner \in Nat
      OBVIOUS
    <2>4. QED
      BY <1>10, <2>1, <2>2, <2>3
  <1>12. ASSUME NEW j \in 1 .. len, (j - 1) % T < A + B PROVE out[j] # Garbage
    <2>1. PICK e, z, c, k : /\ e = j - 1 /\ z = e % T /\ c = z - A
                            /\ k = (e \div T) * B + c
      OBVIOUS
    <2>2. e \in Nat /\ e + 1 = j /\ e < (m \div B) * T /\ z \in Nat /\ z < A + B
      <3>1. e \in Nat /\ e + 1 = j /\ e < len
        BY <2>1
      <3>2. z \in Nat
        BY <1>11, <2>1, <3>1
      <3>3. QED
        BY <1>7, <1>12, <2>1, <3>1, <3>2
    <2>3. out[j] = IF c \in 0 .. B - 1 THEN At(src, k) ELSE At(out0, e)
      BY <1>10, <2>1
    <2> HIDE DEF out, B, T
    <2>4. CASE z < A
      <3>1. c \notin 0 .. B - 1
        BY <1>11, <2>1, <2>2, <2>4
      <3>2. out[j] = out0[j]
        BY <2>2, <2>3, <3>1 DEF At
      <3>3. out0[j] # Garbage
        BY <1>10, <1>11, <2>1, <2>4 DEF Covered, T
      <3>4. QED
        BY <3>2, <3>3
    <2>5. CASE ~(z < A)
      <3>1. c \in Nat /\ c < B
        BY <1>11, <2>1, <2>2, <2>5
      <3>2. c \in 0 .. B - 1
        BY <1>11, <3>1
      <3>3. k \in Nat /\ k < m
        BY <1>7, <1>11, <2>1, <2>2, <3>1, ColumnIn
      <3>4. out[j] = src[k + 1] /\ k + 1 \in 1 .. m
        BY <2>3, <3>2, <3>3 DEF At
      <3>5. QED
        BY <3>4 DEF Written
    <2>6. QED
      BY <2>4, <2>5
  <1> HIDE DEF out
  <1>13. Covered(r.out, len, width * inner, (off + n) * inner)
    <2> SUFFICES ASSUME NEW j \in 1 .. len, (j - 1) % (width * inner) < (off + n) * inner
                 PROVE  r.out[j] # Garbage
      BY DEF Covered
    <2>1. (j - 1) % T < A + B
      BY <1>11
    <2>2. QED
      BY <1>8, <1>12, <2>1
  <1>14. QED
    BY <1>9, <1>13

\* A port that holds a buffer somebody has written, and a shape of it.
FullPort(port) ==
    /\ port.dims \in Seq(Nat)
    /\ \E m \in Nat : IsBuffer(port.data, m) /\ Written(port.data, m)

\* What the loop over the operands has written, once it has been over k of them.
Spread(st, len, width, inner, k) ==
    /\ Copied(st, len)
    /\ st.err = None => /\ st.offset \in Nat
                        /\ k >= 1 => st.offset >= 1 /\ inner >= 1
                        /\ Covered(st.out, len, width * inner, st.offset * inner)

\* One turn of the loop writes the columns of its operand.
LEMMA CopyOperandSpreads ==
    ASSUME NEW len \in Nat, NEW dims \in Seq(Nat), NEW axis \in 1 .. Len(dims), NEW inner \in Nat,
           NEW k, NEW st, Spread(st, len, dims[axis], inner, k),
           NEW port, FullPort(port)
    PROVE  Spread(CopyOperand(st, port, dims, axis, inner), len, dims[axis], inner, k + 1)
  <1>1. PICK r : r = CopyOperand(st, port, dims, axis, inner)
    OBVIOUS
  <1>2. PICK c : c = ConcatCopyOne(st.out, dims[axis], st.offset, port.dims[axis], inner, port.data)
    OBVIOUS
  <1>3. Copied(r, len)
    BY <1>1, CopyOperandIs DEF Spread
  <1>4. \/ r = st /\ st.err # None
        \/ r = [st EXCEPT !.err = "ShapeMismatch"]
        \/ /\ st.err = None
           /\ Len(port.dims) = Len(dims)
           /\ r = [err |-> c.err, out |-> c.out, offset |-> st.offset + port.dims[axis]]
    BY <1>1, <1>2, Zenon DEF CopyOperand
  <1>5. ASSUME r.err = None
        PROVE  /\ r.offset \in Nat /\ r.offset >= 1 /\ inner >= 1
               /\ Covered(r.out, len, dims[axis] * inner, r.offset * inner)
    <2>1. "ShapeMismatch" # None
      BY DEF None
    <2>2. r # [st EXCEPT !.err = "ShapeMismatch"]
      <3>1. st = [err |-> st.err, out |-> st.out, offset |-> st.offset]
        BY DEF Spread, Copied
      <3>2. [st EXCEPT !.err = "ShapeMismatch"].err = "ShapeMismatch"
        BY <3>1
      <3>3. QED
        BY <1>5, <2>1, <3>2
    <2>3. /\ st.err = None
          /\ Len(port.dims) = Len(dims)
          /\ r = [err |-> c.err, out |-> c.out, offset |-> st.offset + port.dims[axis]]
      BY <1>4, <1>5, <2>2
    <2>4. PICK n, width, off : n = port.dims[axis] /\ width = dims[axis] /\ off = st.offset
      OBVIOUS
    <2>5. n \in Nat /\ width \in Nat
      <3>1. port.dims \in [1 .. Len(port.dims) -> Nat]
        BY SequenceIs DEF FullPort
      <3>2. dims \in [1 .. Len(dims) -> Nat]
        BY SequenceIs
      <3>3. QED
        BY <2>3, <2>4, <3>1, <3>2
    <2>6. off \in Nat /\ Covered(st.out, len, width * inner, off * inner) /\ IsBuffer(st.out, len)
      BY <2>3, <2>4 DEF Spread, Copied, Answers
    <2>7. PICK m \in Nat : IsBuffer(port.data, m) /\ Written(port.data, m)
      BY DEF FullPort
    <2>8. c = ConcatCopyOne(st.out, width, off, n, inner, port.data) /\ c.err = None
      BY <1>2, <1>5, <2>3, <2>4
    <2>9. n >= 1 /\ inner >= 1 /\ Covered(c.out, len, width * inner, (off + n) * inner)
      BY <2>5, <2>6, <2>7, <2>8, CopyOneFills
    <2>10. r.out = c.out /\ r.offset = off + n
      BY <2>3, <2>4
    <2>11. QED
      <3>1. r.offset \in Nat /\ r.offset >= 1 /\ inner >= 1
        BY <2>5, <2>6, <2>9, <2>10
      <3>2. PICK T, A : T = dims[axis] * inner /\ A = r.offset * inner
        OBVIOUS
      <3>3. T = width * inner /\ A = (off + n) * inner
        BY <2>4, <2>10, <3>2
      <3>4. Covered(r.out, len, T, A)
        BY <2>9, <2>10, <3>3
      <3>5. QED
        BY <3>1, <3>2, <3>4
  <1>6. QED
    BY <1>1, <1>3, <1>5 DEF Spread

\* When the columns of the operands are those of the output, nothing is left unwritten.
LEMMA ConcatFills ==
    ASSUME NEW op, NEW R, NEW ports \in Seq(R), NEW dims \in Seq(Nat), NEW len \in Nat, NEW blank,
           \A p \in 1 .. Len(ports) : FullPort(ports[p])
    PROVE  Fills(RunConcat(op, ports, dims, len, blank), len)
  <1> DEFINE n     == Len(ports)
             rank  == Len(dims)
             axis  == Axis(op.axis, rank) + 1
             width == dims[axis]
             inner == NumEl(SubSeq(dims, axis + 1, rank))
             base  == [err |-> None, out |-> [j \in 1 .. len |-> blank], offset |-> 0]
             end   == FoldLeft(LAMBDA st, port : CopyOperand(st, port, dims, axis, inner), base, ports)
             r     == RunConcat(op, ports, dims, len, blank)
             c     == CHOOSE f : f = [s \in SUBSET (1 .. n) |->
                 IF s = {} THEN base ELSE CopyOperand(f[s \ {Max(s)}], ports[Max(s)], dims, axis, inner)]
  <1>2. n \in Nat /\ DOMAIN ports = 1 .. n /\ rank \in Nat
    OBVIOUS
  <1>3. Copied(base, len)
    BY ErrorsAre DEF Copied, Answers, IsBuffer
  <1>4. \/ \E e : e # None /\ r = Fails(e)
        \/ /\ ~(n < 2) /\ ~(rank = 0 \/ axis \notin 1 .. rank \/ inner = Overflow)
           /\ end.err = None /\ end.offset = width /\ r = Writes(end.out)
    <2>1. "ShapeMismatch" # None /\ "Op.Invalid" # None
      BY DEF None
    <2>2. QED
      BY <2>1, Zenon DEF RunConcat
  <1>5. end = c[1 .. n]
    BY <1>2, Zenon DEF FoldLeft, MapThenFoldSet
  <1>6. base.err = None /\ base.offset = 0
    OBVIOUS
  <1>6a. r = RunConcat(op, ports, dims, len, blank)
    OBVIOUS
  <1> HIDE DEF n, rank, axis, width, inner, base, end, r
  <1>7. c = [s \in SUBSET (1 .. n) |->
                 IF s = {} THEN base ELSE CopyOperand(c[s \ {Max(s)}], ports[Max(s)], dims, axis, inner)]
    <2>1. \E it : IsCopying(ports, n, base, dims, axis, inner, it)
      BY <1>2, CopyingRuns
    <2>2. QED
      BY <2>1, Zenon DEF IsCopying
  <1> HIDE DEF c
  <1>8. ASSUME n >= 2, axis \in 1 .. rank, inner \in Nat, width \in Nat,
               end.err = None, end.offset = width
        PROVE  Written(end.out, len)
    <2> DEFINE P == {k \in 0 .. n : Spread(c[1 .. k], len, width, inner, k)}
    <2>1. 0 \in P
      <3>1. 1 .. 0 = {} /\ ~(0 >= 1) /\ 0 \in 0 .. n
        BY <1>2
      <3>2. c[{}] = base
        BY <1>7
      <3>3. Covered(base.out, len, width * inner, base.offset * inner)
        <4>1. base.offset * inner = 0
          BY <1>6, <1>8
        <4>2. ASSUME NEW j \in 1 .. len, width * inner > 0
              PROVE  ~((j - 1) % (width * inner) < 0)
          <5>1. PICK T, z : T = width * inner /\ z = j - 1
            OBVIOUS
          <5>2. T \in Nat /\ z \in Nat /\ T > 0
            BY <1>8, <4>2, <5>1
          <5>3. ~(z % T < 0)
            BY <5>2
          <5>4. QED
            BY <5>1, <5>3
        <4>3. QED
          BY <4>1, <4>2 DEF Covered
      <3>4. Spread(base, len, width, inner, 0)
        BY <1>3, <1>6, <3>3 DEF Spread
      <3>5. QED
        BY <3>1, <3>2, <3>4
    <2>2. ASSUME NEW k \in 0 .. n - 1, k \in P PROVE k + 1 \in P
      <3>1. k \in Nat /\ k + 1 \in 1 .. n /\ 1 .. k + 1 \in SUBSET (1 .. n) /\ 1 .. k + 1 # {}
        BY <1>2, PrefixOf
      <3>2. c[1 .. k + 1] = CopyOperand(c[(1 .. k + 1) \ {Max(1 .. k + 1)}], ports[Max(1 .. k + 1)],
                                        dims, axis, inner)
        BY <1>7, <3>1
      <3>3. c[1 .. k + 1] = CopyOperand(c[1 .. k], ports[k + 1], dims, axis, inner)
        BY <3>1, <3>2, LastOf
      <3>4. FullPort(ports[k + 1])
        BY <3>1 DEF n
      <3>5. Spread(c[1 .. k], len, width, inner, k)
        BY <2>2
      <3>6. Spread(c[1 .. k + 1], len, width, inner, k + 1)
        BY <1>8, <3>3, <3>4, <3>5, CopyOperandSpreads DEF width, rank
      <3>7. k + 1 >= 1 /\ k + 1 \in 0 .. n
        BY <3>1
      <3>8. QED
        BY <3>6, <3>7
    <2> HIDE DEF P
    <2>3. \A k \in 0 .. n : k \in P
      BY <1>2, <2>1, <2>2, UpTo
    <2>4. Spread(end, len, width, inner, n)
      <3>1. n \in 0 .. n /\ n >= 1
        BY <1>2, <1>8
      <3>2. n \in P
        BY <2>3, <3>1
      <3>3. QED
        BY <1>5, <3>1, <3>2 DEF P
    <2>5. /\ width >= 1 /\ inner >= 1
          /\ Covered(end.out, len, width * inner, width * inner)
      <3>1. n >= 1
        BY <1>2, <1>8
      <3>2. /\ end.offset >= 1 /\ inner >= 1
            /\ Covered(end.out, len, width * inner, end.offset * inner)
        BY <1>8, <2>4, <3>1 DEF Spread
      <3>3. QED
        BY <1>8, <3>2
    <2>6. PICK T : T = width * inner
      OBVIOUS
    <2>7. T \in Nat /\ T >= 1
      <3>1. PICK f : f = width - 1
        OBVIOUS
      <3>2. f \in Nat /\ width = f + 1
        BY <1>8, <2>5, <3>1
      <3>3. (f + 1) * inner = f * inner + inner /\ f * inner \in Nat
        BY <1>8, <3>2
      <3>4. QED
        <4>1. PICK g : g = f * inner
          OBVIOUS
        <4>2. g \in Nat /\ inner \in Nat /\ inner >= 1 /\ T = g + inner
          BY <1>8, <2>5, <2>6, <3>2, <3>3, <4>1
        <4>3. QED
          BY <4>2
    <2>8. \A j \in 1 .. len : (j - 1) % T < T
      BY <2>7
    <2>9. QED
      BY <2>5, <2>6, <2>7, <2>8 DEF Covered, Written
  <1>9. ASSUME ~(n < 2), ~(rank = 0 \/ axis \notin 1 .. rank \/ inner = Overflow),
               end.err = None, end.offset = width
        PROVE  Written(end.out, len)
    <2>1. n >= 2 /\ axis \in 1 .. rank
      BY <1>2, <1>9
    <2>2. width \in Nat
      <3>1. dims \in [1 .. Len(dims) -> Nat]
        BY SequenceIs
      <3>2. QED
        BY <2>1, <3>1 DEF width, rank
    <2>3. inner \in Nat
      <3>1. PICK t : t = SubSeq(dims, axis + 1, rank)
        OBVIOUS
      <3>2. axis \in Nat /\ axis + 1 \in 1 .. rank + 1
        BY <1>2, <2>1
      <3>3. t \in Seq(Nat)
        BY <1>2, <3>1, <3>2 DEF rank
      <3>4. PICK m : m = Len(t)
        OBVIOUS
      <3>5. m \in Nat /\ t \in [1 .. m -> Nat]
        BY <3>3, <3>4, SequenceIs
      <3>6. PICK Q : IsProduct(m, t, Q)
        BY <3>5, ProductExists
      <3>7. inner = NumEl(t) /\ NumEl(t) # Overflow
        BY <1>9, <3>1 DEF inner
      <3>8. NumEl(t) = Q[1 .. m]
        BY <3>3, <3>4, <3>6, <3>7, NumElIs
      <3>9. Q[1 .. m] \in Nat
        BY <3>6 DEF IsProduct
      <3>10. QED
        BY <3>7, <3>8, <3>9
    <2>4. QED
      BY <1>8, <1>9, <2>1, <2>2, <2>3
  <1>10. CASE \E e : e # None /\ r = Fails(e)
    BY <1>6a, <1>10, RefusalsFill
  <1>11. CASE /\ ~(n < 2) /\ ~(rank = 0 \/ axis \notin 1 .. rank \/ inner = Overflow)
              /\ end.err = None /\ end.offset = width /\ r = Writes(end.out)
    BY <1>6a, <1>9, <1>11 DEF Fills, Writes
  <1>12. QED
    BY <1>4, <1>10, <1>11

\* The dispatch of a MatMul.
LEMMA RunMatMulFills ==
    ASSUME NEW ports, NEW len PROVE Fills(RunMatMul(ports, len), len)
  BY RefusalsFill, MatMulFills, Zenon DEF RunMatMul

\* The dispatch of a Conv2d, with or without its bias.
LEMMA RunConv2dFills ==
    ASSUME NEW op, NEW ports, NEW dims, NEW len \in Nat
    PROVE  Fills(RunConv2d(op, ports, dims, len), len)
  <1>1. PICK r, c, rest :
           /\ r = RunConv2d(op, ports, dims, len)
           /\ c = Conv2d(ports[1].data, ports[1].dims, ports[2].data, ports[2].dims,
                         len, op.strides, op.padding)
           /\ rest = SubSeq(ports, 3, Len(ports))
    OBVIOUS
  <1>2. r \in {Fails("Op.Invalid"), Fails("ShapeMismatch"), AddBias(c, rest, dims)}
    BY <1>1, Zenon DEF RunConv2d
  <1>3. Answers(c, len) /\ Fills(c, len)
    BY <1>1, Conv2dAnswers, Conv2dFills
  <1>4. AddBias(c, rest, dims)
          = IF c.err # None \/ rest = <<>> THEN c
            ELSE AddInplaceBroadcast(c.out, dims, rest[1].data, rest[1].dims)
    BY DEF AddBias
  <1>5. c.err = None => Fills(AddInplaceBroadcast(c.out, dims, rest[1].data, rest[1].dims), len)
    <2>1. c.err = None => IsBuffer(c.out, len)
      BY <1>3 DEF Answers
    <2>2. QED
      BY <2>1, BiasFills
  <1>6. Fills(AddBias(c, rest, dims), len)
    BY <1>3, <1>4, <1>5
  <1>7. QED
    BY <1>1, <1>2, <1>6, RefusalsFill

\* The dispatch of an Add, Sub, Mul or Div.
LEMMA RunArithmeticFills ==
    ASSUME NEW kind, NEW ports, NEW dims, NEW len
    PROVE  Fills(RunArithmetic(kind, ports, dims, len), len)
  BY RefusalsFill, AdditionFills, BinaryFills, Zenon DEF RunArithmetic

\* The dispatch of a Softmax.
LEMMA RunSoftmaxFills ==
    ASSUME NEW op, NEW port, NEW len PROVE Fills(RunSoftmax(op, port, len), len)
  BY RefusalsFill, SoftmaxFills, Zenon DEF RunSoftmax

\* The dispatch of a BatchNorm.
LEMMA RunBatchNormFills ==
    ASSUME NEW ports, NEW len PROVE Fills(RunBatchNorm(ports, len), len)
  BY RefusalsFill, BatchNormFills, Zenon DEF RunBatchNorm

\* Whatever the operator: from ports somebody has written, a node that is not refused
\* is computed into a buffer it has written as a whole.
LEMMA RunFills ==
    ASSUME NEW op, op.kind \in Kinds, op.kind = "Transpose" => op.perm \in Seq(Nat),
           NEW R, NEW ports \in Seq(R), NEW dims \in Seq(Nat), NEW len \in Nat, NEW blank,
           \A p \in 1 .. Len(ports) : FullPort(ports[p])
    PROVE  Fills(Run(op, ports, dims, len, blank), len)
  <1>1. PICK k, r : k = op.kind /\ r = Run(op, ports, dims, len, blank)
    OBVIOUS
  <1>2. RunsAs(op, k, ports, dims, len, blank, r)
    BY <1>1, RunIs
  <1>3. CASE k = "MatMul"
    <2>1. r = RunMatMul(ports, len)
      BY <1>2, <1>3, Zenon DEF RunsAs
    <2>2. QED
      BY <1>1, <2>1, RunMatMulFills
  <1>4. CASE k = "Conv2d"
    <2>1. r = RunConv2d(op, ports, dims, len)
      BY <1>2, <1>4, Zenon DEF RunsAs
    <2>2. QED
      BY <1>1, <2>1, RunConv2dFills
  <1>5. CASE k \in Arithmetic
    <2>1. r = RunArithmetic(k, ports, dims, len)
      BY <1>2, <1>5, Zenon DEF RunsAs
    <2>2. QED
      BY <1>1, <2>1, RunArithmeticFills
  <1>6. CASE k = "BatchNorm"
    <2>1. r = RunBatchNorm(ports, len)
      BY <1>2, <1>6, Zenon DEF RunsAs
    <2>2. QED
      BY <1>1, <2>1, RunBatchNormFills
  <1>7. CASE k = "Concat"
    <2>1. r = RunConcat(op, ports, dims, len, blank)
      BY <1>2, <1>7, Zenon DEF RunsAs
    <2>2. QED
      BY <1>1, <2>1, ConcatFills
  <1>8. CASE k \in {"Input", "Custom"}
    <2>1. r = Fails("Unsupported")
      BY <1>2, <1>8, Zenon DEF RunsAs
    <2>2. QED
      BY <1>1, <2>1, RefusalsFill
  <1>9. ASSUME k \in ElementWise \cup Moves \cup Pools \cup {"Softmax", "Transpose"}
        PROVE  Fills(r, len)
    <2>1. CASE ports = <<>>
      <3>1. r = Fails("Op.Invalid")
        BY <1>2, <1>9, <2>1, Zenon DEF RunsAs
      <3>2. QED
        BY <3>1, RefusalsFill
    <2>2. ASSUME ports # <<>>
          PROVE  FullPort(ports[1])
      <3>1. Len(ports) \in Nat /\ Len(ports) # 0
        BY <2>2
      <3>2. 1 \in 1 .. Len(ports)
        BY <3>1
      <3>3. QED
        BY <3>2
    <2>3. CASE ports # <<>> /\ k \in ElementWise
      <3>1. r = Unary(k, ports[1].data, len)
        BY <1>2, <1>9, <2>3, Zenon DEF RunsAs
      <3>2. QED
        BY <3>1, UnaryFills
    <2>4. CASE ports # <<>> /\ k = "Softmax"
      <3>1. r = RunSoftmax(op, ports[1], len)
        BY <1>2, <1>9, <2>4, Zenon DEF RunsAs
      <3>2. QED
        BY <3>1, RunSoftmaxFills
    <2>5. CASE ports # <<>> /\ k \in Moves
      <3>1. r = CopyElements(ports[1].data, len)
        BY <1>2, <1>9, <2>5, Zenon DEF RunsAs
      <3>2. PICK m \in Nat : IsBuffer(ports[1].data, m) /\ Written(ports[1].data, m)
        BY <2>2, <2>5 DEF FullPort
      <3>3. QED
        BY <3>1, <3>2, CopyFills
    <2>6. CASE ports # <<>> /\ k \in Pools
      <3>1. r = Pool2d(k, ports[1].data, ports[1].dims, len, dims,
                       op.kernel, op.strides, op.padding)
        BY <1>2, <1>9, <2>6, Zenon DEF RunsAs
      <3>2. QED
        BY <3>1, Pool2dFills
    <2>7. CASE ports # <<>> /\ k = "Transpose"
      <3>1. r = IF Len(op.perm) > MaxRank THEN Fails("panic")
                ELSE Transpose(ports[1].data, ports[1].dims, len, dims, op.perm)
        BY <1>2, <1>9, <2>7, Zenon DEF RunsAs
      <3>2. PICK m \in Nat : IsBuffer(ports[1].data, m) /\ Written(ports[1].data, m)
        BY <2>2, <2>7 DEF FullPort
      <3>3. ports[1].dims \in Seq(Nat) /\ op.perm \in Seq(Nat)
        BY <1>1, <2>2, <2>7 DEF FullPort
      <3>4. Fills(Transpose(ports[1].data, ports[1].dims, len, dims, op.perm), len)
        BY <3>2, <3>3, TransposeFills
      <3>5. QED
        BY <3>1, <3>4, RefusalsFill
    <2>8. QED
      BY <1>9, <2>1, <2>3, <2>4, <2>5, <2>6, <2>7
  <1>10. QED
    BY <1>1, <1>3, <1>4, <1>5, <1>6, <1>7, <1>8, <1>9 DEF Kinds

(* The values of a graph are written *)

\* A node of a graph with the value it was computed to.
Computes(g, val, w) ==
    /\ val[w].err = None
    /\ NodeNumel(g, w) \in Nat /\ IsBuffer(val[w].out, NodeNumel(g, w))

\* What an input node reads is a weight or a slice of the request, never the arena.
LEMMA InputWritten ==
    ASSUME NEW g \in Graphs, NEW req \in Seq(Nat), Misbound(g, req) = {},
           NEW v \in Ids(g), IsInput(g, v)
    PROVE  Written(InputValue(g, req, v), NodeNumel(g, v))
  <1>1. PICK q \in 1 .. Len(g.inputs) : g.inputs[q] = v
    BY GraphIs
  <1>2. PICK x, n : x = InputValue(g, req, v) /\ n = NodeNumel(g, v)
    OBVIOUS
  <1>3. /\ n \in Nat /\ IsBuffer(x, n)
        /\ x = (IF TakesSlice(g, q) THEN Slice(req, SliceRank(g, q))
                ELSE Weight(g, InitializerOf(g, v)))
    BY <1>1, <1>2, InputValueIs
  <1>4. ASSUME NEW m, NEW a, NEW b, x = [e \in 1 .. m |-> <<a, b, e>>] PROVE Written(x, n)
    <2>1. DOMAIN x = 1 .. m /\ DOMAIN x = 1 .. n
      BY <1>3, <1>4 DEF IsBuffer
    <2>2. QED
      BY <1>4, <2>1, TermsAre DEF Written
  <1>5. CASE TakesSlice(g, q)
    <2>1. PICK k : k = SliceRank(g, q)
      OBVIOUS
    <2>2. x = [e \in 1 .. req[k] |-> <<"slice", k, e>>]
      BY <1>3, <1>5, <2>1 DEF Slice
    <2>3. Written(x, n)
      BY <1>4, <2>2, Zenon
    <2>4. QED
      BY <1>2, <2>3
  <1>6. CASE ~TakesSlice(g, q)
    <2>1. PICK k : k = InitializerOf(g, v)
      OBVIOUS
    <2>2. x = [e \in 1 .. g.inits[k].len |-> <<"weight", k, e>>]
      BY <1>3, <1>6, <2>1 DEF Weight
    <2>3. Written(x, n)
      BY <1>4, <2>2, Zenon
    <2>4. QED
      BY <1>2, <2>3
  <1>7. QED
    BY <1>5, <1>6

\* A node whose producers have written values has one itself.
LEMMA NodeWritten ==
    ASSUME NEW g \in Graphs, NEW req \in Seq(Nat), Misbound(g, req) = {}, NEW v \in Ids(g),
           NEW val, val[v] = Evaluated(g, req, val, v), Computes(g, val, v),
           \A w \in Producers(g, v) :
               w \in Ids(g) /\ Computes(g, val, w) /\ Written(val[w].out, NodeNumel(g, w))
    PROVE  Written(val[v].out, NodeNumel(g, v))
  <1>1. CASE IsInput(g, v)
    <2>1. val[v].out = InputValue(g, req, v)
      BY <1>1 DEF Evaluated, Writes
    <2>2. QED
      BY <1>1, <2>1, InputWritten
  <1>2. CASE ~IsInput(g, v)
    <2>1. PICK ins, n, op, dims : /\ ins = g.nodes[v].ins /\ n = NodeNumel(g, v)
                                  /\ op = g.nodes[v].op /\ dims = g.nodes[v].dims
      OBVIOUS
    <2>2. PICK ports : ports = [p \in DOMAIN ins |-> [data |-> val[ins[p]].out,
                                                     dims |-> g.nodes[ins[p]].dims]]
      OBVIOUS
    <2>3. ins \in Seq(Nat) /\ \A p \in DOMAIN ins : ins[p] \in Producers(g, v)
      BY <2>1, MarksAre DEF Producers, ToSet
    <2>4. ~ \E w \in Producers(g, v) : val[w].err # None
      BY DEF Computes
    <2>5. val[v] = Run(op, ports, dims, n, Garbage)
      BY <1>2, <2>1, <2>2, <2>4, Zenon DEF Evaluated
    <2>6. PICK R : R = {ports[p] : p \in DOMAIN ins}
      OBVIOUS
    <2>7. ports \in Seq(R) /\ DOMAIN ports = DOMAIN ins /\ DOMAIN ports = 1 .. Len(ports)
      <3>1. DOMAIN ins = 1 .. Len(ins) /\ Len(ins) \in Nat
        BY <2>3
      <3>2. ports \in [1 .. Len(ins) -> R]
        BY <2>2, <2>6, <3>1
      <3>3. QED
        BY <3>1, <3>2
    <2>8. \A w \in Ids(g) : g.nodes[w].dims \in Seq(Nat)
      BY GraphsAssumption, Zenon DEF WellFormed
    <2>9. \A p \in 1 .. Len(ports) : FullPort(ports[p])
      <3> SUFFICES ASSUME NEW p \in 1 .. Len(ports) PROVE FullPort(ports[p])
        OBVIOUS
      <3>1. PICK w : w = ins[p]
        OBVIOUS
      <3>2. ports[p] = [data |-> val[w].out, dims |-> g.nodes[w].dims] /\ w \in Producers(g, v)
        BY <2>2, <2>3, <2>7, <3>1
      <3>3. /\ w \in Ids(g) /\ NodeNumel(g, w) \in Nat
            /\ IsBuffer(val[w].out, NodeNumel(g, w)) /\ Written(val[w].out, NodeNumel(g, w))
        BY <3>2 DEF Computes
      <3>4. g.nodes[w].dims \in Seq(Nat)
        BY <2>8, <3>3
      <3>5. QED
        BY <3>2, <3>3, <3>4 DEF FullPort
    <2>10. op.kind \in Kinds /\ (op.kind = "Transpose" => op.perm \in Seq(Nat))
      BY <2>1, OperatorsAssumption
    <2>11. dims \in Seq(Nat) /\ n \in Nat
      BY <2>1, <2>8 DEF Computes
    <2>12. Fills(Run(op, ports, dims, n, Garbage), n)
      BY <2>7, <2>9, <2>10, <2>11, RunFills
    <2>13. QED
      BY <2>1, <2>5, <2>12 DEF Fills, Computes
  <1>3. QED
    BY <1>1, <1>2

\* So, along a topological order, are the values of all the nodes that have one.
LEMMA ValuesWritten ==
    ASSUME NEW g \in Graphs, NEW req \in Seq(Nat), Misbound(g, req) = {},
           NEW ord, IsTopological(g, ord), NEW val, val = Value(g, req),
           NEW n \in Nat, n <= g.n, \A a \in 1 .. n : Computes(g, val, ord[a])
    PROVE  \A a \in 1 .. n : Written(val[ord[a]].out, NodeNumel(g, ord[a]))
  <1> DEFINE P == {k \in 0 .. n : \A a \in 1 .. k : Written(val[ord[a]].out, NodeNumel(g, ord[a]))}
  <1>1. 0 \in P
    OBVIOUS
  <1>2. ASSUME NEW k \in 0 .. n - 1, k \in P PROVE k + 1 \in P
    <2>1. k \in Nat /\ k + 1 \in 1 .. n /\ k + 1 \in 1 .. g.n /\ (k + 1) - 1 = k /\ k + 1 \in 0 .. n
      BY GraphIs
    <2>2. PICK v : v = ord[k + 1]
      OBVIOUS
    <2>3. \A a \in 1 .. g.n : ord[a] \in Ids(g)
      BY GraphIs DEF IsTopological
    <2>4. v \in Ids(g) /\ Computes(g, val, v)
      BY <2>1, <2>2, <2>3
    <2>5. val[v] = Evaluated(g, req, val, v)
      BY <2>4, ValueIs
    <2>6. ASSUME NEW w \in Producers(g, v)
          PROVE  w \in Ids(g) /\ Computes(g, val, w) /\ Written(val[w].out, NodeNumel(g, w))
      <3>1. PICK a \in 1 .. k : ord[a] = w
        <4>1. PICK q : q = k + 1
          OBVIOUS
        <4>2. q \in 1 .. g.n /\ q - 1 = k /\ w \in Producers(g, ord[q])
          BY <2>1, <2>2, <4>1
        <4>3. \E a \in 1 .. q - 1 : ord[a] = w
          BY <4>2, ProducersBefore
        <4>4. QED
          BY <4>2, <4>3
      <3>2. a \in 1 .. k /\ a \in 1 .. n /\ a \in 1 .. g.n
        <4>1. a \in Nat /\ a >= 1 /\ a <= k /\ k <= n /\ g.n \in Nat
          BY <2>1, GraphIs
        <4>2. QED
          BY <4>1
      <3>3. Written(val[ord[a]].out, NodeNumel(g, ord[a]))
        BY <1>2, <3>2
      <3>4. QED
        BY <2>3, <3>1, <3>2, <3>3
    <2>7. Written(val[v].out, NodeNumel(g, v))
      BY <2>4, <2>5, <2>6, NodeWritten
    <2>8. \A a \in 1 .. k + 1 : Written(val[ord[a]].out, NodeNumel(g, ord[a]))
      <3> SUFFICES ASSUME NEW a \in 1 .. k + 1
                   PROVE  Written(val[ord[a]].out, NodeNumel(g, ord[a]))
        OBVIOUS
      <3>1. a = k + 1 \/ a \in 1 .. k
        BY <2>1
      <3>2. QED
        BY <1>2, <2>2, <2>7, <3>1
    <2>9. QED
      BY <2>1, <2>8
  <1> HIDE DEF P
  <1>3. \A k \in 0 .. n : k \in P
    BY <1>1, <1>2, UpTo
  <1>4. QED
    <2>1. n \in P
      BY <1>3
    <2>2. QED
      BY <2>1 DEF P

\* What the dispatch loop reads of memory it has written.
LEMMA ReadsAreWritten == CallInv => ReadsWritten
  <1> SUFFICES ASSUME CallInv, pc = "dispatch", i <= Len(order),
                      NEW w \in Producers(graph, order[i])
               PROVE  /\ binds[w] # Garbage
                      /\ \A e \in DOMAIN Resolve(w).data : Resolve(w).data[e] # Garbage
    BY DEF ReadsWritten
  <1>1. ExInv /\ Matched /\ Dispatched
    BY DEF CallInv
  <1>2. /\ graph \in Graphs /\ request \in Seq(Nat) /\ IsTopological(graph, order)
        /\ graph.n \in Nat /\ Len(order) = graph.n /\ Misbound(graph, request) = {}
    BY <1>1, DispatchIs
  <1>3. i \in Nat \ {0} /\ i \in 1 .. graph.n
    BY <1>1, <1>2 DEF ExInv, Counting
  <1>4. PICK g, req, ord, val, n : /\ g = graph /\ req = request /\ ord = order
                                   /\ val = Value(graph, request) /\ n = i - 1
    OBVIOUS
  <1>5. n \in Nat /\ n <= g.n /\ n + 1 \in 1 .. g.n /\ n + 1 = i /\ (n + 1) - 1 = n
    BY <1>2, <1>3, <1>4
  <1>6. ASSUME NEW a \in 1 .. n
        PROVE  /\ Computes(g, val, ord[a])
               /\ Resolve(ord[a]).data = val[ord[a]].out
    <2>1. a \in 1 .. i - 1 /\ a <= graph.n
      BY <1>2, <1>3, <1>4, <1>5
    <2>2. PICK v, s : v = order[a] /\ s = Value(graph, request)[v]
      OBVIOUS
    <2>3. /\ s.err = None /\ IsBuffer(s.out, Numel(v)) /\ Numel(v) \in Nat
          /\ Resolve(v) = [data |-> s.out, dims |-> graph.nodes[v].dims]
      BY <1>1, <2>1, <2>2, ValuedResolve
    <2>4. QED
      BY <1>4, <2>2, <2>3 DEF Computes, Numel
  <1>7. PICK a \in 1 .. n : ord[a] = w
    <2>1. PICK q : q = n + 1
      OBVIOUS
    <2>2. q \in 1 .. g.n /\ q - 1 = n /\ q = i
      BY <1>5, <2>1
    <2>3. w \in Producers(g, ord[q]) /\ g \in Graphs /\ IsTopological(g, ord)
      BY <1>2, <1>4, <2>2
    <2>4. \E a \in 1 .. q - 1 : ord[a] = w
      <3>1. ASSUME NEW b \in 1 .. g.n, NEW u \in Producers(g, ord[b])
            PROVE  \E a \in 1 .. b - 1 : ord[a] = u
        BY <2>3, ProducersBefore
      <3>2. QED
        BY <2>2, <2>3, <3>1
    <2>5. QED
      BY <2>2, <2>4
  <1>8. Written(val[w].out, NodeNumel(g, w))
    <2>1. \A b \in 1 .. n : Computes(g, val, ord[b])
      BY <1>6
    <2>2. \A b \in 1 .. n : Written(val[ord[b]].out, NodeNumel(g, ord[b]))
      <3>1. g \in Graphs /\ req \in Seq(Nat) /\ Misbound(g, req) = {} /\ IsTopological(g, ord)
            /\ val = Value(g, req)
        BY <1>2, <1>4
      <3>2. QED
        BY <1>5, <2>1, <3>1, ValuesWritten
    <2>3. QED
      BY <1>7, <2>2
  <1>9. PICK d, m : d = Resolve(w).data /\ m = NodeNumel(g, w)
    OBVIOUS
  <1>10. IsBuffer(d, m) /\ Written(d, m)
    BY <1>6, <1>7, <1>8, <1>9 DEF Computes
  <1>11. \A e \in DOMAIN d : d[e] # Garbage
    <2>1. DOMAIN d = 1 .. m
      BY <1>10 DEF IsBuffer
    <2>2. QED
      BY <1>10, <2>1 DEF Written
  <1>12. binds[w] # Garbage
    BY <1>1, ProducersAreBound DEF ProducersBound
  <1>13. QED
    BY <1>9, <1>11, <1>12

\* A node is computed from memory that has been written in the same call.
THEOREM ReadsStayWritten == Spec => []ReadsWritten
  BY CallInvariant, ReadsAreWritten, PTL
=============================================================================
