-------------------------------- MODULE Kahn --------------------------------
(***************************************************************************)
(* The runtime's topological sort (tpt-infer-runtime/src/exec.rs, `kahn`): *)
(* Kahn's algorithm in six scratch slices carved out of an arena, with the *)
(* consumers of each node in a compressed (CSR) adjacency list and a queue *)
(* that is a slice with two cursors.                                       *)
(*                                                                         *)
(* A graph is its node count and its references: one record per entry of   *)
(* an input list, in the order both loops over `graph.nodes()` visit them. *)
(* Node ids are 0 .. n-1; `from` may be any id a caller wrote in a list.   *)
(* The slices hold arbitrary bytes until they are written: Garbage.        *)
(* The other sort of such graphs, GraphSort, is what this one must match.  *)
(***************************************************************************)
EXTENDS GraphSort

CONSTANTS
    Graphs,     \* the graphs sorted
    Garbage     \* the content of an arena cell nobody wrote

\* A reference is an entry of a node's input list, so `to` is a node of the
\* graph; an entry may be any usize.
ASSUME KahnAssumption ==
    \A g \in Graphs : g.n \in Nat /\ g.refs \in Seq([to : 0 .. g.n - 1, from : Nat])

VARIABLES
    graph,
    pc,         \* the loop that runs, or how it ended
    i,          \* the loop's index
    acc,        \* the running sum of the prefix-sum loop
    indegree, adjOff, adj, cur, queue, order,
    head, tail, k,
    unknown     \* the id UnknownNode carries

slices == <<indegree, adjOff, adj, cur, queue, order>>
vars   == <<graph, pc, i, acc, slices, head, tail, k, unknown>>

N     == graph.n
M     == Len(graph.refs)
Nodes == 0 .. N - 1

Ended == {"ordered", "cycle", "unknown"}

-----------------------------------------------------------------------------
Init ==
    /\ graph \in Graphs
    /\ pc = "clear"
    /\ i = 1
    /\ acc = 0
    /\ indegree = [v \in Nodes |-> Garbage]
    /\ adjOff = [v \in 0 .. N |-> Garbage]
    /\ adj = [s \in 0 .. M - 1 |-> Garbage]
    /\ cur = [v \in Nodes |-> Garbage]
    /\ queue = [q \in Nodes |-> Garbage]
    /\ order = [q \in Nodes |-> Garbage]
    /\ head = 0 /\ tail = 0 /\ k = 0
    /\ unknown = 0

\* The two loops that zero indegree and adj_off.
Clear ==
    /\ pc = "clear"
    /\ indegree' = [v \in Nodes |-> 0]
    /\ adjOff' = [v \in 0 .. N |-> 0]
    /\ pc' = "count"
    /\ UNCHANGED <<graph, i, acc, adj, cur, queue, order, head, tail, k, unknown>>

\* One entry of an input list: count it, or fail on an id outside the graph.
Count ==
    /\ pc = "count"
    /\ IF i > M
       THEN /\ pc' = "prefix" /\ i' = 0
            /\ UNCHANGED <<indegree, adjOff, unknown>>
       ELSE LET ref == graph.refs[i]
            IN  IF ref.from >= N
                THEN /\ pc' = "unknown" /\ unknown' = ref.from
                     /\ UNCHANGED <<i, indegree, adjOff>>
                ELSE /\ indegree' = [indegree EXCEPT ![ref.to] = @ + 1]
                     /\ adjOff' = [adjOff EXCEPT ![ref.from] = @ + 1]
                     /\ i' = i + 1
                     /\ UNCHANGED <<pc, unknown>>
    /\ UNCHANGED <<graph, acc, adj, cur, queue, order, head, tail, k>>

\* One slot of the prefix sum; after the last, the fill cursors are copied.
Prefix ==
    /\ pc = "prefix"
    /\ IF i <= N
       THEN /\ adjOff' = [adjOff EXCEPT ![i] = acc]
            /\ acc' = acc + adjOff[i]
            /\ i' = i + 1
            /\ UNCHANGED <<pc, cur>>
       ELSE /\ cur' = [v \in Nodes |-> adjOff[v]]
            /\ pc' = "fill" /\ i' = 1
            /\ UNCHANGED <<adjOff, acc>>
    /\ UNCHANGED <<graph, indegree, adj, queue, order, head, tail, k, unknown>>

\* Mutant: the cursor of the producer stays where it is.
FillInPlace ==
    /\ pc = "fill"
    /\ IF i > M
       THEN pc' = "seed" /\ i' = 0 /\ UNCHANGED adj
       ELSE /\ adj' = [adj EXCEPT ![cur[graph.refs[i].from]] = graph.refs[i].to]
            /\ i' = i + 1
            /\ UNCHANGED pc
    /\ UNCHANGED <<graph, acc, indegree, adjOff, cur, queue, order, head, tail, k, unknown>>

\* One entry of an input list: its node joins the consumers of its producer.
Fill ==
    /\ pc = "fill"
    /\ IF i > M
       THEN pc' = "seed" /\ i' = 0 /\ UNCHANGED <<adj, cur>>
       ELSE LET ref == graph.refs[i]
            IN  /\ adj' = [adj EXCEPT ![cur[ref.from]] = ref.to]
                /\ cur' = [cur EXCEPT ![ref.from] = @ + 1]
                /\ i' = i + 1
                /\ UNCHANGED pc
    /\ UNCHANGED <<graph, acc, indegree, adjOff, queue, order, head, tail, k, unknown>>

\* One id of the scan for nodes that read nothing.
Seed ==
    /\ pc = "seed"
    /\ IF i = N
       THEN pc' = "pop" /\ UNCHANGED <<i, queue, tail>>
       ELSE /\ IF indegree[i] = 0
               THEN /\ queue' = [queue EXCEPT ![tail] = i]
                    /\ tail' = tail + 1
               ELSE UNCHANGED <<queue, tail>>
            /\ i' = i + 1
            /\ UNCHANGED pc
    /\ UNCHANGED <<graph, acc, indegree, adjOff, adj, cur, order, head, k, unknown>>

\* Mutant: a short order is taken for a complete one.
PopNoCycleTest ==
    /\ pc = "pop"
    /\ IF head = tail
       THEN /\ pc' = "ordered"
            /\ UNCHANGED <<i, order, head, k>>
       ELSE /\ order' = [order EXCEPT ![k] = queue[head]]
            /\ i' = adjOff[queue[head]]
            /\ head' = head + 1 /\ k' = k + 1
            /\ pc' = "relax"
    /\ UNCHANGED <<graph, acc, indegree, adjOff, adj, cur, queue, tail, unknown>>

\* The head of the `while head < tail` loop, and the test after it.
Pop ==
    /\ pc = "pop"
    /\ IF head = tail
       THEN /\ pc' = IF k = N THEN "ordered" ELSE "cycle"
            /\ UNCHANGED <<i, order, head, k>>
       ELSE /\ order' = [order EXCEPT ![k] = queue[head]]
            /\ i' = adjOff[queue[head]]
            /\ head' = head + 1 /\ k' = k + 1
            /\ pc' = "relax"
    /\ UNCHANGED <<graph, acc, indegree, adjOff, adj, cur, queue, tail, unknown>>

\* Mutant: a consumer is queued whenever one of its producers is emitted.
RelaxEager ==
    /\ pc = "relax"
    /\ IF i = adjOff[order[k - 1] + 1]
       THEN pc' = "pop" /\ UNCHANGED <<i, indegree, queue, tail>>
       ELSE /\ indegree' = [indegree EXCEPT ![adj[i]] = @ - 1]
            /\ queue' = [queue EXCEPT ![tail] = adj[i]]
            /\ tail' = tail + 1
            /\ i' = i + 1
            /\ UNCHANGED pc
    /\ UNCHANGED <<graph, acc, adjOff, adj, cur, order, head, k, unknown>>

\* One consumer of the node just emitted.
Relax ==
    /\ pc = "relax"
    /\ IF i = adjOff[order[k - 1] + 1]
       THEN pc' = "pop" /\ UNCHANGED <<i, indegree, queue, tail>>
       ELSE /\ indegree' = [indegree EXCEPT ![adj[i]] = @ - 1]
            /\ IF indegree[adj[i]] = 1
               THEN /\ queue' = [queue EXCEPT ![tail] = adj[i]]
                    /\ tail' = tail + 1
               ELSE UNCHANGED <<queue, tail>>
            /\ i' = i + 1
            /\ UNCHANGED pc
    /\ UNCHANGED <<graph, acc, adjOff, adj, cur, order, head, k, unknown>>

\* The call has returned.
Return == pc \in Ended /\ UNCHANGED vars

Next == Clear \/ Count \/ Prefix \/ Fill \/ Seed \/ Pop \/ Relax \/ Return

\* The function runs to its return: nothing it waits for can be late.
Spec == Init /\ [][Next]_vars /\ WF_vars(Next)

-----------------------------------------------------------------------------
(* Properties *)

Sorted     == [j \in 1 .. k |-> order[j - 1]]
SortedSet  == {order[j] : j \in 0 .. k - 1}
RefsTo(v)  == {r \in 1 .. M : graph.refs[r].to = v}
RefsFrom(p) == {r \in 1 .. M : graph.refs[r].from = p}

\* usize arithmetic: no counter goes below zero, no cursor past its slice.
TypeOK ==
    /\ pc \in {"clear", "count", "prefix", "fill", "seed", "pop", "relax"} \cup Ended
    /\ i \in 0 .. N + M + 1
    /\ acc \in 0 .. M
    /\ indegree \in [Nodes -> 0 .. M \cup {Garbage}]
    /\ adjOff \in [0 .. N -> 0 .. M \cup {Garbage}]
    /\ adj \in [0 .. M - 1 -> Nodes \cup {Garbage}]
    /\ cur \in [Nodes -> 0 .. M \cup {Garbage}]
    /\ queue \in [Nodes -> Nodes \cup {Garbage}]
    /\ order \in [Nodes -> Nodes \cup {Garbage}]
    /\ head \in 0 .. N /\ tail \in 0 .. N /\ k \in 0 .. N
    /\ unknown \in Nat

\* The CSR list the loops build: once filled, the slots of a producer hold its
\* consumers, one slot per reference (an input named twice has two), the
\* slots of different producers are disjoint, and no slot is left unwritten.
\* This is what debug_assert_eq!(acc, adj.len()) stands for.
AdjacencyExact ==
    pc \in {"seed", "pop", "relax", "ordered", "cycle"} =>
        /\ adjOff[0] = 0 /\ adjOff[N] = M
        /\ \A p, v \in Nodes :
              Cardinality({s \in adjOff[p] .. adjOff[p + 1] - 1 : adj[s] = v})
                = Cardinality(RefsTo(v) \cap RefsFrom(p))

\* While nodes are emitted, indegree[v] is the number of v's inputs whose
\* producer has not released it yet, and v is queued exactly when that is 0.
\* So the queue never holds a node twice, and n slots are enough.
Released(r) ==
    LET p == graph.refs[r].from
    IN  /\ p \in SortedSet
        /\ ~(pc = "relax" /\ p = order[k - 1]
               /\ r \in RefsFrom(p)
               /\ Cardinality({q \in RefsFrom(p) : q < r}) >= i - adjOff[p])

PendingCounted ==
    pc \in {"pop", "relax"} =>
        /\ head = k /\ \A q \in 0 .. k - 1 : queue[q] = order[q]
        /\ Cardinality({queue[q] : q \in 0 .. tail - 1}) = tail
        /\ \A v \in Nodes :
              /\ indegree[v] = Cardinality({r \in RefsTo(v) : ~Released(r)})
              /\ indegree[v] = 0 <=> v \in {queue[q] : q \in 0 .. tail - 1}

\* Every call ends in an order, a cycle or an unknown node as TopoOrder says.
Topo == INSTANCE TopoOrder WITH
            emitted <- Sorted,
            verdict <- IF pc \in Ended THEN pc ELSE "running"

ImplementsTopoOrder == Topo!TSpec

\* The interpreter and the ahead-of-time compiler order a graph alike: the sort
\* over arena slices and the sort over heap vectors give the same answer, and
\* the same node order, for every graph.
SameOrderAsGraphSort ==
    pc \in Ended => LET sort == TopologicalSort(graph)
                    IN  pc = sort.verdict /\ Sorted = sort.order

\* src/crates/tpt-infer-runtime/src/exec.rs:135-136 describes the result as "a
\* valid topological order (ties broken by node id, so the result is
\* deterministic)": of the nodes that may come next, the one with the lowest
\* id does.  The queue is first-in first-out, and breaks ties by arrival.
TiesBrokenById ==
    pc = "pop" /\ head < tail =>
        \A q \in head .. tail - 1 : queue[head] <= queue[q]
=============================================================================
