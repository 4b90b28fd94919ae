----------------------------- MODULE GraphSort -----------------------------
(***************************************************************************)
(* ComputationGraph::topological_sort (tpt-infer-graph/src/graph.rs), the  *)
(* sort the ahead-of-time compiler uses: Kahn's algorithm again, over heap *)
(* vectors and a VecDeque.  Same graphs as Kahn: [n, refs].                *)
(***************************************************************************)
EXTENDS Integers, Sequences, FiniteSets, SequencesExt

Ids(g)          == 0 .. g.n - 1
NamesUnknown(g) == \E r \in DOMAIN g.refs : g.refs[r].from >= g.n

InDegree(g, v) == Cardinality({r \in DOMAIN g.refs : g.refs[r].to = v})

\* The ids in S, in order: what a loop over the n nodes picks.
Picked(n, S) ==
    FoldLeft(LAMBDA ids, v : IF v \in S THEN Append(ids, v) ELSE ids,
             <<>>, [j \in 1 .. n |-> j - 1])

\* The ids a queue starts with: those that read nothing.
Roots(g) == Picked(g.n, {v \in Ids(g) : InDegree(g, v) = 0})

\* Mutant: a consumer that becomes ready goes to the front.
ReleaseFirst(st, v) ==
    LET left == st.indegree[v] - 1
    IN  [st EXCEPT !.indegree[v] = left,
                   !.queue = IF left = 0 THEN <<v>> \o @ ELSE @]

Release(st, v) ==
    LET left == st.indegree[v] - 1
    IN  [st EXCEPT !.indegree[v] = left,
                   !.queue = IF left = 0 THEN Append(@, v) ELSE @]

\* One turn of the `while let Some(id) = queue.pop_front()` loop: adjacency[id]
\* names a consumer once per reference, in the order of the references.
Turn(g, st) ==
    LET id == Head(st.queue)
    IN  FoldLeft(LAMBDA s, r : IF r.from = id THEN Release(s, r.to) ELSE s,
                 [st EXCEPT !.queue = Tail(@), !.order = Append(@, id)],
                 g.refs)

\* The order found, or the whole of it that could be: a cycle leaves it short.
TopologicalSort(g) ==
    LET start == [indegree |-> [v \in Ids(g) |-> InDegree(g, v)],
                  queue    |-> Roots(g),
                  order    |-> <<>>]
        end   == FoldLeft(LAMBDA st, turn : IF st.queue = <<>> THEN st ELSE Turn(g, st),
                          start, [j \in 1 .. g.n |-> j])
    IN  IF NamesUnknown(g)             THEN [verdict |-> "unknown", order |-> <<>>]
        ELSE IF Len(end.order) # g.n   THEN [verdict |-> "cycle", order |-> end.order]
        ELSE [verdict |-> "ordered", order |-> end.order]
=============================================================================
