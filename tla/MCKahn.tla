------------------------------- MODULE MCKahn -------------------------------
(* Every graph of three nodes with input lists of at most two entries, an   *)
(* id outside the graph included, every graph of four nodes whose lists are *)
(* duplicate-free and increasing, and the empty graph.                      *)
EXTENDS Kahn

\* The graph whose node v has the input list lists[v], for up to four nodes.
Entries(lists, v) ==
    IF v \notin DOMAIN lists THEN <<>>
    ELSE [p \in DOMAIN lists[v] |-> [to |-> v, from |-> lists[v][p]]]

GraphOf(n, lists) ==
    [n    |-> n,
     refs |-> Entries(lists, 0) \o Entries(lists, 1) \o Entries(lists, 2) \o Entries(lists, 3)]

ListsOfTwo(ids) == {<<>>} \cup {<<a>> : a \in ids} \cup {<<a, b>> : a, b \in ids}
SetLists(ids)   == {<<>>} \cup {<<a>> : a \in ids}
                     \cup {<<e[1], e[2]>> : e \in {e \in ids \X ids : e[1] < e[2]}}

MCGraphs ==
    {GraphOf(0, <<>>)}
      \cup {GraphOf(3, lists) : lists \in [0 .. 2 -> ListsOfTwo(0 .. 3)]}
      \cup {GraphOf(4, lists) : lists \in [0 .. 3 -> SetLists(0 .. 3)]}
=============================================================================
