----------------------------- MODULE TopoOrder -----------------------------
(***************************************************************************)
(* What a topological sort promises: it emits each node once, after every  *)
(* node it reads; it reports a missing node before it emits anything, and  *)
(* a cycle only when no remaining node can be emitted.  Which of the ready *)
(* nodes goes next is left open.  Kahn implements it.                      *)
(***************************************************************************)
EXTENDS Integers, Sequences

VARIABLES
    graph,      \* [n |-> node count, refs |-> sequence of [to, from]]
    emitted,    \* the node ids emitted so far, in order
    verdict     \* "running", "ordered", "cycle" or "unknown"

tvars == <<graph, emitted, verdict>>

Emitted        == {emitted[i] : i \in 1 .. Len(emitted)}
Producers(v)   == {graph.refs[r].from : r \in {r \in 1 .. Len(graph.refs) :
                                                 graph.refs[r].to = v}}
Ready(v)       == v \notin Emitted /\ Producers(v) \subseteq Emitted
Remaining      == (0 .. graph.n - 1) \ Emitted
HasUnknownNode == \E r \in 1 .. Len(graph.refs) : graph.refs[r].from >= graph.n

TInit == emitted = <<>> /\ verdict = "running"

Emit(v) ==
    /\ verdict = "running"
    /\ ~HasUnknownNode
    /\ Ready(v)
    /\ emitted' = Append(emitted, v)
    /\ UNCHANGED <<graph, verdict>>

Finish ==
    /\ verdict = "running"
    /\ \/ HasUnknownNode /\ verdict' = "unknown"
       \/ ~HasUnknownNode /\ Remaining = {} /\ verdict' = "ordered"
       \/ /\ ~HasUnknownNode /\ Remaining # {}
          /\ \A v \in Remaining : ~Ready(v)
          /\ verdict' = "cycle"
    /\ UNCHANGED <<graph, emitted>>

TNext == Finish \/ \E v \in Remaining : Emit(v)

TSpec == TInit /\ [][TNext]_tvars /\ WF_tvars(TNext)
=============================================================================
