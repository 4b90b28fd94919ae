-------------------------- MODULE InferenceService --------------------------
(***************************************************************************)
(* What execute_graph promises its caller: a request is answered with the  *)
(* values of the marked outputs, or with an error that the graph, the      *)
(* request or the space left in the arena justifies.  What justifies it is *)
(* a parameter, GraphMeaning's IsAnswer; Execute implements the protocol.  *)
(***************************************************************************)
EXTENDS Naturals

CONSTANTS
    Requests,   \* what a caller supplies: the lengths of the input slices
    MaxCalls,   \* bound on the calls of a behaviour
    Pending,    \* no reply yet
    IsAnswer(_, _, _, _)    \* may a reply answer a request, for a graph, in so many bytes?

VARIABLES
    graph, phase, request,
    avail,      \* bytes left in the arena when the call came
    reply, calls

svars == <<graph, phase, request, avail, reply, calls>>

-----------------------------------------------------------------------------
SInit ==
    /\ phase = "idle" /\ request = <<>> /\ avail = 0 /\ calls = 0
    /\ reply = Pending

Call(req) ==
    /\ phase = "idle" /\ calls < MaxCalls
    /\ phase' = "running" /\ request' = req /\ calls' = calls + 1
    /\ avail' \in Nat
    /\ reply' = Pending
    /\ UNCHANGED graph

Reply ==
    /\ phase = "running" /\ phase' = "idle"
    /\ IsAnswer(reply', graph, request, avail)
    /\ UNCHANGED <<graph, request, avail, calls>>

SNext == Reply \/ \E req \in Requests : Call(req)

\* Every call is answered.
Answered == phase = "running" ~> phase = "idle"

SSpec == SInit /\ [][SNext]_svars /\ Answered
=============================================================================
