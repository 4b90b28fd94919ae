----------------------------- MODULE Toolchain -----------------------------
(***************************************************************************)
(* From a file to a compiled program: the `compile` command                *)
(* (tpt-infer-cli/src/main.rs) loads a model, hands the graph to           *)
(* aot_compile, and the source it writes is run on a slice.  The           *)
(* interpreter, as GraphMeaning has it, is what the result is held to.     *)
(***************************************************************************)
EXTENDS OnnxLoad, AotCompile

vars == <<loadVars, aotVars>>

Init == LoadInit /\ AotInit("waiting")

LoadStep == Load /\ UNCHANGED aotVars

\* Mutant: the graph is compiled before its outputs are inferred.
CompileUnfinished ==
    /\ phase \in {"marked", "loaded"} /\ stage = "waiting"
    /\ stage' = "idle"
    /\ UNCHANGED <<loadVars, at, order, inputId, folded, program, supplied, env, result>>

\* The graph that load returned is given to aot_compile.
Compile ==
    /\ phase = "loaded" /\ stage = "waiting"
    /\ stage' = "idle"
    /\ UNCHANGED <<loadVars, at, order, inputId, folded, program, supplied, env, result>>

AotStep ==
    /\ CompileStep \/ ExecuteStep
    /\ UNCHANGED <<file, phase, cursor, nameToNode, made, loadError>>

Next == LoadStep \/ Compile \/ AotStep
Spec == Init /\ [][Next]_vars

-----------------------------------------------------------------------------
(* Properties *)

\* The loader and the compiler are in one of their stages, one after the other.
TypeOK ==
    /\ LoadTypeOK /\ AotTypeOK
    /\ stage # "waiting" => phase = "loaded"
=============================================================================
