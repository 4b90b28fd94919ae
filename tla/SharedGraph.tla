---------------------------- MODULE SharedGraph ----------------------------
(***************************************************************************)
(* The ComputationGraph that `load` builds and `aot_compile` is given a    *)
(* reference to (tpt-infer-cli/src/main.rs).                               *)
(***************************************************************************)
EXTENDS ComputationGraph

VARIABLE graph
=============================================================================
