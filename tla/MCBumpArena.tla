---------------------------- MODULE MCBumpArena ----------------------------
(* A 5-bit address space: a buffer at an even address, and one at an odd   *)
(* address that ends at the last one.                                      *)
EXTENDS BumpArena

MCBufs == {[addr |-> a, len |-> 6] : a \in {6, 25}}

\* A byte, and a word of two bytes.
MCLayouts == {[size |-> 1, align |-> 1],
              [size |-> 2, align |-> 2]}

MCLens == {0, 1, 4}
MCAligns == {0, 1, 2, 3, 4}
=============================================================================
