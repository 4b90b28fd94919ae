-------------------------- MODULE RegionAllocator --------------------------
(***************************************************************************)
(* What an arena promises the code that carves buffers out of it, whatever *)
(* the placement policy: a granted region lies inside the buffer, starts   *)
(* at the alignment that was asked for, and shares no byte with a region   *)
(* granted since the last reset and still held.  BumpArena implements it.  *)
(***************************************************************************)
EXTENDS Integers

CONSTANTS
    Holders,    \* the borrows of the program: each holds at most one region
    NoRegion    \* what a holder without a region holds

VARIABLES
    buf,        \* the byte buffer the arena borrows: address and length
    held        \* the region each holder was granted, NoRegion if none

avars == <<buf, held>>

\* [start, start+len), relative to the buffer; fresh until the next reset.
Region == [start : Nat, len : Nat, align : Nat \ {0}, fresh : BOOLEAN]

Disjoint(r, s) ==
    \/ r.len = 0
    \/ s.len = 0
    \/ r.start + r.len <= s.start
    \/ s.start + s.len <= r.start

Fresh(h) == held[h] # NoRegion /\ held[h].fresh

InBuffer(r)  == r.start + r.len <= buf.len
IsAligned(r) == (buf.addr + r.start) % r.align = 0

AInit == held = [h \in Holders |-> NoRegion]

\* The placement is the implementation's choice.
Grant(h) ==
    /\ held[h] = NoRegion
    /\ held'[h] \in Region
    /\ held'[h].fresh
    /\ InBuffer(held'[h])
    /\ IsAligned(held'[h])
    /\ \A g \in Holders : Fresh(g) => Disjoint(held[g], held'[h])
    /\ held' = [held EXCEPT ![h] = held'[h]]
    /\ UNCHANGED buf

\* Some borrows end.
Release(hs) ==
    /\ \A h \in hs : held[h] # NoRegion
    /\ held' = [h \in Holders |-> IF h \in hs THEN NoRegion ELSE held[h]]
    /\ UNCHANGED buf

\* Every byte may be granted again; the regions still held become stale.
Recycle ==
    /\ held' = [h \in Holders |->
                  IF Fresh(h) THEN [held[h] EXCEPT !.fresh = FALSE] ELSE held[h]]
    /\ UNCHANGED buf

ANext ==
    \/ Recycle
    \/ \E hs \in SUBSET Holders : Release(hs)
    \/ \E h \in Holders : Grant(h)

ASpec == AInit /\ [][ANext]_avars
=============================================================================
