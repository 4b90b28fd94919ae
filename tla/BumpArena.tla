----------------------------- MODULE BumpArena -----------------------------
(***************************************************************************)
(* tpt-infer-core/src/arena.rs: a bump allocator over a caller's byte      *)
(* buffer.  The arena keeps one number, `offset`; everything it promises   *)
(* is about the slices it has already given away, which it does not keep.  *)
(* `held` is those slices, seen from the code that borrows them.           *)
(*                                                                         *)
(* Addresses are usize values: a buffer may sit anywhere in                *)
(* 0 .. UsizeMax, so the padding an allocation needs depends on where.     *)
(***************************************************************************)
EXTENDS Integers, FiniteSets

CONSTANTS
    Holders,    \* borrows that may be alive at once
    NoRegion,
    Bits,       \* width of usize
    Bufs,       \* buffers an arena may be created over
    Layouts,    \* size_of and align_of of the element types allocated
    Lens,       \* byte lengths and element counts requested
    Aligns      \* alignments requested, the invalid ones included

UsizeMax == 2^Bits - 1

ASSUME ArenaAssumption ==
    /\ Bits \in Nat \ {0}
    /\ Bufs \subseteq [addr : Nat, len : Nat]
    /\ \A b \in Bufs : b.addr + b.len <= UsizeMax
    /\ Layouts \subseteq [size : Nat, align : Nat \ {0}]
    /\ Lens \subseteq Nat
    /\ Aligns \subseteq Nat

ASSUME NoRegionAssumption ==
    NoRegion \notin [start : Nat, len : Nat, align : Nat \ {0}, fresh : BOOLEAN]

VARIABLES
    buf,        \* BumpArena.buf
    offset,     \* BumpArena.offset
    held,       \* the slice each holder borrowed, NoRegion once dropped
    result      \* what the last operation returned

vars == <<buf, offset, held, result>>

Allocator == INSTANCE RegionAllocator

Region   == Allocator!Region
Fresh(h) == Allocator!Fresh(h)

-----------------------------------------------------------------------------
\* usize::is_power_of_two
IsPowerOfTwo(a) == \E k \in 0 .. Bits - 1 : a = 2^k

\* (address + (align - 1)) & !(align - 1), before any width check.
AlignUp(address, align) == address + ((-address) % align)

\* Mutant: the offset is aligned, not the address.
AlignedOffset(b, off, align) == off + ((-off) % align)

\* Where the next region at this alignment would start.
NewOffset(b, off, align) == AlignUp(b.addr + off, align) - b.addr

\* Mutant: the capacity test forgets the padding.
VerdictOnLength(b, off, len, align) ==
    IF align = 0 \/ ~IsPowerOfTwo(align) THEN "Invalid"
    ELSE IF off + len > b.len THEN "OutOfMemory"
    ELSE "Ok"

\* Mutant: a region that ends at the end of the buffer is refused.
VerdictStrict(b, off, len, align) ==
    IF align = 0 \/ ~IsPowerOfTwo(align) THEN "Invalid"
    ELSE IF NewOffset(b, off, align) + len >= b.len THEN "OutOfMemory"
    ELSE "Ok"

\* alloc_bytes' early returns: both sums are checked_add.
Verdict(b, off, len, align) ==
    IF align = 0 \/ ~IsPowerOfTwo(align) THEN "Invalid"
    ELSE IF b.addr + off + (align - 1) > UsizeMax        THEN "OutOfMemory"
    ELSE IF NewOffset(b, off, align) + len > UsizeMax    THEN "OutOfMemory"
    ELSE IF NewOffset(b, off, align) + len > b.len       THEN "OutOfMemory"
    ELSE "Ok"

Granted(start, len, align) ==
    [start |-> start, len |-> len, align |-> align, fresh |-> TRUE]

-----------------------------------------------------------------------------
Init ==
    /\ buf \in Bufs
    /\ offset = 0
    /\ held = [h \in Holders |-> NoRegion]
    /\ result = "Ok"

\* Mutant: the cursor moves by the length and not past the padding.
AllocIgnoringPadding(h, len, align) ==
    /\ held[h] = NoRegion
    /\ result' = Verdict(buf, offset, len, align)
    /\ IF result' = "Ok"
       THEN /\ offset' = offset + len
            /\ held' = [held EXCEPT ![h] =
                           Granted(NewOffset(buf, offset, align), len, align)]
       ELSE UNCHANGED <<offset, held>>
    /\ UNCHANGED buf

AllocBytes(h, len, align) ==
    /\ held[h] = NoRegion
    /\ result' = Verdict(buf, offset, len, align)
    /\ IF result' = "Ok"
       THEN /\ offset' = NewOffset(buf, offset, align) + len
            /\ held' = [held EXCEPT ![h] =
                           Granted(NewOffset(buf, offset, align), len, align)]
       ELSE UNCHANGED <<offset, held>>
    /\ UNCHANGED buf

\* size.checked_mul(count), then alloc_bytes.
AllocSlice(h, layout, count) ==
    IF layout.size * count > UsizeMax
    THEN /\ held[h] = NoRegion
         /\ result' = "OutOfMemory"
         /\ UNCHANGED <<buf, offset, held>>
    ELSE AllocBytes(h, layout.size * count, layout.align)

\* The slot alloc_one returns is the one element of a slice of length 1.
AllocOne(h, layout) == AllocSlice(h, layout, 1)

\* The borrow checker lets reset() run while slices are held: their lifetime
\* is that of the buffer, not of a borrow of the arena.
Reset ==
    /\ offset' = 0
    /\ held' = [h \in Holders |->
                  IF Fresh(h) THEN [held[h] EXCEPT !.fresh = FALSE] ELSE held[h]]
    /\ result' = "Ok"
    /\ UNCHANGED buf

\* A scope of the program ends and with it the use of its slices; nothing
\* runs in the arena.
Drop(hs) ==
    /\ \A h \in hs : held[h] # NoRegion
    /\ held' = [h \in Holders |-> IF h \in hs THEN NoRegion ELSE held[h]]
    /\ UNCHANGED <<buf, offset, result>>

Next ==
    \/ Reset
    \/ \E hs \in SUBSET Holders : Drop(hs)
    \/ \E h \in Holders :
          \/ \E len \in Lens, align \in Aligns : AllocBytes(h, len, align)
          \/ \E layout \in Layouts, count \in Lens : AllocSlice(h, layout, count)
          \/ \E layout \in Layouts : AllocOne(h, layout)

Spec == Init /\ [][Next]_vars

-----------------------------------------------------------------------------
(* Properties *)

\* The fields have their types, and used() never exceeds capacity(): the
\* subtraction in remaining() cannot wrap.
TypeOK ==
    /\ buf \in Bufs
    /\ offset \in 0 .. buf.len
    /\ held \in [Holders -> Region \cup {NoRegion}]
    /\ result \in {"Ok", "Invalid", "OutOfMemory"}

\* Two slices granted since the last reset share no byte, whatever their
\* alignments, the buffer's address and the requests refused in between: the
\* condition that makes the two unsafe blocks of alloc_bytes sound.
FreshDisjoint ==
    \A g, h \in Holders :
        g # h /\ Fresh(g) /\ Fresh(h) => Allocator!Disjoint(held[g], held[h])

\* The cursor is past every slice granted since the last reset.
CursorPastFresh ==
    \A h \in Holders : Fresh(h) => held[h].start + held[h].len <= offset

\* Every slice a borrower holds, even one granted before a reset, lies in the
\* buffer and starts at the alignment of its element type.
GrantsUsable ==
    \A h \in Holders : held[h] # NoRegion =>
        Allocator!InBuffer(held[h]) /\ Allocator!IsAligned(held[h])

\* The arena refuses a request exactly when no aligned region of that length
\* is left above the cursor.  In particular the two overflow tests refuse
\* nothing that fits, even in a buffer that ends at the top of memory.
RefusesOnlyWhatDoesNotFit ==
    \A len \in Lens, align \in {a \in Aligns : a # 0 /\ IsPowerOfTwo(a)} :
        Verdict(buf, offset, len, align) = "OutOfMemory" <=>
            ~ \E start \in offset .. buf.len :
                 (buf.addr + start) % align = 0 /\ start + len <= buf.len

\* The arena is an allocator: each operation grants, releases or recycles
\* regions as RegionAllocator says, and a refused request changes nothing.
ImplementsAllocator == Allocator!ASpec

\* src/crates/tpt-infer-core/src/arena.rs:68-69 says of every slice handed out
\* that "we never hand out overlapping regions because offset only advances".
\* reset() takes the offset back while earlier slices are still borrowed.
NeverOverlapping ==
    \A g, h \in Holders :
        g # h /\ held[g] # NoRegion /\ held[h] # NoRegion =>
            Allocator!Disjoint(held[g], held[h])
=============================================================================
