-------------------------- MODULE BumpArenaProofs --------------------------
(***************************************************************************)
(* Proofs about BumpArena.  The argument: an accepted request is placed at *)
(* or above the cursor, aligned and inside the buffer (Placement), and the *)
(* cursor is past every region granted since the last reset, so the new    *)
(* region is disjoint from all of them (AllocKeepsArenaInv).  What it      *)
(* refuses: rounding up gives the first aligned address (AlignUpLeast),    *)
(* and an alignment divides the size of the address space (AlignDivides),  *)
(* so a sum that overflows belongs to a region that does not fit           *)
(* (GrantsWhatFits).                                                       *)
(***************************************************************************)
EXTENDS BumpArena, TLAPS, FiniteSetTheorems, FunctionTheorems

\* A remainder lies below its modulus, also for a negative dividend.
LEMMA ModBounds ==
    ASSUME NEW a \in Int, NEW m \in Nat \ {0}
    PROVE  a % m \in 0 .. m - 1
  OBVIOUS

\* Division with remainder, also for a negative dividend.
LEMMA DivMod ==
    ASSUME NEW a \in Int, NEW m \in Nat \ {0}
    PROVE  /\ a \div m \in Int
           /\ a = m * (a \div m) + (a % m)
  OBVIOUS

\* A multiple of m leaves no remainder.
LEMMA MultipleMod ==
    ASSUME NEW k \in Int, NEW m \in Nat \ {0}
    PROVE  (m * k) % m = 0
  <1> DEFINE q == (m * k) \div m
             r == (m * k) % m
             d == k - q
  <1>1. m * k \in Int
    OBVIOUS
  <1>2. /\ q \in Int
        /\ m * k = m * q + r
        /\ r \in 0 .. m - 1
    BY <1>1, DivMod, ModBounds
  <1> HIDE DEF q, r
  <1>3. d \in Int /\ m * d = r
    BY <1>2
  <1> HIDE DEF d
  <1>4. d >= 1 => m * d >= m
    BY <1>3
  <1>5. d <= -1 => m * d <= -m
    BY <1>3
  <1>6. d = 0
    BY <1>2, <1>3, <1>4, <1>5
  <1>7. r = 0
    BY <1>3, <1>6
  <1>8. QED
    BY <1>7 DEF r

\* Rounding an address up to an alignment moves it by less than the alignment,
\* never down, and ends on a multiple.
LEMMA AlignUpFacts ==
    ASSUME NEW address \in Nat, NEW align \in Nat \ {0}
    PROVE  /\ AlignUp(address, align) \in Nat
           /\ address <= AlignUp(address, align)
           /\ AlignUp(address, align) < address + align
           /\ AlignUp(address, align) % align = 0
  <1> DEFINE pad == (-address) % align
             q   == (-address) \div align
  <1>1. pad \in 0 .. align - 1
    BY ModBounds
  <1>2. q \in Int /\ -address = align * q + pad
    BY DivMod
  <1> HIDE DEF q
  <1>3. -q \in Int /\ address + pad = align * (-q)
    BY <1>1, <1>2
  <1>4. (address + pad) % align = 0
    BY <1>3, MultipleMod
  <1>5. QED
    BY <1>1, <1>4 DEF AlignUp

\* A request alloc_bytes accepts gets an aligned region above the cursor and
\* inside the buffer.
LEMMA Placement ==
    ASSUME NEW b \in Bufs, NEW off \in 0 .. b.len,
           NEW len \in Nat, NEW align \in Nat,
           Verdict(b, off, len, align) = "Ok"
    PROVE  /\ align # 0
           /\ NewOffset(b, off, align) \in Nat
           /\ off <= NewOffset(b, off, align)
           /\ NewOffset(b, off, align) + len <= b.len
           /\ (b.addr + NewOffset(b, off, align)) % align = 0
  <1>1. b.addr \in Nat /\ b.len \in Nat /\ b.addr + off \in Nat
    BY ArenaAssumption
  <1>2. align \in Nat \ {0} /\ ~(NewOffset(b, off, align) + len > b.len)
    BY DEF Verdict
  <1>3. /\ AlignUp(b.addr + off, align) \in Nat
        /\ b.addr + off <= AlignUp(b.addr + off, align)
        /\ AlignUp(b.addr + off, align) % align = 0
    BY <1>1, <1>2, AlignUpFacts
  <1>4. NewOffset(b, off, align) \in Nat /\ off <= NewOffset(b, off, align)
    BY <1>1, <1>3 DEF NewOffset
  <1>5. b.addr + NewOffset(b, off, align) = AlignUp(b.addr + off, align)
    BY <1>1, <1>3 DEF NewOffset
  <1>6. QED
    BY <1>1, <1>2, <1>3, <1>4, <1>5

-----------------------------------------------------------------------------
(* Powers of two.  The prover knows nothing of a^b: what follows is counted  *)
(* on sets, where FS_SUBSET says that a set of a elements has 2^a subsets.   *)

\* The number of integers of an interval.
LEMMA Segment ==
    ASSUME NEW lo \in Int, NEW hi \in Int, lo <= hi + 1
    PROVE  IsFiniteSet(lo .. hi) /\ Cardinality(lo .. hi) = hi - lo + 1
  <1>1. /\ IsFiniteSet(lo .. hi)
        /\ Cardinality(lo .. hi) = IF lo > hi THEN 0 ELSE hi - lo + 1
    BY FS_Interval, ZenonT(20)
  <1>2. QED
    BY <1>1

\* A power of two is a positive number.
LEMMA PowerPositive ==
    ASSUME NEW a \in Nat
    PROVE  2^a \in Nat \ {0}
  <1> DEFINE A == 1 .. a
  <1>1. IsFiniteSet(A) /\ Cardinality(A) = a - 1 + 1
    <2>1. 1 \in Int /\ a \in Int /\ 1 <= a + 1
      OBVIOUS
    <2>2. QED
      BY <2>1, Segment, Zenon
  <1> HIDE DEF A
  <1>2. IsFiniteSet(SUBSET A) /\ Cardinality(SUBSET A) = 2^a
    <2>1. Cardinality(A) = a
      BY <1>1
    <2>2. QED
      BY <1>1, <2>1, FS_SUBSET, Zenon
  <1>3. SUBSET A # {}
    OBVIOUS
  <1>4. Cardinality(SUBSET A) \in Nat /\ Cardinality(SUBSET A) # 0
    BY <1>2, <1>3, FS_CardinalityType, FS_EmptySet
  <1>5. QED
    BY <1>2, <1>4

\* The subsets of a union of disjoint sets are the pairs of their subsets.
LEMMA PowerOfSum ==
    ASSUME NEW a \in Nat, NEW b \in Nat
    PROVE  2^(a + b) = 2^a * 2^b
  <1>0. PICK lo, hi \in Int : lo = a + 1 /\ hi = a + b
    OBVIOUS
  <1> DEFINE A == 1 .. a
             B == lo .. hi
             C == 1 .. hi
             f == [p \in (SUBSET A) \X (SUBSET B) |-> p[1] \cup p[2]]
  <1>1. IsFiniteSet(A) /\ Cardinality(A) = a - 1 + 1
    <2>1. 1 \in Int /\ a \in Int /\ 1 <= a + 1
      OBVIOUS
    <2>2. QED
      BY <2>1, Segment, Zenon
  <1>2. IsFiniteSet(B) /\ Cardinality(B) = hi - lo + 1
    <2>1. lo <= hi + 1
      BY <1>0
    <2>2. QED
      BY <2>1, Segment, Zenon
  <1>3. IsFiniteSet(C) /\ Cardinality(C) = hi - 1 + 1
    <2>1. 1 \in Int /\ 1 <= hi + 1
      BY <1>0
    <2>2. QED
      BY <2>1, Segment, Zenon
  <1>4. C = A \cup B /\ A \cap B = {}
    BY <1>0
  <1> HIDE DEF A, B, C
  <1>5. /\ IsFiniteSet(SUBSET A) /\ Cardinality(SUBSET A) = 2^a
        /\ IsFiniteSet(SUBSET B) /\ Cardinality(SUBSET B) = 2^b
        /\ IsFiniteSet(SUBSET C) /\ Cardinality(SUBSET C) = 2^(a + b)
    <2>1. Cardinality(A) = a /\ Cardinality(B) = b /\ Cardinality(C) = a + b
      BY <1>0, <1>1, <1>2, <1>3
    <2>2. QED
      BY <1>1, <1>2, <1>3, <2>1, FS_SUBSET, Zenon
  <1> DEFINE P == (SUBSET A) \X (SUBSET B)
  <1>6. IsFiniteSet(P) /\ Cardinality(P) = Cardinality(SUBSET A) * Cardinality(SUBSET B)
    BY <1>5, FS_Product
  <1>7. f \in Bijection(P, SUBSET C)
    <2>1. f \in [P -> SUBSET C]
      BY <1>4
    <2>2. ASSUME NEW p \in P, NEW r \in P, f[p] = f[r] PROVE p = r
      <3>1. p[1] \cup p[2] = r[1] \cup r[2]
        BY <2>2
      <3>2. p[1] = r[1] /\ p[2] = r[2]
        BY <3>1, <1>4
      <3>3. QED
        BY <3>2
    <2>3. ASSUME NEW S \in SUBSET C PROVE \E p \in P : f[p] = S
      <3>1. <<S \cap A, S \cap B>> \in P
        OBVIOUS
      <3>2. f[<<S \cap A, S \cap B>>] = S
        BY <3>1, <1>4
      <3>3. QED
        BY <3>1, <3>2
    <2> HIDE DEF f, P
    <2>4. QED
      BY <2>1, <2>2, <2>3 DEF Bijection, Injection, Surjection, IsInjective
  <1> HIDE DEF f, P
  <1>8. Cardinality(SUBSET C) = Cardinality(P)
    <2>1. ExistsBijection(P, SUBSET C)
      BY <1>7 DEF ExistsBijection
    <2>2. QED
      BY <2>1, <1>6, FS_Bijection, ZenonT(20)
  <1>9. QED
    BY <1>5, <1>6, <1>8, Zenon

\* The largest address is a number.
LEMMA UsizeMaxNat == UsizeMax \in Nat
  <1> DEFINE c == 2^Bits
  <1>1. c \in Nat \ {0}
    BY ArenaAssumption, PowerPositive
  <1> HIDE DEF c
  <1>2. UsizeMax = c - 1
    BY DEF UsizeMax, c
  <1>3. QED
    BY <1>1, <1>2

\* A valid alignment divides the size of the address space.
LEMMA AlignDivides ==
    ASSUME NEW align, IsPowerOfTwo(align)
    PROVE  /\ align \in Nat \ {0}
           /\ \E m \in Nat : UsizeMax + 1 = align * m
  <1>1. PICK k \in 0 .. Bits - 1 : align = 2^k
    BY DEF IsPowerOfTwo
  <1>2. Bits \in Nat /\ k \in Nat /\ Bits - k \in Nat
    BY <1>1, ArenaAssumption
  <1>3. k + (Bits - k) = Bits
    BY <1>2
  <1>4. 2^(k + (Bits - k)) = 2^k * 2^(Bits - k)
    BY <1>2, PowerOfSum
  <1>5. 2^Bits = 2^k * 2^(Bits - k)
    BY <1>3, <1>4, Zenon
  <1>6. 2^k \in Nat \ {0} /\ 2^(Bits - k) \in Nat \ {0} /\ 2^Bits \in Nat \ {0}
    BY <1>2, PowerPositive
  <1> DEFINE c == 2^Bits
             m == 2^(Bits - k)
  <1>7. c = align * m /\ c \in Nat /\ m \in Nat
    BY <1>1, <1>5, <1>6
  <1>8. UsizeMax = c - 1
    BY DEF UsizeMax
  <1> HIDE DEF c, m
  <1>9. UsizeMax + 1 = align * m
    BY <1>7, <1>8
  <1>10. QED
    BY <1>1, <1>6, <1>7, <1>9

\* A number without remainder is a multiple.
LEMMA ModMultiple ==
    ASSUME NEW x \in Nat, NEW m \in Nat \ {0}, x % m = 0
    PROVE  \E k \in Nat : x = m * k
  <1> DEFINE k == x \div m
  <1>1. k \in Int /\ x = m * k
    BY DivMod
  <1> HIDE DEF k
  <1>2. k <= -1 => m * k <= -m
    BY <1>1
  <1>3. k \in Nat
    BY <1>1, <1>2
  <1>4. QED
    BY <1>1, <1>3

\* Rounding up gives the first multiple that is not below.
LEMMA AlignUpLeast ==
    ASSUME NEW address \in Nat, NEW align \in Nat \ {0},
           NEW m \in Nat, address <= align * m
    PROVE  AlignUp(address, align) <= align * m
  <1> DEFINE pad == (-address) % align
             q   == -((-address) \div align)
             u   == AlignUp(address, align)
  <1>1. pad \in 0 .. align - 1
    BY ModBounds
  <1>2. q \in Int /\ u = align * q
    <2>1. (-address) \div align \in Int
          /\ -address = align * ((-address) \div align) + pad
      BY DivMod
    <2> DEFINE d == (-address) \div align
    <2> HIDE DEF d
    <2>2. QED
      BY <1>1, <2>1 DEF AlignUp, d
  <1>3. u < address + align
    BY AlignUpFacts
  <1> HIDE DEF q, u
  <1>4. m \in Int /\ align \in Int /\ align * q < align * m + align
    BY <1>2, <1>3
  <1>5. align * q < align * (m + 1)
    BY <1>2, <1>4
  <1>6. q <= m
    <2>1. q >= m + 1 => align * q >= align * (m + 1)
      BY <1>2
    <2>2. QED
      BY <1>2, <1>5, <2>1
  <1>7. align * q <= align * m
    BY <1>2, <1>6
  <1>8. QED
    BY <1>2, <1>7 DEF u

-----------------------------------------------------------------------------
\* The inductive invariant: disjointness survives a grant because the cursor
\* is past every fresh region, and a grant starts at or above the cursor.
ArenaInv == TypeOK /\ FreshDisjoint /\ CursorPastFresh /\ GrantsUsable

USE DEF Region, Fresh, Allocator!Region, Allocator!Fresh, Allocator!Disjoint,
        Allocator!InBuffer, Allocator!IsAligned

\* The one operation that can break it, alloc_bytes, keeps the invariant.
LEMMA AllocKeepsArenaInv ==
    ASSUME ArenaInv, NEW h \in Holders, NEW len \in Nat, NEW align \in Nat,
           AllocBytes(h, len, align)
    PROVE  ArenaInv'
  <1> USE DEF ArenaInv
  <1>1. CASE result' # "Ok"
    <2>1. UNCHANGED <<buf, offset, held>> /\ result' \in {"Invalid", "OutOfMemory"}
      BY <1>1 DEF AllocBytes, Verdict
    <2>2. QED
      BY <2>1 DEF TypeOK, FreshDisjoint, CursorPastFresh, GrantsUsable
  <1>2. CASE result' = "Ok"
    <2> DEFINE start == NewOffset(buf, offset, align)
               r     == Granted(start, len, align)
    <2>1. /\ UNCHANGED buf
          /\ offset' = start + len
          /\ held' = [held EXCEPT ![h] = r]
          /\ Verdict(buf, offset, len, align) = "Ok"
      BY <1>2 DEF AllocBytes
    <2>2. /\ align # 0
          /\ start \in Nat
          /\ offset <= start
          /\ start + len <= buf.len
          /\ (buf.addr + start) % align = 0
      BY <2>1, Placement DEF TypeOK
    <2> HIDE DEF start
    <2>3. r \in Region /\ r.start = start /\ r.len = len /\ r.align = align
      BY <2>2 DEF Granted
    <2> HIDE DEF r
    <2>4. held'[h] = r /\ \A g \in Holders \ {h} : held'[g] = held[g]
      BY <2>1 DEF TypeOK
    <2>5. TypeOK'
      <3>1. buf.len \in Nat
        BY ArenaAssumption DEF TypeOK
      <3>2. QED
        BY <1>2, <2>1, <2>2, <2>3, <3>1 DEF TypeOK
    <2>6. \A g \in Holders \ {h} : Fresh(g) =>
             /\ held[g].start \in Nat
             /\ held[g].len \in Nat
             /\ held[g].start + held[g].len <= start
      BY <2>2, ArenaAssumption DEF TypeOK, CursorPastFresh
    <2>7. FreshDisjoint'
      BY <2>2, <2>3, <2>4, <2>6 DEF FreshDisjoint
    <2>8. CursorPastFresh'
      BY <2>1, <2>2, <2>3, <2>4, <2>6 DEF CursorPastFresh
    <2>9. GrantsUsable'
      BY <2>1, <2>2, <2>3, <2>4 DEF GrantsUsable
    <2>10. QED
      BY <2>5, <2>7, <2>8, <2>9
  <1>3. QED
    BY <1>1, <1>2

\* Every operation keeps the invariant.
LEMMA StepKeepsArenaInv == ArenaInv /\ [Next]_vars => ArenaInv'
  <1> SUFFICES ASSUME ArenaInv, [Next]_vars PROVE ArenaInv'
    OBVIOUS
  <1> USE DEF ArenaInv
  <1>1. CASE Reset
    <2>1. \A h \in Holders : ~Fresh(h)'
      BY <1>1 DEF Reset, TypeOK
    <2>2. TypeOK'
      <3>1. \A h \in Holders : held'[h] \in Region \cup {NoRegion}
        <4> SUFFICES ASSUME NEW h \in Holders
                     PROVE  held'[h] \in Region \cup {NoRegion}
          OBVIOUS
        <4>1. held[h] \in Region \cup {NoRegion}
          BY DEF TypeOK
        <4>2. CASE Fresh(h)
          BY <1>1, <4>1, <4>2 DEF Reset
        <4>3. CASE ~Fresh(h)
          BY <1>1, <4>1, <4>3 DEF Reset
        <4>4. QED
          BY <4>2, <4>3
      <3>2. held' \in [Holders -> Region \cup {NoRegion}]
        BY <1>1, <3>1 DEF Reset
      <3>3. buf.len \in Nat
        BY ArenaAssumption DEF TypeOK
      <3>4. QED
        BY <1>1, <3>2, <3>3 DEF Reset, TypeOK
    <2>3. GrantsUsable'
      BY <1>1, NoRegionAssumption DEF Reset, TypeOK, GrantsUsable
    <2>4. QED
      BY <2>1, <2>2, <2>3 DEF FreshDisjoint, CursorPastFresh
  <1>2. ASSUME NEW hs \in SUBSET Holders, Drop(hs) PROVE ArenaInv'
    <2>1. TypeOK'
      BY <1>2 DEF Drop, TypeOK
    <2>2. \A g \in Holders : held'[g] # NoRegion => held'[g] = held[g]
      BY <1>2 DEF Drop, TypeOK
    <2>3. UNCHANGED <<buf, offset>>
      BY <1>2 DEF Drop
    <2>4. QED
      BY <2>1, <2>2, <2>3 DEF FreshDisjoint, CursorPastFresh, GrantsUsable
  <1>3. ASSUME NEW h \in Holders, NEW len \in Lens, NEW align \in Aligns,
               AllocBytes(h, len, align)
        PROVE  ArenaInv'
    BY <1>3, AllocKeepsArenaInv, ArenaAssumption
  <1>4. ASSUME NEW h \in Holders, NEW layout \in Layouts, NEW count \in Nat,
               AllocSlice(h, layout, count)
        PROVE  ArenaInv'
    <2>1. CASE layout.size * count > UsizeMax
      BY <1>4, <2>1 DEF AllocSlice, TypeOK, FreshDisjoint, CursorPastFresh,
                        GrantsUsable
    <2>2. CASE ~(layout.size * count > UsizeMax)
      <3>1. layout.size * count \in Nat /\ layout.align \in Nat
        BY ArenaAssumption
      <3>2. AllocBytes(h, layout.size * count, layout.align)
        BY <1>4, <2>2 DEF AllocSlice
      <3>3. QED
        BY <3>1, <3>2, AllocKeepsArenaInv
    <2>3. QED
      BY <2>1, <2>2
  <1>5. ASSUME NEW h \in Holders, NEW layout \in Layouts, AllocOne(h, layout)
        PROVE  ArenaInv'
    BY <1>4, <1>5 DEF AllocOne
  <1>6. CASE UNCHANGED vars
    BY <1>6 DEF vars, TypeOK, FreshDisjoint, CursorPastFresh, GrantsUsable
  <1>7. QED
    BY <1>1, <1>2, <1>3, <1>4, <1>5, <1>6, ArenaAssumption DEF Next

LEMMA InitArenaInv == Init => ArenaInv
  BY ArenaAssumption
     DEF Init, ArenaInv, TypeOK, FreshDisjoint, CursorPastFresh, GrantsUsable

\* TypeOK, FreshDisjoint, CursorPastFresh and GrantsUsable hold in every state,
\* for every buffer, element type and sequence of requests: the unsafe slices
\* of arena.rs never alias and never leave the buffer between two resets.
THEOREM ArenaSafe == Spec => []ArenaInv
  BY InitArenaInv, StepKeepsArenaInv, PTL DEF Spec

\* The types alone.
THEOREM ArenaTypes == Spec => []TypeOK
  BY ArenaSafe, PTL DEF ArenaInv

\* Between two resets no byte is lent twice: FreshDisjoint.
THEOREM NoAliasing == Spec => []FreshDisjoint
  BY ArenaSafe, PTL DEF ArenaInv

\* The cursor never falls behind a slice granted since the last reset:
\* CursorPastFresh.
THEOREM CursorAhead == Spec => []CursorPastFresh
  BY ArenaSafe, PTL DEF ArenaInv

\* What a borrower holds is inside the buffer and aligned: GrantsUsable.
THEOREM SlicesUsable == Spec => []GrantsUsable
  BY ArenaSafe, PTL DEF ArenaInv

-----------------------------------------------------------------------------
\* Every step of the arena is a step, or a stutter, of the abstract allocator.
LEMMA StepRefines == ArenaInv /\ ArenaInv' /\ [Next]_vars
                        => [Allocator!ANext]_(Allocator!avars)
  <1> SUFFICES ASSUME ArenaInv, ArenaInv', [Next]_vars
               PROVE  [Allocator!ANext]_(Allocator!avars)
    OBVIOUS
  <1> USE DEF ArenaInv, Allocator!ANext, Allocator!avars
  <1>1. CASE Reset
    <2>1. Allocator!Recycle
      BY <1>1 DEF Reset, Allocator!Recycle
    <2>2. QED
      BY <2>1
  <1>2. ASSUME NEW hs \in SUBSET Holders, Drop(hs) PROVE Allocator!Release(hs)
    BY <1>2 DEF Drop, Allocator!Release
  <1>3. ASSUME NEW h \in Holders, NEW len \in Nat, NEW align \in Nat,
               AllocBytes(h, len, align)
        PROVE  Allocator!Grant(h) \/ UNCHANGED Allocator!avars
    <2>1. CASE result' # "Ok"
      BY <1>3, <2>1 DEF AllocBytes
    <2>2. CASE result' = "Ok"
      <3> DEFINE r == Granted(NewOffset(buf, offset, align), len, align)
      <3>1. /\ held[h] = NoRegion
            /\ held' = [held EXCEPT ![h] = r]
            /\ UNCHANGED buf
        BY <1>3, <2>2 DEF AllocBytes
      <3>2. held'[h] = r /\ r # NoRegion /\ r.fresh
        <4>1. held'[h] = r
          BY <3>1 DEF TypeOK
        <4>2. AllocBytes(h, len, align) /\ Verdict(buf, offset, len, align) = "Ok"
          BY <1>3, <2>2 DEF AllocBytes
        <4>3. r \in Region
          BY <4>2, Placement DEF TypeOK, Granted
        <4>4. QED
          BY <4>1, <4>3, NoRegionAssumption DEF Granted
      <3>3. \A g \in Holders : Fresh(g) =>
               g # h /\ held'[g] = held[g] /\ Fresh(g)'
        BY <3>1 DEF TypeOK
      <3>4. \A g \in Holders : Fresh(g) => Allocator!Disjoint(held[g], held'[h])
        BY <3>2, <3>3 DEF FreshDisjoint
      <3>5. held'[h] \in Region /\ Allocator!InBuffer(held'[h]) /\ Allocator!IsAligned(held'[h])
        BY <3>1, <3>2 DEF TypeOK, GrantsUsable
      <3>6. Allocator!Grant(h)
        BY <3>1, <3>2, <3>4, <3>5 DEF Allocator!Grant
      <3>7. QED
        BY <3>6
    <2>3. QED
      BY <2>1, <2>2
  <1>4. ASSUME NEW h \in Holders, NEW layout \in Layouts, NEW count \in Nat,
               AllocSlice(h, layout, count)
        PROVE  Allocator!Grant(h) \/ UNCHANGED Allocator!avars
    <2>1. CASE layout.size * count > UsizeMax
      BY <1>4, <2>1 DEF AllocSlice
    <2>2. CASE ~(layout.size * count > UsizeMax)
      <3>1. layout.size * count \in Nat /\ layout.align \in Nat
        BY ArenaAssumption
      <3>2. AllocBytes(h, layout.size * count, layout.align)
        BY <1>4, <2>2 DEF AllocSlice
      <3>3. QED
        BY <3>1, <3>2, <1>3
    <2>3. QED
      BY <2>1, <2>2
  <1>5. CASE UNCHANGED vars
    BY <1>5 DEF vars
  <1>6. QED
    BY <1>1, <1>2, <1>3, <1>4, <1>5, ArenaAssumption DEF Next, AllocOne

\* The bump arena implements the abstract allocator: ImplementsAllocator.
THEOREM Refinement == Spec => ImplementsAllocator
  <1>1. Init => Allocator!AInit
    BY DEF Init, Allocator!AInit
  <1>2. QED
    BY <1>1, StepRefines, ArenaSafe, PTL
       DEF Spec, ImplementsAllocator, Allocator!ASpec

-----------------------------------------------------------------------------
\* A valid request for which an aligned region is left is granted: the region
\* alloc_bytes tries is the first one, and neither sum overflows on the way.
LEMMA GrantsWhatFits ==
    ASSUME NEW b \in Bufs, NEW off \in 0 .. b.len, NEW len \in Nat,
           NEW align \in Nat, align # 0, IsPowerOfTwo(align),
           NEW start \in off .. b.len,
           (b.addr + start) % align = 0, start + len <= b.len
    PROVE  Verdict(b, off, len, align) = "Ok"
  <1> DEFINE at  == b.addr + off
             top == b.addr + start
             up  == AlignUp(at, align)
             max == UsizeMax
  <1>1. /\ b.addr \in Nat /\ b.len \in Nat /\ b.addr + b.len <= max
        /\ at \in Nat /\ top \in Nat /\ at <= top /\ align \in Nat \ {0}
    BY ArenaAssumption
  <1>2. PICK m \in Nat : top = align * m
    BY <1>1, ModMultiple
  <1>3. at <= align * m
    BY <1>1, <1>2
  <1>4. up <= top
    <2>1. up <= align * m
      BY <1>1, <1>3, AlignUpLeast
    <2> HIDE DEF up, top
    <2>2. QED
      BY <1>2, <2>1
  <1>5. PICK k \in Nat : max + 1 = align * k
    BY AlignDivides
  <1>6. PICK q \in Nat : up = align * q
    <2>1. up \in Nat /\ up % align = 0
      BY <1>1, AlignUpFacts
    <2> HIDE DEF up
    <2>2. QED
      BY <1>1, <2>1, ModMultiple
  <1>7. at <= up /\ up \in Nat
    BY <1>1, AlignUpFacts
  <1> HIDE DEF up, max
  <1>8. up <= max /\ max \in Int
    BY <1>1, <1>4, <1>7, UsizeMaxNat DEF max
  <1>9. up + align <= max + 1
    <2>1. q + 1 <= k
      <3>1. q >= k => align * q >= align * k
        BY <1>1
      <3>2. QED
        BY <1>5, <1>6, <1>8, <3>1
    <2>2. align * (q + 1) <= align * k
      BY <1>1, <2>1
    <2>3. align * (q + 1) = align * q + align
      BY <1>1
    <2>4. QED
      BY <1>1, <1>5, <1>6, <2>2, <2>3
  <1>10. at + (align - 1) <= max
    BY <1>1, <1>7, <1>8, <1>9
  <1>11. /\ NewOffset(b, off, align) = up - b.addr
         /\ up - b.addr + len <= b.len
         /\ up - b.addr + len <= max
    BY <1>1, <1>4, <1>7, <1>8 DEF NewOffset, up
  <1>12. QED
    BY <1>1, <1>7, <1>8, <1>10, <1>11 DEF Verdict, max

\* A request for which no aligned region is left, and only such a request, is
\* refused, in every buffer, even one that ends at the top of memory:
\* RefusesOnlyWhatDoesNotFit.
THEOREM RefusesWhenFull == Spec => []RefusesOnlyWhatDoesNotFit
  <1>1. TypeOK => RefusesOnlyWhatDoesNotFit
    <2> SUFFICES ASSUME TypeOK, NEW len \in Lens, NEW align \in Aligns,
                        align # 0, IsPowerOfTwo(align)
                 PROVE  Verdict(buf, offset, len, align) = "OutOfMemory" <=>
                          ~ \E start \in offset .. buf.len :
                               /\ (buf.addr + start) % align = 0
                               /\ start + len <= buf.len
      BY DEF RefusesOnlyWhatDoesNotFit
    <2>1. /\ len \in Nat /\ align \in Nat
          /\ buf \in Bufs /\ offset \in 0 .. buf.len
          /\ buf.len \in Nat
      BY ArenaAssumption DEF TypeOK
    <2>2. Verdict(buf, offset, len, align) \in {"Ok", "OutOfMemory"}
      BY DEF Verdict
    <2>3. ASSUME NEW start \in offset .. buf.len,
                 (buf.addr + start) % align = 0, start + len <= buf.len
          PROVE  Verdict(buf, offset, len, align) = "Ok"
      BY <2>1, <2>3, GrantsWhatFits
    <2>4. ASSUME Verdict(buf, offset, len, align) = "Ok"
          PROVE  \E start \in offset .. buf.len :
                    /\ (buf.addr + start) % align = 0
                    /\ start + len <= buf.len
      <3> DEFINE start == NewOffset(buf, offset, align)
      <3>1. /\ start \in Nat
            /\ offset <= start
            /\ start + len <= buf.len
            /\ (buf.addr + start) % align = 0
        BY <2>1, <2>4, Placement
      <3> HIDE DEF start
      <3>2. start \in offset .. buf.len
        BY <2>1, <3>1
      <3>3. QED
        BY <3>1, <3>2
    <2>5. QED
      BY <2>2, <2>3, <2>4
  <1>2. QED
    BY <1>1, ArenaTypes, PTL
=============================================================================
