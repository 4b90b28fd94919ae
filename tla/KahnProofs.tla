---------------------------- MODULE KahnProofs ----------------------------
(***************************************************************************)
(* Proofs about Kahn.  The argument: the offset of a node's consumers is   *)
(* the number of references whose producer lies below it, so a reference r *)
(* has a slot of its own, Slot(r), and the slots 0 .. m-1 are all taken    *)
(* (SlotInjective, SlotOnto).  The count, prefix-sum and fill loops        *)
(* therefore write every slot once.  While nodes are emitted, a node's     *)
(* indegree is the number of references to it that are not yet freed       *)
(* (Emitting); each slot the relax loop passes frees one.  The queue holds *)
(* each node whose indegree is zero once, so it never outgrows n slots,    *)
(* what it hands out may come next, and when it is empty no other node may.*)
(*                                                                         *)
(* The sort of GraphSort goes through the same states (Follows): its turns *)
(* visit all references, of which those that read the node emitted are the *)
(* slots of that node, in the same order.                                  *)
(***************************************************************************)
EXTENDS Kahn, GraphSortProofs, SequenceTheorems

\* Reference lists of a graph of n nodes, and how the proofs count in them: the
\* references whose producer lies below v, and of the first j - 1 references
\* those that name v and those of v's input list.
Refs(n) == Seq([to : 0 .. n - 1, from : Nat])

Below(refs, v)        == {r \in 1 .. Len(refs) : refs[r].from < v}
FromBefore(refs, v, j) == {r \in 1 .. j - 1 : refs[r].from = v}
ToBefore(refs, v, j)   == {r \in 1 .. j - 1 : refs[r].to = v}

\* The cell of the adjacency list that the fill loop writes for reference r.
Slot(refs, r) ==
    Cardinality(Below(refs, refs[r].from))
      + Cardinality(FromBefore(refs, refs[r].from, r))

\* No entry names a node outside the graph.
KnownIds(refs, n) == \A r \in 1 .. Len(refs) : refs[r].from < n

\* What the members of a reference list are.
LEMMA RefsType ==
    ASSUME NEW n \in Nat, NEW refs \in Refs(n)
    PROVE  /\ Len(refs) \in Nat
           /\ \A r \in 1 .. Len(refs) :
                 refs[r].to \in 0 .. n - 1 /\ refs[r].from \in Nat
  <1> DEFINE R == [to : 0 .. n - 1, from : Nat]
  <1>1. refs \in Seq(R)
    BY DEF Refs
  <1> HIDE DEF R
  <1>2. Len(refs) \in Nat /\ \A r \in 1 .. Len(refs) : refs[r] \in R
    BY <1>1
  <1>3. QED
    BY <1>2 DEF R

\* One more reference is counted for its producer and for its node.
LEMMA CountStep ==
    ASSUME NEW n \in Nat, NEW refs \in Refs(n), NEW v, NEW j \in 1 .. Len(refs)
    PROVE  /\ Cardinality(FromBefore(refs, v, j + 1))
                = Cardinality(FromBefore(refs, v, j))
                    + (IF refs[j].from = v THEN 1 ELSE 0)
           /\ Cardinality(ToBefore(refs, v, j + 1))
                = Cardinality(ToBefore(refs, v, j))
                    + (IF refs[j].to = v THEN 1 ELSE 0)
  <1> DEFINE F == FromBefore(refs, v, j)
             T == ToBefore(refs, v, j)
  <1>1. j \in Nat \ {0} /\ Len(refs) \in Nat
    BY RefsType
  <1>2. IsFiniteSet(1 .. j - 1)
    BY <1>1, FS_Interval
  <1>3. F \in SUBSET (1 .. j - 1) /\ T \in SUBSET (1 .. j - 1)
    BY DEF FromBefore, ToBefore
  <1>4. /\ IsFiniteSet(F) /\ Cardinality(F) \in Nat
        /\ IsFiniteSet(T) /\ Cardinality(T) \in Nat
    BY <1>2, <1>3, FS_Subset, FS_CardinalityType
  <1>5. j \notin F /\ j \notin T
    BY <1>1, <1>3
  <1>6. /\ Cardinality(F \cup {j}) = Cardinality(F) + 1
        /\ Cardinality(T \cup {j}) = Cardinality(T) + 1
    BY <1>4, <1>5, FS_AddElement
  <1>7. FromBefore(refs, v, j + 1) = IF refs[j].from = v THEN F \cup {j} ELSE F
    BY <1>1 DEF FromBefore
  <1>8. ToBefore(refs, v, j + 1) = IF refs[j].to = v THEN T \cup {j} ELSE T
    BY <1>1 DEF ToBefore
  <1>9. QED
    BY <1>4, <1>6, <1>7, <1>8

\* The sets that are counted are finite, and no larger than the list.
LEMMA BelowType ==
    ASSUME NEW n \in Nat, NEW refs \in Refs(n), NEW v \in Int
    PROVE  /\ IsFiniteSet(Below(refs, v))
           /\ Cardinality(Below(refs, v)) \in Nat
           /\ Cardinality(Below(refs, v)) <= Len(refs)
  <1>1. Len(refs) \in Nat
    BY RefsType
  <1>2. IsFiniteSet(1 .. Len(refs)) /\ Cardinality(1 .. Len(refs)) = Len(refs)
    BY <1>1, Segment
  <1>3. Below(refs, v) \in SUBSET (1 .. Len(refs))
    BY DEF Below
  <1>4. IsFiniteSet(Below(refs, v)) /\ Cardinality(Below(refs, v)) <= Len(refs)
    BY <1>2, <1>3, FS_Subset
  <1>5. Cardinality(Below(refs, v)) \in Nat
    BY <1>4, FS_CardinalityType
  <1>6. QED
    BY <1>1, <1>4, <1>5

\* So are those counted over a prefix of the list.
LEMMA BeforeType ==
    ASSUME NEW n \in Nat, NEW refs \in Refs(n), NEW v, NEW j \in 1 .. Len(refs) + 1
    PROVE  /\ IsFiniteSet(FromBefore(refs, v, j))
           /\ Cardinality(FromBefore(refs, v, j)) \in Nat
           /\ Cardinality(FromBefore(refs, v, j)) <= j - 1
           /\ IsFiniteSet(ToBefore(refs, v, j))
           /\ Cardinality(ToBefore(refs, v, j)) \in Nat
           /\ Cardinality(ToBefore(refs, v, j)) <= j - 1
  <1>1. j \in Nat \ {0} /\ j - 1 \in Nat
    BY RefsType
  <1>2. IsFiniteSet(1 .. j - 1) /\ Cardinality(1 .. j - 1) = j - 1
    BY <1>1, Segment
  <1>3. /\ FromBefore(refs, v, j) \in SUBSET (1 .. j - 1)
        /\ ToBefore(refs, v, j) \in SUBSET (1 .. j - 1)
    BY DEF FromBefore, ToBefore
  <1>4. /\ IsFiniteSet(FromBefore(refs, v, j))
        /\ Cardinality(FromBefore(refs, v, j)) <= j - 1
        /\ IsFiniteSet(ToBefore(refs, v, j))
        /\ Cardinality(ToBefore(refs, v, j)) <= j - 1
    BY <1>2, <1>3, FS_Subset
  <1>5. /\ Cardinality(FromBefore(refs, v, j)) \in Nat
        /\ Cardinality(ToBefore(refs, v, j)) \in Nat
    BY <1>4, FS_CardinalityType
  <1>6. QED
    BY <1>1, <1>4, <1>5

\* Nothing comes before the first reference, or below node 0.
LEMMA CountBase ==
    ASSUME NEW n \in Nat, NEW refs \in Refs(n), NEW v
    PROVE  /\ Cardinality(FromBefore(refs, v, 1)) = 0
           /\ Cardinality(ToBefore(refs, v, 1)) = 0
           /\ Cardinality(Below(refs, 0)) = 0
  <1>1. /\ FromBefore(refs, v, 1) = {} /\ ToBefore(refs, v, 1) = {}
    BY DEF FromBefore, ToBefore
  <1>2. Below(refs, 0) = {}
    BY RefsType DEF Below
  <1>3. QED
    BY <1>1, <1>2, FS_EmptySet

\* One step of the prefix sum.
LEMMA BelowStep ==
    ASSUME NEW n \in Nat, NEW refs \in Refs(n), NEW v \in Nat
    PROVE  Cardinality(Below(refs, v + 1))
             = Cardinality(Below(refs, v))
                 + Cardinality(FromBefore(refs, v, Len(refs) + 1))
  <1>1. /\ Len(refs) \in Nat /\ Len(refs) + 1 \in 1 .. Len(refs) + 1
        /\ \A r \in 1 .. Len(refs) : refs[r].from \in Nat
    BY RefsType
  <1>2. /\ IsFiniteSet(Below(refs, v))
        /\ IsFiniteSet(FromBefore(refs, v, Len(refs) + 1))
    <2>1. IsFiniteSet(Below(refs, v))
      BY BelowType
    <2>2. IsFiniteSet(FromBefore(refs, v, Len(refs) + 1))
      BY <1>1, BeforeType
    <2>3. QED
      BY <2>1, <2>2
  <1>3. \A r \in Below(refs, v) : r \notin FromBefore(refs, v, Len(refs) + 1)
    BY <1>1 DEF Below, FromBefore
  <1>4. Below(refs, v + 1) = Below(refs, v) \cup FromBefore(refs, v, Len(refs) + 1)
    BY <1>1 DEF Below, FromBefore
  <1>5. QED
    BY <1>2, <1>3, <1>4, DisjointUnion

\* A higher bound counts no less.
LEMMA BelowMonotone ==
    ASSUME NEW n \in Nat, NEW refs \in Refs(n), NEW x \in Int, NEW y \in Int, x <= y
    PROVE  Cardinality(Below(refs, x)) <= Cardinality(Below(refs, y))
  <1>1. IsFiniteSet(Below(refs, y))
    BY BelowType
  <1>2. Below(refs, x) \in SUBSET Below(refs, y)
    BY RefsType DEF Below
  <1>3. QED
    BY <1>1, <1>2, FS_Subset

\* The same over prefixes of the list.
LEMMA BeforeMonotone ==
    ASSUME NEW n \in Nat, NEW refs \in Refs(n), NEW v,
           NEW a \in 1 .. Len(refs) + 1, NEW b \in 1 .. Len(refs) + 1, a <= b
    PROVE  Cardinality(FromBefore(refs, v, a)) <= Cardinality(FromBefore(refs, v, b))
  <1>1. IsFiniteSet(FromBefore(refs, v, b))
    BY BeforeType
  <1>2. FromBefore(refs, v, a) \in SUBSET FromBefore(refs, v, b)
    BY RefsType DEF FromBefore
  <1>3. QED
    BY <1>1, <1>2, FS_Subset

\* The slot of a reference lies among the slots of its producer.
LEMMA SlotRange ==
    ASSUME NEW n \in Nat, NEW refs \in Refs(n), NEW r \in 1 .. Len(refs)
    PROVE  /\ Slot(refs, r) \in Int
           /\ Cardinality(Below(refs, refs[r].from)) <= Slot(refs, r)
           /\ Slot(refs, r) < Cardinality(Below(refs, refs[r].from + 1))
  <1> DEFINE v == refs[r].from
  <1>1. /\ v \in Nat /\ v \in Int /\ Len(refs) \in Nat /\ r \in Nat \ {0}
        /\ r \in 1 .. Len(refs) + 1 /\ r + 1 \in 1 .. Len(refs) + 1
        /\ Len(refs) + 1 \in 1 .. Len(refs) + 1
    BY RefsType
  <1>2. /\ Cardinality(Below(refs, v)) \in Nat
        /\ Cardinality(FromBefore(refs, v, r)) \in Nat
        /\ Cardinality(FromBefore(refs, v, Len(refs) + 1)) \in Nat
    <2>1. Cardinality(Below(refs, v)) \in Nat
      BY <1>1, BelowType
    <2>2. \A j \in 1 .. Len(refs) + 1 : Cardinality(FromBefore(refs, v, j)) \in Nat
      BY BeforeType
    <2>3. QED
      BY <1>1, <2>1, <2>2
  <1>3. Cardinality(FromBefore(refs, v, r + 1)) = Cardinality(FromBefore(refs, v, r)) + 1
    BY <1>1, CountStep
  <1>4. Cardinality(FromBefore(refs, v, r + 1))
          <= Cardinality(FromBefore(refs, v, Len(refs) + 1))
    BY <1>1, BeforeMonotone
  <1>5. Cardinality(Below(refs, v + 1))
          = Cardinality(Below(refs, v)) + Cardinality(FromBefore(refs, v, Len(refs) + 1))
    BY <1>1, BelowStep
  <1>6. Slot(refs, r) = Cardinality(Below(refs, v)) + Cardinality(FromBefore(refs, v, r))
    BY DEF Slot
  <1> HIDE DEF v
  <1>7. /\ Slot(refs, r) \in Int
        /\ Cardinality(Below(refs, v)) <= Slot(refs, r)
        /\ Slot(refs, r) < Cardinality(Below(refs, v + 1))
    BY <1>2, <1>3, <1>4, <1>5, <1>6
  <1>8. QED
    BY <1>7 DEF v

\* Two references have two slots, and the slots are ordered as the producers.
LEMMA SlotInjective ==
    ASSUME NEW n \in Nat, NEW refs \in Refs(n),
           NEW q \in 1 .. Len(refs), NEW r \in 1 .. Len(refs)
    PROVE  /\ refs[q].from < refs[r].from => Slot(refs, q) < Slot(refs, r)
           /\ Slot(refs, q) = Slot(refs, r) => q = r
  <1>1. /\ refs[q].from \in Nat /\ refs[r].from \in Nat /\ Len(refs) \in Nat
    BY RefsType
  <1>2. \A a, b \in 1 .. Len(refs) :
           refs[a].from < refs[b].from => Slot(refs, a) < Slot(refs, b)
    <2> SUFFICES ASSUME NEW a \in 1 .. Len(refs), NEW b \in 1 .. Len(refs),
                        refs[a].from < refs[b].from
                 PROVE  Slot(refs, a) < Slot(refs, b)
      OBVIOUS
    <2>1. refs[a].from \in Nat /\ refs[b].from \in Nat
      BY RefsType
    <2>2. /\ Slot(refs, a) \in Int
          /\ Slot(refs, a) < Cardinality(Below(refs, refs[a].from + 1))
      BY SlotRange
    <2>3. /\ Slot(refs, b) \in Int
          /\ Cardinality(Below(refs, refs[b].from)) <= Slot(refs, b)
      BY SlotRange
    <2>4. /\ refs[a].from + 1 \in Int /\ refs[b].from \in Int
          /\ refs[a].from + 1 <= refs[b].from
          /\ Len(refs) + 1 \in 1 .. Len(refs) + 1
      BY <1>1, <2>1
    <2>5. Cardinality(Below(refs, refs[a].from + 1)) <= Cardinality(Below(refs, refs[b].from))
      BY <2>4, BelowMonotone
    <2>6. /\ Cardinality(Below(refs, refs[a].from + 1)) \in Nat
          /\ Cardinality(Below(refs, refs[b].from)) \in Nat
      BY <2>4, BelowType
    <2>7. QED
      BY <2>2, <2>3, <2>5, <2>6
  <1>3. \A a, b \in 1 .. Len(refs) :
           refs[a].from = refs[b].from /\ a < b => Slot(refs, a) < Slot(refs, b)
    <2> SUFFICES ASSUME NEW a \in 1 .. Len(refs), NEW b \in 1 .. Len(refs),
                        refs[a].from = refs[b].from, a < b
                 PROVE  Slot(refs, a) < Slot(refs, b)
      OBVIOUS
    <2> DEFINE v == refs[a].from
    <2>1. /\ v \in Nat /\ a \in Nat /\ b \in Nat /\ a + 1 <= b
          /\ a \in 1 .. Len(refs) + 1 /\ a + 1 \in 1 .. Len(refs) + 1 /\ b \in 1 .. Len(refs) + 1
      BY <1>1, RefsType
    <2>2. Cardinality(FromBefore(refs, v, a + 1)) = Cardinality(FromBefore(refs, v, a)) + 1
      BY CountStep
    <2>3. Cardinality(FromBefore(refs, v, a + 1)) <= Cardinality(FromBefore(refs, v, b))
      BY <2>1, BeforeMonotone
    <2>4. /\ Cardinality(Below(refs, v)) \in Nat
          /\ Cardinality(FromBefore(refs, v, a)) \in Nat
          /\ Cardinality(FromBefore(refs, v, b)) \in Nat
      <3>1. Cardinality(Below(refs, v)) \in Nat
        BY <2>1, BelowType
      <3>2. \A j \in 1 .. Len(refs) + 1 : Cardinality(FromBefore(refs, v, j)) \in Nat
        BY BeforeType
      <3>3. QED
        BY <2>1, <3>1, <3>2
    <2>5. /\ Slot(refs, a) = Cardinality(Below(refs, v)) + Cardinality(FromBefore(refs, v, a))
          /\ Slot(refs, b) = Cardinality(Below(refs, v)) + Cardinality(FromBefore(refs, v, b))
      BY DEF Slot
    <2> HIDE DEF v
    <2>6. QED
      BY <2>2, <2>3, <2>4, <2>5
  <1>4. Slot(refs, q) \in Int /\ Slot(refs, r) \in Int
    BY SlotRange
  <1>5. QED
    BY <1>1, <1>2, <1>3, <1>4

\* With every id known, all references lie below n.
LEMMA BelowAll ==
    ASSUME NEW n \in Nat, NEW refs \in Refs(n), KnownIds(refs, n), NEW v \in Int, n <= v
    PROVE  Cardinality(Below(refs, v)) = Len(refs)
  <1>1. Len(refs) \in Nat /\ \A r \in 1 .. Len(refs) : refs[r].from \in Nat
    BY RefsType
  <1>2. Below(refs, v) = 1 .. Len(refs)
    BY <1>1 DEF Below, KnownIds
  <1>3. Cardinality(1 .. Len(refs)) = Len(refs)
    BY <1>1, Segment
  <1>4. QED
    BY <1>2, <1>3, Zenon

\* With every id known, each slot of a producer is the slot of one of its
\* references: the list has no gap.
LEMMA SlotOnto ==
    ASSUME NEW n \in Nat, NEW refs \in Refs(n), KnownIds(refs, n)
    PROVE  /\ \A r \in 1 .. Len(refs) : Slot(refs, r) \in 0 .. Len(refs) - 1
           /\ \A p \in 0 .. n - 1 :
                \A s \in Cardinality(Below(refs, p)) .. Cardinality(Below(refs, p + 1)) - 1 :
                   \E r \in 1 .. Len(refs) : refs[r].from = p /\ Slot(refs, r) = s
  <1> DEFINE m == Len(refs)
             f == [r \in 1 .. m |-> Slot(refs, r)]
  <1>1. m \in Nat /\ \A r \in 1 .. m : refs[r].from \in Nat /\ refs[r].from < n
    BY RefsType DEF KnownIds
  <1>2. \A r \in 1 .. m : Slot(refs, r) \in 0 .. m - 1
    <2> SUFFICES ASSUME NEW r \in 1 .. m PROVE Slot(refs, r) \in 0 .. m - 1
      OBVIOUS
    <2>1. /\ refs[r].from \in Int /\ refs[r].from + 1 \in Int /\ refs[r].from + 1 <= n
          /\ n \in Int /\ m + 1 \in 1 .. m + 1
      BY <1>1
    <2>2. /\ Cardinality(Below(refs, refs[r].from)) \in Nat
          /\ Cardinality(Below(refs, refs[r].from + 1)) \in Nat
      BY <2>1, BelowType
    <2>3. Cardinality(Below(refs, refs[r].from + 1)) <= Cardinality(Below(refs, n))
      BY <2>1, BelowMonotone
    <2>4. Cardinality(Below(refs, n)) = m
      BY <2>1, BelowAll
    <2>5. /\ Slot(refs, r) \in Int
          /\ Cardinality(Below(refs, refs[r].from)) <= Slot(refs, r)
          /\ Slot(refs, r) < Cardinality(Below(refs, refs[r].from + 1))
      BY SlotRange
    <2> HIDE DEF m
    <2>6. QED
      BY <1>1, <2>2, <2>3, <2>4, <2>5
  <1>3. f \in Injection(1 .. m, 0 .. m - 1)
    <2>1. f \in [1 .. m -> 0 .. m - 1]
      BY <1>2
    <2>2. \A a, b \in 1 .. m : f[a] = f[b] => a = b
      BY SlotInjective
    <2>3. QED
      BY <2>1, <2>2 DEF Injection, IsInjective
  <1>4. f \in Surjection(1 .. m, 0 .. m - 1)
    <2>1. IsFiniteSet(1 .. m) /\ Cardinality(1 .. m) = m
      BY <1>1, Segment
    <2>2. IsFiniteSet(0 .. m - 1) /\ Cardinality(0 .. m - 1) = m
      <3>1. /\ IsFiniteSet(0 .. m - 1)
            /\ Cardinality(0 .. m - 1) = IF 0 > m - 1 THEN 0 ELSE m - 1 - 0 + 1
        <4>1. m - 1 \in Int /\ 0 \in Int
          BY <1>1
        <4>2. QED
          BY <4>1, FS_Interval, ZenonT(20)
      <3>2. QED
        BY <1>1, <3>1
    <2>3. Cardinality(1 .. m) = Cardinality(0 .. m - 1) <=> f \in Surjection(1 .. m, 0 .. m - 1)
      BY <1>3, <2>2, FS_Injection, ZenonT(20)
    <2>4. Cardinality(1 .. m) = Cardinality(0 .. m - 1)
      BY <2>1, <2>2, Zenon
    <2>5. QED
      BY <2>3, <2>4
  <1>5. \A s \in 0 .. m - 1 : \E r \in 1 .. m : Slot(refs, r) = s
    BY <1>4 DEF Surjection
  <1>6. ASSUME NEW p \in 0 .. n - 1,
               NEW s \in Cardinality(Below(refs, p)) .. Cardinality(Below(refs, p + 1)) - 1
        PROVE  \E r \in 1 .. m : refs[r].from = p /\ Slot(refs, r) = s
    <2>1. /\ p \in Int /\ p + 1 \in Int /\ m + 1 \in 1 .. m + 1
      BY <1>1
    <2>2. /\ Cardinality(Below(refs, p)) \in Nat
          /\ Cardinality(Below(refs, p + 1)) \in Nat
          /\ Cardinality(Below(refs, p + 1)) <= m
      BY <2>1, BelowType
    <2>3. s \in 0 .. m - 1
      BY <1>1, <2>2
    <2>4. PICK r \in 1 .. m : Slot(refs, r) = s
      BY <1>5, <2>3
    <2> DEFINE v == refs[r].from
    <2>5. v \in Nat /\ v \in Int /\ v + 1 \in Int
      BY <1>1
    <2>6. /\ Cardinality(Below(refs, v)) <= s
          /\ s < Cardinality(Below(refs, v + 1))
      BY <2>4, SlotRange
    <2> HIDE DEF v
    <2>7. /\ Cardinality(Below(refs, v)) \in Nat
          /\ Cardinality(Below(refs, v + 1)) \in Nat
      BY <2>5, BelowType
    <2>8. v + 1 <= p => Cardinality(Below(refs, v + 1)) <= Cardinality(Below(refs, p))
      BY <2>1, <2>5, BelowMonotone
    <2>9. p + 1 <= v => Cardinality(Below(refs, p + 1)) <= Cardinality(Below(refs, v))
      BY <2>1, <2>5, BelowMonotone
    <2>10. v = p
      BY <2>2, <2>5, <2>6, <2>7, <2>8, <2>9
    <2>11. QED
      BY <2>4, <2>10 DEF v
  <1>7. QED
    BY <1>2, <1>6

-----------------------------------------------------------------------------
(* The inductive invariant: what is known in each phase of the sort. *)

Known     == KnownIds(graph.refs, N)
Untouched == head = 0 /\ tail = 0 /\ k = 0
Degrees   == \A v \in Nodes : indegree[v] = Cardinality(ToBefore(graph.refs, v, M + 1))
Offsets   == \A j \in 0 .. N : adjOff[j] = Cardinality(Below(graph.refs, j))
Filled(j) == \A r \in 1 .. j - 1 : adj[Slot(graph.refs, r)] = graph.refs[r].to
Queued    == {queue[q] : q \in 0 .. tail - 1}
Once      == /\ \A q \in 0 .. tail - 1 : queue[q] \in Nodes
             /\ \A q, r \in 0 .. tail - 1 : queue[q] = queue[r] => q = r

\* The producer of a reference is emitted, and the loop over the consumers of
\* the node emitted last has passed the reference's slot.
Freed(r) ==
    /\ graph.refs[r].from \in SortedSet
    /\ ~(/\ pc = "relax" /\ graph.refs[r].from = order[k - 1]
         /\ i <= Slot(graph.refs, r))
Pending(v) == {r \in 1 .. M : graph.refs[r].to = v /\ ~Freed(r)}

Counting ==
    /\ Untouched /\ acc = 0
    /\ i \in 1 .. M + 1
    /\ \A r \in 1 .. i - 1 : graph.refs[r].from < N
    /\ \A j \in 0 .. N : adjOff[j] = Cardinality(FromBefore(graph.refs, j, i))
    /\ \A v \in Nodes : indegree[v] = Cardinality(ToBefore(graph.refs, v, i))

Prefixing ==
    /\ Untouched /\ Known /\ Degrees
    /\ i \in 0 .. N + 1
    /\ acc = Cardinality(Below(graph.refs, i))
    /\ \A j \in 0 .. N :
          adjOff[j] = IF j < i THEN Cardinality(Below(graph.refs, j))
                               ELSE Cardinality(FromBefore(graph.refs, j, M + 1))

Filling ==
    /\ Untouched /\ Known /\ Degrees /\ Offsets
    /\ i \in 1 .. M + 1
    /\ \A v \in Nodes :
          cur[v] = Cardinality(Below(graph.refs, v)) + Cardinality(FromBefore(graph.refs, v, i))
    /\ Filled(i)

Seeding ==
    /\ head = 0 /\ k = 0 /\ Known /\ Degrees /\ Offsets /\ Filled(M + 1)
    /\ i \in 0 .. N
    /\ Once
    /\ \A v \in Nodes : v \in Queued <=> v < i /\ indegree[v] = 0

Emitting ==
    /\ Known /\ Offsets /\ Filled(M + 1)
    /\ head = k /\ k <= tail /\ Once
    /\ \A q \in 0 .. k - 1 : order[q] = queue[q]
    /\ \A v \in Nodes : /\ indegree[v] = Cardinality(Pending(v))
                        /\ indegree[v] = 0 <=> v \in Queued
    /\ pc = "relax" =>
          /\ k >= 1
          /\ i \in Cardinality(Below(graph.refs, order[k - 1]))
                     .. Cardinality(Below(graph.refs, order[k - 1] + 1))

KInv ==
    /\ graph \in Graphs
    /\ TypeOK
    /\ pc \in {"clear", "unknown"} => Untouched
    /\ pc = "clear" => acc = 0 /\ i = 1
    /\ pc = "count" => Counting
    /\ pc = "prefix" => Prefixing
    /\ pc = "fill" => Filling
    /\ pc = "seed" => Seeding
    /\ pc \in {"pop", "relax", "ordered", "cycle"} => Emitting

\* What the assumption on the graphs says of the one being sorted.
LEMMA GraphFacts ==
    ASSUME graph \in Graphs
    PROVE  /\ N \in Nat /\ M \in Nat /\ M = Len(graph.refs)
           /\ graph.refs \in Refs(N)
           /\ \A r \in 1 .. M : graph.refs[r].to \in Nodes /\ graph.refs[r].from \in Nat
  <1>1. N \in Nat /\ graph.refs \in Refs(N) /\ M = Len(graph.refs)
    BY KahnAssumption DEF N, M, Refs
  <1>2. /\ Len(graph.refs) \in Nat
        /\ \A r \in 1 .. Len(graph.refs) :
              graph.refs[r].to \in 0 .. N - 1 /\ graph.refs[r].from \in Nat
    BY <1>1, RefsType
  <1>3. QED
    BY <1>1, <1>2 DEF Nodes

\* Node ids are 0 .. n - 1.
LEMMA NodeCount ==
    ASSUME N \in Nat
    PROVE  IsFiniteSet(Nodes) /\ Cardinality(Nodes) = N
  <1>1. N - 1 \in Int /\ 0 \in Int
    OBVIOUS
  <1>2. IsFiniteSet(Nodes) /\ Cardinality(Nodes) = IF 0 > N - 1 THEN 0 ELSE N - 1 - 0 + 1
    BY <1>1, FS_Interval, ZenonT(20) DEF Nodes
  <1>3. QED
    BY <1>2

\* A slot of the queue is free while a node is not in it: the queued nodes
\* are distinct, so n slots are enough.
LEMMA QueueRoom ==
    ASSUME N \in Nat, tail \in Nat, Once
    PROVE  /\ IsFiniteSet(Queued) /\ Cardinality(Queued) = tail /\ Queued \subseteq Nodes
           /\ tail <= N
           /\ \A v \in Nodes : v \notin Queued => tail < N
           /\ tail = N => Queued = Nodes
  <1> DEFINE D == 0 .. tail - 1
             f == [q \in D |-> queue[q]]
  <1>1. IsFiniteSet(D) /\ Cardinality(D) = tail
    <2>1. tail - 1 \in Int /\ 0 \in Int
      OBVIOUS
    <2>2. IsFiniteSet(D) /\ Cardinality(D) = IF 0 > tail - 1 THEN 0 ELSE tail - 1 - 0 + 1
      BY <2>1, FS_Interval, ZenonT(20)
    <2>3. QED
      BY <2>2
  <1>2. IsFiniteSet(Nodes) /\ Cardinality(Nodes) = N
    BY NodeCount
  <1>3. /\ f \in [D -> Queued]
        /\ \A x, y \in D : f[x] = f[y] => x = y
        /\ \A y \in Queued : \E x \in D : f[x] = y
    BY DEF Once, Queued
  <1> HIDE DEF D, f
  <1>4. IsFiniteSet(Queued) /\ Cardinality(Queued) = Cardinality(D)
    BY <1>1, <1>3, OneToOne
  <1>5. Queued \in SUBSET Nodes
    BY DEF Once, Queued
  <1>6. /\ Cardinality(Queued) <= Cardinality(Nodes)
        /\ Cardinality(Nodes) = Cardinality(Queued) => Nodes = Queued
    BY <1>2, <1>5, FS_Subset
  <1> HIDE DEF D
  <1>7. Cardinality(Queued) = tail
    BY <1>1, <1>4
  <1>8. QED
    BY <1>1, <1>2, <1>4, <1>5, <1>6, <1>7

\* A node that joins the queue.
LEMMA Enqueue ==
    ASSUME N \in Nat, tail \in Nat, tail < N, Once,
           queue \in [Nodes -> Nodes \cup {Garbage}],
           NEW v \in Nodes, v \notin Queued,
           queue' = [queue EXCEPT ![tail] = v], tail' = tail + 1, Nodes' = Nodes
    PROVE  /\ Once'
           /\ Queued' = Queued \cup {v}
           /\ \A q \in 0 .. tail - 1 : queue'[q] = queue[q]
  <1>1. \A q \in 0 .. N - 1 : queue'[q] = IF q = tail THEN v ELSE queue[q]
    BY DEF Nodes
  <1>2. \A q \in 0 .. tail - 1 : queue'[q] = queue[q]
    BY <1>1
  <1>3. queue'[tail] = v
    BY <1>1
  <1>4. 0 .. tail' - 1 = (0 .. tail - 1) \cup {tail}
    OBVIOUS
  <1>5. Queued' = Queued \cup {v}
    BY <1>2, <1>3, <1>4 DEF Queued
  <1>6. Once'
    BY <1>2, <1>3, <1>4 DEF Once, Queued
  <1>7. QED
    BY <1>2, <1>5, <1>6

\* An indegree is zero exactly when nothing is pending.
LEMMA PendingFinite ==
    ASSUME graph \in Graphs, NEW v
    PROVE  /\ IsFiniteSet(Pending(v)) /\ Cardinality(Pending(v)) \in 0 .. M
           /\ Cardinality(Pending(v)) = 0 <=> Pending(v) = {}
  <1>1. M \in Nat
    BY GraphFacts
  <1>2. IsFiniteSet(1 .. M) /\ Cardinality(1 .. M) = M
    BY <1>1, Segment
  <1>3. Pending(v) \in SUBSET (1 .. M)
    BY DEF Pending
  <1>4. IsFiniteSet(Pending(v)) /\ Cardinality(Pending(v)) <= M
    BY <1>2, <1>3, FS_Subset
  <1>5. Cardinality(Pending(v)) \in Nat
    BY <1>4, FS_CardinalityType
  <1>6. Cardinality(Pending(v)) = 0 <=> Pending(v) = {}
    BY <1>4, FS_EmptySet
  <1>7. QED
    BY <1>1, <1>4, <1>5, <1>6

-----------------------------------------------------------------------------
(* Every action keeps the invariant. *)

\* A call starts with unwritten slices.
LEMMA InitEstablishesKInv ==
    ASSUME Init
    PROVE  KInv
  <1>1. graph \in Graphs /\ N \in Nat /\ M \in Nat
    BY GraphFacts DEF Init
  <1>2. TypeOK
    BY <1>1 DEF Init, TypeOK, Nodes, Ended
  <1>3. QED
    BY <1>1, <1>2 DEF Init, KInv, Untouched

\* The slices that count start from zero.
LEMMA ClearKeepsKInv ==
    ASSUME KInv, Clear
    PROVE  KInv'
  <1>1. /\ graph \in Graphs /\ TypeOK /\ acc = 0 /\ i = 1 /\ Untouched
    BY DEF KInv, Clear
  <1>2. /\ graph' = graph /\ pc' = "count" /\ i' = i /\ acc' = acc
        /\ N' = N /\ M' = M /\ Nodes' = Nodes
        /\ indegree' = [v \in Nodes |-> 0] /\ adjOff' = [v \in 0 .. N |-> 0]
        /\ UNCHANGED <<adj, cur, queue, order, head, tail, k, unknown>>
    BY DEF Clear, N, M, Nodes
  <1>3. /\ N \in Nat /\ M \in Nat /\ graph.refs \in Refs(N)
    BY <1>1, GraphFacts
  <1>4. TypeOK'
    BY <1>1, <1>2, <1>3 DEF TypeOK, Ended
  <1>5. \A v : /\ Cardinality(FromBefore(graph.refs, v, 1)) = 0
               /\ Cardinality(ToBefore(graph.refs, v, 1)) = 0
    BY <1>3, CountBase
  <1>6. Counting'
    BY <1>1, <1>2, <1>3, <1>5 DEF Counting, Untouched
  <1>7. QED
    BY <1>1, <1>2, <1>4, <1>6 DEF KInv

\* The count loop has counted the references before its index.
LEMMA CountKeepsKInv ==
    ASSUME KInv, Count
    PROVE  KInv'
  <1>1. graph \in Graphs /\ TypeOK /\ pc = "count" /\ Counting
    BY DEF KInv, Count
  <1>2. /\ graph' = graph /\ N' = N /\ M' = M /\ Nodes' = Nodes
        /\ UNCHANGED <<acc, adj, cur, queue, order, head, tail, k>>
    BY DEF Count, N, M, Nodes
  <1>3. /\ N \in Nat /\ M \in Nat /\ M = Len(graph.refs) /\ graph.refs \in Refs(N)
        /\ \A r \in 1 .. M : graph.refs[r].to \in Nodes /\ graph.refs[r].from \in Nat
    BY <1>1, GraphFacts
  <1>4. Untouched'
    BY <1>1, <1>2 DEF Counting, Untouched
  <1>5. CASE i > M
    <2>1. /\ pc' = "prefix" /\ i' = 0
          /\ UNCHANGED <<indegree, adjOff, unknown>>
      BY <1>5 DEF Count
    <2>2. TypeOK'
      BY <1>1, <1>2, <1>3, <2>1 DEF TypeOK, Ended
    <2>3. i = M + 1
      BY <1>1, <1>3, <1>5 DEF Counting
    <2>4. Known'
      BY <1>1, <1>2, <1>3, <2>3 DEF Counting, Known, KnownIds
    <2>5. Degrees'
      BY <1>1, <1>2, <2>1, <2>3 DEF Counting, Degrees
    <2>6. acc' = Cardinality(Below(graph.refs, 0))
      BY <1>1, <1>2, <1>3, CountBase DEF Counting
    <2>7. \A j \in 0 .. N : adjOff'[j] = Cardinality(FromBefore(graph.refs, j, M + 1))
      BY <1>1, <2>1, <2>3 DEF Counting
    <2>8. Prefixing'
      BY <1>2, <1>3, <1>4, <2>1, <2>4, <2>5, <2>6, <2>7 DEF Prefixing
    <2>9. QED
      BY <1>1, <1>2, <2>1, <2>2, <2>8 DEF KInv
  <1>6. CASE ~(i > M) /\ graph.refs[i].from >= N
    <2>1. /\ pc' = "unknown" /\ unknown' = graph.refs[i].from
          /\ UNCHANGED <<i, indegree, adjOff>>
      BY <1>6 DEF Count
    <2>2. i \in 1 .. M
      BY <1>1, <1>3, <1>6 DEF Counting
    <2>3. TypeOK'
      BY <1>1, <1>2, <1>3, <2>1, <2>2 DEF TypeOK, Ended
    <2>4. QED
      BY <1>1, <1>2, <1>4, <2>1, <2>3 DEF KInv
  <1>7. CASE ~(i > M) /\ ~(graph.refs[i].from >= N)
    <2> DEFINE v == graph.refs[i].to
               p == graph.refs[i].from
    <2>1. /\ indegree' = [indegree EXCEPT ![v] = @ + 1]
          /\ adjOff' = [adjOff EXCEPT ![p] = @ + 1]
          /\ i' = i + 1
          /\ UNCHANGED <<pc, unknown>>
      BY <1>7 DEF Count
    <2>2. i \in 1 .. M /\ v \in Nodes /\ p \in 0 .. N /\ p < N
      BY <1>1, <1>3, <1>7 DEF Counting
    <2>3. \A x : /\ Cardinality(FromBefore(graph.refs, x, i + 1))
                       = Cardinality(FromBefore(graph.refs, x, i)) + (IF p = x THEN 1 ELSE 0)
                 /\ Cardinality(ToBefore(graph.refs, x, i + 1))
                       = Cardinality(ToBefore(graph.refs, x, i)) + (IF v = x THEN 1 ELSE 0)
      BY <1>3, <2>2, CountStep
    <2>4. \A x : /\ Cardinality(FromBefore(graph.refs, x, i)) \in Nat
                 /\ Cardinality(ToBefore(graph.refs, x, i)) \in Nat
                 /\ Cardinality(FromBefore(graph.refs, x, i + 1)) \in Nat
                 /\ Cardinality(ToBefore(graph.refs, x, i + 1)) \in Nat
                 /\ Cardinality(FromBefore(graph.refs, x, i + 1)) <= M
                 /\ Cardinality(ToBefore(graph.refs, x, i + 1)) <= M
      <3>1. i \in 1 .. Len(graph.refs) + 1 /\ i + 1 \in 1 .. Len(graph.refs) + 1
        BY <1>3, <2>2
      <3>2. \A x : /\ Cardinality(FromBefore(graph.refs, x, i)) \in Nat
                   /\ Cardinality(ToBefore(graph.refs, x, i)) \in Nat
        BY <1>3, <3>1, BeforeType
      <3>3. \A x : /\ Cardinality(FromBefore(graph.refs, x, i + 1)) \in Nat
                   /\ Cardinality(FromBefore(graph.refs, x, i + 1)) <= i + 1 - 1
                   /\ Cardinality(ToBefore(graph.refs, x, i + 1)) \in Nat
                   /\ Cardinality(ToBefore(graph.refs, x, i + 1)) <= i + 1 - 1
        BY <1>3, <3>1, BeforeType
      <3>4. QED
        BY <1>3, <2>2, <3>2, <3>3
    <2> HIDE DEF v, p
    <2>5. \A x \in Nodes : indegree'[x] = Cardinality(ToBefore(graph.refs, x, i + 1))
      <3>1. \A x \in Nodes : indegree'[x] = indegree[x] + (IF v = x THEN 1 ELSE 0)
        <4>1. \A x \in Nodes : indegree[x] \in Nat
          BY <1>1, <2>4 DEF Counting
        <4>2. \A x \in Nodes : indegree'[x] = IF v = x THEN indegree[x] + 1 ELSE indegree[x]
          BY <1>1, <2>1, <2>2 DEF TypeOK
        <4>3. QED
          BY <4>1, <4>2
      <3>2. QED
        BY <1>1, <2>3, <3>1 DEF Counting
    <2>6. \A x \in 0 .. N : adjOff'[x] = Cardinality(FromBefore(graph.refs, x, i + 1))
      <3>1. \A x \in 0 .. N : adjOff'[x] = adjOff[x] + (IF p = x THEN 1 ELSE 0)
        <4>1. \A x \in 0 .. N : adjOff[x] \in Nat
          BY <1>1, <2>4 DEF Counting
        <4>2. \A x \in 0 .. N : adjOff'[x] = IF p = x THEN adjOff[x] + 1 ELSE adjOff[x]
          BY <1>1, <2>1, <2>2 DEF TypeOK
        <4>3. QED
          BY <4>1, <4>2
      <3>2. QED
        BY <1>1, <2>3, <3>1 DEF Counting
    <2>7. \A r \in 1 .. i' - 1 : graph.refs[r].from < N
      BY <1>1, <1>3, <1>7, <2>1, <2>2 DEF Counting
    <2>8. Counting'
      BY <1>1, <1>2, <1>3, <1>4, <2>1, <2>2, <2>5, <2>6, <2>7 DEF Counting
    <2>9. TypeOK'
      <3>1. /\ \A x \in Nodes : indegree'[x] \in 0 .. M
            /\ \A x \in 0 .. N : adjOff'[x] \in 0 .. M
        BY <1>3, <2>4, <2>5, <2>6
      <3>2. indegree' \in [Nodes -> 0 .. M \cup {Garbage}]
        BY <1>1, <2>1, <3>1 DEF TypeOK
      <3>3. adjOff' \in [0 .. N -> 0 .. M \cup {Garbage}]
        BY <1>1, <2>1, <3>1 DEF TypeOK
      <3>4. i' \in 0 .. N + M + 1
        BY <1>3, <2>1, <2>2
      <3>5. QED
        BY <1>1, <1>2, <2>1, <3>2, <3>3, <3>4 DEF TypeOK
    <2>10. QED
      BY <1>1, <1>2, <2>1, <2>8, <2>9 DEF KInv
  <1>8. QED
    BY <1>5, <1>6, <1>7

\* The prefix sum replaces counts by offsets, one node at a time.
LEMMA PrefixKeepsKInv ==
    ASSUME KInv, Prefix
    PROVE  KInv'
  <1>1. graph \in Graphs /\ TypeOK /\ pc = "prefix" /\ Prefixing
    BY DEF KInv, Prefix
  <1>2. /\ graph' = graph /\ N' = N /\ M' = M /\ Nodes' = Nodes
        /\ UNCHANGED <<indegree, adj, queue, order, head, tail, k, unknown>>
    BY DEF Prefix, N, M, Nodes
  <1>3. /\ N \in Nat /\ M \in Nat /\ M = Len(graph.refs) /\ graph.refs \in Refs(N)
        /\ M + 1 \in 1 .. Len(graph.refs) + 1
    BY <1>1, GraphFacts
  <1>4. Untouched' /\ Known' /\ Degrees'
    BY <1>1, <1>2 DEF Prefixing, Untouched, Known, Degrees
  <1>5. /\ \A j \in Int : /\ Cardinality(Below(graph.refs, j)) \in Nat
                          /\ Cardinality(Below(graph.refs, j)) <= M
        /\ \A j : /\ Cardinality(FromBefore(graph.refs, j, M + 1)) \in Nat
                  /\ Cardinality(FromBefore(graph.refs, j, M + 1)) <= M
    <2>1. \A j \in Int : /\ Cardinality(Below(graph.refs, j)) \in Nat
                        /\ Cardinality(Below(graph.refs, j)) <= M
      BY <1>3, BelowType
    <2>2. \A j : /\ Cardinality(FromBefore(graph.refs, j, M + 1)) \in Nat
                /\ Cardinality(FromBefore(graph.refs, j, M + 1)) <= M + 1 - 1
      BY <1>3, BeforeType
    <2>3. QED
      BY <1>3, <2>1, <2>2
  <1>9. \A j \in 0 .. N : /\ Cardinality(Below(graph.refs, j)) \in 0 .. M
                          /\ Cardinality(FromBefore(graph.refs, j, M + 1)) \in 0 .. M
    <2> SUFFICES ASSUME NEW j \in 0 .. N
                 PROVE  /\ Cardinality(Below(graph.refs, j)) \in 0 .. M
                        /\ Cardinality(FromBefore(graph.refs, j, M + 1)) \in 0 .. M
      OBVIOUS
    <2>1. j \in Int
      OBVIOUS
    <2>2. /\ Cardinality(Below(graph.refs, j)) \in Nat
          /\ Cardinality(Below(graph.refs, j)) <= M
      BY <1>5, <2>1
    <2>3. /\ Cardinality(FromBefore(graph.refs, j, M + 1)) \in Nat
          /\ Cardinality(FromBefore(graph.refs, j, M + 1)) <= M
      BY <1>5
    <2>4. QED
      BY <1>3, <2>2, <2>3
  <1>6. CASE i <= N
    <2>1. /\ adjOff' = [adjOff EXCEPT ![i] = acc]
          /\ acc' = acc + adjOff[i]
          /\ i' = i + 1
          /\ UNCHANGED <<pc, cur>>
      BY <1>6 DEF Prefix
    <2>2. i \in 0 .. N /\ i \in Nat
      BY <1>1, <1>3, <1>6 DEF Prefixing
    <2>3. \A j \in 0 .. N : adjOff'[j] = IF j = i THEN acc ELSE adjOff[j]
      BY <1>1, <2>1, <2>2 DEF TypeOK
    <2>4. \A j \in 0 .. N :
             adjOff'[j] = IF j < i' THEN Cardinality(Below(graph.refs, j))
                                    ELSE Cardinality(FromBefore(graph.refs, j, M + 1))
      BY <1>1, <1>3, <2>1, <2>2, <2>3 DEF Prefixing
    <2>5. acc' = Cardinality(Below(graph.refs, i'))
      <3>1. adjOff[i] = Cardinality(FromBefore(graph.refs, i, M + 1))
        BY <1>1, <2>2 DEF Prefixing
      <3>2. Cardinality(Below(graph.refs, i + 1))
              = Cardinality(Below(graph.refs, i))
                  + Cardinality(FromBefore(graph.refs, i, M + 1))
        BY <1>3, <2>2, BelowStep
      <3>3. QED
        BY <1>1, <2>1, <3>1, <3>2 DEF Prefixing
    <2>6. i' \in 0 .. N + 1 /\ i' \in Int
      BY <1>3, <2>1, <2>2
    <2>7. Prefixing'
      BY <1>2, <1>4, <2>4, <2>5, <2>6 DEF Prefixing
    <2>8. TypeOK'
      <3>1. acc' \in 0 .. M
        BY <1>3, <1>5, <2>5, <2>6
      <3>2. \A j \in 0 .. N : adjOff'[j] \in 0 .. M
        BY <1>9, <2>4
      <3>3. adjOff' \in [0 .. N -> 0 .. M \cup {Garbage}]
        BY <1>1, <2>1, <3>2 DEF TypeOK
      <3>4. i' \in 0 .. N + M + 1
        BY <1>3, <2>6
      <3>5. QED
        BY <1>1, <1>2, <2>1, <3>1, <3>3, <3>4 DEF TypeOK
    <2>9. QED
      BY <1>1, <1>2, <2>1, <2>7, <2>8 DEF KInv
  <1>7. CASE ~(i <= N)
    <2>1. /\ cur' = [v \in Nodes |-> adjOff[v]]
          /\ pc' = "fill" /\ i' = 1
          /\ UNCHANGED <<adjOff, acc>>
      BY <1>7 DEF Prefix
    <2>2. i = N + 1
      BY <1>1, <1>3, <1>7 DEF Prefixing
    <2>3. \A j \in 0 .. N : adjOff[j] = Cardinality(Below(graph.refs, j))
      BY <1>1, <1>3, <2>2 DEF Prefixing
    <2>4. Offsets'
      BY <1>2, <2>1, <2>3 DEF Offsets
    <2>5. \A v \in Nodes : v \in 0 .. N /\ v \in Int
      BY <1>3 DEF Nodes
    <2>6. \A v \in Nodes :
             cur'[v] = Cardinality(Below(graph.refs, v))
                         + Cardinality(FromBefore(graph.refs, v, 1))
      <3>1. \A v : Cardinality(FromBefore(graph.refs, v, 1)) = 0
        BY <1>3, CountBase
      <3>2. \A v \in Nodes : cur'[v] = Cardinality(Below(graph.refs, v))
        BY <2>1, <2>3, <2>5
      <3>3. \A v \in Nodes : Cardinality(Below(graph.refs, v)) \in Nat
        BY <1>5, <2>5
      <3>4. QED
        BY <3>1, <3>2, <3>3
    <2>7. Filling'
      <3>1. i' \in 1 .. M' + 1
        BY <1>2, <1>3, <2>1
      <3>2. Filled(i)'
        BY <2>1 DEF Filled
      <3>3. QED
        BY <1>2, <1>4, <2>1, <2>4, <2>6, <3>1, <3>2 DEF Filling
    <2>8. TypeOK'
      <3>1. \A v \in Nodes : adjOff[v] \in 0 .. M
        BY <1>9, <2>3, <2>5
      <3>2. cur' \in [Nodes -> 0 .. M \cup {Garbage}]
        BY <2>1, <3>1
      <3>3. i' \in 0 .. N + M + 1
        BY <1>3, <2>1
      <3>4. QED
        BY <1>1, <1>2, <2>1, <3>2, <3>3 DEF TypeOK
    <2>9. QED
      BY <1>1, <1>2, <2>1, <2>7, <2>8 DEF KInv
  <1>8. QED
    BY <1>6, <1>7

\* The fill loop writes the slot of one reference, which no other has.
LEMMA FillKeepsKInv ==
    ASSUME KInv, Fill
    PROVE  KInv'
  <1>1. graph \in Graphs /\ TypeOK /\ pc = "fill" /\ Filling
    BY DEF KInv, Fill
  <1>2. /\ graph' = graph /\ N' = N /\ M' = M /\ Nodes' = Nodes
        /\ UNCHANGED <<acc, indegree, adjOff, queue, order, head, tail, k, unknown>>
    BY DEF Fill, N, M, Nodes
  <1>3. /\ N \in Nat /\ M \in Nat /\ M = Len(graph.refs) /\ graph.refs \in Refs(N)
        /\ \A r \in 1 .. M : graph.refs[r].to \in Nodes /\ graph.refs[r].from \in Nat
    BY <1>1, GraphFacts
  <1>4. Untouched' /\ Known' /\ Degrees' /\ Offsets'
    BY <1>1, <1>2 DEF Filling, Untouched, Known, Degrees, Offsets
  <1>5. CASE i > M
    <2>1. pc' = "seed" /\ i' = 0 /\ UNCHANGED <<adj, cur>>
      BY <1>5 DEF Fill
    <2>2. i = M + 1
      BY <1>1, <1>3, <1>5 DEF Filling
    <2>3. Filled(M + 1)'
      BY <1>1, <1>2, <2>1, <2>2 DEF Filling, Filled
    <2>4. TypeOK'
      BY <1>1, <1>2, <1>3, <2>1 DEF TypeOK
    <2>5. tail' = 0 /\ i' = 0 /\ 0 \in 0 .. N'
      BY <1>2, <1>3, <1>4, <2>1 DEF Untouched
    <2>6. Once' /\ \A v \in Nodes' : v \notin Queued'
      BY <2>5 DEF Once, Queued
    <2>7. \A v \in Nodes' : ~(v < i')
      BY <2>5 DEF Nodes
    <2>8. Seeding'
      BY <1>4, <2>3, <2>5, <2>6, <2>7 DEF Seeding, Untouched
    <2>9. QED
      BY <1>1, <1>2, <2>1, <2>4, <2>8 DEF KInv
  <1>6. CASE ~(i > M)
    <2> DEFINE p == graph.refs[i].from
               v == graph.refs[i].to
               s == Slot(graph.refs, i)
    <2>1. /\ adj' = [adj EXCEPT ![cur[p]] = v]
          /\ cur' = [cur EXCEPT ![p] = @ + 1]
          /\ i' = i + 1
          /\ UNCHANGED pc
      BY <1>6 DEF Fill
    <2>2. i \in 1 .. M /\ v \in Nodes /\ p \in Nat
      BY <1>1, <1>3, <1>6 DEF Filling
    <2>3. p \in Nodes
      BY <1>1, <1>3, <2>2 DEF Filling, Known, KnownIds, Nodes
    <2>4. cur[p] = s
      BY <1>1, <2>3 DEF Filling, Slot
    <2>5. \A r \in 1 .. M : Slot(graph.refs, r) \in 0 .. M - 1
      BY <1>1, <1>3, SlotOnto DEF Filling, Known
    <2>6. \A r \in 1 .. M : Slot(graph.refs, r) = s => r = i
      BY <1>3, <2>2, SlotInjective
    <2>7. s \in 0 .. M - 1
      BY <2>2, <2>5
    <2>8. \A x : Cardinality(FromBefore(graph.refs, x, i + 1))
                   = Cardinality(FromBefore(graph.refs, x, i)) + (IF p = x THEN 1 ELSE 0)
      BY <1>3, <2>2, CountStep
    <2>9. \A r \in 1 .. M : r = i => graph.refs[r].to = v
      OBVIOUS
    <2>10. \A x : /\ Cardinality(FromBefore(graph.refs, x, i)) \in Nat
                  /\ Cardinality(FromBefore(graph.refs, x, i + 1)) \in Nat
      <3>1. i \in 1 .. Len(graph.refs) + 1 /\ i + 1 \in 1 .. Len(graph.refs) + 1
        BY <1>3, <2>2
      <3>2. QED
        BY <1>3, <3>1, BeforeType
    <2>11. \A x \in Nodes : Cardinality(Below(graph.refs, x)) \in Nat
      <3>1. \A x \in Nodes : x \in Int
        BY DEF Nodes
      <3>2. QED
        BY <1>3, <3>1, BelowType
    <2> HIDE DEF p, v, s
    <2>12. \A x \in Nodes :
              cur'[x] = Cardinality(Below(graph.refs, x))
                          + Cardinality(FromBefore(graph.refs, x, i + 1))
      <3>1. \A x \in Nodes : cur'[x] = IF x = p THEN cur[x] + 1 ELSE cur[x]
        BY <1>1, <2>1, <2>3 DEF TypeOK
      <3>2. \A x \in Nodes : cur[x] = Cardinality(Below(graph.refs, x))
                                        + Cardinality(FromBefore(graph.refs, x, i))
        BY <1>1 DEF Filling
      <3>3. QED
        BY <2>8, <2>10, <2>11, <3>1, <3>2
    <2>13. Filled(i)'
      <3>1. \A y \in 0 .. M - 1 : adj'[y] = IF y = s THEN v ELSE adj[y]
        BY <1>1, <2>1, <2>4, <2>7 DEF TypeOK
      <3>2. \A r \in 1 .. i : adj'[Slot(graph.refs, r)] = graph.refs[r].to
        <4> SUFFICES ASSUME NEW r \in 1 .. i
                     PROVE  adj'[Slot(graph.refs, r)] = graph.refs[r].to
          OBVIOUS
        <4>1. r \in 1 .. M
          BY <1>3, <2>2
        <4>2. CASE r = i
          BY <2>7, <2>9, <3>1, <4>1, <4>2 DEF s
        <4>3. CASE r # i
          <5>1. r \in 1 .. i - 1
            BY <2>2, <4>3
          <5>2. Slot(graph.refs, r) # s /\ Slot(graph.refs, r) \in 0 .. M - 1
            BY <2>5, <2>6, <4>1, <4>3
          <5>3. adj[Slot(graph.refs, r)] = graph.refs[r].to
            BY <1>1, <5>1 DEF Filling, Filled
          <5>4. QED
            BY <3>1, <5>2, <5>3
        <4>4. QED
          BY <4>2, <4>3
      <3>3. i' - 1 = i
        BY <1>3, <2>1, <2>2
      <3>4. QED
        BY <1>2, <3>2, <3>3 DEF Filled
    <2>14. Filling'
      <3>1. i' \in 1 .. M' + 1
        BY <1>2, <1>3, <2>1, <2>2
      <3>2. QED
        BY <1>2, <1>4, <2>1, <2>12, <2>13, <3>1 DEF Filling
    <2>15. TypeOK'
      <3>1. adj' \in [0 .. M - 1 -> Nodes \cup {Garbage}]
        BY <1>1, <2>1, <2>2, <2>4, <2>7 DEF TypeOK
      <3>2. cur[p] + 1 \in 0 .. M
        BY <1>3, <2>4, <2>7
      <3>3. cur' \in [Nodes -> 0 .. M \cup {Garbage}]
        BY <1>1, <2>1, <3>2 DEF TypeOK
      <3>4. i' \in 0 .. N + M + 1
        BY <1>3, <2>1, <2>2
      <3>5. QED
        BY <1>1, <1>2, <2>1, <3>1, <3>3, <3>4 DEF TypeOK
    <2>16. QED
      BY <1>1, <1>2, <2>1, <2>14, <2>15 DEF KInv
  <1>7. QED
    BY <1>5, <1>6

\* The scan queues the nodes that read nothing, once each.
LEMMA SeedKeepsKInv ==
    ASSUME KInv, Seed
    PROVE  KInv'
  <1>1. graph \in Graphs /\ TypeOK /\ pc = "seed" /\ Seeding
    BY DEF KInv, Seed
  <1>2. /\ graph' = graph /\ N' = N /\ M' = M /\ Nodes' = Nodes
        /\ UNCHANGED <<acc, indegree, adjOff, adj, cur, order, head, k, unknown>>
    BY DEF Seed, N, M, Nodes
  <1>3. /\ N \in Nat /\ M \in Nat /\ M = Len(graph.refs) /\ graph.refs \in Refs(N)
        /\ \A r \in 1 .. M : graph.refs[r].to \in Nodes /\ graph.refs[r].from \in Nat
    BY <1>1, GraphFacts
  <1>4. head' = 0 /\ k' = 0 /\ Known' /\ Degrees' /\ Offsets' /\ Filled(M + 1)'
    BY <1>1, <1>2 DEF Seeding, Known, Degrees, Offsets, Filled
  <1>5. tail \in Nat
    BY <1>1, <1>3 DEF TypeOK
  <1>6. CASE i = N
    <2>1. pc' = "pop" /\ UNCHANGED <<i, queue, tail>>
      BY <1>6 DEF Seed
    <2>2. Queued' = Queued /\ Once'
      BY <1>1, <1>2, <2>1 DEF Seeding, Queued, Once
    <2>3. \A v \in Nodes : v \in Queued <=> indegree[v] = 0
      BY <1>1, <1>3, <1>6 DEF Seeding, Nodes
    <2>4. \A v \in Nodes : Pending(v)' = ToBefore(graph.refs, v, M + 1)
      <3>1. SortedSet' = {}
        BY <1>4 DEF SortedSet
      <3>2. \A r : ~Freed(r)'
        BY <3>1 DEF Freed
      <3>3. QED
        BY <1>2, <1>3, <3>2 DEF Pending, ToBefore
    <2>5. \A v \in Nodes : indegree[v] = Cardinality(Pending(v)')
      BY <1>1, <2>4 DEF Seeding, Degrees
    <2>6. Emitting'
      <3>1. head' = k' /\ k' <= tail' /\ \A q \in 0 .. k' - 1 : order'[q] = queue'[q]
        BY <1>4, <1>5, <2>1
      <3>2. \A v \in Nodes' : /\ indegree'[v] = Cardinality(Pending(v)')
                              /\ indegree'[v] = 0 <=> v \in Queued'
        BY <1>2, <2>2, <2>3, <2>5
      <3>3. pc' # "relax"
        BY <2>1
      <3>4. QED
        BY <1>4, <2>2, <3>1, <3>2, <3>3 DEF Emitting
    <2>7. TypeOK'
      BY <1>1, <1>2, <2>1 DEF TypeOK
    <2>8. QED
      BY <1>1, <1>2, <2>1, <2>6, <2>7 DEF KInv
  <1>7. CASE i # N /\ indegree[i] = 0
    <2>1. /\ queue' = [queue EXCEPT ![tail] = i]
          /\ tail' = tail + 1
          /\ i' = i + 1
          /\ UNCHANGED pc
      BY <1>7 DEF Seed
    <2>2. i \in Nodes /\ i \in 0 .. N - 1
      BY <1>1, <1>3, <1>7 DEF Seeding, Nodes
    <2>3. i \notin Queued
      BY <1>1, <2>2 DEF Seeding
    <2>4. tail < N
      BY <1>1, <1>3, <1>5, <2>2, <2>3, QueueRoom DEF Seeding
    <2>5. queue \in [Nodes -> Nodes \cup {Garbage}]
      BY <1>1 DEF TypeOK
    <2>6. Once' /\ Queued' = Queued \cup {i}
      BY <1>1, <1>2, <1>3, <1>5, <2>1, <2>2, <2>3, <2>4, <2>5, Enqueue DEF Seeding
    <2>8. \A v \in Nodes : v \in Queued' <=> v < i' /\ indegree[v] = 0
      BY <1>1, <1>3, <1>7, <2>1, <2>2, <2>6 DEF Seeding, Nodes
    <2>9. Seeding'
      <3>1. i' \in 0 .. N'
        BY <1>2, <1>3, <2>1, <2>2
      <3>2. QED
        BY <1>2, <1>4, <2>6, <2>8, <3>1 DEF Seeding
    <2>10. TypeOK'
      <3>1. queue' \in [Nodes -> Nodes \cup {Garbage}]
        BY <1>1, <2>1, <2>2 DEF TypeOK
      <3>2. i' \in 0 .. N + M + 1 /\ tail' \in 0 .. N
        BY <1>3, <1>5, <2>1, <2>2, <2>4
      <3>3. QED
        BY <1>1, <1>2, <2>1, <3>1, <3>2 DEF TypeOK
    <2>11. QED
      BY <1>1, <1>2, <2>1, <2>9, <2>10 DEF KInv
  <1>8. CASE i # N /\ indegree[i] # 0
    <2>1. i' = i + 1 /\ UNCHANGED <<pc, queue, tail>>
      BY <1>8 DEF Seed
    <2>2. i \in Nodes /\ i \in 0 .. N - 1
      BY <1>1, <1>3, <1>8 DEF Seeding, Nodes
    <2>3. Queued' = Queued /\ Once'
      BY <1>1, <1>2, <2>1 DEF Seeding, Queued, Once
    <2>4. \A v \in Nodes : v \in Queued' <=> v < i' /\ indegree[v] = 0
      BY <1>1, <1>3, <1>8, <2>1, <2>2, <2>3 DEF Seeding, Nodes
    <2>5. i' \in 0 .. N /\ i' \in 0 .. N + M + 1
      BY <1>3, <2>1, <2>2
    <2>6. Seeding'
      BY <1>2, <1>4, <2>3, <2>4, <2>5 DEF Seeding
    <2>7. TypeOK'
      BY <1>1, <1>2, <2>1, <2>5 DEF TypeOK
    <2>8. QED
      BY <1>1, <1>2, <2>1, <2>6, <2>7 DEF KInv
  <1>9. QED
    BY <1>6, <1>7, <1>8

\* What the emission's bookkeeping says of the nodes emitted so far.
LEMMA EmittedFacts ==
    ASSUME graph \in Graphs, TypeOK, Emitting
    PROVE  /\ N \in Nat /\ k \in Nat /\ tail \in Nat /\ k <= tail /\ tail <= N
           /\ SortedSet = {queue[q] : q \in 0 .. k - 1}
           /\ SortedSet \subseteq Queued
           /\ \A q \in 0 .. k - 1 : order[q] \in Nodes
           /\ \A q \in k .. tail - 1 : queue[q] \notin SortedSet
  <1>1. N \in Nat
    BY GraphFacts
  <1>2. k \in Nat /\ tail \in Nat /\ k <= tail /\ tail <= N
    BY <1>1 DEF TypeOK, Emitting
  <1>3. \A q \in 0 .. k - 1 : order[q] = queue[q] /\ q \in 0 .. tail - 1
    BY <1>2 DEF Emitting
  <1>4. SortedSet = {queue[q] : q \in 0 .. k - 1}
    BY <1>3 DEF SortedSet
  <1>5. QED
    BY <1>1, <1>2, <1>3, <1>4 DEF Emitting, Queued, Once

\* Emitting a node frees nothing yet: the relax loop is at its first slot.
LEMMA PopKeepsKInv ==
    ASSUME KInv, Pop
    PROVE  KInv'
  <1>1. graph \in Graphs /\ TypeOK /\ pc = "pop" /\ Emitting
    BY DEF KInv, Pop
  <1>2. /\ graph' = graph /\ N' = N /\ M' = M /\ Nodes' = Nodes
        /\ UNCHANGED <<acc, indegree, adjOff, adj, cur, queue, tail, unknown>>
    BY DEF Pop, N, M, Nodes
  <1>3. /\ N \in Nat /\ M \in Nat /\ M = Len(graph.refs) /\ graph.refs \in Refs(N)
        /\ \A r \in 1 .. M : graph.refs[r].to \in Nodes /\ graph.refs[r].from \in Nat
    BY <1>1, GraphFacts
  <1>4. Known' /\ Offsets' /\ Filled(M + 1)' /\ Once' /\ Queued' = Queued
    BY <1>1, <1>2 DEF Emitting, Known, Offsets, Filled, Once, Queued
  <1>5. /\ k \in Nat /\ tail \in Nat /\ k <= tail /\ tail <= N /\ head = k
    BY <1>1, EmittedFacts DEF Emitting
  <1>6. CASE head = tail
    <2>1. pc' \in {"ordered", "cycle"} /\ UNCHANGED <<i, order, head, k>>
      BY <1>6 DEF Pop
    <2>2. \A r : Freed(r)' <=> Freed(r)
      <3>1. SortedSet' = SortedSet /\ pc # "relax" /\ pc' # "relax"
        BY <1>1, <2>1 DEF SortedSet
      <3>2. QED
        BY <1>2, <3>1 DEF Freed
    <2>3. \A v : Pending(v)' = Pending(v)
      BY <1>2, <2>2 DEF Pending
    <2>4. Emitting'
      BY <1>1, <1>2, <1>4, <2>1, <2>3 DEF Emitting
    <2>5. TypeOK'
      BY <1>1, <1>2, <2>1 DEF TypeOK, Ended
    <2>6. QED
      BY <1>1, <1>2, <2>1, <2>4, <2>5 DEF KInv
  <1>7. CASE head # tail
    <2> DEFINE p == queue[head]
    <2>1. /\ order' = [order EXCEPT ![k] = p]
          /\ i' = adjOff[p]
          /\ head' = head + 1 /\ k' = k + 1
          /\ pc' = "relax"
      BY <1>7 DEF Pop
    <2>2. k < tail /\ k \in 0 .. tail - 1 /\ k \in 0 .. N - 1
      BY <1>3, <1>5, <1>7
    <2>3. p \in Nodes /\ p \in 0 .. N /\ p \in Int /\ p + 1 \in Int
      BY <1>1, <1>3, <1>5, <2>2 DEF Emitting, Once, Nodes
    <2>4. \A q \in 0 .. N - 1 : order'[q] = IF q = k THEN p ELSE order[q]
      BY <1>1, <2>1 DEF TypeOK, Nodes
    <2>5. \A q \in 0 .. k' - 1 : order'[q] = queue'[q]
      BY <1>1, <1>2, <1>5, <2>1, <2>2, <2>4 DEF Emitting
    <2>6. order'[k' - 1] = p
      BY <1>5, <2>1, <2>2, <2>4
    <2>7. SortedSet' = SortedSet \cup {p}
      BY <1>5, <2>1, <2>2, <2>4 DEF SortedSet
    <2>8. i' = Cardinality(Below(graph.refs, p))
      BY <1>1, <2>1, <2>3 DEF Emitting, Offsets
    <2> HIDE DEF p
    <2>9. /\ Cardinality(Below(graph.refs, p)) \in Nat
          /\ Cardinality(Below(graph.refs, p + 1)) \in Nat
          /\ Cardinality(Below(graph.refs, p)) <= Cardinality(Below(graph.refs, p + 1))
      <3>1. /\ Cardinality(Below(graph.refs, p)) \in Nat
            /\ Cardinality(Below(graph.refs, p + 1)) \in Nat
        BY <1>3, <2>3, BelowType
      <3>2. p <= p + 1
        BY <2>3
      <3>3. QED
        BY <1>3, <2>3, <3>1, <3>2, BelowMonotone
    <2>10. \A r \in 1 .. M : Freed(r)' <=> Freed(r)
      <3>1. \A r \in 1 .. M : Freed(r) <=> graph.refs[r].from \in SortedSet
        BY <1>1 DEF Freed
      <3>2. \A r \in 1 .. M : graph.refs[r].from = p => i' <= Slot(graph.refs, r)
        BY <1>3, <2>8, SlotRange
      <3>3. p \notin SortedSet
        BY <1>1, <1>5, <2>2, EmittedFacts DEF p
      <3>4. \A r \in 1 .. M :
               Freed(r)' <=> /\ graph.refs[r].from \in SortedSet'
                             /\ ~(graph.refs[r].from = p /\ i' <= Slot(graph.refs, r))
        BY <1>2, <2>1, <2>6 DEF Freed
      <3>5. QED
        BY <2>7, <3>1, <3>2, <3>3, <3>4
    <2>11. \A v : Pending(v)' = Pending(v)
      BY <1>2, <2>10 DEF Pending
    <2>12. Emitting'
      <3>1. head' = k' /\ k' <= tail' /\ k' >= 1
        BY <1>2, <1>5, <2>1, <2>2
      <3>2. \A v \in Nodes' : /\ indegree'[v] = Cardinality(Pending(v)')
                              /\ indegree'[v] = 0 <=> v \in Queued'
        BY <1>1, <1>2, <1>4, <2>11 DEF Emitting
      <3>3. i' \in Cardinality(Below(graph'.refs, order'[k' - 1]))
                     .. Cardinality(Below(graph'.refs, order'[k' - 1] + 1))
        BY <1>2, <2>6, <2>8, <2>9
      <3>4. QED
        BY <1>4, <2>5, <3>1, <3>2, <3>3 DEF Emitting
    <2>13. TypeOK'
      <3>1. order' \in [Nodes -> Nodes \cup {Garbage}]
        BY <1>1, <2>1, <2>3 DEF TypeOK
      <3>2. head' \in 0 .. N /\ k' \in 0 .. N
        BY <1>3, <1>5, <2>1, <2>2
      <3>3. i' \in 0 .. N + M + 1
        <4>1. Cardinality(Below(graph.refs, p)) <= M
          BY <1>3, <2>3, BelowType
        <4>2. QED
          BY <1>3, <2>8, <2>9, <4>1
      <3>4. QED
        BY <1>1, <1>2, <2>1, <3>1, <3>2, <3>3 DEF TypeOK
    <2>14. QED
      BY <1>1, <1>2, <2>1, <2>12, <2>13 DEF KInv
  <1>8. QED
    BY <1>6, <1>7

\* A slot that the relax loop passes frees one reference to one node.
LEMMA RelaxKeepsKInv ==
    ASSUME KInv, Relax
    PROVE  KInv'
  <1>1. graph \in Graphs /\ TypeOK /\ pc = "relax" /\ Emitting /\ k >= 1
    BY DEF KInv, Relax, Emitting
  <1>2. /\ graph' = graph /\ N' = N /\ M' = M /\ Nodes' = Nodes
        /\ UNCHANGED <<acc, adjOff, adj, cur, order, head, k, unknown>>
    BY DEF Relax, N, M, Nodes
  <1>3. /\ N \in Nat /\ M \in Nat /\ M = Len(graph.refs) /\ graph.refs \in Refs(N)
        /\ \A r \in 1 .. M : graph.refs[r].to \in Nodes /\ graph.refs[r].from \in Nat
    BY <1>1, GraphFacts
  <1>4. Known' /\ Offsets' /\ Filled(M + 1)' /\ SortedSet' = SortedSet
    BY <1>1, <1>2 DEF Emitting, Known, Offsets, Filled, SortedSet
  <1>5. /\ k \in Nat /\ tail \in Nat /\ k <= tail /\ tail <= N /\ head = k
        /\ SortedSet \subseteq Queued
    BY <1>1, EmittedFacts DEF Emitting
  <1> DEFINE p == order[k - 1]
  <1>6. p \in Nodes /\ p \in SortedSet
    BY <1>1, <1>5, EmittedFacts DEF SortedSet
  <1>7. p' = p
    BY <1>2
  <1>8. /\ p \in 0 .. N /\ p + 1 \in 0 .. N /\ p \in Int /\ p + 1 \in Int
        /\ adjOff[p + 1] = Cardinality(Below(graph.refs, p + 1))
        /\ i \in Cardinality(Below(graph.refs, p)) .. Cardinality(Below(graph.refs, p + 1))
    BY <1>1, <1>3, <1>6 DEF Emitting, Offsets, Nodes
  <1>9. /\ Cardinality(Below(graph.refs, p)) \in Nat
        /\ Cardinality(Below(graph.refs, p + 1)) \in Nat
        /\ Cardinality(Below(graph.refs, p + 1)) <= M
    BY <1>3, <1>8, BelowType
  <1>10. \A r \in 1 .. M : /\ Freed(r) <=> /\ graph.refs[r].from \in SortedSet
                                          /\ ~(graph.refs[r].from = p /\ i <= Slot(graph.refs, r))
                           /\ Slot(graph.refs, r) \in Int
    BY <1>1, <1>3, SlotRange DEF Freed
  <1>11. CASE i = adjOff[p + 1]
    <2>1. pc' = "pop" /\ UNCHANGED <<i, indegree, queue, tail>>
      BY <1>11 DEF Relax
    <2>2. \A r \in 1 .. M : Freed(r)' <=> Freed(r)
      <3>1. \A r \in 1 .. M : graph.refs[r].from = p => Slot(graph.refs, r) < i
        BY <1>3, <1>8, <1>11, SlotRange
      <3>2. \A r \in 1 .. M : Freed(r)' <=> graph.refs[r].from \in SortedSet
        BY <1>2, <1>4, <2>1 DEF Freed
      <3>3. i \in Int
        BY <1>1, <1>3 DEF TypeOK
      <3>4. QED
        BY <1>10, <3>1, <3>2, <3>3
    <2>3. \A v : Pending(v)' = Pending(v)
      BY <1>2, <2>2 DEF Pending
    <2>4. Queued' = Queued /\ Once'
      BY <1>1, <1>2, <2>1 DEF Emitting, Queued, Once
    <2>5. Emitting'
      BY <1>1, <1>2, <1>4, <2>1, <2>3, <2>4 DEF Emitting
    <2>6. TypeOK'
      BY <1>1, <1>2, <2>1 DEF TypeOK
    <2>7. QED
      BY <1>1, <1>2, <2>1, <2>5, <2>6 DEF KInv
  <1>12. CASE i # adjOff[p + 1]
    <2>0. PICK c : c = adj[i]
      OBVIOUS
    <2>1. /\ indegree' = [indegree EXCEPT ![c] = @ - 1]
          /\ i' = i + 1
          /\ UNCHANGED pc
      BY <1>12, <2>0 DEF Relax
    <2>2. /\ i \in Cardinality(Below(graph.refs, p)) .. Cardinality(Below(graph.refs, p + 1)) - 1
          /\ i \in Int
      BY <1>8, <1>9, <1>12
    <2>3. p \in 0 .. N - 1
      BY <1>6 DEF Nodes
    <2>4. PICK e \in 1 .. M : graph.refs[e].from = p /\ Slot(graph.refs, e) = i
      <3>1. KnownIds(graph.refs, N)
        BY <1>1 DEF Emitting, Known
      <3>2. \A q \in 0 .. N - 1 :
               \A s \in Cardinality(Below(graph.refs, q)) .. Cardinality(Below(graph.refs, q + 1)) - 1 :
                  \E r \in 1 .. Len(graph.refs) :
                     graph.refs[r].from = q /\ Slot(graph.refs, r) = s
        BY <1>3, <3>1, SlotOnto
      <3> HIDE DEF p
      <3>3. QED
        BY <1>3, <2>2, <2>3, <3>2
    <2>5. c = graph.refs[e].to /\ c \in Nodes
      BY <1>1, <1>3, <2>0, <2>4 DEF Emitting, Filled
    <2>6. \A r \in 1 .. M : Freed(r)' <=> Freed(r) \/ r = e
      <3>1. \A r \in 1 .. M : Slot(graph.refs, r) = i => r = e
        BY <1>3, <2>4, SlotInjective
      <3>2. \A r \in 1 .. M :
               Freed(r)' <=> /\ graph.refs[r].from \in SortedSet
                             /\ ~(graph.refs[r].from = p /\ i + 1 <= Slot(graph.refs, r))
        BY <1>1, <1>2, <1>4, <2>1 DEF Freed
      <3>3. QED
        BY <1>6, <1>10, <2>2, <2>4, <3>1, <3>2
    <2>7. ~Freed(e)
      BY <1>6, <1>10, <2>2, <2>4
    <2> HIDE DEF p
    <2>8. \A v : Pending(v)' = IF v = c THEN Pending(v) \ {e} ELSE Pending(v)
      BY <1>2, <2>5, <2>6 DEF Pending
    <2>9. e \in Pending(c)
      BY <2>4, <2>5, <2>7 DEF Pending
    <2>10. Cardinality(Pending(c)') = Cardinality(Pending(c)) - 1
      <3>1. Pending(c)' = Pending(c) \ {e}
        BY <2>8, Zenon
      <3>2. IsFiniteSet(Pending(c))
        BY <1>1, PendingFinite
      <3>3. Cardinality(Pending(c) \ {e}) = Cardinality(Pending(c)) - 1
        BY <2>9, <3>2, FS_RemoveElement
      <3>4. QED
        BY <3>1, <3>3, Zenon
    <2>11. \A v \in Nodes : v # c => Cardinality(Pending(v)') = Cardinality(Pending(v))
      BY <2>8
    <2>12. \A v \in Nodes : Cardinality(Pending(v)) \in 0 .. M
      BY <1>1, PendingFinite
    <2>13. indegree[c] \in Nat \ {0}
      <3>1. Cardinality(Pending(c)) # 0
        BY <1>1, <2>9, PendingFinite
      <3>2. QED
        BY <1>1, <1>3, <2>5, <2>12, <3>1 DEF Emitting
    <2>14. \A v \in Nodes : indegree'[v] = IF v = c THEN indegree[v] - 1 ELSE indegree[v]
      BY <1>1, <2>1, <2>5 DEF TypeOK
    <2>15. \A v \in Nodes : indegree'[v] = Cardinality(Pending(v)')
      <3>1. \A v \in Nodes : indegree[v] = Cardinality(Pending(v))
        BY <1>1 DEF Emitting
      <3>2. indegree'[c] = Cardinality(Pending(c)')
        BY <2>5, <2>10, <2>14, <3>1
      <3>3. \A v \in Nodes : v # c => indegree'[v] = Cardinality(Pending(v)')
        BY <2>11, <2>14, <3>1
      <3>4. QED
        BY <3>2, <3>3
    <2>16. c \notin Queued
      BY <1>1, <2>5, <2>13 DEF Emitting
    <2>17. tail < N
      BY <1>1, <1>3, <1>5, <2>5, <2>16, QueueRoom DEF Emitting
    <2>18. i' \in Cardinality(Below(graph'.refs, p')) .. Cardinality(Below(graph'.refs, p' + 1))
      BY <1>2, <1>7, <1>9, <2>1, <2>2
    <2>19. /\ i' \in 0 .. N + M + 1
           /\ indegree' \in [Nodes -> 0 .. M \cup {Garbage}]
      <3>1. i' \in 0 .. N + M + 1
        BY <1>3, <1>9, <2>1, <2>2
      <3>2. indegree[c] - 1 \in 0 .. M
        BY <1>1, <1>3, <2>5, <2>12, <2>13 DEF Emitting
      <3>3. QED
        BY <1>1, <2>1, <2>5, <3>1, <3>2 DEF TypeOK
    <2>20. CASE indegree[c] = 1
      <3>1. queue' = [queue EXCEPT ![tail] = c] /\ tail' = tail + 1
        BY <1>12, <2>0, <2>20 DEF Relax, p
      <3>2. queue \in [Nodes -> Nodes \cup {Garbage}]
        BY <1>1 DEF TypeOK
      <3>3. /\ Once' /\ Queued' = Queued \cup {c}
            /\ \A q \in 0 .. tail - 1 : queue'[q] = queue[q]
        BY <1>1, <1>2, <1>3, <1>5, <2>5, <2>16, <2>17, <3>1, <3>2, Enqueue DEF Emitting
      <3>4. \A q \in 0 .. k' - 1 : order'[q] = queue'[q]
        BY <1>1, <1>2, <1>5, <3>3 DEF Emitting
      <3>5. \A v \in Nodes : indegree'[v] = 0 <=> v \in Queued'
        BY <1>1, <2>5, <2>14, <2>20, <3>3 DEF Emitting
      <3>6. head' = k' /\ k' <= tail' /\ k' >= 1
        BY <1>1, <1>2, <1>5, <3>1
      <3>7. Emitting'
        BY <1>2, <1>4, <2>15, <2>18, <3>3, <3>4, <3>5, <3>6 DEF Emitting, p
      <3>8. TypeOK'
        <4>1. queue' \in [Nodes -> Nodes \cup {Garbage}]
          BY <2>5, <3>1, <3>2
        <4>2. tail' \in 0 .. N
          BY <1>3, <1>5, <2>17, <3>1
        <4>3. QED
          BY <1>1, <1>2, <2>1, <2>19, <4>1, <4>2 DEF TypeOK
      <3>9. QED
        BY <1>1, <1>2, <2>1, <3>7, <3>8 DEF KInv
    <2>21. CASE indegree[c] # 1
      <3>1. UNCHANGED <<queue, tail>>
        BY <1>12, <2>0, <2>21 DEF Relax, p
      <3>2. Queued' = Queued /\ Once'
        BY <1>1, <1>2, <3>1 DEF Emitting, Queued, Once
      <3>3. \A v \in Nodes : indegree'[v] = 0 <=> v \in Queued'
        BY <1>1, <2>5, <2>13, <2>14, <2>21, <3>2 DEF Emitting
      <3>4. Emitting'
        BY <1>1, <1>2, <1>4, <2>15, <2>18, <3>1, <3>2, <3>3 DEF Emitting, p
      <3>5. TypeOK'
        BY <1>1, <1>2, <2>1, <2>19, <3>1 DEF TypeOK
      <3>6. QED
        BY <1>1, <1>2, <2>1, <3>4, <3>5 DEF KInv
    <2>22. QED
      BY <2>20, <2>21
  <1>13. QED
    BY <1>11, <1>12

\* Every step of the sort keeps the invariant.
LEMMA NextKeepsKInv ==
    ASSUME KInv, [Next]_vars
    PROVE  KInv'
  <1>1. CASE UNCHANGED vars
    <2>1. /\ graph' = graph /\ N' = N /\ M' = M /\ Nodes' = Nodes
          /\ UNCHANGED <<pc, i, acc, indegree, adjOff, adj, cur, queue, order, head, tail, k, unknown>>
      BY <1>1 DEF vars, slices, N, M, Nodes
    <2>2. TypeOK'
      BY <2>1 DEF KInv, TypeOK
    <2>3. /\ Untouched' <=> Untouched
          /\ Known' <=> Known
          /\ Degrees' <=> Degrees
          /\ Offsets' <=> Offsets
          /\ Once' <=> Once
          /\ Queued' = Queued
      BY <2>1 DEF Untouched, Known, Degrees, Offsets, Once, Queued
    <2>4. /\ Filled(i)' <=> Filled(i)
          /\ Filled(M + 1)' <=> Filled(M + 1)
      BY <2>1 DEF Filled
    <2>5. \A v : Pending(v)' = Pending(v)
      BY <2>1 DEF Pending, Freed, SortedSet
    <2>6. QED
      BY <2>1, <2>2, <2>3, <2>4, <2>5
         DEF KInv, Counting, Prefixing, Filling, Seeding, Emitting
  <1>2. CASE Return
    BY <1>1, <1>2 DEF Return
  <1>3. QED
    BY <1>1, <1>2, ClearKeepsKInv, CountKeepsKInv, PrefixKeepsKInv, FillKeepsKInv,
       SeedKeepsKInv, PopKeepsKInv, RelaxKeepsKInv DEF Next

\* The inductive invariant holds throughout every call.
THEOREM KahnInvariant == Spec => []KInv
  <1>1. Init => KInv
    BY InitEstablishesKInv
  <1>2. KInv /\ [Next]_vars => KInv'
    BY NextKeepsKInv
  <1>3. QED
    BY <1>1, <1>2, PTL DEF Spec

-----------------------------------------------------------------------------
(* What follows from it. *)

\* No counter of the sort goes below zero, and every index is inside its
\* slice, for every graph: a cycle, a repeated input and an unknown id included.
THEOREM KahnTypeCorrect == Spec => []TypeOK
  <1>1. KInv => TypeOK
    BY DEF KInv
  <1>2. QED
    BY <1>1, KahnInvariant, PTL

\* Once filled, the slots between a producer's offset and the next hold its
\* consumers, one per reference.
LEMMA FilledIsExact ==
    ASSUME graph \in Graphs, Known, Offsets, Filled(M + 1)
    PROVE  /\ adjOff[0] = 0 /\ adjOff[N] = M
           /\ \A p, v \in Nodes :
                 Cardinality({s \in adjOff[p] .. adjOff[p + 1] - 1 : adj[s] = v})
                   = Cardinality(RefsTo(v) \cap RefsFrom(p))
  <1>1. /\ N \in Nat /\ M \in Nat /\ M = Len(graph.refs) /\ graph.refs \in Refs(N)
        /\ \A r \in 1 .. M : graph.refs[r].to \in Nodes /\ graph.refs[r].from \in Nat
    BY GraphFacts
  <1>2. KnownIds(graph.refs, N)
    BY DEF Known
  <1>3. adjOff[0] = 0
    BY <1>1, CountBase DEF Offsets
  <1>4. adjOff[N] = M
    <2>1. N \in Int /\ N <= N
      BY <1>1
    <2>2. Cardinality(Below(graph.refs, N)) = Len(graph.refs)
      BY <1>1, <1>2, <2>1, BelowAll
    <2>3. QED
      BY <1>1, <2>2 DEF Offsets
  <1>5. ASSUME NEW p \in Nodes, NEW v \in Nodes
        PROVE  Cardinality({s \in adjOff[p] .. adjOff[p + 1] - 1 : adj[s] = v})
                 = Cardinality(RefsTo(v) \cap RefsFrom(p))
    <2> DEFINE S == RefsTo(v) \cap RefsFrom(p)
               T == {s \in adjOff[p] .. adjOff[p + 1] - 1 : adj[s] = v}
               f == [r \in S |-> Slot(graph.refs, r)]
    <2>1. /\ p \in 0 .. N - 1 /\ p \in Int /\ p + 1 \in Int
          /\ adjOff[p] = Cardinality(Below(graph.refs, p))
          /\ adjOff[p + 1] = Cardinality(Below(graph.refs, p + 1))
      BY <1>1 DEF Nodes, Offsets
    <2>2. /\ adjOff[p] \in Nat /\ adjOff[p + 1] \in Nat
      BY <1>1, <2>1, BelowType
    <2>3. \A r \in S : /\ r \in 1 .. M
                       /\ graph.refs[r].from = p /\ graph.refs[r].to = v
      BY DEF RefsTo, RefsFrom
    <2>4. IsFiniteSet(S)
      <3>1. S \in SUBSET (1 .. M)
        BY <2>3
      <3>2. IsFiniteSet(1 .. M)
        BY <1>1, Segment
      <3>3. QED
        BY <3>1, <3>2, FS_Subset
    <2>5. \A r \in S : Slot(graph.refs, r) \in T
      <3> SUFFICES ASSUME NEW r \in S PROVE Slot(graph.refs, r) \in T
        OBVIOUS
      <3>1. r \in 1 .. M /\ graph.refs[r].from = p /\ graph.refs[r].to = v
        BY <2>3
      <3>2. /\ Slot(graph.refs, r) \in Int
            /\ Cardinality(Below(graph.refs, p)) <= Slot(graph.refs, r)
            /\ Slot(graph.refs, r) < Cardinality(Below(graph.refs, p + 1))
        BY <1>1, <3>1, SlotRange
      <3>3. adj[Slot(graph.refs, r)] = v
        BY <1>1, <3>1 DEF Filled
      <3>4. QED
        BY <2>1, <2>2, <3>2, <3>3
    <2>6. \A s \in T : \E r \in S : Slot(graph.refs, r) = s
      <3> SUFFICES ASSUME NEW s \in T PROVE \E r \in S : Slot(graph.refs, r) = s
        OBVIOUS
      <3>1. /\ s \in Cardinality(Below(graph.refs, p)) .. Cardinality(Below(graph.refs, p + 1)) - 1
            /\ adj[s] = v
        BY <2>1
      <3>2. \A q \in 0 .. N - 1 :
               \A x \in Cardinality(Below(graph.refs, q)) .. Cardinality(Below(graph.refs, q + 1)) - 1 :
                  \E r \in 1 .. Len(graph.refs) :
                     graph.refs[r].from = q /\ Slot(graph.refs, r) = x
        BY <1>1, <1>2, SlotOnto
      <3>3. PICK r \in 1 .. M : graph.refs[r].from = p /\ Slot(graph.refs, r) = s
        BY <1>1, <2>1, <3>1, <3>2
      <3>4. graph.refs[r].to = v
        BY <1>1, <3>1, <3>3 DEF Filled
      <3>5. r \in S
        BY <3>3, <3>4 DEF RefsTo, RefsFrom
      <3>6. QED
        BY <3>3, <3>5
    <2>7. \A x, y \in S : Slot(graph.refs, x) = Slot(graph.refs, y) => x = y
      BY <1>1, <2>3, SlotInjective
    <2> HIDE DEF S, T
    <2>8. /\ f \in [S -> T]
          /\ \A x, y \in S : f[x] = f[y] => x = y
          /\ \A y \in T : \E x \in S : f[x] = y
      BY <2>5, <2>6, <2>7
    <2> HIDE DEF f
    <2>9. Cardinality(T) = Cardinality(S)
      BY <2>4, <2>8, OneToOne
    <2>10. QED
      BY <2>9 DEF S, T
  <1>6. QED
    BY <1>3, <1>4, <1>5

\* The consumer lists that the count, prefix-sum and fill loops build are the
\* graph's: what debug_assert_eq!(acc, adj.len()) stands for, for every graph.
THEOREM KahnAdjacencyExact == Spec => []AdjacencyExact
  <1>1. KInv => AdjacencyExact
    <2>1. KInv /\ pc \in {"seed", "pop", "relax", "ordered", "cycle"} =>
            graph \in Graphs /\ Known /\ Offsets /\ Filled(M + 1)
      BY DEF KInv, Seeding, Emitting
    <2>2. QED
      BY <2>1, FilledIsExact DEF AdjacencyExact
  <1>2. QED
    BY <1>1, KahnInvariant, PTL

\* A reference is released, counted along its producer's references, exactly
\* when the loop over the producer's slots has passed its slot.
LEMMA ReleasedIsFreed ==
    ASSUME graph \in Graphs, TypeOK, Emitting, NEW r \in 1 .. M
    PROVE  Released(r) <=> Freed(r)
  <1> DEFINE p == graph.refs[r].from
  <1>1. /\ N \in Nat /\ M \in Nat /\ M = Len(graph.refs) /\ graph.refs \in Refs(N)
        /\ p \in Nat /\ p \in Int /\ p < N
    BY GraphFacts DEF Emitting, Known, KnownIds
  <1>2. r \in RefsFrom(p)
    BY DEF RefsFrom
  <1>3. {q \in RefsFrom(p) : q < r} = FromBefore(graph.refs, p, r)
    BY <1>1 DEF RefsFrom, FromBefore
  <1>4. Cardinality({q \in RefsFrom(p) : q < r}) = Cardinality(FromBefore(graph.refs, p, r))
    BY <1>3, Zenon
  <1>5. Slot(graph.refs, r)
          = Cardinality(Below(graph.refs, p)) + Cardinality(FromBefore(graph.refs, p, r))
    BY DEF Slot
  <1>6. adjOff[p] = Cardinality(Below(graph.refs, p))
    BY <1>1 DEF Emitting, Offsets
  <1>7. Cardinality(Below(graph.refs, p)) \in Nat
    BY <1>1, BelowType
  <1>8. Cardinality(FromBefore(graph.refs, p, r)) \in Nat
    <2>1. r \in 1 .. Len(graph.refs) + 1
      BY <1>1
    <2>2. QED
      BY <1>1, <2>1, BeforeType
  <1>9. i \in Int
    BY <1>1 DEF TypeOK
  <1>10. Cardinality({q \in RefsFrom(p) : q < r}) >= i - adjOff[p]
           <=> i <= Slot(graph.refs, r)
    BY <1>4, <1>5, <1>6, <1>7, <1>8, <1>9
  <1>11. Released(r) <=> /\ p \in SortedSet
                         /\ ~(pc = "relax" /\ p = order[k - 1]
                                /\ r \in RefsFrom(p)
                                /\ Cardinality({q \in RefsFrom(p) : q < r}) >= i - adjOff[p])
    BY Zenon DEF Released
  <1>12. Freed(r) <=> /\ p \in SortedSet
                      /\ ~(pc = "relax" /\ p = order[k - 1] /\ i <= Slot(graph.refs, r))
    BY Zenon DEF Freed
  <1> HIDE DEF p
  <1>13. QED
    BY <1>2, <1>10, <1>11, <1>12, Zenon

\* While nodes are emitted, an indegree is the number of references not yet
\* released, and the queue holds each node with none once.
THEOREM KahnPendingCounted == Spec => []PendingCounted
  <1>1. ASSUME KInv, pc \in {"pop", "relax"}
        PROVE  /\ head = k /\ \A q \in 0 .. k - 1 : queue[q] = order[q]
               /\ Cardinality(Queued) = tail
               /\ \A v \in Nodes :
                     /\ indegree[v] = Cardinality({r \in RefsTo(v) : ~Released(r)})
                     /\ indegree[v] = 0 <=> v \in Queued
    <2>1. graph \in Graphs /\ TypeOK /\ Emitting
      BY <1>1 DEF KInv
    <2>2. Cardinality(Queued) = tail
      BY <2>1, EmittedFacts, QueueRoom DEF Emitting
    <2>3. \A v : {r \in RefsTo(v) : ~Released(r)} = Pending(v)
      <3>1. \A r \in 1 .. M : Released(r) <=> Freed(r)
        BY <2>1, ReleasedIsFreed
      <3>2. QED
        BY <3>1 DEF RefsTo, Pending
    <2>4. \A v : Cardinality({r \in RefsTo(v) : ~Released(r)}) = Cardinality(Pending(v))
      BY <2>3, Zenon
    <2>5. QED
      BY <2>1, <2>2, <2>4 DEF Emitting
  <1>2. KInv => PendingCounted
    BY <1>1 DEF PendingCounted, Queued
  <1>3. QED
    BY <1>2, KahnInvariant, PTL

-----------------------------------------------------------------------------
(* The sort implements TopoOrder. *)

\* The nodes TopoOrder calls emitted.
LEMMA EmittedAre ==
    ASSUME k \in Nat
    PROVE  /\ Len(Sorted) = k
           /\ Topo!Emitted = SortedSet
  <1>1. Len(Sorted) = k /\ \A j \in 1 .. k : Sorted[j] = order[j - 1]
    BY DEF Sorted
  <1>2. Topo!Emitted = {Sorted[j] : j \in 1 .. k}
    BY <1>1 DEF Topo!Emitted
  <1>3. \A j \in 1 .. k : j - 1 \in 0 .. k - 1
    OBVIOUS
  <1>4. \A j \in 0 .. k - 1 : j + 1 \in 1 .. k /\ Sorted[j + 1] = order[j]
    BY <1>1
  <1>5. QED
    BY <1>1, <1>2, <1>3, <1>4 DEF SortedSet

\* A step that neither emits nor ends the call.
LEMMA Stutters ==
    ASSUME UNCHANGED <<graph, order, k>>,
           pc' = pc \/ (pc \notin Ended /\ pc' \notin Ended)
    PROVE  UNCHANGED Topo!tvars
  <1>1. Sorted' = Sorted
    BY DEF Sorted
  <1>2. (IF pc \in Ended THEN pc ELSE "running")' = IF pc \in Ended THEN pc ELSE "running"
    BY DEF Ended
  <1>3. QED
    BY <1>1, <1>2 DEF Topo!tvars

\* A node at the head of the queue may come next.
LEMMA PopEmits ==
    ASSUME KInv, Pop, head # tail
    PROVE  \E v \in Topo!Remaining : Topo!Emit(v)
  <1>1. graph \in Graphs /\ TypeOK /\ pc = "pop" /\ Emitting
    BY DEF KInv, Pop
  <1>2. /\ N \in Nat /\ M = Len(graph.refs)
        /\ \A r \in 1 .. M : graph.refs[r].to \in Nodes /\ graph.refs[r].from \in Nat
    BY <1>1, GraphFacts
  <1>3. /\ k \in Nat /\ tail \in Nat /\ k <= tail /\ tail <= N /\ head = k
        /\ \A q \in k .. tail - 1 : queue[q] \notin SortedSet
    BY <1>1, EmittedFacts DEF Emitting
  <1>4. k \in 0 .. tail - 1 /\ k \in 0 .. N - 1 /\ k \in k .. tail - 1
    BY <1>2, <1>3
  <1>5. PICK v : v = queue[k]
    OBVIOUS
  <1>6. v \in Nodes /\ v \in Queued /\ v \notin SortedSet
    BY <1>1, <1>3, <1>4, <1>5 DEF Emitting, Once, Queued
  <1>7. /\ order' = [order EXCEPT ![k] = v] /\ k' = k + 1
        /\ pc' = "relax" /\ graph' = graph
    BY <1>3, <1>5 DEF Pop
  <1>8. \A r \in 1 .. M : graph.refs[r].to = v => graph.refs[r].from \in SortedSet
    <2>1. Pending(v) = {}
      BY <1>1, <1>6, PendingFinite DEF Emitting
    <2>2. QED
      BY <1>1, <2>1 DEF Pending, Freed
  <1>9. Topo!Emitted = SortedSet
    BY <1>3, EmittedAre
  <1>10. v \in Topo!Remaining
    BY <1>6, <1>9 DEF Topo!Remaining, Nodes, N
  <1>11. Topo!Ready(v)
    BY <1>2, <1>6, <1>8, <1>9 DEF Topo!Ready, Topo!Producers
  <1>12. ~Topo!HasUnknownNode
    BY <1>1, <1>2 DEF Topo!HasUnknownNode, Emitting, Known, KnownIds, N
  <1>13. Sorted' = Append(Sorted, v)
    <2>1. \A q \in 0 .. N - 1 : order'[q] = IF q = k THEN v ELSE order[q]
      BY <1>1, <1>7 DEF TypeOK, Nodes
    <2>2. \A j \in 1 .. k + 1 : order'[j - 1] = IF j = k + 1 THEN v ELSE order[j - 1]
      BY <1>2, <1>3, <1>4, <2>1
    <2>3. Sorted' = [j \in 1 .. k + 1 |-> IF j = k + 1 THEN v ELSE order[j - 1]]
      BY <1>7, <2>2 DEF Sorted
    <2>4. Sorted \in Seq(Nodes) /\ Len(Sorted) = k
      <3>1. \A j \in 1 .. k : order[j - 1] \in Nodes
        BY <1>1, <1>3, EmittedFacts
      <3>2. QED
        BY <1>3, <3>1 DEF Sorted
    <2>5. /\ Append(Sorted, v) \in Seq(Nodes) /\ Len(Append(Sorted, v)) = k + 1
          /\ \A j \in 1 .. k : Append(Sorted, v)[j] = Sorted[j]
          /\ Append(Sorted, v)[k + 1] = v
      BY <1>6, <2>4, AppendProperties
    <2>6. \A j \in 1 .. k : Sorted[j] = order[j - 1]
      BY DEF Sorted
    <2>7. /\ Sorted' \in Seq(Nodes) /\ Len(Sorted') = k + 1
          /\ \A j \in 1 .. k : Sorted'[j] = Sorted[j]
          /\ Sorted'[k + 1] = v
      <3>1. \A j \in 1 .. k : Sorted[j] \in Nodes
        BY <2>4
      <3>2. DOMAIN Sorted' = 1 .. k + 1
        BY <2>3
      <3>3. \A j \in 1 .. k + 1 : Sorted'[j] = IF j = k + 1 THEN v ELSE order[j - 1]
        BY <2>3
      <3>4. /\ \A j \in 1 .. k : Sorted'[j] = Sorted[j]
            /\ Sorted'[k + 1] = v
        BY <1>3, <2>6, <3>3
      <3>5. \A j \in 1 .. k + 1 : Sorted'[j] \in Nodes
        BY <1>3, <1>6, <3>1, <3>4
      <3>6. Sorted' \in [1 .. k + 1 -> Nodes]
        BY <2>3, <3>2, <3>5
      <3>7. k + 1 \in Nat
        BY <1>3
      <3>8. Sorted' \in Seq(Nodes) /\ Len(Sorted') = k + 1
        BY <3>6, <3>7
      <3>9. QED
        BY <3>4, <3>8
    <2>8. \A j \in 1 .. k + 1 : Sorted'[j] = Append(Sorted, v)[j]
      BY <1>3, <2>5, <2>7
    <2>9. QED
      BY <2>5, <2>7, <2>8, SeqEqual
  <1>14. QED
    BY <1>1, <1>7, <1>10, <1>11, <1>12, <1>13 DEF Topo!Emit, Ended

\* With an empty queue, either every node is emitted or none of the rest is ready.
LEMMA PopEnds ==
    ASSUME KInv, Pop, head = tail
    PROVE  Topo!Finish
  <1>1. graph \in Graphs /\ TypeOK /\ pc = "pop" /\ Emitting
    BY DEF KInv, Pop
  <1>2. /\ N \in Nat /\ M = Len(graph.refs)
        /\ \A r \in 1 .. M : graph.refs[r].to \in Nodes /\ graph.refs[r].from \in Nat
    BY <1>1, GraphFacts
  <1>3. /\ k \in Nat /\ tail \in Nat /\ k = tail
        /\ SortedSet = {queue[q] : q \in 0 .. k - 1}
    BY <1>1, EmittedFacts DEF Emitting
  <1>4. SortedSet = Queued
    BY <1>3 DEF Queued
  <1>5. /\ Cardinality(Queued) = tail /\ Queued \subseteq Nodes
        /\ tail = N => Queued = Nodes
    BY <1>1, <1>2, <1>3, QueueRoom DEF Emitting
  <1>6. /\ pc' = IF k = N THEN "ordered" ELSE "cycle"
        /\ UNCHANGED <<graph, order, k>>
    BY DEF Pop
  <1>7. Topo!Emitted = Queued
    BY <1>3, <1>4, EmittedAre
  <1>8. Topo!Remaining = Nodes \ Queued
    BY <1>7 DEF Topo!Remaining, Nodes, N
  <1>9. ~Topo!HasUnknownNode
    BY <1>1, <1>2 DEF Topo!HasUnknownNode, Emitting, Known, KnownIds, N
  <1>10. Sorted' = Sorted
    BY <1>6 DEF Sorted
  <1>11. CASE k = N
    <2>1. Topo!Remaining = {}
      BY <1>3, <1>5, <1>8, <1>11
    <2>2. QED
      BY <1>1, <1>6, <1>9, <1>10, <1>11, <2>1 DEF Topo!Finish, Ended
  <1>12. CASE k # N
    <2>1. Topo!Remaining # {}
      <3>1. Cardinality(Nodes) = N
        BY <1>2, NodeCount
      <3>2. Nodes # Queued
        BY <1>3, <1>5, <1>12, <3>1
      <3>3. QED
        BY <1>5, <1>8, <3>2
    <2>2. \A v \in Topo!Remaining : ~Topo!Ready(v)
      <3> SUFFICES ASSUME NEW v \in Nodes, v \notin Queued
                   PROVE  ~Topo!Ready(v)
        BY <1>8
      <3>1. Pending(v) # {}
        BY <1>1, PendingFinite DEF Emitting
      <3>2. PICK r \in 1 .. M : graph.refs[r].to = v /\ graph.refs[r].from \notin Queued
        BY <1>1, <1>4, <3>1 DEF Pending, Freed
      <3>3. graph.refs[r].from \in Topo!Producers(v)
        BY <1>2, <3>2 DEF Topo!Producers
      <3>4. QED
        BY <1>7, <3>2, <3>3 DEF Topo!Ready
    <2>3. QED
      BY <1>1, <1>6, <1>9, <1>10, <1>12, <2>1, <2>2 DEF Topo!Finish, Ended
  <1>13. QED
    BY <1>11, <1>12

\* The count loop stops at an id outside the graph, before anything is emitted.
LEMMA CountRefines ==
    ASSUME KInv, Count
    PROVE  Topo!Finish \/ UNCHANGED Topo!tvars
  <1>1. graph \in Graphs /\ TypeOK /\ pc = "count" /\ Counting
    BY DEF KInv, Count
  <1>2. N \in Nat /\ M \in Nat /\ M = Len(graph.refs)
    BY <1>1, GraphFacts
  <1>3. CASE ~(i > M) /\ graph.refs[i].from >= N
    <2>1. pc' = "unknown" /\ UNCHANGED <<graph, order, k>>
      BY <1>3 DEF Count
    <2>2. i \in 1 .. M
      BY <1>1, <1>2, <1>3 DEF Counting
    <2>3. Topo!HasUnknownNode
      BY <1>2, <1>3, <2>2 DEF Topo!HasUnknownNode, N
    <2>4. Sorted' = Sorted
      BY <2>1 DEF Sorted
    <2>5. QED
      BY <1>1, <2>1, <2>3, <2>4 DEF Topo!Finish, Ended
  <1>4. CASE ~(~(i > M) /\ graph.refs[i].from >= N)
    <2>1. pc' \in {"count", "prefix"} /\ UNCHANGED <<graph, order, k>>
      BY <1>1, <1>4 DEF Count
    <2>2. QED
      BY <1>1, <2>1, Stutters DEF Ended
  <1>5. QED
    BY <1>3, <1>4

\* The sort emits each node once, after every node it reads; it reports an
\* unknown id before it emits anything, and a cycle only when no remaining node
\* can be emitted: the safety part of TopoOrder's specification, whose fairness
\* the run kahn checks.
THEOREM KahnImplementsTopoOrder ==
    Spec => Topo!TInit /\ [][Topo!TNext]_(Topo!tvars)
  <1>1. Init => Topo!TInit
    <2> SUFFICES ASSUME Init PROVE Topo!TInit
      OBVIOUS
    <2>1. Sorted = <<>>
      BY DEF Init, Sorted
    <2>2. QED
      BY <2>1 DEF Init, Topo!TInit, Ended
  <1>2. KInv /\ [Next]_vars => [Topo!TNext]_(Topo!tvars)
    <2> SUFFICES ASSUME KInv, [Next]_vars
                 PROVE  Topo!TNext \/ UNCHANGED Topo!tvars
      BY DEF Topo!tvars
    <2>1. CASE Count
      BY <2>1, CountRefines DEF Topo!TNext
    <2>2. CASE Pop
      BY <2>2, PopEmits, PopEnds DEF Topo!TNext
    <2>3. CASE Clear \/ Prefix \/ Fill \/ Seed \/ Relax
      <3>1. /\ UNCHANGED <<graph, order, k>>
            /\ pc \notin Ended /\ pc' \notin Ended
        BY <2>3 DEF Clear, Prefix, Fill, Seed, Relax, Ended
      <3>2. QED
        BY <3>1, Stutters
    <2>4. CASE Return \/ UNCHANGED vars
      <3>1. UNCHANGED <<graph, order, k, pc>>
        BY <2>4 DEF Return, vars, slices
      <3>2. QED
        BY <3>1, Stutters
    <2>5. QED
      BY <2>1, <2>2, <2>3, <2>4 DEF Next
  <1>3. QED
    BY <1>1, <1>2, KahnInvariant, PTL DEF Spec

-----------------------------------------------------------------------------
(* The two sorts are the same. *)

\* The run of GraphSort's sort, the run of one turn of it, and that of the loop
\* that picks the ids its queue starts with.
RunOf(g)      == CHOOSE run : IsSort(g, run)
TurnOf(g, st) == CHOOSE run : IsTurn(g, st, run)
RootSet(g)    == {v \in Ids(g) : InDegree(g, v) = 0}
PickingOf(g)  == CHOOSE run : IsPicking(g.n, RootSet(g), run)

\* st is the state the slices stand for: the queue slice holds what was queued
\* so far, those emitted first.
Same(st) ==
    /\ Len(st.order) = k /\ Len(Line(st)) = tail
    /\ \A a \in 1 .. tail : Line(st)[a] = queue[a - 1]
    /\ \A v \in Nodes : st.indegree[v] = indegree[v]

\* While the consumers of the node emitted last are visited: of the references
\* of the turn that emitted it, the first j, and of those the ones that read
\* this node are the ones whose slots were visited.
InTurn ==
    LET st == RunOf(graph)[k - 1]
        p  == order[k - 1]
    IN  /\ st.queue # <<>> /\ Head(st.queue) = p
        /\ \E j \in 0 .. M :
              /\ Same(TurnOf(graph, st)[j])
              /\ \A r \in 1 .. M : graph.refs[r].from = p =>
                    (r <= j <=> Slot(graph.refs, r) < i)

Picking ==
    LET ids == PickingOf(graph)[i]
    IN  Len(ids) = tail /\ \A a \in 1 .. tail : ids[a] = queue[a - 1]

Follows ==
    /\ pc = "unknown" => NamesUnknown(graph)
    /\ pc = "seed" => Picking
    /\ pc = "relax" => InTurn
    /\ pc \in {"pop", "ordered", "cycle"} => Same(RunOf(graph)[k])
    /\ pc \in {"ordered", "cycle"} => head = tail
    /\ pc = "ordered" <=> pc \in {"ordered", "cycle"} /\ k = N

\* The graph is one that GraphSort's theorems are about, and its runs exist.
LEMMA RunsExist ==
    ASSUME graph \in Graphs
    PROVE  /\ IsGraph(graph) /\ Ids(graph) = Nodes /\ graph.n = N
           /\ IsSort(graph, RunOf(graph))
           /\ IsPicking(N, RootSet(graph), PickingOf(graph))
           /\ RootSet(graph) \subseteq Nodes
           /\ \A st : Sorting(graph, st, 0, M) /\ st.queue # <<>> => IsTurn(graph, st, TurnOf(graph, st))
  <1>1. IsGraph(graph)
    BY KahnAssumption DEF IsGraph, Edge, Ids
  <1>2. Ids(graph) = Nodes /\ graph.n = N /\ M = Len(graph.refs) /\ N \in Nat
    BY GraphFacts DEF Ids, Nodes, N, M
  <1>3. IsSort(graph, RunOf(graph))
    BY <1>1, SortRuns DEF RunOf
  <1>4. RootSet(graph) \in SUBSET (0 .. N - 1)
    BY <1>2 DEF RootSet, Nodes
  <1>5. IsPicking(N, RootSet(graph), PickingOf(graph))
    <2>1. \E run : IsPicking(N, RootSet(graph), run)
      BY <1>2, <1>4, PickingRuns
    <2>2. QED
      BY <1>2, <2>1 DEF PickingOf
  <1>6. ASSUME NEW st, Sorting(graph, st, 0, M), st.queue # <<>>
        PROVE  IsTurn(graph, st, TurnOf(graph, st))
    <2>1. \E run : IsTurn(graph, st, run)
      BY <1>1, <1>2, <1>6, TurnRuns
    <2>2. QED
      BY <2>1 DEF TurnOf
  <1>7. QED
    BY <1>1, <1>2, <1>3, <1>4, <1>5, <1>6 DEF Nodes

\* References that do not read the id of a turn leave its state alone.
LEMMA TurnIdles ==
    ASSUME NEW g, IsGraph(g), NEW st, NEW run, IsTurn(g, st, run),
           NEW a \in 0 .. Len(g.refs), NEW b \in 0 .. Len(g.refs), a <= b,
           \A r \in a + 1 .. b : g.refs[r].from # Head(st.queue)
    PROVE  run[b] = run[a]
  <1> DEFINE P == {d \in 0 .. b - a : run[a + d] = run[a]}
  <1>1. Len(g.refs) \in Nat /\ b - a \in Nat /\ a \in Nat /\ b \in Nat
    BY GraphRefs
  <1>2. 0 \in P
    BY <1>1
  <1>3. ASSUME NEW d \in 0 .. (b - a) - 1, d \in P PROVE d + 1 \in P
    <2>1. a + d \in 0 .. Len(g.refs) - 1 /\ a + d + 1 \in a + 1 .. b /\ d + 1 \in 0 .. b - a
          /\ a + (d + 1) = a + d + 1
      BY <1>1
    <2>2. run[a + d + 1] = run[a + d]
      BY <2>1 DEF IsTurn
    <2>3. QED
      BY <1>3, <2>1, <2>2
  <1> HIDE DEF P
  <1>4. \A d \in 0 .. b - a : d \in P
    BY <1>1, <1>2, <1>3, UpTo
  <1>5. b - a \in P /\ a + (b - a) = b
    BY <1>1, <1>4
  <1>6. QED
    BY <1>5 DEF P

\* With an empty queue the turns left do nothing.
LEMMA SortIdles ==
    ASSUME NEW g, IsGraph(g), NEW run, IsSort(g, run),
           NEW a \in 0 .. g.n, run[a].queue = <<>>
    PROVE  run[g.n] = run[a]
  <1> DEFINE P == {d \in 0 .. g.n - a : run[a + d] = run[a]}
  <1>1. g.n \in Nat /\ g.n - a \in Nat /\ a \in Nat
    BY GraphRefs
  <1>2. 0 \in P
    BY <1>1
  <1>3. ASSUME NEW d \in 0 .. (g.n - a) - 1, d \in P PROVE d + 1 \in P
    <2>1. a + d \in 0 .. g.n - 1 /\ d + 1 \in 0 .. g.n - a /\ a + (d + 1) = a + d + 1
      BY <1>1
    <2>2. run[a + d + 1] = run[a + d]
      BY <1>3, <2>1 DEF IsSort
    <2>3. QED
      BY <1>3, <2>1, <2>2
  <1> HIDE DEF P
  <1>4. \A d \in 0 .. g.n - a : d \in P
    BY <1>1, <1>2, <1>3, UpTo
  <1>5. g.n - a \in P /\ a + (g.n - a) = g.n
    BY <1>1, <1>4
  <1>6. QED
    BY <1>5 DEF P

\* What Same says of the parts of the state.
LEMMA SameParts ==
    ASSUME graph \in Graphs, NEW st \in SortState(graph), Same(st), k \in Nat, tail \in Nat
    PROVE  /\ st.order \in Seq(Nodes) /\ st.queue \in Seq(Nodes)
           /\ st.indegree \in [Nodes -> Int]
           /\ Len(st.queue) = tail - k
           /\ \A a \in 1 .. k : st.order[a] = queue[a - 1]
           /\ st.queue # <<>> <=> k # tail
           /\ k # tail => Head(st.queue) = queue[k]
  <1>1. PICK ord, q, l, I : /\ ord = st.order /\ q = st.queue /\ l = Line(st) /\ I = Nodes
    OBVIOUS
  <1>2. /\ ord \in Seq(I) /\ q \in Seq(I) /\ st.indegree \in [I -> Int]
        /\ Len(ord) \in Nat /\ Len(q) \in Nat /\ Len(l) = Len(ord) + Len(q)
        /\ \A a \in 1 .. Len(ord) : l[a] = ord[a]
    BY <1>1, RunsExist, LineIs
  <1>3. Len(ord) = k /\ Len(l) = tail /\ \A a \in 1 .. tail : l[a] = queue[a - 1]
    BY <1>1 DEF Same
  <1>4. Len(q) = tail - k /\ \A a \in 1 .. k : ord[a] = queue[a - 1]
    <2>1. Len(q) = tail - k /\ \A a \in 1 .. k : a \in 1 .. tail
      BY <1>2, <1>3
    <2>2. \A a \in 1 .. k : l[a] = ord[a]
      BY <1>2, <1>3
    <2>3. QED
      BY <1>3, <2>1, <2>2
  <1>5. q # <<>> <=> Len(q) # 0
    BY <1>2
  <1>6. ASSUME k # tail PROVE Head(q) = queue[k]
    <2>1. l = ord \o q
      BY <1>1 DEF Line
    <2>2. 1 \in 1 .. Len(q) /\ k + 1 \in 1 .. tail /\ k + 1 - 1 = k
      BY <1>2, <1>3, <1>4, <1>6
    <2>3. (ord \o q)[Len(ord) + 1] = q[1]
      BY <1>2, <2>2
    <2>4. Head(q) = q[1]
      BY <1>2, <2>2
    <2>5. l[k + 1] = queue[k + 1 - 1]
      BY <1>3, <2>2
    <2>6. QED
      BY <1>3, <2>1, <2>2, <2>3, <2>4, <2>5
  <1>7. QED
    BY <1>1, <1>2, <1>4, <1>5, <1>6

\* The loops before the queue is used.
LEMMA FillFollows ==
    ASSUME KInv, Follows, Clear \/ Count \/ Prefix \/ Fill
    PROVE  Follows'
  <1>1. graph \in Graphs /\ graph' = graph
    BY DEF KInv, Clear, Count, Prefix, Fill
  <1>2. N \in Nat /\ M \in Nat /\ M = Len(graph.refs) /\ N = graph.n
    BY <1>1, GraphFacts DEF N
  <1>3. CASE Clear \/ Prefix
    BY <1>3 DEF Clear, Prefix, Follows
  <1>4. CASE Count
    <2>1. CASE ~(i > M) /\ graph.refs[i].from >= N
      <3>1. pc' = "unknown" /\ i \in 1 .. M
        BY <1>2, <1>4, <2>1 DEF Count, KInv, Counting
      <3>2. i \in DOMAIN graph.refs
        BY <1>1, <1>2, <3>1, GraphRefs, RunsExist
      <3>3. NamesUnknown(graph)
        BY <1>2, <2>1, <3>2 DEF NamesUnknown
      <3>4. QED
        BY <1>1, <3>1, <3>3 DEF Follows
    <2>2. CASE ~(~(i > M) /\ graph.refs[i].from >= N)
      <3>1. pc' \in {"count", "prefix"}
        BY <1>4, <2>2 DEF Count
      <3>2. QED
        BY <3>1 DEF Follows
    <2>3. QED
      BY <2>1, <2>2
  <1>5. CASE Fill
    <2>1. CASE i > M
      <3>1. pc' = "seed" /\ i' = 0 /\ tail' = 0
        BY <1>5, <2>1 DEF Fill, KInv, Filling, Untouched
      <3>2. PickingOf(graph)[0] = <<>>
        BY <1>1, RunsExist DEF IsPicking
      <3>3. Picking'
        BY <1>1, <3>1, <3>2 DEF Picking
      <3>4. QED
        BY <3>1, <3>3 DEF Follows
    <2>2. CASE ~(i > M)
      BY <1>5, <2>2 DEF Fill, Follows
    <2>3. QED
      BY <2>1, <2>2
  <1>6. QED
    BY <1>3, <1>4, <1>5

\* What the loop over the ids queues first is what the loop over the vectors picks.
LEMMA SeedFollows ==
    ASSUME KInv, Follows, Seed
    PROVE  Follows'
  <1>1. /\ graph \in Graphs /\ TypeOK /\ pc = "seed" /\ Seeding /\ Picking /\ graph' = graph
    BY DEF KInv, Seed, Follows
  <1>2. /\ N \in Nat /\ M \in Nat /\ M = Len(graph.refs) /\ N = graph.n
        /\ IsGraph(graph) /\ Ids(graph) = Nodes /\ graph.refs \in Refs(N)
        /\ DOMAIN graph.refs = 1 .. M
    <2>1. IsGraph(graph)
      BY <1>1, RunsExist
    <2>2. QED
      BY <1>1, <2>1, GraphFacts, RunsExist, GraphRefs
  <1>3. \A v \in Nodes : indegree[v] = InDegree(graph, v)
    <2> SUFFICES ASSUME NEW v \in Nodes PROVE indegree[v] = InDegree(graph, v)
      OBVIOUS
    <2>1. ToBefore(graph.refs, v, M + 1) = {r \in DOMAIN graph.refs : graph.refs[r].to = v}
      BY <1>2 DEF ToBefore
    <2>2. Cardinality(ToBefore(graph.refs, v, M + 1)) = InDegree(graph, v)
      BY <2>1, Zenon DEF InDegree
    <2>3. QED
      BY <1>1, <2>2 DEF Seeding, Degrees
  <1>4. PICK run : run = PickingOf(graph)
    OBVIOUS
  <1>5. IsPicking(N, RootSet(graph), run) /\ RootSet(graph) \subseteq Nodes
    BY <1>1, <1>4, RunsExist
  <1>6. PICK ids : ids = run[i]
    OBVIOUS
  <1>7. Len(ids) = tail /\ \A a \in 1 .. tail : ids[a] = queue[a - 1]
    BY <1>1, <1>4, <1>6 DEF Picking
  <1>8. CASE i = N
    <2>1. pc' = "pop" /\ UNCHANGED <<indegree, queue, tail, k>> /\ k = 0 /\ N' = N /\ Nodes' = Nodes
      BY <1>1, <1>8 DEF Seed, Seeding, N, Nodes
    <2>2. ids = Roots(graph)
      BY <1>2, <1>5, <1>6, <1>8 DEF IsPicking, Roots, RootSet
    <2>3. RunOf(graph)[0] = StartOf(graph)
      BY <1>1, RunsExist DEF IsSort
    <2>4. PICK st : st = StartOf(graph)
      OBVIOUS
    <2>5. /\ st.order = <<>> /\ st.queue = ids
          /\ \A v \in Nodes : st.indegree[v] = InDegree(graph, v)
      BY <1>2, <2>2, <2>4 DEF StartOf
    <2>6. Line(st) = ids
      <3>1. ids \in Seq(Nodes)
        BY <1>2, <2>2, RootsAre
      <3>2. <<>> \o ids = ids
        BY <3>1
      <3>3. QED
        BY <2>5, <3>2 DEF Line
    <2>7. Len(st.order) = 0
      BY <2>5
    <2>8. Same(st)
      BY <1>3, <1>7, <2>1, <2>5, <2>6, <2>7 DEF Same
    <2>9. Same(st)'
      BY <2>1, <2>8 DEF Same
    <2>10. QED
      BY <1>1, <2>1, <2>3, <2>4, <2>9 DEF Follows
  <1>9. CASE i # N
    <2>1. /\ pc' = "seed" /\ i' = i + 1 /\ i \in 0 .. N - 1 /\ i \in Nodes
      BY <1>1, <1>2, <1>9 DEF Seed, Seeding, Nodes
    <2>2. run[i + 1] = IF i \in RootSet(graph) THEN Append(ids, i) ELSE ids
      BY <1>5, <1>6, <2>1 DEF IsPicking
    <2>3. i \in RootSet(graph) <=> indegree[i] = 0
      BY <1>2, <1>3, <2>1 DEF RootSet
    <2>4. CASE indegree[i] # 0
      <3>1. UNCHANGED <<queue, tail>>
        BY <1>9, <2>4, <1>1 DEF Seed
      <3>2. Picking'
        BY <1>1, <1>4, <1>7, <2>1, <2>2, <2>3, <2>4, <3>1 DEF Picking
      <3>3. QED
        BY <2>1, <3>2 DEF Follows
    <2>5. CASE indegree[i] = 0
      <3>1. queue' = [queue EXCEPT ![tail] = i] /\ tail' = tail + 1
        BY <1>9, <2>5 DEF Seed
      <3>2. i \notin Queued /\ tail \in Nat /\ Once
        BY <1>1, <1>2, <2>1 DEF Seeding, TypeOK
      <3>3. tail < N
        BY <1>2, <2>1, <3>2, QueueRoom
      <3>4. /\ \A q \in 0 .. tail - 1 : queue'[q] = queue[q]
            /\ queue'[tail] = i
        BY <1>1, <1>2, <3>1, <3>2, <3>3 DEF TypeOK, Nodes
      <3>5. ids \in Seq(Nodes)
        <4>1. \A j \in 0 .. N : run[j] \in Seq(0 .. N - 1)
          BY <1>2, <1>5, PickingTyped DEF Nodes
        <4>2. QED
          BY <1>1, <1>6, <4>1 DEF Seeding, Nodes
      <3>6. PICK ids2 : ids2 = Append(ids, i)
        OBVIOUS
      <3>7. /\ Len(ids2) = tail + 1 /\ ids2[tail + 1] = i
            /\ \A a \in 1 .. tail : ids2[a] = ids[a]
        BY <1>7, <2>1, <3>5, <3>6
      <3>8. ASSUME NEW a \in 1 .. tail' PROVE ids2[a] = queue'[a - 1]
        <4>1. CASE a = tail + 1
          BY <3>2, <3>4, <3>7, <4>1
        <4>2. CASE a # tail + 1
          <5>1. a \in 1 .. tail /\ a - 1 \in 0 .. tail - 1
            BY <3>1, <3>2, <4>2
          <5>2. QED
            BY <1>7, <3>4, <3>7, <5>1
        <4>3. QED
          BY <4>1, <4>2
      <3>9. PickingOf(graph)'[i'] = ids2
        BY <1>1, <1>4, <2>1, <2>2, <2>3, <2>5, <3>6
      <3>10. Picking'
        BY <3>1, <3>7, <3>8, <3>9 DEF Picking
      <3>11. QED
        BY <2>1, <3>10 DEF Follows
    <2>6. QED
      BY <2>4, <2>5
  <1>10. QED
    BY <1>8, <1>9


\* The head of the slice is the head of the vector; emitting it moves it to the
\* order, and leaves the line as it is.
LEMMA PopFollows ==
    ASSUME KInv, Follows, Pop
    PROVE  Follows'
  <1>1. /\ graph \in Graphs /\ TypeOK /\ pc = "pop" /\ Emitting /\ graph' = graph
        /\ N' = N /\ M' = M /\ Nodes' = Nodes
        /\ UNCHANGED <<indegree, queue, tail>>
    BY DEF KInv, Pop, N, M, Nodes
  <1>2. /\ N \in Nat /\ M \in Nat /\ M = Len(graph.refs) /\ N = graph.n
        /\ IsGraph(graph) /\ graph.refs \in Refs(N)
        /\ \A r \in 1 .. M : graph.refs[r].to \in Nodes /\ graph.refs[r].from \in Nat
    BY <1>1, GraphFacts, RunsExist DEF N
  <1>3. k \in Nat /\ tail \in Nat /\ k <= tail /\ tail <= N /\ head = k
    BY <1>1, EmittedFacts DEF Emitting
  <1>4. PICK st : st = RunOf(graph)[k]
    OBVIOUS
  <1>5. Same(st) /\ Sorting(graph, st, 0, M) /\ st \in SortState(graph)
    <2>1. Same(st)
      BY <1>1, <1>4 DEF Follows
    <2>2. Sorting(graph, st, 0, M)
      BY <1>1, <1>2, <1>3, <1>4, RunsExist DEF IsSort
    <2>3. QED
      BY <2>1, <2>2 DEF Sorting
  <1>6. st.queue # <<>> <=> k # tail
    BY <1>1, <1>3, <1>5, SameParts
  <1>7. CASE head = tail
    <2>1. pc' \in {"ordered", "cycle"} /\ UNCHANGED <<head, k>> /\ (pc' = "ordered" <=> k = N)
      BY <1>7 DEF Pop
    <2>2. Same(st)'
      BY <1>1, <1>5, <2>1 DEF Same
    <2>3. QED
      BY <1>1, <1>4, <1>7, <2>1, <2>2 DEF Follows
  <1>8. CASE head # tail
    <2>1. PICK p : p = queue[head]
      OBVIOUS
    <2>2. /\ order' = [order EXCEPT ![k] = p] /\ i' = adjOff[p]
          /\ k' = k + 1 /\ k' - 1 = k /\ pc' = "relax"
      BY <1>3, <1>8, <2>1 DEF Pop
    <2>3. k \in 0 .. N - 1 /\ k \in 0 .. tail - 1
      BY <1>2, <1>3, <1>8
    <2>4. order'[k] = p
      BY <1>1, <2>2, <2>3 DEF TypeOK, Nodes
    <2>5. st.queue # <<>> /\ Head(st.queue) = p
      BY <1>1, <1>3, <1>5, <1>6, <1>8, <2>1, SameParts
    <2>6. PICK run : run = TurnOf(graph, st)
      OBVIOUS
    <2>7. IsTurn(graph, st, run)
      BY <1>1, <1>5, <2>5, <2>6, RunsExist
    <2>8. run[0] = Popped(st)
      BY <2>7 DEF IsTurn
    <2>9. /\ Len(Popped(st).order) = k + 1
          /\ Popped(st).indegree = st.indegree
          /\ Line(Popped(st)) = Line(st)
      <3>1. Len(Popped(st).order) = Len(st.order) + 1
        BY <1>2, <1>5, <2>5, PopKeeps DEF Popped
      <3>2. PICK ord, q, deg, ord2, q2 :
               /\ ord = st.order /\ q = st.queue /\ deg = st.indegree
               /\ st = [indegree |-> deg, queue |-> q, order |-> ord]
               /\ ord2 = Append(ord, Head(q)) /\ q2 = Tail(q)
        BY <1>5 DEF SortState
      <3>3. Popped(st) = [[st EXCEPT !.queue = q2] EXCEPT !.order = ord2]
        <4>1. Popped(st) = [st EXCEPT !.queue = q2, !.order = ord2]
          BY <3>2, Zenon DEF Popped
        <4>2. QED
          BY <4>1
      <3>4. [st EXCEPT !.queue = q2] = [indegree |-> deg, queue |-> q2, order |-> ord]
        <4>1. st = [indegree |-> deg, queue |-> q, order |-> ord]
          BY <3>2
        <4>2. QED
          BY <4>1
      <3>5. Popped(st) = [indegree |-> deg, queue |-> q2, order |-> ord2]
        BY <3>3, <3>4
      <3>6. ord2 \o q2 = ord \o q
        <4>1. PICK I : I = Nodes
          OBVIOUS
        <4>2. ord \in Seq(I) /\ q \in Seq(I) /\ q # <<>>
          BY <1>1, <1>3, <1>5, <2>5, <3>2, <4>1, SameParts
        <4>3. Append(ord, Head(q)) \o Tail(q) = ord \o q
          BY <4>2, Joined
        <4>4. QED
          BY <3>2, <4>3
      <3>7. Line(Popped(st)) = Line(st)
        <4>1. Line(Popped(st)) = ord2 \o q2
          BY <3>5 DEF Line
        <4>2. Line(st) = ord \o q
          BY <3>2 DEF Line
        <4>3. QED
          BY <3>6, <4>1, <4>2
      <3>8. Len(st.order) = k
        BY <1>5 DEF Same
      <3>9. QED
        BY <3>1, <3>2, <3>5, <3>7, <3>8
    <2>10. Same(Popped(st))'
      BY <1>1, <1>5, <2>2, <2>9 DEF Same
    <2>11. \A r \in 1 .. M : graph.refs[r].from = p => ~(Slot(graph.refs, r) < i')
      <3> SUFFICES ASSUME NEW r \in 1 .. M, graph.refs[r].from = p
                   PROVE  ~(Slot(graph.refs, r) < i')
        OBVIOUS
      <3>1. /\ Slot(graph.refs, r) \in Int
            /\ Cardinality(Below(graph.refs, p)) <= Slot(graph.refs, r)
        BY <1>2, SlotRange
      <3>2. p \in Nat /\ p < N
        BY <1>1, <1>2 DEF Emitting, Known, KnownIds
      <3>3. i' = Cardinality(Below(graph.refs, p))
        BY <1>1, <1>2, <2>2, <3>2 DEF Emitting, Offsets
      <3>4. Cardinality(Below(graph.refs, p)) \in Nat
        BY <1>2, <3>2, BelowType
      <3>5. QED
        BY <3>1, <3>3, <3>4
    <2>12. InTurn'
      <3>1. 0 \in 0 .. M /\ \A r \in 1 .. M : ~(r <= 0)
        BY <1>2
      <3>2. Same(TurnOf(graph, st)[0])'
        BY <1>1, <2>6, <2>8, <2>10
      <3>3. RunOf(graph)'[k' - 1] = st
        BY <1>1, <1>4, <2>2
      <3>4. QED
        BY <1>1, <2>2, <2>4, <2>5, <2>11, <3>1, <3>2, <3>3 DEF InTurn
    <2>13. QED
      BY <2>2, <2>12 DEF Follows
  <1>9. QED
    BY <1>7, <1>8


\* Releasing a reference of c does to the vectors what visiting a slot of c does
\* to the slices.
LEMMA ReleaseFollows ==
    ASSUME graph \in Graphs, TypeOK, Once, NEW st \in SortState(graph), Same(st),
           k \in Nat, tail \in Nat, tail <= N, NEW c \in Nodes, Emitting,
           indegree' = [indegree EXCEPT ![c] = indegree[c] - 1],
           IF indegree[c] = 1
           THEN queue' = [queue EXCEPT ![tail] = c] /\ tail' = tail + 1
           ELSE UNCHANGED <<queue, tail>>,
           graph' = graph, k' = k
    PROVE  Same(Release(st, c))'
  <1>1. PICK ord, q, deg, l, I :
           /\ ord = st.order /\ q = st.queue /\ deg = st.indegree /\ l = Line(st) /\ I = Nodes
           /\ st = [indegree |-> deg, queue |-> q, order |-> ord]
    BY DEF SortState
  <1>2. /\ ord \in Seq(I) /\ q \in Seq(I) /\ deg \in [I -> Int] /\ l \in Seq(I)
        /\ l = ord \o q /\ c \in I
        /\ Len(ord) = k /\ Len(l) = tail
        /\ \A a \in 1 .. tail : l[a] = queue[a - 1]
        /\ \A v \in I : deg[v] = indegree[v]
    BY <1>1, RunsExist, LineIs DEF Same, Line
  <1>3. PICK deg2, q2, s2 : /\ deg2 = [deg EXCEPT ![c] = deg[c] - 1]
                            /\ q2 = IF deg[c] - 1 = 0 THEN Append(q, c) ELSE q
                            /\ s2 = Release(st, c)
    OBVIOUS
  <1>4. s2 = [indegree |-> deg2, queue |-> q2, order |-> ord]
    <2>1. Release([indegree |-> deg, queue |-> q, order |-> ord], c)
            = [indegree |-> [deg EXCEPT ![c] = deg[c] - 1],
               queue    |-> IF deg[c] - 1 = 0 THEN Append(q, c) ELSE q,
               order    |-> ord]
      BY ReleaseIs
    <2>2. QED
      BY <1>1, <1>3, <2>1
  <1>5. s2.order = ord /\ s2.indegree = deg2 /\ Line(s2) = ord \o q2
    BY <1>4 DEF Line
  <1>6. \A v \in I : deg2[v] = indegree'[v]
    <2>1. DOMAIN indegree = Nodes
      BY DEF TypeOK
    <2>2. \A v \in I : deg2[v] = IF v = c THEN deg[c] - 1 ELSE deg[v]
      BY <1>2, <1>3
    <2>3. \A v \in I : indegree'[v] = IF v = c THEN indegree[c] - 1 ELSE indegree[v]
      BY <1>1, <2>1
    <2>4. QED
      BY <1>2, <2>2, <2>3
  <1>7. deg[c] = indegree[c] /\ deg[c] \in Int
    BY <1>2
  <1>8. Nodes' = Nodes
    BY DEF Nodes, N
  <1>9. CASE indegree[c] # 1
    <2>1. Line(s2) = l /\ UNCHANGED <<queue, tail>>
      BY <1>2, <1>3, <1>5, <1>7, <1>9
    <2>2. Same(s2)'
      BY <1>1, <1>2, <1>5, <1>6, <1>8, <2>1 DEF Same
    <2>3. QED
      BY <1>3, <2>2
  <1>10. CASE indegree[c] = 1
    <2>1. queue' = [queue EXCEPT ![tail] = c] /\ tail' = tail + 1
      BY <1>10
    <2>2. PICK l2 : l2 = Append(l, c)
      OBVIOUS
    <2>3. Line(s2) = l2
      <3>1. q2 = Append(q, c)
        BY <1>3, <1>7, <1>10
      <3>2. ord \o Append(q, c) = Append(ord \o q, c)
        BY <1>2, Joined
      <3>3. QED
        BY <1>2, <1>5, <2>2, <3>1, <3>2
    <2>4. tail < N /\ N \in Nat
      <3>1. c \notin Queued
        BY <1>10 DEF Emitting
      <3>2. N \in Nat
        BY GraphFacts
      <3>3. QED
        BY <3>1, <3>2, QueueRoom
    <2>5. /\ Len(l2) = tail + 1 /\ l2[tail + 1] = c
          /\ \A a \in 1 .. tail : l2[a] = l[a]
      BY <1>2, <2>2
    <2>6. /\ \A x \in 0 .. tail - 1 : queue'[x] = queue[x]
          /\ queue'[tail] = c
      BY <2>1, <2>4 DEF TypeOK, Nodes
    <2>7. ASSUME NEW a \in 1 .. tail' PROVE l2[a] = queue'[a - 1]
      <3>1. CASE a = tail + 1
        BY <2>5, <2>6, <3>1
      <3>2. CASE a # tail + 1
        <4>1. a \in 1 .. tail /\ a - 1 \in 0 .. tail - 1
          BY <2>1, <3>2
        <4>2. QED
          BY <1>2, <2>5, <2>6, <4>1
      <3>3. QED
        BY <3>1, <3>2
    <2>8. Same(s2)'
      BY <1>1, <1>2, <1>5, <1>6, <1>8, <2>1, <2>3, <2>5, <2>7 DEF Same
    <2>9. QED
      BY <1>3, <2>8
  <1>11. QED
    BY <1>9, <1>10

\* Releasing one reference is visiting one slot.
LEMMA RelaxFollows ==
    ASSUME KInv, Follows, Relax
    PROVE  Follows'
  <1> DEFINE p == order[k - 1]
  <1>1. /\ graph \in Graphs /\ TypeOK /\ pc = "relax" /\ Emitting /\ InTurn
        /\ graph' = graph /\ N' = N /\ M' = M /\ Nodes' = Nodes
        /\ UNCHANGED <<order, k, adj>>
    BY DEF KInv, Relax, Follows, N, M, Nodes
  <1>2. /\ N \in Nat /\ M \in Nat /\ M = Len(graph.refs) /\ N = graph.n
        /\ IsGraph(graph) /\ Ids(graph) = Nodes /\ graph.refs \in Refs(N)
        /\ \A r \in 1 .. M : graph.refs[r].to \in Nodes /\ graph.refs[r].from \in Nat
    BY <1>1, GraphFacts, RunsExist DEF N
  <1>3. k \in Nat /\ k >= 1 /\ tail \in Nat /\ k <= tail /\ tail <= N /\ Known /\ Once
    BY <1>1, EmittedFacts DEF Emitting
  <1>4. PICK st : st = RunOf(graph)[k - 1]
    OBVIOUS
  <1>5. st.queue # <<>> /\ Head(st.queue) = p
    BY <1>1, <1>4 DEF InTurn
  <1>6. PICK j \in 0 .. M : /\ Same(TurnOf(graph, st)[j])
                            /\ \A r \in 1 .. M : graph.refs[r].from = p =>
                                  (r <= j <=> Slot(graph.refs, r) < i)
    BY <1>1, <1>4 DEF InTurn
  <1>7. PICK run : run = TurnOf(graph, st)
    OBVIOUS
  <1>8. IsTurn(graph, st, run)
    <2>1. k - 1 \in 0 .. N
      BY <1>2, <1>3
    <2>2. Sorting(graph, st, 0, M)
      BY <1>1, <1>2, <1>4, <2>1, RunsExist DEF IsSort
    <2>3. QED
      BY <1>1, <1>5, <1>7, <2>2, RunsExist
  <1>9. ASSUME NEW b \in 0 .. M, j <= b, \A r \in j + 1 .. b : graph.refs[r].from # p
        PROVE  run[b] = run[j]
    BY <1>2, <1>5, <1>8, <1>9, TurnIdles
  <1>10. /\ p \in Nodes /\ p \in 0 .. N - 1 /\ i \in Nat
         /\ Cardinality(Below(graph.refs, p)) <= i
         /\ i <= Cardinality(Below(graph.refs, p + 1))
         /\ adjOff[p + 1] = Cardinality(Below(graph.refs, p + 1))
         /\ adjOff[p + 1] \in Nat
    <2>1. p \in Nodes
      BY <1>1, <1>3, EmittedFacts
    <2>2. /\ Cardinality(Below(graph.refs, p)) \in Nat
          /\ Cardinality(Below(graph.refs, p + 1)) \in Nat
      <3> HIDE DEF p
      <3>1. p \in Int /\ p + 1 \in Int
        BY <2>1 DEF Nodes
      <3>2. QED
        BY <1>2, <3>1, BelowType
    <2>3. i \in Cardinality(Below(graph.refs, p)) .. Cardinality(Below(graph.refs, p + 1))
      BY <1>1 DEF Emitting
    <2>4. adjOff[p + 1] = Cardinality(Below(graph.refs, p + 1))
      BY <1>1, <1>2, <2>1 DEF Emitting, Offsets, Nodes
    <2> HIDE DEF p
    <2>5. QED
      BY <2>1, <2>2, <2>3, <2>4 DEF Nodes
  <1> HIDE DEF p
  <1>11. \A r \in 1 .. M : Slot(graph.refs, r) \in Int
    BY <1>2, SlotRange
  <1>12. CASE i = adjOff[p + 1]
    <2>1. pc' = "pop" /\ UNCHANGED <<i, indegree, queue, tail>>
      BY <1>12 DEF Relax, p
    <2>2. ASSUME NEW r \in 1 .. M, graph.refs[r].from = p PROVE Slot(graph.refs, r) < i
      BY <1>2, <1>10, <1>12, <2>2, SlotRange
    <2>3. run[M] = run[j]
      <3>1. \A r \in j + 1 .. M : r \in 1 .. M /\ ~(r <= j)
        BY <1>2
      <3>2. \A r \in j + 1 .. M : graph.refs[r].from # p
        BY <1>6, <2>2, <3>1
      <3>3. QED
        <4>1. M \in 0 .. M /\ j <= M
          BY <1>2
        <4>2. QED
          BY <1>9, <3>2, <4>1
    <2>4. RunOf(graph)[k] = run[M]
      <3>1. k - 1 \in 0 .. N - 1 /\ (k - 1) + 1 = k
        BY <1>2, <1>3
      <3>2. RunOf(graph)[k] = Turn(graph, st)
        BY <1>1, <1>2, <1>4, <1>5, <3>1, RunsExist DEF IsSort
      <3>3. QED
        BY <1>2, <1>8, <3>2 DEF IsTurn
    <2>5. Same(RunOf(graph)[k])
      BY <1>6, <1>7, <2>3, <2>4
    <2>6. Same(RunOf(graph)[k])'
      BY <1>1, <2>1, <2>5 DEF Same
    <2>7. QED
      BY <1>1, <2>1, <2>6 DEF Follows
  <1>13. CASE i # adjOff[p + 1]
    <2>1. PICK c : c = adj[i]
      OBVIOUS
    <2>2. /\ indegree' = [indegree EXCEPT ![c] = indegree[c] - 1]
          /\ IF indegree[c] = 1
             THEN queue' = [queue EXCEPT ![tail] = c] /\ tail' = tail + 1
             ELSE UNCHANGED <<queue, tail>>
          /\ i' = i + 1 /\ pc' = "relax"
      BY <1>1, <1>13, <2>1 DEF Relax, p
    <2>3. PICK r \in 1 .. M : graph.refs[r].from = p /\ Slot(graph.refs, r) = i
      <3>1. i \in Cardinality(Below(graph.refs, p)) .. Cardinality(Below(graph.refs, p + 1)) - 1
        BY <1>10, <1>13
      <3>2. \A q \in 0 .. N - 1 :
               \A x \in Cardinality(Below(graph.refs, q)) .. Cardinality(Below(graph.refs, q + 1)) - 1 :
                  \E s \in 1 .. Len(graph.refs) :
                     graph.refs[s].from = q /\ Slot(graph.refs, s) = x
        BY <1>2, <1>3, SlotOnto DEF Known
      <3>3. QED
        BY <1>2, <1>10, <3>1, <3>2
    <2>4. c = graph.refs[r].to /\ c \in Nodes
      BY <1>1, <1>2, <2>1, <2>3 DEF Emitting, Filled
    <2>5. \* The slots of one producer are in the order of its references.
          \A q \in 1 .. M : graph.refs[q].from = p => (q <= r <=> Slot(graph.refs, q) <= i)
      <3> SUFFICES ASSUME NEW q \in 1 .. M, graph.refs[q].from = p
                   PROVE  q <= r <=> Slot(graph.refs, q) <= i
        OBVIOUS
      <3>1. \A a, b \in 1 .. M : a <= b /\ graph.refs[a].from = p /\ graph.refs[b].from = p
                                    => Slot(graph.refs, a) <= Slot(graph.refs, b)
        <4> SUFFICES ASSUME NEW a \in 1 .. M, NEW b \in 1 .. M, a <= b,
                            graph.refs[a].from = p, graph.refs[b].from = p
                     PROVE  Slot(graph.refs, a) <= Slot(graph.refs, b)
          OBVIOUS
        <4>1. a \in 1 .. Len(graph.refs) + 1 /\ b \in 1 .. Len(graph.refs) + 1
          BY <1>2
        <4>2. /\ Cardinality(FromBefore(graph.refs, p, a)) <= Cardinality(FromBefore(graph.refs, p, b))
              /\ Cardinality(FromBefore(graph.refs, p, a)) \in Nat
              /\ Cardinality(FromBefore(graph.refs, p, b)) \in Nat
          BY <1>2, <4>1, BeforeMonotone, BeforeType
        <4>3. Cardinality(Below(graph.refs, p)) \in Nat
          BY <1>2, <1>10, BelowType
        <4>4. QED
          BY <4>2, <4>3 DEF Slot
      <3>2. Slot(graph.refs, q) = Slot(graph.refs, r) => q = r
        BY <1>2, SlotInjective
      <3>3. Slot(graph.refs, q) \in Int /\ Slot(graph.refs, r) \in Int
        BY <1>11
      <3>4. q \in Int /\ r \in Int
        OBVIOUS
      <3>5. r <= q => i <= Slot(graph.refs, q)
        BY <2>3, <3>1
      <3>6. q <= r => Slot(graph.refs, q) <= i
        BY <2>3, <3>1
      <3>7. QED
        BY <2>3, <3>2, <3>3, <3>4, <3>5, <3>6
    <2>6. j <= r - 1 /\ r - 1 \in 0 .. M - 1 /\ (r - 1) + 1 = r
      <3>1. ~(r <= j)
        BY <1>6, <1>10, <2>3
      <3>2. QED
        BY <1>2, <3>1
    <2>7. run[r - 1] = run[j]
      <3>1. ASSUME NEW q \in j + 1 .. r - 1, graph.refs[q].from = p PROVE FALSE
        <4>1. q \in 1 .. M /\ ~(q <= j) /\ q <= r /\ q # r
          BY <1>2, <2>6
        <4>2. ~(Slot(graph.refs, q) < i) /\ Slot(graph.refs, q) <= i
          BY <1>6, <2>5, <3>1, <4>1
        <4>3. Slot(graph.refs, q) = Slot(graph.refs, r)
          BY <1>10, <1>11, <2>3, <4>1, <4>2
        <4>4. q = r
          BY <1>2, <4>1, <4>3, SlotInjective
        <4>5. QED
          BY <4>1, <4>4
      <3>2. r - 1 \in 0 .. M
        BY <1>2
      <3>3. QED
        BY <1>9, <2>6, <3>1, <3>2
    <2>8. PICK s, s2 : s = run[j] /\ s2 = run[r]
      OBVIOUS
    <2>9. s2 = Release(s, c)
      BY <1>2, <1>5, <1>8, <2>3, <2>4, <2>6, <2>7, <2>8 DEF IsTurn
    <2>10. Same(s) /\ s \in SortState(graph)
      <3>1. Sorting(graph, s, p, j)
        BY <1>2, <1>5, <1>8, <2>8 DEF IsTurn
      <3>2. QED
        BY <1>6, <1>7, <2>8, <3>1 DEF Sorting
    <2>11. Same(s2)'
      BY <1>1, <1>2, <1>3, <2>2, <2>4, <2>9, <2>10, ReleaseFollows
    <2>12. InTurn'
      <3>1. r \in 0 .. M
        OBVIOUS
      <3>2. \A q \in 1 .. M : graph.refs[q].from = p => (q <= r <=> Slot(graph.refs, q) < i')
        BY <1>10, <1>11, <2>2, <2>5
      <3>3. Same(TurnOf(graph, st)[r])'
        BY <1>1, <1>7, <2>8, <2>11
      <3>4. QED
        BY <1>1, <1>4, <1>5, <2>2, <3>1, <3>2, <3>3 DEF InTurn, p
    <2>13. QED
      BY <2>2, <2>12 DEF Follows
  <1>14. QED
    BY <1>12, <1>13


\* The slices follow the vectors.
LEMMA FollowsInvariant == Spec => []Follows
  <1>1. Init => Follows
    BY DEF Init, Follows, Ended
  <1>2. KInv /\ Follows /\ [Next]_vars => Follows'
    <2> SUFFICES ASSUME KInv, Follows, [Next]_vars PROVE Follows'
      OBVIOUS
    <2>1. CASE Return \/ UNCHANGED vars
      <3>1. UNCHANGED vars
        BY <2>1 DEF Return
      <3>2. QED
        BY <3>1 DEF vars, slices, Follows, InTurn, Picking, Same, N, M, Nodes
    <2>2. QED
      BY <2>1, FillFollows, SeedFollows, PopFollows, RelaxFollows DEF Next
  <1>3. QED
    BY <1>1, <1>2, KahnInvariant, PTL DEF Spec

\* The interpreter's sort and the compiler's give the same answer, and the same
\* order, on every graph.
THEOREM KahnSameOrder == Spec => []SameOrderAsGraphSort
  <1>1. ASSUME KInv, Follows, pc \in Ended
        PROVE  LET sort == TopologicalSort(graph)
               IN  pc = sort.verdict /\ Sorted = sort.order
    <2>1. graph \in Graphs /\ TypeOK
      BY <1>1 DEF KInv
    <2>2. /\ N \in Nat /\ N = graph.n /\ M = Len(graph.refs) /\ M \in Nat
          /\ graph.refs \in Refs(N) /\ IsGraph(graph) /\ IsSort(graph, RunOf(graph))
          /\ DOMAIN graph.refs = 1 .. M
      BY <2>1, GraphFacts, RunsExist, GraphRefs DEF N
    <2>3. PICK ord : ord = RunOf(graph)[N].order
      OBVIOUS
    <2>4. TopologicalSort(graph) = Reached(graph, ord)
      BY <2>2, <2>3 DEF IsSort
    <2>5. CASE pc = "unknown"
      <3>1. NamesUnknown(graph) /\ k = 0
        BY <1>1, <2>5 DEF Follows, KInv, Untouched
      <3>2. Sorted = <<>>
        BY <3>1 DEF Sorted
      <3>3. QED
        BY <2>4, <2>5, <3>1, <3>2 DEF Reached
    <2>6. CASE pc \in {"ordered", "cycle"}
      <3>1. /\ Emitting /\ Same(RunOf(graph)[k]) /\ head = tail
            /\ pc = "ordered" <=> k = N
        BY <1>1, <2>6 DEF KInv, Follows
      <3>2. k \in Nat /\ tail \in Nat /\ tail <= N /\ k = tail
        BY <2>1, <3>1, EmittedFacts DEF Emitting
      <3>3. PICK st : st = RunOf(graph)[k]
        OBVIOUS
      <3>4. k \in 0 .. N
        BY <2>2, <3>2
      <3>5. st \in SortState(graph)
        BY <2>2, <3>3, <3>4 DEF IsSort, Sorting
      <3>6. /\ st.queue = <<>> /\ st.order \in Seq(Nodes) /\ Len(st.order) = k
            /\ \A a \in 1 .. k : st.order[a] = queue[a - 1]
        BY <2>1, <3>1, <3>2, <3>3, <3>5, SameParts DEF Same
      <3>7. ord = st.order
        BY <2>2, <2>3, <3>3, <3>4, <3>6, SortIdles
      <3>8. Sorted = ord
        <4>1. \A a \in 1 .. k : a - 1 \in 0 .. k - 1 /\ order[a - 1] = queue[a - 1]
          BY <3>1, <3>2 DEF Emitting
        <4>2. \A a \in 1 .. k : ord[a] = order[a - 1]
          BY <3>6, <3>7, <4>1
        <4>3. ord = [a \in 1 .. k |-> ord[a]]
          BY <3>6, <3>7
        <4>4. QED
          BY <4>2, <4>3 DEF Sorted
      <3>9. ~NamesUnknown(graph)
        <4>1. \A r \in 1 .. M : graph.refs[r].from \in Nat
          BY <2>1, GraphFacts
        <4>2. QED
          BY <2>2, <3>1, <4>1 DEF NamesUnknown, Emitting, Known, KnownIds
      <3>10. QED
        BY <2>2, <2>4, <2>6, <3>1, <3>6, <3>7, <3>8, <3>9 DEF Reached
    <2>7. QED
      BY <1>1, <2>5, <2>6 DEF Ended
  <1>2. KInv /\ Follows => SameOrderAsGraphSort
    BY <1>1 DEF SameOrderAsGraphSort
  <1>3. QED
    BY <1>2, KahnInvariant, FollowsInvariant, PTL
===========================================================================
