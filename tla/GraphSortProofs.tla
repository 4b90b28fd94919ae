-------------------------- MODULE GraphSortProofs --------------------------
(***************************************************************************)
(* TopologicalSort is correct on every graph, SortIsTopological.           *)
(*                                                                         *)
(* The argument is Kahn's.  Sorting is the invariant of both loops: the    *)
(* count of a node is the number of its references whose producer has not  *)
(* been emitted, plus those the inner loop has still to release, and the   *)
(* nodes queued so far, emitted or not, are those whose count is 0.  The   *)
(* inner loop and the outer one are folds; each is followed up the         *)
(* prefixes of its sequence (FoldExists and UpTo).                          *)
(***************************************************************************)
EXTENDS GraphSort, TLAPS, FiniteSetTheorems, FunctionTheorems, WellFoundedInduction

-----------------------------------------------------------------------------
(* Facts about numbers, finite sets and folds that the proofs share.       *)
(*                                                                         *)
(* FoldLeft is a recursive function on the sets of positions, a CHOOSE     *)
(* until a solution of its recursion is known to exist.  FoldExists builds *)
(* one, for a step that stays in a set V; a proof about a fold then goes   *)
(* up the prefixes 1 .. k of its sequence with UpTo, PrefixOf and LastOf.  *)

\* Every nonempty set of natural numbers has a least element.
LEMMA Least ==
    ASSUME NEW S \in SUBSET Nat, S # {}
    PROVE  \E k \in S : \A j \in S : k <= j
  <1> DEFINE R == {ss \in Nat \X Nat : ss[1] < ss[2]}
  <1>1. IsWellFoundedOn(R, Nat)
    BY NatLessThanWellFounded, Zenon DEF OpToRel
  <1>2. \A j, k \in Nat : <<j, k>> \in R <=> j < k
    OBVIOUS
  <1> HIDE DEF R
  <1>3. PICK k \in S : \A j \in S : ~ <<j, k>> \in R
    BY <1>1, WFMin
  <1>4. ASSUME NEW j \in S PROVE k <= j
    <2>1. j \in Nat /\ k \in Nat /\ ~ <<j, k>> \in R
      BY <1>3
    <2>2. ~(j < k)
      BY <1>2, <2>1
    <2>3. QED
      BY <2>1, <2>2
  <1>5. QED
    BY <1>4

\* Max is the largest element of a nonempty set of numbers that has a bound.
LEMMA MaxIs ==
    ASSUME NEW n \in Nat, NEW s \in SUBSET (1 .. n), s # {}
    PROVE  Max(s) \in s /\ \A y \in s : y <= Max(s)
  <1> DEFINE P == {k \in Nat : \A y \in s : y <= k}
  <1>1. n \in P /\ P \in SUBSET Nat
    OBVIOUS
  <1>2. PICK k \in P : \A j \in P : k <= j
    BY <1>1, Least
  <1>3. k \in s
    <2> SUFFICES ASSUME k \notin s PROVE FALSE
      OBVIOUS
    <2>1. PICK y \in s : TRUE
      OBVIOUS
    <2>2. \A z \in s : z <= k - 1
      OBVIOUS
    <2>3. k - 1 \in Nat
      BY <2>1, <2>2
    <2>4. k - 1 \in P
      BY <2>2, <2>3
    <2>5. QED
      BY <1>2, <2>4
  <1>4. \E x \in s : \A y \in s : x >= y
    BY <1>3
  <1>5. QED
    BY <1>4 DEF Max

\* Min is the least element of a nonempty set of numbers.
LEMMA MinIs ==
    ASSUME NEW s \in SUBSET Nat, s # {}
    PROVE  Min(s) \in s /\ \A y \in s : Min(s) <= y
  <1>1. \E x \in s : \A y \in s : x =< y
    BY Least
  <1>2. QED
    BY <1>1 DEF Min

\* What is so at 0 and passes from k to k + 1 is so up to n; the property is
\* the set of the numbers that have it.
LEMMA UpTo ==
    ASSUME NEW n \in Nat, NEW P, 0 \in P, \A k \in 0 .. n - 1 : k \in P => k + 1 \in P
    PROVE  \A k \in 0 .. n : k \in P
  <1> DEFINE Bad == {k \in 0 .. n : k \notin P}
  <1> SUFFICES ASSUME Bad # {} PROVE FALSE
    OBVIOUS
  <1>1. Bad \in SUBSET Nat
    OBVIOUS
  <1>2. PICK k \in Bad : \A j \in Bad : k <= j
    BY <1>1, Least
  <1>3. k - 1 \in 0 .. n - 1 /\ (k - 1) + 1 = k
    OBVIOUS
  <1>4. k - 1 \in P
    BY <1>2, <1>3
  <1>5. QED
    BY <1>3, <1>4

-----------------------------------------------------------------------------
\* it is the fold of G over 1 .. n, defined on every subset, the largest
\* element last: the recursion of FoldLeft, with values in V.
IsFold(n, V, base, G, it) ==
    /\ it \in [SUBSET (1 .. n) -> V]
    /\ \A s \in SUBSET (1 .. n) :
          it[s] = IF s = {} THEN base ELSE G[<<Max(s), it[s \ {Max(s)}]>>]

\* Such a recursion has a solution.
LEMMA FoldExists ==
    ASSUME NEW n \in Nat, NEW V, NEW base \in V, NEW F \in [(1 .. n) \X V -> V]
    PROVE  \E it : IsFold(n, V, base, F, it)
  <1> DEFINE Subs(k) == SUBSET (1 .. k)
             OK(k) == \E iter \in [Subs(k) -> V] : \A s \in Subs(k) :
                         iter[s] = IF s = {} THEN base
                                   ELSE F[<<Max(s), iter[s \ {Max(s)}]>>]
             P == {k \in 0 .. n : OK(k)}
  <1>1. OK(0)
    <2> DEFINE it == [s \in Subs(0) |-> base]
    <2>1. Subs(0) = {{}}
      OBVIOUS
    <2>2. it \in [Subs(0) -> V] /\ it[{}] = base
      BY <2>1
    <2>3. QED
      BY <2>1, <2>2
  <1>2. ASSUME NEW k \in 0 .. n - 1, OK(k) PROVE OK(k + 1)
    <2>1. PICK it \in [Subs(k) -> V] : \A s \in Subs(k) :
                 it[s] = IF s = {} THEN base ELSE F[<<Max(s), it[s \ {Max(s)}]>>]
      BY <1>2
    <2> DEFINE jt == [s \in Subs(k + 1) |->
                        IF s \in Subs(k) THEN it[s] ELSE F[<<Max(s), it[s \ {Max(s)}]>>]]
    <2>2. ASSUME NEW s \in Subs(k + 1), s # {}
          PROVE  /\ Max(s) \in s /\ Max(s) \in 1 .. n
                 /\ s \ {Max(s)} \in Subs(k)
      <3>1. k + 1 \in Nat
        OBVIOUS
      <3>2. Max(s) \in s /\ \A y \in s : y <= Max(s)
        BY <2>2, <3>1, MaxIs
      <3> DEFINE m == Max(s)
      <3> HIDE DEF m
      <3>3. m \in 1 .. k + 1 /\ \A y \in s : y <= m
        BY <3>2 DEF m
      <3>4. s \ {m} \in Subs(k)
        BY <3>3
      <3>5. QED
        BY <3>2, <3>3, <3>4 DEF m
    <2>3. jt \in [Subs(k + 1) -> V]
      <3> SUFFICES ASSUME NEW s \in Subs(k + 1), s \notin Subs(k)
                   PROVE  F[<<Max(s), it[s \ {Max(s)}]>>] \in V
        OBVIOUS
      <3>1. s # {}
        OBVIOUS
      <3>2. QED
        BY <2>2, <3>1
    <2>4. ASSUME NEW s \in Subs(k + 1)
          PROVE  jt[s] = IF s = {} THEN base ELSE F[<<Max(s), jt[s \ {Max(s)}]>>]
      <3>1. CASE s = {}
        BY <2>1, <3>1
      <3>2. CASE s # {}
        <4>1. s \ {Max(s)} \in Subs(k) /\ s \ {Max(s)} \in Subs(k + 1)
          BY <2>2, <3>2
        <4>2. jt[s \ {Max(s)}] = it[s \ {Max(s)}]
          BY <4>1
        <4>3. jt[s] = F[<<Max(s), it[s \ {Max(s)}]>>]
          BY <2>1, <3>2
        <4>4. QED
          BY <3>2, <4>2, <4>3
      <3>3. QED
        BY <3>1, <3>2
    <2> HIDE DEF jt
    <2>5. QED
      BY <2>3, <2>4
  <1> HIDE DEF OK
  <1>3. \A k \in 0 .. n - 1 : k \in P => k + 1 \in P
    BY <1>2
  <1>4. 0 \in P
    BY <1>1
  <1> HIDE DEF P
  <1>5. n \in P
    BY <1>3, <1>4, UpTo
  <1>6. QED
    BY <1>5 DEF OK, P, IsFold

\* The largest element of 1 .. k + 1, and what is left without it.
LEMMA LastOf ==
    ASSUME NEW k \in Nat
    PROVE  /\ Max(1 .. k + 1) = k + 1
           /\ (1 .. k + 1) \ {Max(1 .. k + 1)} = 1 .. k
  <1> DEFINE s == 1 .. k + 1
  <1>1. k + 1 \in Nat /\ s \in SUBSET (1 .. k + 1) /\ k + 1 \in s
    OBVIOUS
  <1>2. Max(s) \in s /\ \A y \in s : y <= Max(s)
    BY <1>1, MaxIs
  <1> DEFINE m == Max(s)
  <1> HIDE DEF m
  <1>3. m \in 1 .. k + 1 /\ k + 1 <= m
    BY <1>1, <1>2 DEF m
  <1>4. m = k + 1
    BY <1>3
  <1>5. QED
    BY <1>4 DEF m

\* The prefixes a fold goes through.
LEMMA PrefixOf ==
    ASSUME NEW n \in Nat, NEW k \in 0 .. n - 1
    PROVE  /\ k \in Nat /\ k + 1 \in 1 .. n
           /\ 1 .. k + 1 \in SUBSET (1 .. n)
           /\ 1 .. k + 1 # {}
  <1>1. k \in Nat /\ k + 1 \in 1 .. n /\ k + 1 \in 1 .. k + 1
    OBVIOUS
  <1>2. QED
    BY <1>1

-----------------------------------------------------------------------------
(* Counting *)

\* The number of integers of an interval.
LEMMA Interval ==
    ASSUME NEW lo \in Int, NEW hi \in Int, lo <= hi + 1
    PROVE  IsFiniteSet(lo .. hi) /\ Cardinality(lo .. hi) = hi - lo + 1
  <1>1. /\ IsFiniteSet(lo .. hi)
        /\ Cardinality(lo .. hi) = IF lo > hi THEN 0 ELSE hi - lo + 1
    BY FS_Interval, ZenonT(20)
  <1>2. QED
    BY <1>1

\* An initial segment of the positions.
LEMMA Segment ==
    ASSUME NEW m \in Nat
    PROVE  IsFiniteSet(1 .. m) /\ Cardinality(1 .. m) = m
  <1>1. 1 \in Int /\ m \in Int /\ 1 <= m + 1
    OBVIOUS
  <1>2. IsFiniteSet(1 .. m) /\ Cardinality(1 .. m) = m - 1 + 1
    BY <1>1, Interval, Zenon
  <1>3. QED
    BY <1>2

\* The cardinality of a disjoint union.
LEMMA DisjointUnion ==
    ASSUME NEW S, NEW T, NEW U, IsFiniteSet(S), IsFiniteSet(T),
           U = S \cup T, \A x \in S : x \notin T
    PROVE  Cardinality(U) = Cardinality(S) + Cardinality(T)
  <1>1. Cardinality(S \cup T) = Cardinality(S) + Cardinality(T) - Cardinality(S \cap T)
    BY FS_Union
  <1>2. S \cap T = {}
    OBVIOUS
  <1>3. Cardinality(S \cap T) = 0
    BY <1>2, FS_EmptySet
  <1>4. Cardinality(U) = Cardinality(S \cup T)
    OBVIOUS
  <1>5. Cardinality(S) \in Nat /\ Cardinality(T) \in Nat
    BY FS_CardinalityType
  <1>6. QED
    BY <1>1, <1>3, <1>4, <1>5

\* A function that is one-to-one and onto keeps the cardinality.
LEMMA OneToOne ==
    ASSUME NEW S, NEW T, IsFiniteSet(S),
           NEW f \in [S -> T],
           \A x, y \in S : f[x] = f[y] => x = y,
           \A y \in T : \E x \in S : f[x] = y
    PROVE  IsFiniteSet(T) /\ Cardinality(T) = Cardinality(S)
  <1>1. f \in Bijection(S, T)
    BY DEF Bijection, Injection, Surjection, IsInjective
  <1>2. ExistsBijection(S, T)
    BY <1>1 DEF ExistsBijection
  <1>3. QED
    BY <1>2, FS_Bijection, ZenonT(20)

-----------------------------------------------------------------------------
(* The sort *)

\* What the model of a graph guarantees the sort.
Edge(g)    == [to : Ids(g), from : Nat]
IsGraph(g) == g.n \in Nat /\ g.refs \in Seq(Edge(g))

\* References to v whose producer is not done, and the references among the
\* last ones, after position j, by which v reads id.
Pend(g, done, v)  == {r \in DOMAIN g.refs : g.refs[r].to = v /\ g.refs[r].from \notin done}
Left(g, id, j, v) == {r \in j + 1 .. Len(g.refs) : g.refs[r].to = v /\ g.refs[r].from = id}

SortState(g) == [indegree : [Ids(g) -> Int], queue : Seq(Ids(g)), order : Seq(Ids(g))]

\* The ids that have been queued, in that order: those emitted and those not.
Line(st) == st.order \o st.queue

Distinct(s) == \A a, b \in 1 .. Len(s) : s[a] = s[b] => a = b

\* Each reference to a queued id names one that was emitted before it.
Fed(g, st) ==
    \A j \in 1 .. Len(Line(st)) : \A r \in DOMAIN g.refs : g.refs[r].to = Line(st)[j] =>
        \E k \in 1 .. Len(st.order) : k < j /\ st.order[k] = g.refs[r].from

\* The loop invariant, while j of the references have been released for the id
\* emitted last.
Sorting(g, st, id, j) ==
    /\ st \in SortState(g)
    /\ Distinct(Line(st))
    /\ Fed(g, st)
    /\ \A v \in Ids(g) : st.indegree[v] = Cardinality(Pend(g, ToSet(st.order), v))
                                            + Cardinality(Left(g, id, j, v))
    /\ \A v \in Ids(g) : st.indegree[v] = 0 <=> v \in ToSet(Line(st))

\* What the assumption says of the references.
LEMMA GraphRefs ==
    ASSUME NEW g, IsGraph(g)
    PROVE  /\ g.n \in Nat /\ Len(g.refs) \in Nat /\ DOMAIN g.refs = 1 .. Len(g.refs)
           /\ \A r \in 1 .. Len(g.refs) :
                 g.refs[r].to \in Ids(g) /\ g.refs[r].from \in Nat
  <1> DEFINE R == Edge(g)
  <1>1. g.refs \in Seq(R) /\ g.n \in Nat
    BY DEF IsGraph
  <1> HIDE DEF R
  <1>2. /\ Len(g.refs) \in Nat /\ DOMAIN g.refs = 1 .. Len(g.refs)
        /\ \A r \in 1 .. Len(g.refs) : g.refs[r] \in R
    BY <1>1
  <1>3. QED
    BY <1>1, <1>2 DEF R, Edge

\* The sets of references that are counted are finite.
LEMMA Counted ==
    ASSUME NEW g, IsGraph(g), NEW done, NEW id, NEW j \in Nat, NEW v
    PROVE  /\ IsFiniteSet(Pend(g, done, v)) /\ Cardinality(Pend(g, done, v)) \in Nat
           /\ Cardinality(Pend(g, done, v)) = 0 <=> Pend(g, done, v) = {}
           /\ IsFiniteSet(Left(g, id, j, v)) /\ Cardinality(Left(g, id, j, v)) \in Nat
           /\ Cardinality(Left(g, id, j, v)) = 0 <=> Left(g, id, j, v) = {}
  <1> DEFINE D == 1 .. Len(g.refs)
  <1>1. Len(g.refs) \in Nat /\ DOMAIN g.refs = D
    BY GraphRefs
  <1>2. IsFiniteSet(D)
    BY <1>1, Segment
  <1>3. Pend(g, done, v) \in SUBSET D /\ Left(g, id, j, v) \in SUBSET D
    BY <1>1 DEF Pend, Left
  <1> HIDE DEF D
  <1>4. IsFiniteSet(Pend(g, done, v)) /\ IsFiniteSet(Left(g, id, j, v))
    BY <1>2, <1>3, FS_Subset
  <1>5. QED
    BY <1>4, FS_CardinalityType, FS_EmptySet

\* Releasing reference j + 1 takes it out of what is left, for the id it feeds.
LEMMA LeftStep ==
    ASSUME NEW g, IsGraph(g), NEW id, NEW j \in 0 .. Len(g.refs) - 1, NEW v
    PROVE  Cardinality(Left(g, id, j, v))
             = Cardinality(Left(g, id, j + 1, v))
                 + (IF g.refs[j + 1].to = v /\ g.refs[j + 1].from = id THEN 1 ELSE 0)
  <1>1. Len(g.refs) \in Nat /\ j \in Nat /\ j + 1 \in Nat
    BY GraphRefs
  <1>2. IsFiniteSet(Left(g, id, j + 1, v)) /\ Cardinality(Left(g, id, j + 1, v)) \in Nat
    BY <1>1, Counted
  <1>3. CASE g.refs[j + 1].to = v /\ g.refs[j + 1].from = id
    <2>1. Left(g, id, j, v) = Left(g, id, j + 1, v) \cup {j + 1}
      BY <1>1, <1>3 DEF Left
    <2>2. j + 1 \notin Left(g, id, j + 1, v)
      BY <1>1 DEF Left
    <2>3. Cardinality(Left(g, id, j + 1, v) \cup {j + 1})
            = Cardinality(Left(g, id, j + 1, v)) + 1
      BY <1>2, <2>2, FS_AddElement
    <2>4. Cardinality(Left(g, id, j, v)) = Cardinality(Left(g, id, j + 1, v)) + 1
      BY <2>1, <2>3, Zenon
    <2>5. QED
      BY <1>3, <2>4
  <1>4. CASE ~(g.refs[j + 1].to = v /\ g.refs[j + 1].from = id)
    <2>1. Left(g, id, j, v) = Left(g, id, j + 1, v)
      BY <1>1, <1>4 DEF Left
    <2>2. Cardinality(Left(g, id, j, v)) = Cardinality(Left(g, id, j + 1, v))
      BY <2>1, Zenon
    <2>3. QED
      BY <1>2, <1>4, <2>2
  <1>5. QED
    BY <1>3, <1>4

\* Emitting id: what was pending is what is pending now, and the references
\* that read id, all of them left to be released.
LEMMA PendSplit ==
    ASSUME NEW g, IsGraph(g), NEW done, NEW id, id \notin done, NEW v
    PROVE  Cardinality(Pend(g, done, v))
             = Cardinality(Pend(g, done \cup {id}, v)) + Cardinality(Left(g, id, 0, v))
  <1>1. Len(g.refs) \in Nat /\ DOMAIN g.refs = 1 .. Len(g.refs) /\ 0 \in Nat
    BY GraphRefs
  <1>2. IsFiniteSet(Pend(g, done \cup {id}, v)) /\ IsFiniteSet(Left(g, id, 0, v))
    BY <1>1, Counted
  <1>3. /\ Pend(g, done, v) = Pend(g, done \cup {id}, v) \cup Left(g, id, 0, v)
        /\ \A r \in Pend(g, done \cup {id}, v) : r \notin Left(g, id, 0, v)
    BY <1>1 DEF Pend, Left
  <1>4. QED
    BY <1>2, <1>3, DisjointUnion

\* The members of a sequence.
LEMMA Members ==
    ASSUME NEW S, NEW s \in Seq(S)
    PROVE  /\ Len(s) \in Nat /\ DOMAIN s = 1 .. Len(s)
           /\ \A a \in 1 .. Len(s) : s[a] \in S /\ s[a] \in ToSet(s)
           /\ \A v \in ToSet(s) : v \in S /\ \E a \in 1 .. Len(s) : s[a] = v
  BY DEF ToSet

\* The members with one more at the end.
LEMMA Appended ==
    ASSUME NEW S, NEW s \in Seq(S), NEW v \in S
    PROVE  ToSet(Append(s, v)) = ToSet(s) \cup {v}
  <1>1. PICK t, n : t = Append(s, v) /\ n = Len(s)
    OBVIOUS
  <1>2. /\ n \in Nat /\ t \in Seq(S) /\ Len(t) = n + 1 /\ t[n + 1] = v
        /\ \A a \in 1 .. n : t[a] = s[a]
    BY <1>1
  <1>3. \A u \in Seq(S) : /\ \A a \in 1 .. Len(u) : u[a] \in ToSet(u)
                          /\ \A w \in ToSet(u) : \E a \in 1 .. Len(u) : u[a] = w
    BY Members
  <1>4. /\ \A a \in 1 .. n : s[a] \in ToSet(s)
        /\ \A w \in ToSet(s) : \E a \in 1 .. n : s[a] = w
    BY <1>1, <1>3
  <1>5. /\ \A a \in 1 .. Len(t) : t[a] \in ToSet(t)
        /\ \A w \in ToSet(t) : \E a \in 1 .. Len(t) : t[a] = w
    BY <1>2, <1>3, Zenon
  <1>6. 1 .. n + 1 = (1 .. n) \cup {n + 1}
    BY <1>2
  <1>7. ToSet(t) = ToSet(s) \cup {v}
    BY <1>2, <1>4, <1>5, <1>6
  <1>8. QED
    BY <1>1, <1>7

\* Two sequences, one after the other.
LEMMA Joined ==
    ASSUME NEW S, NEW s \in Seq(S), NEW t \in Seq(S)
    PROVE  /\ s \o t \in Seq(S) /\ Len(s \o t) = Len(s) + Len(t)
           /\ Len(s) \in Nat /\ Len(t) \in Nat
           /\ \A a \in 1 .. Len(s) : (s \o t)[a] = s[a]
           /\ \A a \in 1 .. Len(t) : (s \o t)[Len(s) + a] = t[a]
           /\ \A v \in S : s \o Append(t, v) = Append(s \o t, v)
           /\ t # <<>> => Append(s, Head(t)) \o Tail(t) = s \o t
  <1>1. /\ s \o t \in Seq(S) /\ Len(s \o t) = Len(s) + Len(t)
        /\ Len(s) \in Nat /\ Len(t) \in Nat
    OBVIOUS
  <1>2. /\ \A a \in 1 .. Len(s) : (s \o t)[a] = s[a]
        /\ \A a \in 1 .. Len(t) : (s \o t)[Len(s) + a] = t[a]
    OBVIOUS
  <1>3. ASSUME NEW v \in S PROVE s \o Append(t, v) = Append(s \o t, v)
    OBVIOUS
  <1>4. ASSUME t # <<>> PROVE Append(s, Head(t)) \o Tail(t) = s \o t
    BY <1>4
  <1>5. QED
    BY <1>1, <1>2, <1>3, <1>4

\* The line is a sequence of ids: those emitted, then those queued.
LEMMA LineIs ==
    ASSUME NEW g, NEW st \in SortState(g)
    PROVE  /\ st.order \in Seq(Ids(g)) /\ st.queue \in Seq(Ids(g))
           /\ st.indegree \in [Ids(g) -> Int]
           /\ Line(st) \in Seq(Ids(g))
           /\ Len(st.order) \in Nat /\ Len(st.queue) \in Nat
           /\ Len(Line(st)) = Len(st.order) + Len(st.queue)
           /\ \A a \in 1 .. Len(st.order) : Line(st)[a] = st.order[a]
  <1>1. /\ st.order \in Seq(Ids(g)) /\ st.queue \in Seq(Ids(g))
        /\ st.indegree \in [Ids(g) -> Int]
    BY DEF SortState
  <1>2. PICK ord, q, I : ord = st.order /\ q = st.queue /\ I = Ids(g)
    OBVIOUS
  <1>3. ord \in Seq(I) /\ q \in Seq(I)
    BY <1>1, <1>2
  <1>4. /\ ord \o q \in Seq(I) /\ Len(ord \o q) = Len(ord) + Len(q)
        /\ Len(ord) \in Nat /\ Len(q) \in Nat
        /\ \A a \in 1 .. Len(ord) : (ord \o q)[a] = ord[a]
    BY <1>3, Joined, Zenon
  <1>5. Line(st) = ord \o q
    BY <1>2 DEF Line
  <1>6. QED
    BY <1>1, <1>2, <1>4, <1>5, Zenon

\* What a release does to each part of the state.
LEMMA ReleaseIs ==
    ASSUME NEW deg, NEW q, NEW ord, NEW v
    PROVE  Release([indegree |-> deg, queue |-> q, order |-> ord], v)
             = [indegree |-> [deg EXCEPT ![v] = deg[v] - 1],
                queue    |-> IF deg[v] - 1 = 0 THEN Append(q, v) ELSE q,
                order    |-> ord]
  <1>1. PICK d2, st : /\ d2 = [deg EXCEPT ![v] = deg[v] - 1]
                      /\ st = [indegree |-> deg, queue |-> q, order |-> ord]
    OBVIOUS
  <1>2. st.queue = q /\ st.order = ord /\ st.indegree = deg
    BY <1>1
  <1>3. [st EXCEPT !.indegree[v] = deg[v] - 1]
          = [indegree |-> d2, queue |-> q, order |-> ord]
    BY <1>1
  <1>4. Release(st, v)
          = [st EXCEPT !.indegree[v] = st.indegree[v] - 1,
                       !.queue = IF st.indegree[v] - 1 = 0 THEN Append(st.queue, v)
                                 ELSE st.queue]
    BY DEF Release
  <1>5. PICK q2 : q2 = IF deg[v] - 1 = 0 THEN Append(q, v) ELSE q
    OBVIOUS
  <1>6. Release(st, v) = [st EXCEPT !.indegree[v] = deg[v] - 1, !.queue = q2]
    BY <1>2, <1>4, <1>5, Zenon
  <1>7. Release(st, v) = [[indegree |-> d2, queue |-> q, order |-> ord] EXCEPT !.queue = q2]
    BY <1>1, <1>3, <1>6
  <1>8. QED
    BY <1>1, <1>5, <1>7

\* One reference of the id emitted last is released.
LEMMA ReleaseKeeps ==
    ASSUME NEW g, IsGraph(g), NEW st, NEW id, NEW j \in 0 .. Len(g.refs) - 1,
           Sorting(g, st, id, j)
    PROVE  LET r  == g.refs[j + 1]
               s2 == IF r.from = id THEN Release(st, r.to) ELSE st
           IN  Sorting(g, s2, id, j + 1) /\ s2.order = st.order
  <1> DEFINE v    == g.refs[j + 1].to
             P(w) == Cardinality(Pend(g, ToSet(st.order), w))
             L(w) == Cardinality(Left(g, id, j + 1, w))
  <1>1. /\ Len(g.refs) \in Nat /\ DOMAIN g.refs = 1 .. Len(g.refs)
        /\ j \in Nat /\ j + 1 \in Nat /\ j + 1 \in 1 .. Len(g.refs)
        /\ v \in Ids(g)
        /\ \A r \in 1 .. Len(g.refs) : g.refs[r].to \in Ids(g) /\ g.refs[r].from \in Nat
    BY GraphRefs
  <1>2. \A w \in Ids(g) : /\ P(w) \in Nat /\ L(w) \in Nat
                          /\ P(w) = 0 <=> Pend(g, ToSet(st.order), w) = {}
    BY <1>1, Counted
  <1>3. \A w \in Ids(g) :
           st.indegree[w] = P(w) + L(w)
                              + (IF v = w /\ g.refs[j + 1].from = id THEN 1 ELSE 0)
    <2> SUFFICES ASSUME NEW w \in Ids(g)
                 PROVE  st.indegree[w] = P(w) + L(w)
                              + (IF v = w /\ g.refs[j + 1].from = id THEN 1 ELSE 0)
      OBVIOUS
    <2>1. st.indegree[w] = P(w) + Cardinality(Left(g, id, j, w))
      BY DEF Sorting
    <2>2. Cardinality(Left(g, id, j, w))
            = L(w) + (IF v = w /\ g.refs[j + 1].from = id THEN 1 ELSE 0)
      BY LeftStep
    <2> HIDE DEF P, L, v
    <2>3. QED
      BY <1>2, <2>1, <2>2
  <1> HIDE DEF P, L
  <1>4. CASE g.refs[j + 1].from # id
    <2>1. \A w \in Ids(g) : st.indegree[w] = P(w) + L(w)
      BY <1>2, <1>3, <1>4
    <2>2. Sorting(g, st, id, j + 1)
      BY <2>1 DEF Sorting, P, L
    <2>3. QED
      BY <1>4, <2>2
  <1>5. CASE g.refs[j + 1].from = id
    <2> DEFINE s2 == Release(st, v)
    <2>1. st \in SortState(g)
      BY DEF Sorting
    <2>2. PICK ord, q, deg, l, I :
             /\ ord = st.order /\ q = st.queue /\ deg = st.indegree /\ l = Line(st)
             /\ I = Ids(g)
             /\ st = [indegree |-> deg, queue |-> q, order |-> ord]
      BY <2>1 DEF SortState
    <2>3. /\ ord \in Seq(I) /\ q \in Seq(I) /\ deg \in [I -> Int] /\ l \in Seq(I)
          /\ Len(ord) \in Nat /\ Len(q) \in Nat /\ Len(l) = Len(ord) + Len(q)
          /\ \A a \in 1 .. Len(ord) : l[a] = ord[a]
      BY <2>1, <2>2, LineIs
    <2>4. /\ v \in I /\ deg[v] = P(v) + L(v) + 1 /\ P(v) \in Nat /\ L(v) \in Nat
          /\ v \notin ToSet(l)
          /\ \A w \in I : w # v => deg[w] = P(w) + L(w)
          /\ \A w \in I : deg[w] = 0 <=> w \in ToSet(l)
      <3>1. \A w \in I : deg[w] = 0 <=> w \in ToSet(l)
        BY <2>2 DEF Sorting
      <3>2. v \in I /\ deg[v] = P(v) + L(v) + 1 /\ P(v) \in Nat /\ L(v) \in Nat
        BY <1>1, <1>2, <1>3, <1>5, <2>2
      <3>3. \A w \in I : w # v => deg[w] = P(w) + L(w)
        BY <1>2, <1>3, <2>2
      <3> HIDE DEF v
      <3>4. deg[v] # 0
        BY <3>2
      <3>5. QED
        BY <3>1, <3>2, <3>3, <3>4
    <2> HIDE DEF s2, v
    <2>5. s2 = [indegree |-> [deg EXCEPT ![v] = deg[v] - 1],
                queue    |-> IF deg[v] - 1 = 0 THEN Append(q, v) ELSE q,
                order    |-> ord]
      <3>1. Release(st, v) = Release([indegree |-> deg, queue |-> q, order |-> ord], v)
        BY <2>2
      <3>2. QED
        BY <3>1, ReleaseIs DEF s2
    <2>6. Distinct(l) /\ Fed(g, st)
      BY <2>2 DEF Sorting
    <2>7. PICK deg2 : deg2 = [deg EXCEPT ![v] = deg[v] - 1]
      OBVIOUS
    <2>8. /\ deg2 \in [I -> Int]
          /\ deg2[v] = deg[v] - 1
          /\ \A w \in I : w # v => deg2[w] = deg[w]
      BY <2>3, <2>4, <2>7
    <2>9. \A w \in I : deg2[w] = P(w) + L(w)
      BY <2>4, <2>8
    <2>10. CASE deg[v] - 1 # 0
      <3>1. /\ s2.indegree = deg2 /\ s2.queue = q /\ s2.order = ord
            /\ s2 = [indegree |-> deg2, queue |-> q, order |-> ord]
        BY <2>5, <2>7, <2>10
      <3>2. s2 \in SortState(g) /\ Line(s2) = l
        BY <2>2, <2>3, <2>8, <3>1 DEF SortState, Line
      <3>3. \A w \in I : deg2[w] = 0 <=> w \in ToSet(l)
        BY <2>4, <2>8, <2>10
      <3>4. Fed(g, s2)
        BY <2>2, <2>6, <3>1, <3>2 DEF Fed
      <3>5. Sorting(g, s2, id, j + 1)
        BY <2>2, <2>6, <2>9, <3>1, <3>2, <3>3, <3>4 DEF Sorting, P, L
      <3>6. QED
        BY <1>5, <2>2, <3>1, <3>5 DEF s2, v
    <2>11. CASE deg[v] - 1 = 0
      <3>1. PICK q2, l2 : q2 = Append(q, v) /\ l2 = Append(l, v)
        OBVIOUS
      <3>2. /\ s2.indegree = deg2 /\ s2.queue = q2 /\ s2.order = ord
            /\ s2 = [indegree |-> deg2, queue |-> q2, order |-> ord]
        BY <2>5, <2>7, <2>11, <3>1
      <3>3. q2 \in Seq(I)
        BY <2>3, <2>4, <3>1
      <3>4. s2 \in SortState(g)
        BY <2>2, <2>3, <2>8, <3>2, <3>3 DEF SortState
      <3>5. Line(s2) = l2
        <4>1. ord \o Append(q, v) = Append(ord \o q, v)
          <5>1. ord \in Seq(I) /\ q \in Seq(I) /\ v \in I
            BY <2>3, <2>4
          <5>2. QED
            BY <5>1, Joined
        <4>2. l = ord \o q
          BY <2>2 DEF Line
        <4>3. QED
          BY <3>1, <3>2, <4>1, <4>2 DEF Line
      <3>6. /\ Len(l) \in Nat /\ l2 \in Seq(I) /\ Len(l2) = Len(l) + 1
            /\ \A a \in 1 .. Len(l) : l2[a] = l[a]
            /\ l2[Len(l) + 1] = v
            /\ \A w : w \in ToSet(l2) <=> w \in ToSet(l) \/ w = v
        <4>1. l \in Seq(I) /\ v \in I /\ l2 = Append(l, v)
          BY <2>3, <2>4, <3>1
        <4>2. /\ Len(l) \in Nat /\ l2 \in Seq(I) /\ Len(l2) = Len(l) + 1
              /\ \A a \in 1 .. Len(l) : l2[a] = l[a]
              /\ l2[Len(l) + 1] = v
          BY <4>1
        <4>3. \A w : w \in ToSet(l2) <=> w \in ToSet(l) \/ w = v
          <5>1. ToSet(Append(l, v)) = ToSet(l) \cup {v}
            BY <4>1, Appended
          <5>2. QED
            BY <4>1, <5>1
        <4>4. QED
          BY <4>2, <4>3
      <3>7. \A a \in 1 .. Len(l) : l[a] \in ToSet(l)
        BY <2>3, Members
      <3>8. PICK n : n = Len(l)
        OBVIOUS
      <3>9. /\ n \in Nat /\ Len(l2) = n + 1
            /\ \A a \in 1 .. n : l2[a] = l[a] /\ l[a] # v
            /\ l2[n + 1] = v
            /\ 1 .. n + 1 = (1 .. n) \cup {n + 1}
        BY <2>4, <3>6, <3>7, <3>8
      <3>10. \A w \in I : deg2[w] = 0 <=> w \in ToSet(l2)
        BY <2>4, <2>8, <2>11, <3>6
      <3>11. Distinct(l2)
        <4>1. \A a, b \in 1 .. n : l[a] = l[b] => a = b
          BY <2>6, <3>8 DEF Distinct
        <4>2. QED
          BY <3>9, <4>1 DEF Distinct
      <3>12. Fed(g, s2)
        <4>1. P(v) = 0
          BY <2>4, <2>11
        <4>2. \A r \in DOMAIN g.refs : g.refs[r].to = v => g.refs[r].from \in ToSet(ord)
          BY <1>1, <1>2, <2>2, <4>1 DEF Pend, v
        <4>3. \A r \in DOMAIN g.refs : g.refs[r].to = v =>
                 \E k \in 1 .. Len(ord) : k < n + 1 /\ ord[k] = g.refs[r].from
          <5>1. \A w \in ToSet(ord) : \E k \in 1 .. Len(ord) : ord[k] = w
            BY <2>3, Members
          <5>2. Len(ord) \in Nat /\ Len(ord) <= n
            BY <2>3, <3>8
          <5>3. \A k \in 1 .. Len(ord) : k < n + 1
            BY <3>9, <5>2
          <5>4. QED
            BY <4>2, <5>1, <5>3
        <4>4. \A a \in 1 .. n : \A r \in DOMAIN g.refs : g.refs[r].to = l[a] =>
                 \E k \in 1 .. Len(ord) : k < a /\ ord[k] = g.refs[r].from
          BY <2>2, <2>6, <3>8 DEF Fed
        <4>5. QED
          BY <3>2, <3>5, <3>9, <4>3, <4>4 DEF Fed
      <3>13. Sorting(g, s2, id, j + 1)
        BY <2>2, <2>9, <3>2, <3>4, <3>5, <3>10, <3>11, <3>12 DEF Sorting, P, L
      <3>14. QED
        BY <1>5, <2>2, <3>2, <3>13 DEF s2, v
    <2>12. QED
      BY <2>10, <2>11
  <1>6. QED
    BY <1>4, <1>5

\* Before a turn nothing is left to release, whichever id was emitted last.
LEMMA NothingLeft ==
    ASSUME NEW g, IsGraph(g), NEW id, NEW v
    PROVE  Cardinality(Left(g, id, Len(g.refs), v)) = 0
  <1>1. Len(g.refs) \in Nat
    BY GraphRefs
  <1>2. Left(g, id, Len(g.refs), v) = {}
    BY <1>1 DEF Left
  <1>3. QED
    BY <1>1, <1>2, Counted

\* The turn starts: the head of the queue is emitted.
LEMMA PopKeeps ==
    ASSUME NEW g, IsGraph(g), NEW st, NEW any, Sorting(g, st, any, Len(g.refs)),
           st.queue # <<>>
    PROVE  LET id == Head(st.queue)
               s2 == [st EXCEPT !.queue = Tail(@), !.order = Append(@, id)]
           IN  Sorting(g, s2, id, 0) /\ Len(s2.order) = Len(st.order) + 1
  <1> DEFINE id == Head(st.queue)
             s2 == [st EXCEPT !.queue = Tail(@), !.order = Append(@, id)]
  <1>1. st \in SortState(g)
    BY DEF Sorting
  <1>2. PICK ord, q, deg, l, I :
           /\ ord = st.order /\ q = st.queue /\ deg = st.indegree /\ l = Line(st)
           /\ I = Ids(g)
           /\ st = [indegree |-> deg, queue |-> q, order |-> ord]
    BY <1>1 DEF SortState
  <1>3. /\ ord \in Seq(I) /\ q \in Seq(I) /\ deg \in [I -> Int] /\ l \in Seq(I)
        /\ Len(ord) \in Nat /\ Len(q) \in Nat /\ Len(l) = Len(ord) + Len(q)
        /\ \A a \in 1 .. Len(ord) : l[a] = ord[a]
    BY <1>1, <1>2, LineIs
  <1>4. PICK v, q2, ord2 : v = Head(q) /\ q2 = Tail(q) /\ ord2 = Append(ord, v)
    OBVIOUS
  <1>5. /\ v \in I /\ q2 \in Seq(I) /\ Len(q) > 0 /\ v = q[1]
    BY <1>2, <1>3, <1>4
  <1>6. /\ ord2 \in Seq(I) /\ Len(ord2) = Len(ord) + 1 /\ ord2[Len(ord) + 1] = v
        /\ \A a \in 1 .. Len(ord) : ord2[a] = ord[a]
    BY <1>3, <1>4, <1>5
  <1>7. /\ s2.indegree = deg /\ s2.queue = q2 /\ s2.order = ord2
        /\ s2 = [indegree |-> deg, queue |-> q2, order |-> ord2]
        /\ id = v
    <2>1. id = v
      BY <1>2, <1>4
    <2> HIDE DEF id
    <2>2. s2 = [st EXCEPT !.queue = q2, !.order = ord2]
      BY <1>2, <1>4, <2>1, Zenon
    <2>3. [st EXCEPT !.queue = q2] = [indegree |-> deg, queue |-> q2, order |-> ord]
      BY <1>2
    <2>4. s2 = [[indegree |-> deg, queue |-> q2, order |-> ord] EXCEPT !.order = ord2]
      BY <2>2, <2>3
    <2> HIDE DEF s2
    <2>5. s2 = [indegree |-> deg, queue |-> q2, order |-> ord2]
      BY <2>4
    <2>6. QED
      BY <2>1, <2>5
  <1>8. l = ord \o q
    BY <1>2 DEF Line
  <1>9. Line(s2) = l
    <2>1. Append(ord, Head(q)) \o Tail(q) = ord \o q
      <3>1. ord \in Seq(I) /\ q \in Seq(I) /\ q # <<>>
        BY <1>2, <1>3
      <3>2. QED
        BY <3>1, Joined
    <2> HIDE DEF s2
    <2>2. QED
      BY <1>4, <1>7, <1>8, <2>1 DEF Line
  <1> HIDE DEF s2, id
  <1>10. s2 \in SortState(g)
    BY <1>2, <1>3, <1>5, <1>6, <1>7 DEF SortState
  <1>11. v \notin ToSet(ord)
    <2>1. Len(ord) + 1 \in 1 .. Len(l)
      BY <1>3, <1>5
    <2>2. l[Len(ord) + 1] = v
      <3>1. 1 \in 1 .. Len(q)
        BY <1>3, <1>5
      <3>2. (ord \o q)[Len(ord) + 1] = q[1]
        BY <1>3, <3>1
      <3>3. QED
        BY <1>5, <1>8, <3>2
    <2>3. \A a, b \in 1 .. Len(l) : l[a] = l[b] => a = b
      BY <1>2 DEF Sorting, Distinct
    <2>4. ASSUME NEW a \in 1 .. Len(ord) PROVE ord[a] # v
      <3>1. a \in 1 .. Len(l) /\ a # Len(ord) + 1 /\ l[a] = ord[a]
        BY <1>3
      <3>2. QED
        BY <2>1, <2>2, <2>3, <3>1
    <2>5. \A w \in ToSet(ord) : \E a \in 1 .. Len(ord) : ord[a] = w
      BY <1>3, Members
    <2>6. QED
      BY <2>4, <2>5
  <1>12. ToSet(ord2) = ToSet(ord) \cup {v}
    BY <1>3, <1>4, <1>5, Appended
  <1>13. \A w \in I : deg[w] = Cardinality(Pend(g, ToSet(ord2), w)) + Cardinality(Left(g, v, 0, w))
    <2> SUFFICES ASSUME NEW w \in I
                 PROVE  deg[w] = Cardinality(Pend(g, ToSet(ord2), w))
                                   + Cardinality(Left(g, v, 0, w))
      OBVIOUS
    <2>1. Cardinality(Pend(g, ToSet(ord), w))
            = Cardinality(Pend(g, ToSet(ord) \cup {v}, w)) + Cardinality(Left(g, v, 0, w))
      BY <1>11, PendSplit
    <2>2. deg[w] = Cardinality(Pend(g, ToSet(ord), w))
                     + Cardinality(Left(g, any, Len(g.refs), w))
      BY <1>2 DEF Sorting
    <2>3. Cardinality(Left(g, any, Len(g.refs), w)) = 0
      BY NothingLeft
    <2>4. Cardinality(Pend(g, ToSet(ord), w)) \in Nat
      <3>1. 0 \in Nat
        OBVIOUS
      <3>2. QED
        BY <3>1, Counted
    <2>5. deg[w] = Cardinality(Pend(g, ToSet(ord), w))
      BY <2>2, <2>3, <2>4
    <2>6. QED
      BY <1>12, <2>1, <2>5, Zenon
  <1>14. \A w \in I : deg[w] = 0 <=> w \in ToSet(l)
    BY <1>2 DEF Sorting
  <1>15. Fed(g, s2)
    <2>1. \A a \in 1 .. Len(l) : \A r \in DOMAIN g.refs : g.refs[r].to = l[a] =>
             \E k \in 1 .. Len(ord) : k < a /\ ord[k] = g.refs[r].from
      BY <1>2 DEF Sorting, Fed
    <2>2. \A k \in 1 .. Len(ord) : k \in 1 .. Len(ord2) /\ ord2[k] = ord[k]
      BY <1>3, <1>6
    <2>3. QED
      BY <1>7, <1>9, <2>1, <2>2 DEF Fed
  <1>16. Distinct(l)
    BY <1>2 DEF Sorting
  <1>17. Sorting(g, s2, v, 0)
    BY <1>2, <1>7, <1>9, <1>10, <1>13, <1>14, <1>15, <1>16 DEF Sorting
  <1>18. QED
    BY <1>2, <1>6, <1>7, <1>17 DEF s2, id

\* A release keeps the kind of state.
LEMMA ReleaseTyped ==
    ASSUME NEW g, NEW st \in SortState(g), NEW v \in Ids(g)
    PROVE  Release(st, v) \in SortState(g)
  <1>1. PICK ord, q, deg, I, d2, q2 :
           /\ I = Ids(g) /\ st = [indegree |-> deg, queue |-> q, order |-> ord]
           /\ ord \in Seq(I) /\ q \in Seq(I) /\ deg \in [I -> Int]
           /\ d2 = [deg EXCEPT ![v] = deg[v] - 1]
           /\ q2 = IF deg[v] - 1 = 0 THEN Append(q, v) ELSE q
    BY DEF SortState
  <1>2. Release(st, v) = [indegree |-> d2, queue |-> q2, order |-> ord]
    <2>1. Release([indegree |-> deg, queue |-> q, order |-> ord], v)
             = [indegree |-> [deg EXCEPT ![v] = deg[v] - 1],
                queue    |-> IF deg[v] - 1 = 0 THEN Append(q, v) ELSE q,
                order    |-> ord]
      BY ReleaseIs
    <2>2. QED
      BY <1>1, <2>1
  <1>3. d2 \in [I -> Int] /\ q2 \in Seq(I)
    BY <1>1
  <1>4. /\ d2 \in [Ids(g) -> Int] /\ q2 \in Seq(Ids(g)) /\ ord \in Seq(Ids(g))
    BY <1>1, <1>3
  <1>5. [indegree |-> d2, queue |-> q2, order |-> ord] \in SortState(g)
    BY <1>4 DEF SortState
  <1>6. QED
    BY <1>2, <1>5

\* The state in which a turn starts to release references.
Popped(st) == [st EXCEPT !.queue = Tail(@), !.order = Append(@, Head(st.queue))]

\* run[j] is the state of a turn from st after its first j references.
IsTurn(g, st, run) ==
    /\ run[0] = Popped(st)
    /\ \A j \in 0 .. Len(g.refs) - 1 :
          run[j + 1] = IF g.refs[j + 1].from = Head(st.queue)
                       THEN Release(run[j], g.refs[j + 1].to) ELSE run[j]
    /\ \A j \in 0 .. Len(g.refs) :
          Sorting(g, run[j], Head(st.queue), j) /\ run[j].order = Popped(st).order
    /\ run[Len(g.refs)] = Turn(g, st)

\* A turn goes through the references one by one, the loop invariant kept.
LEMMA TurnRuns ==
    ASSUME NEW g, IsGraph(g), NEW st, NEW any, Sorting(g, st, any, Len(g.refs)),
           st.queue # <<>>
    PROVE  \E run : IsTurn(g, st, run)
  <1> DEFINE n    == Len(g.refs)
             id   == Head(st.queue)
             base == [st EXCEPT !.queue = Tail(@), !.order = Append(@, id)]
             V    == SortState(g)
             op(s, r) == IF r.from = id THEN Release(s, r.to) ELSE s
             F    == [p \in (1 .. n) \X V |-> op(p[2], g.refs[p[1]])]
             c    == CHOOSE f : f = [s \in SUBSET (1 .. n) |->
                       IF s = {} THEN base ELSE op(f[s \ {Max(s)}], g.refs[Max(s)])]
  <1>1. n \in Nat /\ DOMAIN g.refs = 1 .. n /\ \A r \in 1 .. n : g.refs[r].to \in Ids(g)
    BY GraphRefs
  <1>2. Sorting(g, base, id, 0) /\ Len(base.order) = Len(st.order) + 1
    BY PopKeeps
  <1>3. Turn(g, st) = c[1 .. n]
    BY <1>1, Zenon DEF Turn, FoldLeft, MapThenFoldSet
  <1>4. PICK b, v : b = base /\ v = id
    OBVIOUS
  <1> HIDE DEF n
  <1>5. F \in [(1 .. n) \X V -> V]
    <2> SUFFICES ASSUME NEW p \in (1 .. n) \X V
                 PROVE  op(p[2], g.refs[p[1]]) \in V
      OBVIOUS
    <2>1. p[2] \in V /\ g.refs[p[1]].to \in Ids(g)
      BY <1>1
    <2> HIDE DEF id
    <2>2. QED
      BY <2>1, ReleaseTyped
  <1>6. base \in V
    BY <1>2 DEF Sorting
  <1>7. PICK it : IsFold(n, V, base, F, it)
    <2> HIDE DEF F, base, V
    <2>1. QED
      BY <1>1, <1>5, <1>6, FoldExists
  <1>8. it = [s \in SUBSET (1 .. n) |->
                IF s = {} THEN base ELSE op(it[s \ {Max(s)}], g.refs[Max(s)])]
    <2>1. it \in [SUBSET (1 .. n) -> V]
      BY <1>7 DEF IsFold
    <2>2. ASSUME NEW s \in SUBSET (1 .. n), s # {}
          PROVE  it[s] = op(it[s \ {Max(s)}], g.refs[Max(s)])
      <3>1. Max(s) \in 1 .. n
        BY <1>1, <2>2, MaxIs
      <3>2. it[s \ {Max(s)}] \in V
        BY <2>1
      <3>3. it[s] = F[<<Max(s), it[s \ {Max(s)}]>>]
        BY <1>7, <2>2 DEF IsFold
      <3> HIDE DEF base, id, V
      <3>4. QED
        BY <3>1, <3>2, <3>3
    <2> HIDE DEF op, base
    <2>3. \A s \in SUBSET (1 .. n) :
             it[s] = IF s = {} THEN base ELSE op(it[s \ {Max(s)}], g.refs[Max(s)])
      BY <1>7, <2>2 DEF IsFold
    <2>4. QED
      BY <2>1, <2>3
  <1> HIDE DEF base
  <1>9. c = [s \in SUBSET (1 .. n) |->
               IF s = {} THEN base ELSE op(c[s \ {Max(s)}], g.refs[Max(s)])]
    BY <1>8, Zenon
  <1> HIDE DEF c
  <1> DEFINE P == {k \in 0 .. n : Sorting(g, c[1 .. k], id, k) /\ c[1 .. k].order = base.order}
  <1>10. 0 \in P
    <2>1. 1 .. 0 = {} /\ 0 \in 0 .. n
      BY <1>1
    <2>2. c[{}] = base
      BY <1>9
    <2>3. QED
      BY <1>2, <2>1, <2>2
  <1>11. ASSUME NEW k \in 0 .. n - 1, k \in P PROVE k + 1 \in P
    <2>1. k \in Nat /\ k + 1 \in 1 .. n /\ k + 1 \in 0 .. n
          /\ 1 .. k + 1 \in SUBSET (1 .. n) /\ 1 .. k + 1 # {}
      BY <1>1, PrefixOf
    <2>2. c[1 .. k + 1] = op(c[(1 .. k + 1) \ {Max(1 .. k + 1)}], g.refs[Max(1 .. k + 1)])
      BY <1>9, <2>1
    <2>3. c[1 .. k + 1] = op(c[1 .. k], g.refs[k + 1])
      BY <2>1, <2>2, LastOf
    <2>4. Sorting(g, c[1 .. k], id, k) /\ c[1 .. k].order = base.order
      BY <1>11
    <2> HIDE DEF id, P
    <2>5. /\ Sorting(g, c[1 .. k + 1], id, k + 1)
          /\ c[1 .. k + 1].order = c[1 .. k].order
      <3>1. k \in 0 .. Len(g.refs) - 1
        BY DEF n
      <3>2. PICK x : x = c[1 .. k]
        OBVIOUS
      <3>3. LET r  == g.refs[k + 1]
                s2 == IF r.from = id THEN Release(x, r.to) ELSE x
            IN  Sorting(g, s2, id, k + 1) /\ s2.order = x.order
        BY <2>4, <3>1, <3>2, ReleaseKeeps
      <3>4. QED
        BY <2>3, <3>2, <3>3
    <2>6. QED
      BY <2>1, <2>4, <2>5 DEF P
  <1>12. \A k \in 0 .. n : k \in P
    <2> HIDE DEF P
    <2>1. QED
      BY <1>1, <1>10, <1>11, UpTo
  <1>13. PICK run : run = [k \in 0 .. n |-> c[1 .. k]]
    OBVIOUS
  <1>14. \A k \in 0 .. n : run[k] = c[1 .. k]
    BY <1>13
  <1>15. 0 \in 0 .. n /\ n \in 0 .. n /\ 1 .. 0 = {} /\ \A k \in 0 .. n - 1 : k \in 0 .. n /\ k + 1 \in 0 .. n
    BY <1>1
  <1>16. run[0] = base
    <2>1. c[{}] = base
      BY <1>9
    <2>2. QED
      BY <1>14, <1>15, <2>1
  <1>17. \A k \in 0 .. n - 1 : run[k + 1] = op(run[k], g.refs[k + 1])
    <2> SUFFICES ASSUME NEW k \in 0 .. n - 1 PROVE c[1 .. k + 1] = op(c[1 .. k], g.refs[k + 1])
      BY <1>14, <1>15
    <2>1. 1 .. k + 1 \in SUBSET (1 .. n) /\ 1 .. k + 1 # {} /\ k \in Nat
      BY <1>1, PrefixOf
    <2>2. c[1 .. k + 1] = op(c[(1 .. k + 1) \ {Max(1 .. k + 1)}], g.refs[Max(1 .. k + 1)])
      BY <1>9, <2>1
    <2>3. QED
      BY <2>1, <2>2, LastOf
  <1>18. \A k \in 0 .. n : Sorting(g, run[k], id, k) /\ run[k].order = base.order
    BY <1>12, <1>14
  <1>19. run[n] = Turn(g, st)
    BY <1>3, <1>14, <1>15
  <1>20. IsTurn(g, st, run)
    BY <1>16, <1>17, <1>18, <1>19 DEF IsTurn, Popped, base, n
  <1>21. QED
    BY <1>20

\* A turn keeps the loop invariant, and emits one id.
LEMMA TurnKeeps ==
    ASSUME NEW g, IsGraph(g), NEW st, NEW any, Sorting(g, st, any, Len(g.refs)),
           st.queue # <<>>
    PROVE  /\ Sorting(g, Turn(g, st), any, Len(g.refs))
           /\ Len(Turn(g, st).order) = Len(st.order) + 1
  <1>1. PICK id, n : id = Head(st.queue) /\ n = Len(g.refs)
    OBVIOUS
  <1>2. n \in Nat /\ n \in 0 .. n
    BY <1>1, GraphRefs
  <1>3. PICK run : IsTurn(g, st, run)
    BY TurnRuns
  <1>4. Sorting(g, Turn(g, st), id, n) /\ Turn(g, st).order = Popped(st).order
    BY <1>1, <1>2, <1>3 DEF IsTurn
  <1>5. Len(Popped(st).order) = Len(st.order) + 1
    BY PopKeeps DEF Popped
  <1>6. \A w \in Ids(g) : /\ Cardinality(Left(g, id, n, w)) = 0
                          /\ Cardinality(Left(g, any, n, w)) = 0
    BY <1>1, NothingLeft
  <1>7. Sorting(g, Turn(g, st), any, n)
    BY <1>4, <1>6 DEF Sorting
  <1>8. QED
    BY <1>1, <1>4, <1>5, <1>7

\* run[k] is what a loop over the nodes has picked below k.
IsPicking(n, S, run) ==
    /\ run[0] = <<>>
    /\ \A k \in 0 .. n - 1 : run[k + 1] = IF k \in S THEN Append(run[k], k) ELSE run[k]
    /\ run[n] = Picked(n, S)

\* The loop goes through the ids one by one.
LEMMA PickingRuns ==
    ASSUME NEW n \in Nat, NEW S \in SUBSET (0 .. n - 1)
    PROVE  \E run : IsPicking(n, S, run)
  <1> DEFINE ids  == [j \in 1 .. n |-> j - 1]
             V    == Seq(0 .. n - 1)
             op(q, v) == IF v \in S THEN Append(q, v) ELSE q
             F    == [p \in (1 .. n) \X V |-> op(p[2], ids[p[1]])]
             c    == CHOOSE f : f = [s \in SUBSET (1 .. n) |->
                       IF s = {} THEN <<>> ELSE op(f[s \ {Max(s)}], ids[Max(s)])]
  <1>1. n \in Nat
    OBVIOUS
  <1>2. \A j \in 1 .. n : ids[j] = j - 1 /\ j - 1 \in 0 .. n - 1
    BY <1>1
  <1>3. Picked(n, S) = c[1 .. n]
    <2>1. DOMAIN ids = 1 .. n
      OBVIOUS
    <2>2. QED
      BY <2>1, Zenon DEF Picked, FoldLeft, MapThenFoldSet
  <1> HIDE DEF ids
  <1>4. ASSUME NEW q \in V, NEW v \in 0 .. n - 1 PROVE op(q, v) \in V
    <2> DEFINE I == 0 .. n - 1
    <2>1. q \in Seq(I) /\ v \in I
      OBVIOUS
    <2> HIDE DEF I
    <2>2. Append(q, v) \in Seq(I)
      BY <2>1
    <2>3. QED
      BY <2>2 DEF I
  <1>5. F \in [(1 .. n) \X V -> V]
    <2> SUFFICES ASSUME NEW p \in (1 .. n) \X V
                 PROVE  op(p[2], ids[p[1]]) \in V
      OBVIOUS
    <2>1. p[2] \in V /\ ids[p[1]] \in 0 .. n - 1
      BY <1>2
    <2> HIDE DEF op
    <2>2. QED
      BY <1>4, <2>1
  <1>6. <<>> \in V
    OBVIOUS
  <1>7. PICK it : IsFold(n, V, <<>>, F, it)
    <2> HIDE DEF F, V
    <2>1. QED
      BY <1>1, <1>5, <1>6, FoldExists
  <1>8. it = [s \in SUBSET (1 .. n) |->
                IF s = {} THEN <<>> ELSE op(it[s \ {Max(s)}], ids[Max(s)])]
    <2>1. it \in [SUBSET (1 .. n) -> V]
      BY <1>7 DEF IsFold
    <2>2. ASSUME NEW s \in SUBSET (1 .. n), s # {}
          PROVE  it[s] = op(it[s \ {Max(s)}], ids[Max(s)])
      <3>1. Max(s) \in 1 .. n
        BY <1>1, <2>2, MaxIs
      <3>2. it[s \ {Max(s)}] \in V
        BY <2>1
      <3>3. it[s] = F[<<Max(s), it[s \ {Max(s)}]>>]
        BY <1>7, <2>2 DEF IsFold
      <3> HIDE DEF op, V
      <3>4. QED
        BY <3>1, <3>2, <3>3
    <2> HIDE DEF op
    <2>3. \A s \in SUBSET (1 .. n) :
             it[s] = IF s = {} THEN <<>> ELSE op(it[s \ {Max(s)}], ids[Max(s)])
      BY <1>7, <2>2 DEF IsFold
    <2>4. QED
      BY <2>1, <2>3
  <1>9. c = [s \in SUBSET (1 .. n) |->
               IF s = {} THEN <<>> ELSE op(c[s \ {Max(s)}], ids[Max(s)])]
    BY <1>8, Zenon
  <1> HIDE DEF c, V
  <1>10. PICK run : run = [k \in 0 .. n |-> c[1 .. k]]
    OBVIOUS
  <1>11. \A k \in 0 .. n : run[k] = c[1 .. k]
    BY <1>10
  <1>12. 0 \in 0 .. n /\ n \in 0 .. n /\ 1 .. 0 = {} /\ \A k \in 0 .. n - 1 : k \in 0 .. n /\ k + 1 \in 0 .. n
    BY <1>1
  <1>13. run[0] = <<>>
    <2>1. c[{}] = <<>>
      BY <1>9
    <2>2. QED
      BY <1>11, <1>12, <2>1
  <1>14. ASSUME NEW k \in 0 .. n - 1
         PROVE  run[k + 1] = IF k \in S THEN Append(run[k], k) ELSE run[k]
    <2>1. k \in Nat /\ k + 1 \in 1 .. n
          /\ 1 .. k + 1 \in SUBSET (1 .. n) /\ 1 .. k + 1 # {}
      BY <1>1, PrefixOf
    <2>2. c[1 .. k + 1] = op(c[(1 .. k + 1) \ {Max(1 .. k + 1)}], ids[Max(1 .. k + 1)])
      BY <1>9, <2>1
    <2>3. c[1 .. k + 1] = op(c[1 .. k], ids[k + 1])
      BY <2>1, <2>2, LastOf
    <2>4. ids[k + 1] = k
      BY <1>2, <2>1
    <2>5. run[k] = c[1 .. k] /\ run[k + 1] = c[1 .. k + 1]
      BY <1>11, <1>12
    <2>6. QED
      BY <2>3, <2>4, <2>5
  <1>15. IsPicking(n, S, run)
    BY <1>3, <1>11, <1>12, <1>13, <1>14 DEF IsPicking
  <1>16. QED
    BY <1>15

\* What is picked are ids.
LEMMA PickingTyped ==
    ASSUME NEW n \in Nat, NEW S \in SUBSET (0 .. n - 1), NEW run, IsPicking(n, S, run)
    PROVE  \A k \in 0 .. n : run[k] \in Seq(0 .. n - 1)
  <1> DEFINE I == 0 .. n - 1
             P == {k \in 0 .. n : run[k] \in Seq(I)}
  <1>1. 0 \in P
    <2> HIDE DEF I
    <2>1. run[0] \in Seq(I)
      BY DEF IsPicking
    <2>2. QED
      BY <2>1
  <1>2. ASSUME NEW k \in 0 .. n - 1, k \in P PROVE k + 1 \in P
    <2>1. k \in I /\ k + 1 \in 0 .. n /\ run[k] \in Seq(I)
      BY <1>2
    <2>2. run[k + 1] = IF k \in S THEN Append(run[k], k) ELSE run[k]
      BY DEF IsPicking
    <2> HIDE DEF I
    <2>3. Append(run[k], k) \in Seq(I)
      BY <2>1
    <2>4. QED
      BY <2>1, <2>2, <2>3
  <1> HIDE DEF P
  <1>3. \A k \in 0 .. n : k \in P
    BY <1>1, <1>2, UpTo
  <1>4. QED
    BY <1>3 DEF P, I

\* A loop over the nodes picks each id of the set once.
LEMMA PickedAre ==
    ASSUME NEW n \in Nat, NEW S \in SUBSET (0 .. n - 1)
    PROVE  /\ Picked(n, S) \in Seq(0 .. n - 1) /\ Distinct(Picked(n, S))
           /\ ToSet(Picked(n, S)) = S
  <1>1. PICK run : IsPicking(n, S, run)
    BY PickingRuns
  <1> DEFINE V == Seq(0 .. n - 1)
             Some(k) == {v \in 0 .. k - 1 : v \in S}
             P == {k \in 0 .. n : /\ run[k] \in V /\ Distinct(run[k])
                                  /\ ToSet(run[k]) = Some(k)}
  <1>10. 0 \in P
    <2>1. 0 \in 0 .. n /\ Some(0) = {} /\ run[0] = <<>>
      BY <1>1 DEF IsPicking
    <2>2. ToSet(<<>>) = {} /\ Distinct(<<>>) /\ <<>> \in V
      BY DEF ToSet, Distinct
    <2>3. QED
      BY <2>1, <2>2
  <1>11. ASSUME NEW k \in 0 .. n - 1, k \in P PROVE k + 1 \in P
    <2>1. k \in Nat /\ k + 1 \in 0 .. n /\ k \in 0 .. n - 1
      OBVIOUS
    <2>3. run[k + 1] = IF k \in S THEN Append(run[k], k) ELSE run[k]
      BY <1>1 DEF IsPicking
    <2>5. PICK q, q2, I : q = run[k] /\ q2 = run[k + 1] /\ I = 0 .. n - 1
      OBVIOUS
    <2>6. q2 = IF k \in S THEN Append(q, k) ELSE q
      BY <2>3, <2>5
    <2>7. q \in Seq(I) /\ Distinct(q) /\ ToSet(q) = Some(k)
      BY <1>11, <2>5 DEF V
    <2>8. Some(k + 1) = IF k \in S THEN Some(k) \cup {k} ELSE Some(k)
      BY <2>1
    <2>9. k \notin Some(k)
      OBVIOUS
    <2> HIDE DEF Some, P
    <2>10. q2 \in Seq(I)
      <3>1. k \in I /\ q \in Seq(I)
        BY <2>5, <2>7
      <3>2. Append(q, k) \in Seq(I)
        BY <3>1
      <3>3. QED
        BY <2>6, <3>1, <3>2
    <2>11. ToSet(q2) = Some(k + 1)
      <3>1. ToSet(Append(q, k)) = ToSet(q) \cup {k}
        <4>1. q \in Seq(I) /\ k \in I
          BY <2>1, <2>5, <2>7
        <4>2. QED
          BY <4>1, Appended
      <3>2. QED
        BY <2>6, <2>7, <2>8, <3>1
    <2>12. Distinct(q2)
      <3> SUFFICES ASSUME k \in S PROVE Distinct(Append(q, k))
        BY <2>6, <2>7
      <3>1. \A a \in 1 .. Len(q) : q[a] \in ToSet(q)
        BY <2>7, Members
      <3>2. PICK m, t : m = Len(q) /\ t = Append(q, k)
        OBVIOUS
      <3>3. /\ m \in Nat /\ Len(t) = m + 1 /\ t[m + 1] = k
            /\ \A a \in 1 .. m : t[a] = q[a]
        BY <2>7, <3>2
      <3>4. 1 .. m + 1 = (1 .. m) \cup {m + 1}
        BY <3>3
      <3>5. \A a \in 1 .. m : q[a] # k
        BY <2>7, <2>9, <3>1, <3>2
      <3>6. \A a, b \in 1 .. m : q[a] = q[b] => a = b
        BY <2>7, <3>2 DEF Distinct
      <3>7. Distinct(t)
        BY <3>3, <3>4, <3>5, <3>6 DEF Distinct
      <3>8. QED
        BY <3>2, <3>7
    <2>13. QED
      BY <2>1, <2>5, <2>10, <2>11, <2>12 DEF P, V
  <1>12. n \in P
    <2> HIDE DEF P
    <2>1. \A k \in 0 .. n : k \in P
      BY <1>10, <1>11, UpTo
    <2>2. QED
      BY <2>1
  <1>13. Some(n) = S
    OBVIOUS
  <1>14. run[n] = Picked(n, S)
    BY <1>1 DEF IsPicking
  <1>15. QED
    BY <1>12, <1>13, <1>14 DEF V

\* The roots are the ids that no reference is counted for.
LEMMA RootsAre ==
    ASSUME NEW g, IsGraph(g)
    PROVE  /\ Roots(g) \in Seq(Ids(g)) /\ Distinct(Roots(g))
           /\ \A v \in Ids(g) : v \in ToSet(Roots(g)) <=> InDegree(g, v) = 0
  <1>1. PICK n, S : n = g.n /\ S = {v \in Ids(g) : InDegree(g, v) = 0}
    OBVIOUS
  <1>2. n \in Nat /\ S \in SUBSET (0 .. n - 1) /\ Ids(g) = 0 .. n - 1
    BY <1>1, GraphRefs DEF Ids
  <1>3. /\ Picked(n, S) \in Seq(0 .. n - 1) /\ Distinct(Picked(n, S))
        /\ ToSet(Picked(n, S)) = S
    BY <1>2, PickedAre
  <1>4. Roots(g) = Picked(n, S)
    BY <1>1 DEF Roots
  <1>5. QED
    BY <1>1, <1>2, <1>3, <1>4

\* The loop starts with the roots queued and every reference pending.
LEMMA StartKeeps ==
    ASSUME NEW g, IsGraph(g)
    PROVE  Sorting(g, [indegree |-> [v \in Ids(g) |-> InDegree(g, v)],
                       queue    |-> Roots(g),
                       order    |-> <<>>], 0, Len(g.refs))
  <1> DEFINE deg == [v \in Ids(g) |-> InDegree(g, v)]
             q   == Roots(g)
             st  == [indegree |-> deg, queue |-> q, order |-> <<>>]
  <1>1. /\ q \in Seq(Ids(g)) /\ Distinct(q)
        /\ \A v \in Ids(g) : v \in ToSet(q) <=> InDegree(g, v) = 0
    BY RootsAre
  <1>2. /\ Len(g.refs) \in Nat /\ DOMAIN g.refs = 1 .. Len(g.refs) /\ 0 \in Nat
    BY GraphRefs
  <1>3. ToSet(<<>>) = {}
    BY DEF ToSet
  <1>4. ASSUME NEW v \in Ids(g)
        PROVE  /\ InDegree(g, v) = Cardinality(Pend(g, ToSet(<<>>), v))
               /\ InDegree(g, v) \in Nat
               /\ InDegree(g, v) = 0 <=> Pend(g, ToSet(<<>>), v) = {}
    <2>1. {r \in DOMAIN g.refs : g.refs[r].to = v} = Pend(g, ToSet(<<>>), v)
      BY <1>3 DEF Pend
    <2>2. InDegree(g, v) = Cardinality(Pend(g, ToSet(<<>>), v))
      BY <2>1, Zenon DEF InDegree
    <2>3. QED
      BY <1>2, <2>2, Counted
  <1>5. \A v \in Ids(g) : Cardinality(Left(g, 0, Len(g.refs), v)) = 0
    BY NothingLeft
  <1> HIDE DEF q
  <1>6. deg \in [Ids(g) -> Int]
    BY <1>4
  <1>7. st \in SortState(g)
    <2>1. <<>> \in Seq(Ids(g))
      OBVIOUS
    <2> HIDE DEF deg
    <2>2. QED
      BY <1>1, <1>6, <2>1 DEF SortState
  <1>8. Line(st) = q
    <2>1. <<>> \o q = q
      BY <1>1
    <2>2. QED
      BY <2>1 DEF Line
  <1>9. Fed(g, st)
    <2> SUFFICES ASSUME NEW a \in 1 .. Len(q), NEW r \in DOMAIN g.refs, g.refs[r].to = q[a]
                 PROVE  FALSE
      BY <1>8 DEF Fed
    <2>1. q[a] \in Ids(g) /\ q[a] \in ToSet(q)
      BY <1>1, Members
    <2>2. Pend(g, ToSet(<<>>), q[a]) = {}
      BY <1>1, <1>4, <2>1
    <2>3. QED
      BY <1>3, <2>2 DEF Pend
  <1>10. \A v \in Ids(g) : /\ deg[v] = Cardinality(Pend(g, ToSet(<<>>), v))
                                         + Cardinality(Left(g, 0, Len(g.refs), v))
                           /\ deg[v] = 0 <=> v \in ToSet(q)
    BY <1>1, <1>4, <1>5
  <1>11. st.indegree = deg /\ st.order = <<>>
    OBVIOUS
  <1> HIDE DEF deg
  <1>12. Sorting(g, st, 0, Len(g.refs))
    <2> HIDE DEF st
    <2>1. QED
      BY <1>1, <1>7, <1>8, <1>9, <1>10, <1>11 DEF Sorting
  <1>13. QED
    BY <1>12 DEF st, deg, q

\* The ids are as many as the node count says.
LEMMA IdsCount ==
    ASSUME NEW g, IsGraph(g)
    PROVE  IsFiniteSet(Ids(g)) /\ Cardinality(Ids(g)) = g.n
  <1>1. g.n \in Nat
    BY GraphRefs
  <1>2. PICK lo, hi \in Int : lo = 0 /\ hi = g.n - 1
    BY <1>1
  <1>3. lo <= hi + 1
    BY <1>1, <1>2
  <1>4. IsFiniteSet(lo .. hi) /\ Cardinality(lo .. hi) = hi - lo + 1
    BY <1>3, Interval
  <1>5. Ids(g) = lo .. hi
    BY <1>2 DEF Ids
  <1>6. IsFiniteSet(Ids(g)) /\ Cardinality(Ids(g)) = hi - lo + 1
    BY <1>4, <1>5, Zenon
  <1>7. QED
    BY <1>1, <1>2, <1>6

\* No more ids are queued than the graph has.
LEMMA LineFits ==
    ASSUME NEW g, IsGraph(g), NEW s \in Seq(Ids(g)), Distinct(s)
    PROVE  /\ Len(s) <= g.n
           /\ Len(s) = g.n => \A v \in Ids(g) : \E a \in 1 .. g.n : s[a] = v
  <1> DEFINE n == Len(s)
             T == {s[a] : a \in 1 .. n}
             f == [a \in 1 .. n |-> s[a]]
  <1>1. n \in Nat /\ \A a \in 1 .. n : s[a] \in Ids(g)
    OBVIOUS
  <1>2. g.n \in Nat
    BY GraphRefs
  <1>3. IsFiniteSet(Ids(g)) /\ Cardinality(Ids(g)) = g.n
    BY IdsCount
  <1>4. \A a, b \in 1 .. n : s[a] = s[b] => a = b
    BY DEF Distinct
  <1> HIDE DEF n
  <1>5. f \in [1 .. n -> T] /\ \A a, b \in 1 .. n : f[a] = f[b] => a = b
    BY <1>4
  <1>6. \A y \in T : \E a \in 1 .. n : f[a] = y
    OBVIOUS
  <1>7. IsFiniteSet(1 .. n) /\ Cardinality(1 .. n) = n
    BY <1>1, Segment
  <1>8. IsFiniteSet(T) /\ Cardinality(T) = n
    <2> HIDE DEF f, T
    <2>1. IsFiniteSet(T) /\ Cardinality(T) = Cardinality(1 .. n)
      BY <1>5, <1>6, <1>7, OneToOne
    <2>2. QED
      BY <1>7, <2>1
  <1>9. T \in SUBSET Ids(g)
    BY <1>1
  <1>10. Cardinality(T) <= Cardinality(Ids(g))
         /\ (Cardinality(T) = Cardinality(Ids(g)) => T = Ids(g))
    <2> HIDE DEF T
    <2>1. QED
      BY <1>3, <1>9, FS_Subset
  <1>11. n <= g.n /\ (n = g.n => T = Ids(g))
    <2> HIDE DEF T
    <2>1. QED
      BY <1>3, <1>8, <1>10
  <1>12. QED
    BY <1>11 DEF n

\* The answer, from the order the loop ended with.
Reached(g, order) ==
    IF NamesUnknown(g)            THEN [verdict |-> "unknown", order |-> <<>>]
    ELSE IF Len(order) # g.n      THEN [verdict |-> "cycle", order |-> order]
    ELSE [verdict |-> "ordered", order |-> order]

\* The state in which the loop starts.
StartOf(g) == [indegree |-> [v \in Ids(g) |-> InDegree(g, v)],
               queue    |-> Roots(g),
               order    |-> <<>>]

\* run[k] is the state of the sort after k turns of its loop.
IsSort(g, run) ==
    /\ run[0] = StartOf(g)
    /\ \A k \in 0 .. g.n - 1 :
          run[k + 1] = IF run[k].queue = <<>> THEN run[k] ELSE Turn(g, run[k])
    /\ \A k \in 0 .. g.n : Sorting(g, run[k], 0, Len(g.refs))
    /\ TopologicalSort(g) = Reached(g, run[g.n].order)

\* The sort goes turn by turn, the loop invariant kept.
LEMMA SortRuns ==
    ASSUME NEW g, IsGraph(g)
    PROVE  \E run : IsSort(g, run)
  <1> DEFINE n     == g.n
             m     == Len(g.refs)
             start == StartOf(g)
             V     == {st \in SortState(g) : Sorting(g, st, 0, m)}
             turns == [j \in 1 .. n |-> j]
             op(st) == IF st.queue = <<>> THEN st ELSE Turn(g, st)
             F     == [p \in (1 .. n) \X V |-> op(p[2])]
             c     == CHOOSE f : f = [s \in SUBSET (1 .. n) |->
                        IF s = {} THEN start ELSE op(f[s \ {Max(s)}])]
  <1>1. n \in Nat
    BY GraphRefs
  <1>2. TopologicalSort(g) = Reached(g, c[1 .. n].order)
    <2>1. DOMAIN turns = 1 .. n
      OBVIOUS
    <2>2. FoldLeft(LAMBDA st, turn : IF st.queue = <<>> THEN st ELSE Turn(g, st), start, turns)
            = c[1 .. n]
      BY <2>1, Zenon DEF FoldLeft, MapThenFoldSet
    <2>3. QED
      BY <2>2, Zenon DEF TopologicalSort, Reached, StartOf
  <1>3. start \in V
    BY StartKeeps DEF Sorting, StartOf
  <1>4. ASSUME NEW st \in V PROVE op(st) \in V
    BY TurnKeeps DEF Sorting
  <1> HIDE DEF start, n
  <1>5. F \in [(1 .. n) \X V -> V]
    <2> SUFFICES ASSUME NEW p \in (1 .. n) \X V
                 PROVE  op(p[2]) \in V
      OBVIOUS
    <2>1. p[2] \in V
      OBVIOUS
    <2> HIDE DEF op, V
    <2>2. QED
      BY <1>4, <2>1
  <1>6. PICK it : IsFold(n, V, start, F, it)
    <2> HIDE DEF F, V
    <2>1. QED
      BY <1>1, <1>3, <1>5, FoldExists
  <1>7. it = [s \in SUBSET (1 .. n) |-> IF s = {} THEN start ELSE op(it[s \ {Max(s)}])]
    <2> HIDE DEF V
    <2>1. it \in [SUBSET (1 .. n) -> V]
      BY <1>6 DEF IsFold
    <2>2. ASSUME NEW s \in SUBSET (1 .. n), s # {}
          PROVE  it[s] = op(it[s \ {Max(s)}])
      <3>1. Max(s) \in 1 .. n
        BY <1>1, <2>2, MaxIs
      <3>2. it[s \ {Max(s)}] \in V
        BY <2>1
      <3>3. it[s] = F[<<Max(s), it[s \ {Max(s)}]>>]
        BY <1>6, <2>2 DEF IsFold
      <3> HIDE DEF op
      <3>4. QED
        BY <3>1, <3>2, <3>3
    <2> HIDE DEF op
    <2>3. \A s \in SUBSET (1 .. n) : it[s] = IF s = {} THEN start ELSE op(it[s \ {Max(s)}])
      BY <1>6, <2>2 DEF IsFold
    <2>4. QED
      BY <2>1, <2>3
  <1>8. c = [s \in SUBSET (1 .. n) |-> IF s = {} THEN start ELSE op(c[s \ {Max(s)}])]
    BY <1>7, Zenon
  <1> HIDE DEF c
  <1>9. PICK run : run = [k \in 0 .. n |-> c[1 .. k]]
    OBVIOUS
  <1>10. \A k \in 0 .. n : run[k] = c[1 .. k]
    BY <1>9
  <1>11. 0 \in 0 .. n /\ n \in 0 .. n /\ 1 .. 0 = {} /\ \A k \in 0 .. n - 1 : k \in 0 .. n /\ k + 1 \in 0 .. n
    BY <1>1
  <1>12. run[0] = start
    <2>1. c[{}] = start
      BY <1>8
    <2>2. QED
      BY <1>10, <1>11, <2>1
  <1>13. ASSUME NEW k \in 0 .. n - 1 PROVE run[k + 1] = op(run[k])
    <2>1. k \in Nat /\ 1 .. k + 1 \in SUBSET (1 .. n) /\ 1 .. k + 1 # {}
      BY <1>1, PrefixOf
    <2>2. run[k] = c[1 .. k] /\ run[k + 1] = c[1 .. k + 1]
      BY <1>10, <1>11
    <2> HIDE DEF op
    <2>3. c[1 .. k + 1] = op(c[(1 .. k + 1) \ {Max(1 .. k + 1)}])
      BY <1>8, <2>1
    <2>4. QED
      BY <2>1, <2>2, <2>3, LastOf
  <1> DEFINE P == {k \in 0 .. n : run[k] \in V}
  <1>14. 0 \in P
    <2> HIDE DEF V
    <2>1. QED
      BY <1>3, <1>11, <1>12
  <1>15. ASSUME NEW k \in 0 .. n - 1, k \in P PROVE k + 1 \in P
    <2> HIDE DEF V, op
    <2>1. QED
      BY <1>4, <1>11, <1>13, <1>15
  <1>16. \A k \in 0 .. n : k \in P
    <2> HIDE DEF P
    <2>1. QED
      BY <1>1, <1>14, <1>15, UpTo
  <1>17. \A k \in 0 .. n : Sorting(g, run[k], 0, m)
    BY <1>16
  <1>18. TopologicalSort(g) = Reached(g, run[n].order)
    BY <1>2, <1>10, <1>11
  <1>19. IsSort(g, run)
    BY <1>12, <1>13, <1>17, <1>18 DEF IsSort, start, n
  <1>20. QED
    BY <1>19

\* After k turns, k ids have been emitted or none is queued.
LEMMA TurnsEmit ==
    ASSUME NEW g, IsGraph(g), NEW run, IsSort(g, run)
    PROVE  \A k \in 0 .. g.n : run[k].queue = <<>> \/ Len(run[k].order) = k
  <1> DEFINE P == {k \in 0 .. g.n : run[k].queue = <<>> \/ Len(run[k].order) = k}
  <1>1. g.n \in Nat
    BY GraphRefs
  <1>2. 0 \in P
    <2>1. run[0].order = <<>>
      BY DEF IsSort, StartOf
    <2>2. QED
      BY <1>1, <2>1
  <1>3. ASSUME NEW k \in 0 .. g.n - 1, k \in P PROVE k + 1 \in P
    <2>1. PICK x : x = run[k]
      OBVIOUS
    <2>2. /\ run[k + 1] = IF x.queue = <<>> THEN x ELSE Turn(g, x)
          /\ Sorting(g, x, 0, Len(g.refs))
      BY <1>1, <2>1 DEF IsSort
    <2>3. CASE x.queue = <<>>
      BY <1>1, <2>2, <2>3
    <2>4. CASE x.queue # <<>>
      <3>1. Len(Turn(g, x).order) = Len(x.order) + 1
        BY <2>2, <2>4, TurnKeeps
      <3>2. QED
        BY <1>1, <1>3, <2>1, <2>2, <2>4, <3>1
    <2>5. QED
      BY <2>3, <2>4
  <1> HIDE DEF P
  <1>4. \A k \in 0 .. g.n : k \in P
    BY <1>1, <1>2, <1>3, UpTo
  <1>5. QED
    BY <1>4 DEF P

\* The loop ends with an empty queue, the loop invariant kept.
LEMMA SortEnds ==
    ASSUME NEW g, IsGraph(g)
    PROVE  \E end : /\ TopologicalSort(g) = Reached(g, end.order)
                    /\ Sorting(g, end, 0, Len(g.refs)) /\ end.queue = <<>>
  <1> DEFINE n == g.n
             m == Len(g.refs)
  <1>1. n \in Nat
    BY GraphRefs
  <1>2. PICK run : IsSort(g, run)
    BY SortRuns
  <1>3. PICK end : end = run[n]
    OBVIOUS
  <1>4. /\ end \in SortState(g) /\ Sorting(g, end, 0, m)
        /\ end.queue = <<>> \/ Len(end.order) = n
    <2>1. n \in 0 .. n
      BY <1>1
    <2>2. Sorting(g, end, 0, m)
      BY <1>2, <1>3, <2>1 DEF IsSort
    <2>3. QED
      BY <1>2, <1>3, <2>1, <2>2, TurnsEmit DEF Sorting
  <1>5. end.queue = <<>>
    <2>1. /\ Len(end.order) \in Nat /\ Len(end.queue) \in Nat
          /\ Len(Line(end)) = Len(end.order) + Len(end.queue)
          /\ Line(end) \in Seq(Ids(g)) /\ end.queue \in Seq(Ids(g))
      BY <1>4, LineIs
    <2>2. Len(Line(end)) <= n
      <3>1. Distinct(Line(end))
        BY <1>4 DEF Sorting
      <3>2. QED
        BY <2>1, <3>1, LineFits DEF n
    <2>3. Len(end.order) = n => Len(end.queue) = 0
      BY <1>1, <2>1, <2>2
    <2>4. Len(end.queue) = 0 => end.queue = <<>>
      BY <2>1
    <2>5. QED
      BY <1>4, <2>3, <2>4
  <1>6. QED
    BY <1>2, <1>3, <1>4, <1>5 DEF IsSort

\* An order of all the nodes in which each follows the nodes it reads.
IsTopological(g, order) ==
    /\ order \in Seq(Ids(g)) /\ Len(order) = g.n
    /\ Distinct(order)
    /\ \A v \in Ids(g) : \E a \in 1 .. g.n : order[a] = v
    /\ \A a \in 1 .. g.n : \A r \in DOMAIN g.refs : g.refs[r].to = order[a] =>
          \E k \in 1 .. g.n : k < a /\ order[k] = g.refs[r].from

\* Nodes each of which reads another one of them, or itself.
Entangled(g, S)  == S # {} /\ \A v \in S : \E r \in DOMAIN g.refs :
                                  g.refs[r].to = v /\ g.refs[r].from \in S
HasCycle(g)     == \E S \in SUBSET Ids(g) : Entangled(g, S)

\* A graph with a topological order has no cycle.
LEMMA OrderedIsAcyclic ==
    ASSUME NEW g, IsGraph(g), NEW order, IsTopological(g, order)
    PROVE  ~HasCycle(g)
  <1> SUFFICES ASSUME NEW S \in SUBSET Ids(g), Entangled(g, S) PROVE FALSE
    BY DEF HasCycle
  <1> DEFINE A == {a \in 1 .. g.n : order[a] \in S}
  <1>1. A \in SUBSET Nat
    OBVIOUS
  <1>2. A # {}
    BY DEF Entangled, IsTopological
  <1>3. PICK a \in A : \A k \in A : a <= k
    BY <1>1, <1>2, Least
  <1>4. PICK r \in DOMAIN g.refs : g.refs[r].to = order[a] /\ g.refs[r].from \in S
    BY <1>3 DEF Entangled
  <1>5. PICK k \in 1 .. g.n : k < a /\ order[k] = g.refs[r].from
    BY <1>3, <1>4 DEF IsTopological
  <1>6. k \in A
    BY <1>4, <1>5
  <1>7. k \in Nat /\ a \in Nat /\ a <= k /\ k < a
    BY <1>1, <1>3, <1>5, <1>6
  <1>8. QED
    BY <1>7

\* TopologicalSort, on every graph: it complains of an unknown id exactly when
\* a reference leaves the graph, of a cycle exactly when there is one, and else
\* gives all the nodes in an order in which each follows the nodes it reads.
THEOREM SortIsTopological ==
    ASSUME NEW g, IsGraph(g)
    PROVE  LET sort == TopologicalSort(g)
           IN  /\ sort.verdict \in {"unknown", "cycle", "ordered"}
               /\ sort.verdict = "unknown" <=> NamesUnknown(g)
               /\ sort.verdict = "cycle"   <=> ~NamesUnknown(g) /\ HasCycle(g)
               /\ sort.verdict = "ordered" => IsTopological(g, sort.order)
  <1>1. PICK end : /\ TopologicalSort(g) = Reached(g, end.order)
                   /\ Sorting(g, end, 0, Len(g.refs)) /\ end.queue = <<>>
    BY SortEnds
  <1>2. PICK sort, order : sort = TopologicalSort(g) /\ order = end.order
    OBVIOUS
  <1>3. sort = Reached(g, order)
    BY <1>1, <1>2
  <1>4. /\ order \in Seq(Ids(g)) /\ Len(order) \in Nat /\ Line(end) = order
        /\ end \in SortState(g)
    <2>1. end \in SortState(g)
      BY <1>1 DEF Sorting
    <2>2. end.order \in Seq(Ids(g)) /\ Len(end.order) \in Nat
      BY <2>1, LineIs
    <2>3. order \o <<>> = order
      BY <1>2, <2>2
    <2>4. QED
      BY <1>1, <1>2, <2>1, <2>2, <2>3 DEF Line
  <1>5. Distinct(order)
    BY <1>1, <1>4 DEF Sorting
  <1>6. /\ g.n \in Nat /\ Len(g.refs) \in Nat /\ DOMAIN g.refs = 1 .. Len(g.refs)
        /\ \A r \in DOMAIN g.refs : g.refs[r].to \in Ids(g) /\ g.refs[r].from \in Nat
    BY GraphRefs
  <1>7. \A a \in 1 .. Len(order) : \A r \in DOMAIN g.refs : g.refs[r].to = order[a] =>
           \E k \in 1 .. Len(order) : k < a /\ order[k] = g.refs[r].from
    BY <1>1, <1>2, <1>4 DEF Sorting, Fed
  <1>8. ASSUME Len(order) = g.n PROVE IsTopological(g, order)
    <2>1. \A v \in Ids(g) : \E a \in 1 .. g.n : order[a] = v
      BY <1>4, <1>5, <1>8, LineFits
    <2>2. QED
      BY <1>4, <1>5, <1>7, <1>8, <2>1 DEF IsTopological
  <1>9. ASSUME Len(order) # g.n, ~NamesUnknown(g) PROVE HasCycle(g)
    <2> DEFINE S == Ids(g) \ ToSet(order)
    <2>1. S # {}
      <3> SUFFICES ASSUME Ids(g) \subseteq ToSet(order) PROVE FALSE
        OBVIOUS
      <3> DEFINE f == [a \in 1 .. Len(order) |-> order[a]]
      <3>1. \A a \in 1 .. Len(order) : order[a] \in Ids(g)
        BY <1>4, Members
      <3>2. \A v \in Ids(g) : \E a \in 1 .. Len(order) : order[a] = v
        BY <1>4, Members
      <3>3. IsFiniteSet(1 .. Len(order)) /\ Cardinality(1 .. Len(order)) = Len(order)
        BY <1>4, Segment
      <3>4. f \in [1 .. Len(order) -> Ids(g)]
        BY <3>1
      <3>5. \A a, b \in 1 .. Len(order) : f[a] = f[b] => a = b
        BY <1>5 DEF Distinct
      <3>6. \A v \in Ids(g) : \E a \in 1 .. Len(order) : f[a] = v
        BY <3>2
      <3>7. Cardinality(Ids(g)) = Len(order)
        <4>1. PICK T, n : T = 1 .. Len(order) /\ n = Len(order)
          OBVIOUS
        <4> HIDE DEF f
        <4>2. Cardinality(Ids(g)) = Cardinality(T)
          BY <3>3, <3>4, <3>5, <3>6, <4>1, OneToOne
        <4>3. QED
          BY <3>3, <4>1, <4>2
      <3>8. Cardinality(Ids(g)) = g.n
        BY IdsCount
      <3>9. QED
        BY <1>9, <3>7, <3>8
    <2>2. ASSUME NEW v \in S
          PROVE  \E r \in DOMAIN g.refs : g.refs[r].to = v /\ g.refs[r].from \in S
      <3>1. end.indegree[v] # 0
        BY <1>1, <1>4 DEF Sorting
      <3>2. end.indegree[v] = Cardinality(Pend(g, ToSet(order), v))
                                + Cardinality(Left(g, 0, Len(g.refs), v))
        BY <1>1, <1>2 DEF Sorting
      <3>3. Cardinality(Left(g, 0, Len(g.refs), v)) = 0
        BY NothingLeft
      <3>4. /\ Cardinality(Pend(g, ToSet(order), v)) \in Nat
            /\ Cardinality(Pend(g, ToSet(order), v)) = 0 <=> Pend(g, ToSet(order), v) = {}
        BY <1>6, Counted
      <3>5. Pend(g, ToSet(order), v) # {}
        BY <3>1, <3>2, <3>3, <3>4
      <3>6. PICK r \in DOMAIN g.refs : g.refs[r].to = v /\ g.refs[r].from \notin ToSet(order)
        BY <3>5 DEF Pend
      <3>7. g.refs[r].from \in Ids(g)
        BY <1>6, <1>9, <3>6 DEF NamesUnknown, Ids
      <3>8. QED
        BY <3>6, <3>7
    <2>3. QED
      BY <2>1, <2>2 DEF HasCycle, Entangled
  <1>10. /\ sort.verdict = IF NamesUnknown(g) THEN "unknown"
                           ELSE IF Len(order) # g.n THEN "cycle" ELSE "ordered"
         /\ sort.verdict = "ordered" => sort.order = order
    BY <1>3 DEF Reached
  <1>11. Len(order) = g.n => ~HasCycle(g)
    BY <1>8, OrderedIsAcyclic
  <1>12. QED
    BY <1>2, <1>8, <1>9, <1>10, <1>11
=============================================================================
