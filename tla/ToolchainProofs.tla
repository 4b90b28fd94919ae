--------------------------- MODULE ToolchainProofs ---------------------------
(***************************************************************************)
(* Proofs about loading a file and compiling it: the operators a file can  *)
(* name have the attributes the code reads, the shapes inferred for them   *)
(* are shapes, the loader builds a sound graph of which every node reads   *)
(* older ones, and so the source the compiler writes is closed.            *)
(***************************************************************************)
EXTENDS Toolchain, ComputationGraphProofs

-----------------------------------------------------------------------------
(* The operators a file can name, and the shapes that are inferred *)

Pair(a) == a[1] \in Nat /\ a[2] \in Nat

\* The attributes a kind has are numbers and lists of them.
IsOp(op) ==
    /\ "kind" \in DOMAIN op
    /\ op.kind \in {"Conv2d"} \cup Pools => /\ {"strides", "padding"} \subseteq DOMAIN op
                                            /\ Pair(op.strides) /\ Pair(op.padding)
    /\ op.kind \in Pools     => "kernel" \in DOMAIN op /\ Pair(op.kernel)
    /\ op.kind = "Reshape"   => op.shape \in Seq(Nat)
    /\ op.kind = "Transpose" => op.perm \in Seq(Nat)
    /\ op.kind \in {"Flatten", "Concat"} => op.axis \in Int

Tensors == [name : STRING, dims : Seq(Int), type : STRING, data : Seq(Int)]

LEMMA AttrsAre ==
    ASSUME NEW node, IsNode(node), NEW attr \in DOMAIN node.attrs
    PROVE  /\ IntsOf(node.attrs[attr]) \in Seq(Int)
           /\ node.attrs[attr].i \in Int
  BY DEF IsNode, IntsOf

\* A pair is read from an attribute or is the one given.
LEMMA PairOfIs ==
    ASSUME NEW node, IsNode(node), NEW attr, NEW default, default[1] \in Int, default[2] \in Int
    PROVE  PairOf(node, attr, default)[1] \in Int /\ PairOf(node, attr, default)[2] \in Int
  <1>1. CASE attr \in DOMAIN node.attrs
    <2>1. PICK v : v = IntsOf(node.attrs[attr])
      OBVIOUS
    <2>2. v \in Seq(Int)
      BY <1>1, <2>1, AttrsAre
    <2>3. ASSUME Len(v) >= 2 PROVE SubSeq(v, 1, 2)[1] \in Int /\ SubSeq(v, 1, 2)[2] \in Int
      <3>1. SubSeq(v, 1, 2)[1] = v[1] /\ SubSeq(v, 1, 2)[2] = v[2] /\ v[1] \in Int /\ v[2] \in Int
        BY <2>2, <2>3
      <3>2. QED
        BY <3>1
    <2>4. PairOf(node, attr, default) = IF Len(v) < 2 THEN default ELSE SubSeq(v, 1, 2)
      BY <1>1, <2>1 DEF PairOf
    <2>4a. Len(v) \in Nat
      BY <2>2
    <2>5. CASE Len(v) < 2
      BY <2>4, <2>5
    <2>6. CASE Len(v) >= 2
      BY <2>3, <2>4, <2>4a, <2>6
    <2>7. QED
      BY <2>4a, <2>5, <2>6
  <1>2. CASE attr \notin DOMAIN node.attrs
    BY <1>2 DEF PairOf
  <1>3. QED
    BY <1>1, <1>2

\* Negative entries of a list become 0.
LEMMA AtLeastZero ==
    ASSUME NEW v \in Seq(Int)
    PROVE  [j \in DOMAIN v |-> AtLeast(0, v[j])] \in Seq(Nat)
  <1>1. \A j \in 1 .. Len(v) : AtLeast(0, v[j]) \in Nat
    BY DEF AtLeast
  <1>2. Len(v) \in Nat /\ DOMAIN v = 1 .. Len(v)
    OBVIOUS
  <1>3. QED
    BY <1>1, <1>2

LEMMA ListOfIs ==
    ASSUME NEW node, IsNode(node), NEW attr
    PROVE  ListOf(node, attr) \in Seq(Nat)
  BY AttrsAre, AtLeastZero DEF ListOf

\* What SelectInSeq finds is a position, or 0.
LEMMA TargetShapeIs ==
    ASSUME NEW node, IsNode(node), NEW inits \in Seq(Tensors)
    PROVE  TargetShape(node, inits) \in Seq(Nat)
  <1> DEFINE found == {j \in 1 .. Len(inits) : inits[j].name = node.ins[2]}
             p     == SelectInSeq(inits, LAMBDA it : it.name = node.ins[2])
  <1>3. \A j \in 1 .. Len(inits) : inits[j].data \in Seq(Int)
    <2>1. PICK R : R = Tensors
      OBVIOUS
    <2>2. \A j \in 1 .. Len(inits) : inits[j] \in R
      BY <2>1
    <2>3. QED
      BY <2>1, <2>2 DEF Tensors
  <1>4. p = IF found = {} THEN 0 ELSE Min(found)
    BY DEF SelectInSeq
  <1>5. found # {} => Min(found) \in found
    <2>1. found \in SUBSET Nat
      OBVIOUS
    <2> HIDE DEF found
    <2>2. QED
      BY <2>1, MinIs
  <1> HIDE DEF p
  <1>6. p # 0 => inits[p].data \in Seq(Int)
    BY <1>3, <1>4, <1>5
  <1>7. ListOf(node, "shape") \in Seq(Nat)
    BY ListOfIs
  <1>8. p # 0 => [j \in DOMAIN inits[p].data |-> AtLeast(0, inits[p].data[j])] \in Seq(Nat)
    BY <1>6, AtLeastZero
  <1>9. TargetShape(node, inits) = IF "shape" \in DOMAIN node.attrs THEN ListOf(node, "shape")
                                   ELSE IF Len(node.ins) < 2 THEN <<>>
                                   ELSE IF p = 0 THEN <<>>
                                   ELSE IF inits[p].type # "i64" THEN <<>>
                                   ELSE [j \in DOMAIN inits[p].data |-> AtLeast(0, inits[p].data[j])]
    BY DEF TargetShape, p
  <1>10. <<>> \in Seq(Nat)
    OBVIOUS
  <1>11. QED
    BY <1>7, <1>8, <1>9, <1>10

\* Two fields of an operator are replaced, one after the other.
LEMMA ConvWindowed ==
    ASSUME NEW node, NEW op, NEW kind, NEW s, NEW p,
           op = [kind |-> kind, strides |-> s, padding |-> p]
    PROVE  Windowed(op, node)
             = [kind |-> kind, strides |-> WindowStrides(node), padding |-> WindowPadding(node)]
  <1>1. PICK x, y, op1 : x = WindowStrides(node) /\ y = WindowPadding(node) /\
           op1 = [op EXCEPT !.strides = x]
    OBVIOUS
  <1>2. PICK op2 : op2 = [op1 EXCEPT !.padding = y]
    OBVIOUS
  <1>3. Windowed(op, node) = op2
    BY <1>1, <1>2, Zenon DEF Windowed
  <1>4. op2 = [kind |-> kind, strides |-> x, padding |-> y]
    BY <1>1, <1>2
  <1>5. QED
    BY <1>1, <1>3, <1>4, Zenon

LEMMA PoolWindowed ==
    ASSUME NEW node, NEW op, NEW kind, NEW k, NEW s, NEW p,
           op = [kind |-> kind, kernel |-> k, strides |-> s, padding |-> p]
    PROVE  Windowed(op, node)
             = [kind |-> kind, kernel |-> k, strides |-> WindowStrides(node), padding |-> WindowPadding(node)]
  <1>1. PICK x, y, op1 : x = WindowStrides(node) /\ y = WindowPadding(node) /\
           op1 = [op EXCEPT !.strides = x]
    OBVIOUS
  <1>2. PICK op2 : op2 = [op1 EXCEPT !.padding = y]
    OBVIOUS
  <1>3. Windowed(op, node) = op2
    BY <1>1, <1>2, Zenon DEF Windowed
  <1>4. op2 = [kind |-> kind, kernel |-> k, strides |-> x, padding |-> y]
    BY <1>1, <1>2
  <1>5. QED
    BY <1>1, <1>3, <1>4, Zenon

LEMMA WindowIs ==
    ASSUME NEW node, IsNode(node)
    PROVE  Pair(WindowStrides(node)) /\ Pair(WindowPadding(node)) /\ Pair(KernelOf(node))
  <1>1. Pair(WindowStrides(node))
    <2>1. PICK s : s = PairOf(node, "strides", <<1, 1>>)
      OBVIOUS
    <2>2. s[1] \in Int /\ s[2] \in Int
      BY <2>1, PairOfIs
    <2>3. QED
      BY <2>1, <2>2 DEF WindowStrides, Pair, AtLeast
  <1>2. Pair(WindowPadding(node))
    <2>1. PICK s : s = PairOf(node, "pads", <<0, 0>>)
      OBVIOUS
    <2>2. s[1] \in Int /\ s[2] \in Int
      BY <2>1, PairOfIs
    <2>3. QED
      BY <2>1, <2>2 DEF WindowPadding, Pair, AtLeast
  <1>3. Pair(KernelOf(node))
    <2>1. PICK s, m : s = PairOf(node, "kernel_shape", <<0, 2>>) /\ m = UsizeMax + 1
      OBVIOUS
    <2>2. s[1] \in Int /\ s[2] \in Int
      BY <2>1, PairOfIs
    <2>3. m \in Nat /\ m > 0
      BY <2>1, LoaderAssumption
    <2>4. PICK k : k = [d \in {1, 2} |-> s[d] % m]
      OBVIOUS
    <2>5. k[1] \in Nat /\ k[2] \in Nat
      BY <2>2, <2>3, <2>4
    <2>6. KernelOf(node) = IF k = <<0, 0>> THEN <<2, 2>> ELSE k
      BY <2>1, <2>4 DEF KernelOf
    <2>7. QED
      BY <2>5, <2>6 DEF Pair
  <1>4. QED
    BY <1>1, <1>2, <1>3

\* build_operator
LEMMA BuildOperatorIs ==
    ASSUME NEW node, IsNode(node), NEW inits \in Seq(Tensors)
    PROVE  IsOp(BuildOperator(node, inits))
  <1>1. PICK type, x, y, k :
           type = node.type /\ x = WindowStrides(node) /\ y = WindowPadding(node) /\ k = KernelOf(node)
    OBVIOUS
  <1>2. Pair(x) /\ Pair(y) /\ Pair(k)
    BY <1>1, WindowIs
  <1>3. CASE type = "Conv"
    <2>1. PICK kind, one, zero :
             /\ kind = "Conv2d" /\ one = <<1, 1>> /\ zero = <<0, 0>>
             /\ MapOp(type) = [kind |-> kind, strides |-> one, padding |-> zero]
      BY <1>3 DEF MapOp, Arithmetic
    <2>2. BuildOperator(node, inits) = Windowed(MapOp(type), node)
      BY <1>1, <1>3, Zenon DEF BuildOperator
    <2>3. BuildOperator(node, inits) = [kind |-> kind, strides |-> x, padding |-> y]
      BY <1>1, <2>1, <2>2, ConvWindowed
    <2>4. QED
      BY <1>2, <2>1, <2>3 DEF IsOp, Pools
  <1>4. CASE type \in {"MaxPool", "AveragePool"}
    <2>1. PICK kind, two, zero :
             /\ kind \in Pools /\ two = <<2, 2>> /\ zero = <<0, 0>>
             /\ MapOp(type) = [kind |-> kind, kernel |-> two, strides |-> two, padding |-> zero]
      <3>1. CASE type = "MaxPool"
        <4>1. MapOp(type) = Pool("MaxPool2d", 2, 2)
          BY <3>1 DEF MapOp, Arithmetic
        <4>2. QED
          BY <4>1 DEF Pool, Pools
      <3>2. CASE type = "AveragePool"
        <4>1. MapOp(type) = Pool("AveragePool2d", 2, 2)
          BY <3>2 DEF MapOp, Arithmetic
        <4>2. QED
          BY <4>1 DEF Pool, Pools
      <3>3. QED
        BY <1>4, <3>1, <3>2
    <2>2. PICK w : w = Windowed(MapOp(type), node)
      OBVIOUS
    <2>3. w = [kind |-> kind, kernel |-> two, strides |-> x, padding |-> y]
      BY <1>1, <2>1, <2>2, PoolWindowed
    <2>4. BuildOperator(node, inits) = [w EXCEPT !.kernel = k]
      BY <1>1, <1>4, <2>2, Zenon DEF BuildOperator
    <2>5. BuildOperator(node, inits) = [kind |-> kind, kernel |-> k, strides |-> x, padding |-> y]
      BY <2>3, <2>4
    <2>6. QED
      BY <1>2, <2>1, <2>5 DEF IsOp, Pools
  <1>5. CASE type \in {"Softmax", "Flatten", "Concat"}
    <2>1. PICK n \in Int : MapOp(type) = [kind |-> type, axis |-> n]
      <3>1. type = "Softmax" => MapOp(type) = [kind |-> type, axis |-> -1]
        BY DEF MapOp, Arithmetic
      <3>2. type \in {"Flatten", "Concat"} => MapOp(type) = [kind |-> type, axis |-> 1]
        BY DEF MapOp, Arithmetic
      <3>3. -1 \in Int /\ 1 \in Int
        OBVIOUS
      <3>4. QED
        BY <1>5, <3>1, <3>2, <3>3, Zenon
    <2>2. AxisOf(node, n) \in Int
      BY <2>1, AttrsAre DEF AxisOf
    <2>3. BuildOperator(node, inits) = [MapOp(type) EXCEPT !.axis = AxisOf(node, @)]
      BY <1>1, <1>5, Zenon DEF BuildOperator
    <2>4. BuildOperator(node, inits) = [kind |-> type, axis |-> AxisOf(node, n)]
      BY <2>1, <2>3
    <2>5. QED
      BY <1>5, <2>2, <2>4 DEF IsOp, Pools
  <1>6. CASE type = "Transpose"
    <2>1. MapOp(type) = [kind |-> type, perm |-> <<>>]
      BY <1>6 DEF MapOp, Arithmetic
    <2>2. BuildOperator(node, inits) = [MapOp(type) EXCEPT !.perm = ListOf(node, "perm")]
      BY <1>1, <1>6, Zenon DEF BuildOperator
    <2>3. BuildOperator(node, inits) = [kind |-> type, perm |-> ListOf(node, "perm")]
      BY <2>1, <2>2
    <2>4. QED
      BY <1>6, <2>3, ListOfIs DEF IsOp, Pools
  <1>7. CASE type = "Reshape"
    <2>1. MapOp(type) = [kind |-> type, shape |-> <<>>]
      BY <1>7 DEF MapOp, Arithmetic
    <2>2. BuildOperator(node, inits) = [MapOp(type) EXCEPT !.shape = TargetShape(node, inits)]
      BY <1>1, <1>7, Zenon DEF BuildOperator
    <2>3. BuildOperator(node, inits) = [kind |-> type, shape |-> TargetShape(node, inits)]
      BY <2>1, <2>2
    <2>4. QED
      BY <1>7, <2>3, TargetShapeIs DEF IsOp, Pools
  <1>8. CASE type \notin {"Conv", "MaxPool", "AveragePool", "Softmax", "Flatten", "Concat",
                          "Transpose", "Reshape"}
    <2>1. BuildOperator(node, inits) = MapOp(type)
      BY <1>1, <1>8 DEF BuildOperator
    <2>2. MapOp(type).kind \notin {"Conv2d", "MaxPool2d", "Reshape", "Transpose", "Flatten", "Concat"}
      BY <1>8 DEF MapOp, Arithmetic, Pool
    <2>3. MapOp(type).kind = "AveragePool2d" => MapOp(type) = Pool("AveragePool2d", 0, 1)
      BY <1>8 DEF MapOp, Arithmetic, Pool
    <2>4. "kind" \in DOMAIN MapOp(type)
      BY <1>8 DEF MapOp, Arithmetic, Pool
    <2>5. QED
      BY <2>1, <2>2, <2>3, <2>4 DEF IsOp, Pools, Pool, Pair
  <1>9. QED
    BY <1>3, <1>4, <1>5, <1>6, <1>7, <1>8

\* A fold over 1 .. n whose steps stay in V ends there.
LEMMA FoldStays ==
    ASSUME NEW n \in Nat, NEW V, NEW c, c[{}] \in V,
           \A s \in SUBSET (1 .. n) : s # {} /\ c[s \ {Max(s)}] \in V => c[s] \in V
    PROVE  c[1 .. n] \in V
  <1> DEFINE P == {k \in 0 .. n : c[1 .. k] \in V}
  <1>1. 0 \in P
    <2>1. 1 .. 0 = {} /\ 0 \in 0 .. n
      OBVIOUS
    <2>2. QED
      BY <2>1
  <1>2. ASSUME NEW k \in 0 .. n - 1, k \in P PROVE k + 1 \in P
    <2>1. k \in Nat /\ 1 .. k + 1 \in SUBSET (1 .. n) /\ 1 .. k + 1 # {}
      BY PrefixOf
    <2>2. c[(1 .. k + 1) \ {Max(1 .. k + 1)}] \in V
      BY <1>2, <2>1, LastOf
    <2>3. c[1 .. k + 1] \in V
      BY <2>1, <2>2
    <2>4. QED
      BY <2>1, <2>3
  <1> HIDE DEF P
  <1>3. \A k \in 0 .. n : k \in P
    BY <1>1, <1>2, UpTo
  <1>4. QED
    BY <1>3 DEF P

\* The product of the dimensions of a shape.
LEMMA TimesIs ==
    ASSUME NEW dims \in Seq(Nat)
    PROVE  Times(dims) \in Nat
  <1> DEFINE n == Len(dims)
             F == [p \in (1 .. n) \X Nat |-> p[2] * dims[p[1]]]
             c == CHOOSE f : f = [s \in SUBSET (1 .. n) |->
                    IF s = {} THEN 1 ELSE f[s \ {Max(s)}] * dims[Max(s)]]
  <1>1. n \in Nat /\ DOMAIN dims = 1 .. n /\ \A j \in 1 .. n : dims[j] \in Nat
    OBVIOUS
  <1>2. Times(dims) = c[1 .. n]
    BY <1>1, Zenon DEF Times, FoldLeft, MapThenFoldSet
  <1> HIDE DEF n
  <1>3. F \in [(1 .. n) \X Nat -> Nat]
    <2>1. \A p \in (1 .. n) \X Nat : p[2] \in Nat /\ dims[p[1]] \in Nat
      BY <1>1
    <2>2. \A p \in (1 .. n) \X Nat : p[2] * dims[p[1]] \in Nat
      BY <2>1
    <2>3. QED
      BY <2>2
  <1>4. PICK it : IsFold(n, Nat, 1, F, it)
    <2> HIDE DEF F
    <2> QED BY <1>1, <1>3, FoldExists
  <1>5. \A s \in SUBSET (1 .. n) : s # {} => Max(s) \in 1 .. n
    BY <1>1, MaxIs
  <1>6. it = [s \in SUBSET (1 .. n) |->
                 IF s = {} THEN 1 ELSE it[s \ {Max(s)}] * dims[Max(s)]]
    <2>1. it \in [SUBSET (1 .. n) -> Nat]
      BY <1>4 DEF IsFold
    <2>2. ASSUME NEW s \in SUBSET (1 .. n), s # {}
          PROVE  it[s] = it[s \ {Max(s)}] * dims[Max(s)]
      <3>1. it[s] = F[<<Max(s), it[s \ {Max(s)}]>>]
        BY <1>4, <2>2 DEF IsFold
      <3>2. it[s \ {Max(s)}] \in Nat
        BY <2>1
      <3>3. QED
        BY <1>5, <2>2, <3>1, <3>2
    <2>3. \A s \in SUBSET (1 .. n) :
             it[s] = IF s = {} THEN 1 ELSE it[s \ {Max(s)}] * dims[Max(s)]
      BY <1>4, <2>2 DEF IsFold
    <2>4. QED
      BY <2>1, <2>3
  <1>7. c = [s \in SUBSET (1 .. n) |->
                IF s = {} THEN 1 ELSE c[s \ {Max(s)}] * dims[Max(s)]]
    BY <1>6, Zenon
  <1> HIDE DEF c
  <1>8. c[{}] \in Nat
    BY <1>7
  <1>9. ASSUME NEW s \in SUBSET (1 .. n), s # {}, c[s \ {Max(s)}] \in Nat PROVE c[s] \in Nat
    <2>1. c[s] = c[s \ {Max(s)}] * dims[Max(s)]
      BY <1>7, <1>9
    <2>2. dims[Max(s)] \in Nat
      BY <1>1, <1>5, <1>9
    <2>3. QED
      BY <1>9, <2>1, <2>2
  <1>10. c[1 .. n] \in Nat
    BY <1>1, <1>8, <1>9, FoldStays
  <1>11. QED
    BY <1>2, <1>10

\* The columns of some operands together.
LEMMA ColumnsAre ==
    ASSUME NEW in \in Seq(Seq(Nat)), NEW ax \in Nat \ {0}
    PROVE  Columns(in, ax) \in Nat
  <1> DEFINE n == Len(in)
             add(acc, d) == IF Len(d) >= ax THEN acc + d[ax] ELSE acc
             F == [p \in (1 .. n) \X Nat |-> add(p[2], in[p[1]])]
             c == CHOOSE f : f = [s \in SUBSET (1 .. n) |->
                    IF s = {} THEN 0 ELSE add(f[s \ {Max(s)}], in[Max(s)])]
  <1>1. n \in Nat /\ DOMAIN in = 1 .. n /\ \A j \in 1 .. n : in[j] \in Seq(Nat)
    OBVIOUS
  <1>2. Columns(in, ax) = c[1 .. n]
    BY <1>1, Zenon DEF Columns, FoldLeft, MapThenFoldSet
  <1>2a. ASSUME NEW acc \in Nat, NEW d \in Seq(Nat) PROVE add(acc, d) \in Nat
    OBVIOUS
  <1> HIDE DEF n, add
  <1>3. F \in [(1 .. n) \X Nat -> Nat]
    <2>1. \A p \in (1 .. n) \X Nat : p[2] \in Nat /\ in[p[1]] \in Seq(Nat)
      BY <1>1
    <2>2. \A p \in (1 .. n) \X Nat : add(p[2], in[p[1]]) \in Nat
      BY <1>2a, <2>1
    <2>3. QED
      BY <2>2
  <1>4. PICK it : IsFold(n, Nat, 0, F, it)
    <2> HIDE DEF F
    <2> QED BY <1>1, <1>3, FoldExists
  <1>5. \A s \in SUBSET (1 .. n) : s # {} => Max(s) \in 1 .. n
    BY <1>1, MaxIs
  <1>6. it = [s \in SUBSET (1 .. n) |->
                 IF s = {} THEN 0 ELSE add(it[s \ {Max(s)}], in[Max(s)])]
    <2>1. it \in [SUBSET (1 .. n) -> Nat]
      BY <1>4 DEF IsFold
    <2>2. ASSUME NEW s \in SUBSET (1 .. n), s # {}
          PROVE  it[s] = add(it[s \ {Max(s)}], in[Max(s)])
      <3>1. it[s] = F[<<Max(s), it[s \ {Max(s)}]>>]
        BY <1>4, <2>2 DEF IsFold
      <3>2. it[s \ {Max(s)}] \in Nat
        BY <2>1
      <3>3. QED
        BY <1>5, <2>2, <3>1, <3>2
    <2>3. \A s \in SUBSET (1 .. n) :
             it[s] = IF s = {} THEN 0 ELSE add(it[s \ {Max(s)}], in[Max(s)])
      BY <1>4, <2>2 DEF IsFold
    <2>4. QED
      BY <2>1, <2>3
  <1>7. c = [s \in SUBSET (1 .. n) |->
                IF s = {} THEN 0 ELSE add(c[s \ {Max(s)}], in[Max(s)])]
    BY <1>6, Zenon
  <1> HIDE DEF c
  <1>8. c[{}] \in Nat
    BY <1>7
  <1>9. ASSUME NEW s \in SUBSET (1 .. n), s # {}, c[s \ {Max(s)}] \in Nat PROVE c[s] \in Nat
    <2>1. c[s] = add(c[s \ {Max(s)}], in[Max(s)])
      BY <1>7, <1>9
    <2>2. in[Max(s)] \in Seq(Nat)
      BY <1>1, <1>5, <1>9
    <2>3. QED
      BY <1>2a, <1>9, <2>1, <2>2
  <1>10. c[1 .. n] \in Nat
    BY <1>1, <1>8, <1>9, FoldStays
  <1>11. QED
    BY <1>2, <1>10

-----------------------------------------------------------------------------
(* The fix-ups *)

LEMMA ImageIs ==
    ASSUME NEW in \in Seq(Seq(Nat)), NEW p \in {1, 2}, IsImage(in, p)
    PROVE  /\ in[p] \in Seq(Nat) /\ Len(in[p]) = 4
           /\ \A d \in 1 .. 4 : in[p][d] \in Nat
           /\ SubSeq(in[p], 3, 4)[1] = in[p][3] /\ SubSeq(in[p], 3, 4)[2] = in[p][4]
  <1>1. PICK x, D : x = in[p] /\ D = Seq(Nat)
    OBVIOUS
  <1>2. in \in Seq(D) /\ Len(in) >= p /\ Len(x) = 4
    BY <1>1 DEF IsImage
  <1>3. x \in D
    BY <1>1, <1>2
  <1>4. x \in Seq(Nat)
    BY <1>1, <1>3
  <1>5. /\ \A d \in 1 .. 4 : x[d] \in Nat
        /\ SubSeq(x, 3, 4)[1] = x[3] /\ SubSeq(x, 3, 4)[2] = x[4]
    <2>1. \A d \in 1 .. Len(x) : x[d] \in Nat
      BY <1>4
    <2>2. SubSeq(x, 3, 4)[1] = x[3] /\ SubSeq(x, 3, 4)[2] = x[4]
      BY <1>2, <1>4
    <2>3. QED
      BY <1>2, <2>1, <2>2
  <1>6. QED
    BY <1>1, <1>2, <1>4, <1>5

LEMMA SamePaddingIs ==
    ASSUME NEW input \in Nat, NEW kernel \in Nat, NEW stride \in Nat
    PROVE  SamePadding(input, kernel, stride) \in Nat
  <1>1. PICK step \in Nat \ {0} : step = AtLeast(1, stride)
    BY DEF AtLeast
  <1>2. PICK out \in Nat : out = (input + step - 1) \div step
    OBVIOUS
  <1>3. PICK more \in Nat : more = AtLeast(0, out - 1)
    BY DEF AtLeast
  <1>4. PICK needed \in Nat : needed = more * step + kernel
    OBVIOUS
  <1>5. PICK left \in Nat : left = AtLeast(0, needed - input)
    BY DEF AtLeast
  <1>6. SamePadding(input, kernel, stride) = left \div 2
    BY <1>1, <1>2, <1>3, <1>4, <1>5, Zenon DEF SamePadding
  <1>7. QED
    BY <1>6

LEMMA SamePairIs ==
    ASSUME NEW a, NEW b, NEW c, Pair(a), Pair(b), Pair(c)
    PROVE  Pair(SamePair(a, b, c))
  <1>1. ASSUME NEW d \in {1, 2} PROVE SamePadding(a[d], b[d], c[d]) \in Nat
    <2>1. a[d] \in Nat /\ b[d] \in Nat /\ c[d] \in Nat
      BY DEF Pair
    <2>2. QED
      BY <2>1, SamePaddingIs
  <1>2. \A d \in {1, 2} : SamePair(a, b, c)[d] = SamePadding(a[d], b[d], c[d])
    BY DEF SamePair
  <1>3. QED
    BY <1>1, <1>2 DEF Pair

LEMMA FixUpsKeep ==
    ASSUME NEW op, IsOp(op), NEW in \in Seq(Seq(Nat)), NEW node
    PROVE  IsOp(ResolvePadding(ResolveKernel(op, in), in, node))
  <1>1. ASSUME NEW o, IsOp(o), NEW k, Pair(k), o.kind \in Pools
        PROVE  IsOp([o EXCEPT !.kernel = k])
    BY <1>1 DEF IsOp, Pools
  <1>2. ASSUME NEW o, IsOp(o), NEW k, Pair(k), o.kind \in {"Conv2d"} \cup Pools
        PROVE  IsOp([o EXCEPT !.padding = k])
    BY <1>2 DEF IsOp, Pools
  <1>3. ASSUME NEW p \in {1, 2}, IsImage(in, p) PROVE Pair(SubSeq(in[p], 3, 4))
    BY <1>3, ImageIs DEF Pair
  <1>4. PICK o : o = ResolveKernel(op, in)
    OBVIOUS
  <1>5. IsOp(o)
    BY <1>1, <1>3, <1>4 DEF ResolveKernel, Pools
  <1>6. QED
    <2>1. IsImage(in, 1) => Pair(SubSeq(in[1], 3, 4))
      BY <1>3
    <2>2. IsImage(in, 2) => Pair(SubSeq(in[2], 3, 4))
      BY <1>3
    <2>3. o.kind \in {"Conv2d"} \cup Pools => Pair(o.strides)
      BY <1>5 DEF IsOp
    <2>4. o.kind \in Pools => Pair(o.kernel)
      BY <1>5 DEF IsOp
    <2>5. o.kind = "Conv2d" /\ IsImage(in, 1) /\ IsImage(in, 2)
            => IsOp([o EXCEPT !.padding = SamePair(SubSeq(in[1], 3, 4), SubSeq(in[2], 3, 4), o.strides)])
      BY <1>2, <1>5, <2>1, <2>2, <2>3, SamePairIs
    <2>6. o.kind \in Pools /\ IsImage(in, 1)
            => IsOp([o EXCEPT !.padding = SamePair(SubSeq(in[1], 3, 4), o.kernel, o.strides)])
      BY <1>2, <1>5, <2>1, <2>3, <2>4, SamePairIs
    <2>7. IsOp(ResolvePadding(o, in, node))
      BY <1>5, <2>5, <2>6, Zenon DEF ResolvePadding
    <2>8. QED
      BY <1>4, <2>7

-----------------------------------------------------------------------------
(* infer_node_shape *)

\* A tuple of numbers, or a function on a segment, is a shape.
LEMMA FourDims ==
    ASSUME NEW a \in Nat, NEW b \in Nat, NEW f, f[1] \in Nat, f[2] \in Nat
    PROVE  <<a, b>> \o [d \in 1 .. 2 |-> f[d]] \in Seq(Nat)
  <1>1. PICK s : s = [d \in 1 .. 2 |-> f[d]]
    OBVIOUS
  <1>2. s \in Seq(Nat)
    <2>1. 2 \in Nat /\ \A d \in 1 .. 2 : f[d] \in Nat
      OBVIOUS
    <2>2. QED
      BY <1>1, <2>1
  <1>3. <<a, b>> \in Seq(Nat)
    OBVIOUS
  <1>4. QED
    BY <1>1, <1>2, <1>3

LEMMA FirstIs ==
    ASSUME NEW in \in Seq(Seq(Nat)), NEW p \in Nat \ {0}, p <= Len(in)
    PROVE  in[p] \in Seq(Nat) /\ Len(in[p]) \in Nat
  <1>1. PICK D : D = Seq(Nat)
    OBVIOUS
  <1>2. in \in Seq(D)
    BY <1>1
  <1>3. in[p] \in D
    BY <1>2
  <1>4. in[p] \in Seq(Nat)
    BY <1>1, <1>3
  <1>5. QED
    BY <1>4

LEMMA MatMulShapeIs ==
    ASSUME NEW in \in Seq(Seq(Nat)), NEW fallback \in Seq(Nat)
    PROVE  MatMulShape(in, fallback) \in Seq(Nat)
  <1>1. CASE Len(in) < 2
    BY <1>1 DEF MatMulShape
  <1>2. CASE Len(in) >= 2
    <2>1. PICK a, b : a = in[1] /\ b = in[2]
      OBVIOUS
    <2>2. a \in Seq(Nat) /\ b \in Seq(Nat) /\ Len(a) \in Nat /\ Len(b) \in Nat
      BY <1>2, <2>1, FirstIs
    <2>3. CASE Len(a) < 2 \/ Len(b) < 2
      BY <1>2, <2>1, <2>3 DEF MatMulShape
    <2>4. CASE Len(a) >= 2 /\ Len(b) >= 2
      <3>1. PICK s, t : s = SubSeq(a, 1, Len(a) - 2) /\ t = SubSeq(b, 1, Len(b) - 2)
        OBVIOUS
      <3>2. s \in Seq(Nat) /\ t \in Seq(Nat)
        <4>1. PICK m, n : m = Len(a) - 2 /\ n = Len(b) - 2
          OBVIOUS
        <4>1a. m \in Nat /\ n \in Nat
          BY <2>2, <2>4, <4>1
        <4>2. s = SubSeq(a, 1, m) /\ t = SubSeq(b, 1, n) /\ m <= Len(a) /\ n <= Len(b)
          BY <2>2, <3>1, <4>1
        <4>3. QED
          BY <2>2, <4>1a, <4>2
      <3>3. BroadcastDims(s, t) \in Seq(Nat)
        <4>1. PICK n \in Nat : n = AtLeast(Len(s), Len(t))
          BY <3>2 DEF AtLeast
        <4>2. PICK x, y : /\ x = [d \in 1 .. n |-> IF d <= Len(s) THEN s[d] ELSE 1]
                          /\ y = [d \in 1 .. n |-> IF d <= Len(t) THEN t[d] ELSE 1]
          OBVIOUS
        <4>3. BroadcastDims(s, t) = [d \in 1 .. n |-> IF x[d] = 1 THEN y[d] ELSE x[d]]
          BY <4>1, <4>2 DEF BroadcastDims
        <4>4. \A d \in 1 .. n : x[d] \in Nat /\ y[d] \in Nat
          <5>1. Len(s) \in Nat /\ Len(t) \in Nat
            BY <3>2
          <5>2. (\A d \in 1 .. Len(s) : s[d] \in Nat) /\ \A d \in 1 .. Len(t) : t[d] \in Nat
            BY <3>2
          <5>3. QED
            BY <4>2, <5>1, <5>2
        <4>5. \A d \in 1 .. n : (IF x[d] = 1 THEN y[d] ELSE x[d]) \in Nat
          BY <4>4
        <4>6. QED
          BY <4>3, <4>5
      <3>4. a[Len(a) - 1] \in Nat /\ b[Len(b)] \in Nat
        BY <2>2, <2>4
      <3>5. PICK h, e : h = BroadcastDims(s, t) /\ e = <<a[Len(a) - 1], b[Len(b)]>>
        OBVIOUS
      <3>6. h \o e \in Seq(Nat)
        <4>1. h \in Seq(Nat) /\ e \in Seq(Nat)
          BY <3>3, <3>4, <3>5
        <4>2. QED
          BY <4>1
      <3>7. MatMulShape(in, fallback) \in {fallback, h \o e}
        <4>1. ~(Len(in) < 2) /\ ~(Len(a) < 2 \/ Len(b) < 2)
          BY <1>2, <2>2, <2>4
        <4>2. QED
          BY <2>1, <3>1, <3>5, <4>1 DEF MatMulShape, Last
      <3>8. QED
        BY <3>6, <3>7
    <2>5. QED
      BY <2>2, <2>3, <2>4
  <1>3. Len(in) \in Nat
    OBVIOUS
  <1>4. QED
    BY <1>1, <1>2, <1>3

LEMMA OutDimIs ==
    ASSUME NEW input \in Nat, NEW pad \in Nat, NEW kernel \in Nat, NEW stride \in Nat,
           OutDimFits(input, pad, kernel)
    PROVE  OutDim(input, pad, kernel, stride) \in Nat
  <1>1. PICK step \in Nat \ {0} : step = AtLeast(1, stride)
    BY DEF AtLeast
  <1>2. PICK m \in Nat : m = input + 2 * pad - kernel
    BY DEF OutDimFits
  <1>3. OutDim(input, pad, kernel, stride) = m \div step + 1
    BY <1>1, <1>2 DEF OutDim
  <1>4. QED
    BY <1>3

LEMMA ConvShapeIs ==
    ASSUME NEW op, Pair(op.strides), Pair(op.padding), NEW in \in Seq(Seq(Nat)),
           NEW fallback \in Seq(Nat)
    PROVE  ConvShape(op, in, fallback).dims \in Seq(Nat)
  <1> DEFINE fails == \E d \in {3, 4} : /\ in[1][d] # 0
                                        /\ ~OutDimFits(in[1][d], op.padding[d - 2], in[2][d])
             f == [d \in 1 .. 2 |-> IF in[1][d + 2] = 0 THEN 0
                                    ELSE OutDim(in[1][d + 2], op.padding[d], in[2][d + 2],
                                                op.strides[d])]
  <1>1. CASE ~(IsImage(in, 1) /\ IsImage(in, 2))
    BY <1>1 DEF ConvShape, ShapeIs
  <1>2. CASE IsImage(in, 1) /\ IsImage(in, 2) /\ fails
    <2>1. ConvShape(op, in, fallback) = ShapeFails("InvalidGeometry")
      BY <1>2, Zenon DEF ConvShape
    <2>2. QED
      BY <2>1 DEF ShapeFails
  <1>3. CASE IsImage(in, 1) /\ IsImage(in, 2) /\ ~fails
    <2>1. \A d \in 1 .. 4 : in[1][d] \in Nat /\ in[2][d] \in Nat
      BY <1>3, ImageIs
    <2>2. \A d \in {1, 2} : op.padding[d] \in Nat /\ op.strides[d] \in Nat
      BY DEF Pair
    <2>3. ASSUME NEW d \in {1, 2} PROVE f[d] \in Nat
      <3>0. d + 2 \in 1 .. 4 /\ d \in 1 .. 2
        OBVIOUS
      <3>1. in[1][d + 2] \in Nat /\ in[2][d + 2] \in Nat /\ d \in 1 .. 2
        BY <2>1, <3>0
      <3>2. in[1][d + 2] # 0 => OutDimFits(in[1][d + 2], op.padding[d], in[2][d + 2])
        <4>1. d + 2 \in {3, 4} /\ (d + 2) - 2 = d
          <5>1. d = 1 \/ d = 2
            OBVIOUS
          <5>2. QED
            BY <5>1
        <4>2. QED
          BY <1>3, <4>1
      <3>3. in[1][d + 2] # 0
              => OutDim(in[1][d + 2], op.padding[d], in[2][d + 2], op.strides[d]) \in Nat
        BY <2>2, <3>1, <3>2, OutDimIs
      <3>4. QED
        BY <3>1, <3>3
    <2>4. ConvShape(op, in, fallback) = ShapeIs(<<in[1][1], in[2][1]>> \o f)
      BY <1>3, Zenon DEF ConvShape
    <2> HIDE DEF f
    <2>5. <<in[1][1], in[2][1]>> \o f \in Seq(Nat)
      <3>1. f = [d \in 1 .. 2 |-> f[d]]
        BY DEF f
      <3>2. f[1] \in Nat /\ f[2] \in Nat /\ in[1][1] \in Nat /\ in[2][1] \in Nat
        BY <2>1, <2>3
      <3>3. <<in[1][1], in[2][1]>> \o [d \in 1 .. 2 |-> f[d]] \in Seq(Nat)
        BY <3>2, FourDims
      <3>4. QED
        BY <3>1, <3>3, Zenon
    <2>6. QED
      BY <2>4, <2>5 DEF ShapeIs
  <1>4. QED
    BY <1>1, <1>2, <1>3

LEMMA PoolShapeIs ==
    ASSUME NEW op, Pair(op.strides), Pair(op.padding), Pair(op.kernel), NEW in \in Seq(Seq(Nat)),
           NEW fallback \in Seq(Nat)
    PROVE  PoolShape(op, in, fallback).dims \in Seq(Nat)
  <1> DEFINE fails == \E d \in {3, 4} : ~OutDimFits(in[1][d], op.padding[d - 2], op.kernel[d - 2])
             f == [d \in 1 .. 2 |-> OutDim(in[1][d + 2], op.padding[d], op.kernel[d], op.strides[d])]
  <1>1. CASE ~IsImage(in, 1)
    BY <1>1 DEF PoolShape, ShapeIs
  <1>2. CASE IsImage(in, 1) /\ op.kernel[1] = 0
    <2>1. in[1][1] \in Nat /\ in[1][2] \in Nat
      BY <1>2, ImageIs
    <2>2. PoolShape(op, in, fallback).dims = <<in[1][1], in[1][2], 1, 1>>
      BY <1>2 DEF PoolShape, ShapeIs
    <2>3. QED
      BY <2>1, <2>2
  <1>3. CASE IsImage(in, 1) /\ op.kernel[1] # 0 /\ fails
    <2>1. PoolShape(op, in, fallback) = ShapeFails("InvalidGeometry")
      BY <1>3, Zenon DEF PoolShape
    <2>2. QED
      BY <2>1 DEF ShapeFails
  <1>4. CASE IsImage(in, 1) /\ op.kernel[1] # 0 /\ ~fails
    <2>1. \A d \in 1 .. 4 : in[1][d] \in Nat
      BY <1>4, ImageIs
    <2>2. \A d \in {1, 2} : op.padding[d] \in Nat /\ op.strides[d] \in Nat /\ op.kernel[d] \in Nat
      BY DEF Pair
    <2>3. ASSUME NEW d \in {1, 2} PROVE f[d] \in Nat
      <3>0. d + 2 \in 1 .. 4 /\ d \in 1 .. 2
        OBVIOUS
      <3>1. in[1][d + 2] \in Nat /\ d \in 1 .. 2
        BY <2>1, <3>0
      <3>2. OutDimFits(in[1][d + 2], op.padding[d], op.kernel[d])
        <4>1. d + 2 \in {3, 4} /\ (d + 2) - 2 = d
          <5>1. d = 1 \/ d = 2
            OBVIOUS
          <5>2. QED
            BY <5>1
        <4>2. QED
          BY <1>4, <4>1
      <3>3. OutDim(in[1][d + 2], op.padding[d], op.kernel[d], op.strides[d]) \in Nat
        BY <2>2, <3>1, <3>2, OutDimIs
      <3>4. QED
        BY <3>1, <3>3
    <2>4. PoolShape(op, in, fallback) = ShapeIs(<<in[1][1], in[1][2]>> \o f)
      BY <1>4, Zenon DEF PoolShape
    <2> HIDE DEF f
    <2>5. <<in[1][1], in[1][2]>> \o f \in Seq(Nat)
      <3>1. f = [d \in 1 .. 2 |-> f[d]]
        BY DEF f
      <3>2. f[1] \in Nat /\ f[2] \in Nat /\ in[1][1] \in Nat /\ in[1][2] \in Nat
        BY <2>1, <2>3
      <3>3. <<in[1][1], in[1][2]>> \o [d \in 1 .. 2 |-> f[d]] \in Seq(Nat)
        BY <3>2, FourDims
      <3>4. QED
        BY <3>1, <3>3, Zenon
    <2>6. QED
      BY <2>4, <2>5 DEF ShapeIs
  <1>5. QED
    BY <1>1, <1>2, <1>3, <1>4

LEMMA FlattenShapeIs ==
    ASSUME NEW op, op.axis \in Int, NEW first \in Seq(Nat)
    PROVE  FlattenShape(op, first) \in Seq(Nat)
  <1>1. PICK n \in Nat : n = Len(first)
    OBVIOUS
  <1>2. PICK cut \in Nat : cut = AtMost(n, AtLeast(0, Axis(op.axis, n)))
    BY DEF AtMost, AtLeast, Axis
  <1>3. cut <= n
    BY <1>2 DEF AtMost, AtLeast, Axis
  <1>4. SubSeq(first, 1, cut) \in Seq(Nat) /\ SubSeq(first, cut + 1, n) \in Seq(Nat)
    BY <1>1, <1>3
  <1>5. FlattenShape(op, first) = <<Times(SubSeq(first, 1, cut)), Times(SubSeq(first, cut + 1, n))>>
    BY <1>1, <1>2, Zenon DEF FlattenShape
  <1>6. PICK x \in Nat, y \in Nat : x = Times(SubSeq(first, 1, cut)) /\ y = Times(SubSeq(first, cut + 1, n))
    BY <1>4, TimesIs
  <1>7. QED
    BY <1>5, <1>6

LEMMA ConcatShapeIs ==
    ASSUME NEW op, op.axis \in Int, NEW in \in Seq(Seq(Nat)), in # <<>>
    PROVE  ConcatShape(op, in) \in Seq(Nat)
  <1>1. Len(in) \in Nat /\ Len(in) >= 1
    OBVIOUS
  <1>2. PICK x : x = in[1]
    OBVIOUS
  <1>3. x \in Seq(Nat) /\ Len(x) \in Nat
    BY <1>1, <1>2, FirstIs
  <1>4. PICK ax \in Nat \ {0} : ax = AtLeast(0, Axis(op.axis, Len(x))) + 1
    BY <1>3 DEF AtLeast, Axis
  <1>5. PICK c \in Nat : c = Columns(in, ax)
    BY ColumnsAre
  <1>6. ConcatShape(op, in) = IF Len(in) = 1 \/ ax > Len(x) THEN x ELSE [x EXCEPT ![ax] = c]
    BY <1>2, <1>4, <1>5, Zenon DEF ConcatShape
  <1>7. [x EXCEPT ![ax] = c] \in Seq(Nat)
    <2>1. PICK n, y : n \in Nat /\ n = Len(x) /\ y = [x EXCEPT ![ax] = c]
      BY <1>3
    <2>1a. n \in Nat /\ DOMAIN x = 1 .. n /\ \A d \in 1 .. n : x[d] \in Nat
      BY <1>3, <2>1
    <2>2. y = [d \in 1 .. n |-> IF d = ax THEN c ELSE x[d]]
      BY <2>1, <2>1a
    <2>3. y \in Seq(Nat)
      BY <2>1a, <2>2
    <2>4. QED
      BY <2>1, <2>3
  <1>8. QED
    BY <1>3, <1>6, <1>7

LEMMA TransposeShapeIs ==
    ASSUME NEW op, op.perm \in Seq(Nat), NEW first \in Seq(Nat)
    PROVE  TransposeShape(op, first).dims \in Seq(Nat)
  <1>1. PICK n \in Nat : n = Len(first)
    OBVIOUS
  <1>2. DOMAIN first = 1 .. n /\ \A d \in 1 .. n : first[d] \in Nat
    BY <1>1
  <1>3. CASE Len(op.perm) # n
    <2>1. Reverse(first) = [d \in 1 .. n |-> first[(n - d) + 1]]
      BY <1>1 DEF Reverse
    <2>2. \A d \in 1 .. n : first[(n - d) + 1] \in Nat
      BY <1>2
    <2>3. Reverse(first) \in Seq(Nat)
      BY <2>1, <2>2
    <2>4. QED
      BY <1>1, <1>3, <2>3 DEF TransposeShape, ShapeIs
  <1>4. CASE Len(op.perm) = n /\ \E d \in DOMAIN first : op.perm[d] >= n
    BY <1>1, <1>4 DEF TransposeShape, ShapeFails
  <1>5. CASE Len(op.perm) = n /\ ~\E d \in DOMAIN first : op.perm[d] >= n
    <2>1. ASSUME NEW d \in 1 .. n PROVE At(first, op.perm[d]) \in Nat
      <3>1. PICK perm : perm = op.perm
        OBVIOUS
      <3>2. perm \in Seq(Nat) /\ Len(perm) = n
        BY <1>5, <3>1
      <3>3. perm[d] \in Nat
        BY <3>2
      <3>4. perm[d] < n
        <4>1. d \in DOMAIN first
          BY <1>2
        <4>2. ~(perm[d] >= n)
          BY <1>5, <3>1, <4>1
        <4>3. QED
          BY <3>3, <4>2
      <3>5. perm[d] + 1 \in 1 .. n
        BY <3>3, <3>4
      <3>6. QED
        BY <1>2, <3>1, <3>5 DEF At
    <2>2. TransposeShape(op, first).dims = [d \in 1 .. n |-> At(first, op.perm[d])]
      BY <1>1, <1>2, <1>5 DEF TransposeShape, ShapeIs
    <2>3. QED
      BY <2>1, <2>2
  <1>6. QED
    BY <1>3, <1>4, <1>5

\* The shape that is inferred for an operator is a shape, whether or not there is an error.
LEMMA InferNodeShapeIs ==
    ASSUME NEW op, IsOp(op), NEW in \in Seq(Seq(Nat)), NEW fallback \in Seq(Nat)
    PROVE  InferNodeShape(op, in, fallback).dims \in Seq(Nat)
  <1>1. \A s \in Seq(Nat) : ShapeIs(s).dims \in Seq(Nat)
    BY DEF ShapeIs
  <1>2. PICK kind, r : kind = op.kind /\ r = InferNodeShape(op, in, fallback)
    OBVIOUS
  <1>3. CASE kind = "Input"
    <2>1. r = ShapeIs(fallback)
      BY <1>2, <1>3 DEF InferNodeShape, Pools
    <2>2. QED
      BY <1>1, <1>2, <2>1
  <1>4. CASE kind = "MatMul"
    <2>1. r = ShapeIs(MatMulShape(in, fallback))
      BY <1>2, <1>4 DEF InferNodeShape, Pools
    <2>2. QED
      BY <1>1, <1>2, <2>1, MatMulShapeIs
  <1>5. CASE kind = "Conv2d"
    <2>1. r = ConvShape(op, in, fallback)
      BY <1>2, <1>5 DEF InferNodeShape, Pools
    <2>2. Pair(op.strides) /\ Pair(op.padding)
      BY <1>2, <1>5 DEF IsOp
    <2>3. QED
      BY <1>2, <2>1, <2>2, ConvShapeIs
  <1>6. CASE kind \in Pools
    <2>1. r = PoolShape(op, in, fallback)
      BY <1>2, <1>6 DEF InferNodeShape, Pools
    <2>2. Pair(op.strides) /\ Pair(op.padding) /\ Pair(op.kernel)
      BY <1>2, <1>6 DEF IsOp
    <2>3. QED
      BY <1>2, <2>1, <2>2, PoolShapeIs
  <1>7. CASE kind = "Reshape"
    <2>1. r \in {ShapeFails("panic"), ShapeIs(fallback), ShapeIs(op.shape)}
      BY <1>2, <1>7 DEF InferNodeShape, Pools
    <2>2. op.shape \in Seq(Nat) /\ ShapeFails("panic").dims \in Seq(Nat)
      BY <1>2, <1>7 DEF IsOp, ShapeFails
    <2>3. QED
      BY <1>1, <1>2, <2>1, <2>2
  <1>8. CASE kind \notin {"Input", "MatMul", "Conv2d", "Reshape"} \cup Pools
    <2>1. CASE in = <<>>
      <3>1. r = ShapeIs(fallback)
        BY <1>2, <1>8, <2>1 DEF InferNodeShape, Pools
      <3>2. QED
        BY <1>1, <1>2, <3>1
    <2>2. CASE in # <<>>
      <3>1. PICK first : first = in[1]
        OBVIOUS
      <3>2. first \in Seq(Nat)
        <4>1. Len(in) \in Nat /\ 1 <= Len(in)
          BY <2>2
        <4>2. QED
          BY <3>1, <4>1, FirstIs
      <3>3. \/ r \in {ShapeIs(fallback), ShapeIs(first)}
            \/ kind = "Flatten" /\ r = ShapeIs(FlattenShape(op, first))
            \/ kind = "Concat" /\ r = ShapeIs(ConcatShape(op, in))
            \/ kind = "Transpose" /\ r = TransposeShape(op, first)
        BY <1>2, <1>8, <2>2, <3>1 DEF InferNodeShape, Pools
      <3>4. CASE kind = "Flatten" /\ r = ShapeIs(FlattenShape(op, first))
        BY <1>1, <1>2, <3>2, <3>4, FlattenShapeIs DEF IsOp
      <3>5. CASE kind = "Concat" /\ r = ShapeIs(ConcatShape(op, in))
        BY <1>1, <1>2, <2>2, <3>5, ConcatShapeIs DEF IsOp
      <3>6. CASE kind = "Transpose" /\ r = TransposeShape(op, first)
        BY <1>2, <3>2, <3>6, TransposeShapeIs DEF IsOp
      <3>7. QED
        BY <1>1, <1>2, <3>2, <3>3, <3>4, <3>5, <3>6
    <2>3. QED
      BY <2>1, <2>2
  <1>9. QED
    BY <1>3, <1>4, <1>5, <1>6, <1>7, <1>8

-----------------------------------------------------------------------------
(* The table of declared shapes *)

LEMMA KnownDimsAre ==
    ASSUME NEW vis \in Seq([name : STRING, dims : {NoShape} \cup Seq(Int)]), NEW name,
           NEW p \in ShapesOf(vis, name)
    PROVE  KnownDims(vis[p]) \in Seq(Nat)
  <1>1. PICK R : R = [name : STRING, dims : {NoShape} \cup Seq(Int)]
    OBVIOUS
  <1>2. p \in DOMAIN vis /\ vis[p].dims # NoShape
    BY DEF ShapesOf
  <1>3. vis[p] \in R
    <2>1. vis \in Seq(R)
      BY <1>1
    <2>2. QED
      BY <1>2, <2>1
  <1>4. vis[p].dims \in Seq(Int)
    BY <1>1, <1>2, <1>3
  <1>5. QED
    BY <1>4, AtLeastZero DEF KnownDims

LEMMA ShapesOfAre ==
    ASSUME NEW vis \in Seq([name : STRING, dims : {NoShape} \cup Seq(Int)]), NEW name,
           ShapesOf(vis, name) # {}
    PROVE  /\ KnownDims(vis[Max(ShapesOf(vis, name))]) \in Seq(Nat)
           /\ KnownDims(vis[Min(ShapesOf(vis, name))]) \in Seq(Nat)
  <1>1. PICK n, s : n \in Nat /\ n = Len(vis) /\ s = ShapesOf(vis, name)
    OBVIOUS
  <1>2. n \in Nat /\ s \in SUBSET (1 .. n) /\ s \in SUBSET Nat /\ s # {}
    BY <1>1 DEF ShapesOf
  <1>3. Max(s) \in s /\ Min(s) \in s
    BY <1>2, MaxIs, MinIs
  <1>4. QED
    BY <1>1, <1>3, KnownDimsAre

LEMMA DeclaredIs ==
    ASSUME file \in Files, NEW name
    PROVE  Declared(name) \in Seq(Nat)
  <1>1. PICK R : R = [name : STRING, dims : {NoShape} \cup Seq(Int)]
    OBVIOUS
  <1>2. file.inputs \in Seq(R) /\ file.outputs \in Seq(R) /\ file.info \in Seq(R)
    BY <1>1, LoaderAssumption DEF IsFile
  <1>3. PICK others : others = file.outputs \o file.info
    OBVIOUS
  <1>4. others \in Seq(R)
    BY <1>2, <1>3
  <1>5. ShapesOf(file.inputs, name) # {}
          => KnownDims(file.inputs[Max(ShapesOf(file.inputs, name))]) \in Seq(Nat)
    BY <1>1, <1>2, ShapesOfAre
  <1>6. ShapesOf(others, name) # {} => KnownDims(others[Min(ShapesOf(others, name))]) \in Seq(Nat)
    BY <1>1, <1>4, ShapesOfAre
  <1>7. ValueShape(name) = NoShape \/ ValueShape(name) \in Seq(Nat)
    BY <1>3, <1>5, <1>6 DEF ValueShape
  <1>8. QED
    BY <1>7 DEF Declared

LEMMA OrOneIs ==
    ASSUME NEW dims \in Seq(Nat)
    PROVE  OrOne(dims) \in Seq(Nat)
  <1>1. <<1>> \in Seq(Nat)
    OBVIOUS
  <1>2. QED
    BY <1>1 DEF OrOne

\* A list of checks without a first error has none.
LEMMA NoErrors ==
    ASSUME NEW checks, DOMAIN checks = 1 .. Len(checks), Len(checks) \in Nat,
           FirstError(checks) = None, NEW j \in 1 .. Len(checks)
    PROVE  checks[j] = None
  <1> DEFINE bad == {k \in 1 .. Len(checks) : checks[k] # None}
             m   == SelectInSeq(checks, LAMBDA check : check # None)
  <1>1. m = IF bad # {} THEN Min(bad) ELSE 0
    BY DEF SelectInSeq
  <1>2. FirstError(checks) = IF m = 0 THEN None ELSE checks[m]
    BY DEF FirstError
  <1>3. CASE bad # {}
    <2>1. bad \in SUBSET Nat
      OBVIOUS
    <2>2. Min(bad) \in bad
      <3> HIDE DEF bad
      <3>1. QED
        BY <1>3, <2>1, MinIs
    <2>3. m # 0 /\ checks[m] # None
      <3> HIDE DEF m
      <3>1. QED
        BY <1>1, <1>3, <2>2
    <2> HIDE DEF m
    <2>4. QED
      BY <1>2, <2>3
  <1>4. CASE bad = {}
    BY <1>4
  <1>5. QED
    BY <1>3, <1>4

-----------------------------------------------------------------------------
(* resolve_inputs: the inputs of a node *)

\* What a turn of the loop makes of the ids and of the graph.
IdsWith(ids, names, g, name) ==
    IF name = "" THEN ids
    ELSE IF name \in DOMAIN names THEN Append(ids, names[name]) ELSE Append(ids, g.n)

GraphWith(names, g, name) ==
    IF name = "" \/ name \in DOMAIN names THEN g ELSE PushNode(g, InputNode(name, <<1>>))

LEMMA ResolveInputIs ==
    ASSUME NEW ids, NEW names, NEW g, NEW name, NEW st,
           st = [ids |-> ids, names |-> names, graph |-> g]
    PROVE  ResolveInput(st, name)
             = [ids |-> IdsWith(ids, names, g, name), names |-> names,
                graph |-> GraphWith(names, g, name)]
  <1>1. st.ids = ids /\ st.names = names /\ st.graph = g
    OBVIOUS
  <1>2. CASE name = ""
    BY <1>2 DEF ResolveInput, IdsWith, GraphWith
  <1>3. CASE name # "" /\ name \in DOMAIN names
    BY <1>3 DEF ResolveInput, IdsWith, GraphWith
  <1>4. CASE name # "" /\ name \notin DOMAIN names
    <2>1. PICK x, h : x = Append(ids, g.n) /\ h = PushNode(g, InputNode(name, <<1>>))
      OBVIOUS
    <2>2. PICK st1 : st1 = [st EXCEPT !.ids = x]
      OBVIOUS
    <2>3. st1.graph = g /\ st1 = [ids |-> x, names |-> names, graph |-> g]
      BY <2>2
    <2>4. ResolveInput(st, name) = [st EXCEPT !.ids = x, !.graph = h]
      BY <1>1, <1>4, <2>1, Zenon DEF ResolveInput
    <2>5. ResolveInput(st, name) = [st1 EXCEPT !.graph = h]
      BY <2>2, <2>4, Zenon
    <2>6. ResolveInput(st, name) = [ids |-> x, names |-> names, graph |-> h]
      BY <2>3, <2>5
    <2>7. QED
      BY <1>4, <2>1, <2>6 DEF IdsWith, GraphWith
  <1>5. QED
    BY <1>2, <1>3, <1>4

LEMMA InputNodeIs ==
    ASSUME NEW name, NEW dims \in Seq(Nat)
    PROVE  /\ InputNode(name, dims).ins = <<>> /\ InputNode(name, dims).ins \in Seq(Nat)
           /\ InputNode(name, dims).dims = dims /\ InputNode(name, dims).dims \in Seq(Nat)
           /\ InputNode(name, dims).op.kind = "Input"
  BY DEF InputNode

\* The loop's states: its ids, and its graph's nodes, which are g's and inputs.
NodesOf(g, ins) == {g.nodes[v] : v \in Ids(g)} \cup {InputNode(s, <<1>>) : s \in ToSet(ins)}

GraphsOver(g, ins) ==
    [n : Nat, nodes : UNION {[0 .. k - 1 -> NodesOf(g, ins)] : k \in Nat},
     refs : Seq([to : Nat, from : Nat]), inits : {g.inits}, inputs : Seq(Nat),
     outputs : {g.outputs}, edges : {g.edges}]

ResolveStates(g, names, ins) ==
    {st \in [ids : Seq(Nat), names : {names}, graph : GraphsOver(g, ins)] : Sound(st.graph)}

LEMMA SeqWidens ==
    ASSUME NEW S, NEW T, S \subseteq T, NEW s \in Seq(S)
    PROVE  s \in Seq(T)
  <1>1. Len(s) \in Nat /\ s = [a \in 1 .. Len(s) |-> s[a]] /\ \A a \in 1 .. Len(s) : s[a] \in T
    OBVIOUS
  <1>2. QED
    BY <1>1

\* What makes a sound graph one of those.
LEMMA IsOver ==
    ASSUME NEW g, NEW ins, NEW h, Sound(h), \A v \in Ids(h) : h.nodes[v] \in NodesOf(g, ins),
           h.inits = g.inits, h.outputs = g.outputs, h.edges = g.edges
    PROVE  h \in GraphsOver(g, ins)
  <1>1. PICK N, k, nodes, refs, inputs, I :
           /\ N = NodesOf(g, ins) /\ k = h.n /\ nodes = h.nodes /\ refs = h.refs /\ inputs = h.inputs
           /\ I = Ids(h)
    OBVIOUS
  <1>2. h = Record(k, nodes, refs, g.inits, inputs, g.outputs, g.edges)
    BY <1>1 DEF Sound, IsRecord
  <1>3. k \in Nat /\ I = 0 .. k - 1 /\ nodes = [v \in I |-> nodes[v]]
    BY <1>1 DEF Sound, Noded, Ids
  <1>4. nodes \in [0 .. k - 1 -> N]
    BY <1>1, <1>3
  <1>5. nodes \in UNION {[0 .. j - 1 -> N] : j \in Nat}
    BY <1>3, <1>4
  <1>6. refs \in Seq([to : Nat, from : Nat])
    <2>1. PICK R, Q : R = [to : I, from : Nat] /\ Q = [to : Nat, from : Nat]
      OBVIOUS
    <2>2. refs \in Seq(R)
      BY <1>1, <2>1 DEF Sound, Referred
    <2>3. R \subseteq Q
      BY <1>3, <2>1
    <2>4. refs \in Seq(Q)
      BY <2>2, <2>3, SeqWidens
    <2>5. QED
      BY <2>1, <2>4
  <1>7. inputs \in Seq(Nat)
    <2>1. inputs \in Seq(I)
      BY <1>1 DEF Sound, Registered
    <2>2. I \subseteq Nat
      BY <1>3
    <2>3. QED
      BY <2>1, <2>2, SeqWidens
  <1>8. h \in GraphsOver(g, ins)
    <2>1. PICK U, Q, J : /\ U = UNION {[0 .. j - 1 -> N] : j \in Nat}
                         /\ Q = Seq([to : Nat, from : Nat]) /\ J = Seq(Nat)
      OBVIOUS
    <2>2. Record(k, nodes, refs, g.inits, inputs, g.outputs, g.edges)
            \in [n : Nat, nodes : U, refs : Q, inits : {g.inits}, inputs : J,
                 outputs : {g.outputs}, edges : {g.edges}]
      BY <1>3, <1>5, <1>6, <1>7, <2>1 DEF Record
    <2>3. QED
      BY <1>1, <1>2, <2>1, <2>2 DEF GraphsOver
  <1>9. QED
    BY <1>8

\* ... and what such a graph is.
LEMMA OverIs ==
    ASSUME NEW g, NEW ins, NEW h \in GraphsOver(g, ins), Sound(h)
    PROVE  /\ \A v \in Ids(h) : h.nodes[v] \in NodesOf(g, ins)
           /\ h.inits = g.inits /\ h.outputs = g.outputs /\ h.edges = g.edges
  <1>1. PICK U : U = UNION {[0 .. j - 1 -> NodesOf(g, ins)] : j \in Nat}
    OBVIOUS
  <1>2. /\ h.inits = g.inits /\ h.outputs = g.outputs /\ h.edges = g.edges
        /\ h.nodes \in UNION {[0 .. j - 1 -> NodesOf(g, ins)] : j \in Nat}
    <2>1. h.inits = g.inits /\ h.outputs = g.outputs /\ h.edges = g.edges /\ h.nodes \in U
      BY <1>1 DEF GraphsOver
    <2>2. QED
      BY <1>1, <2>1
  <1>3. PICK k \in Nat : h.nodes \in [0 .. k - 1 -> NodesOf(g, ins)]
    BY <1>2
  <1>4. h.nodes = [v \in Ids(h) |-> h.nodes[v]]
    BY DEF Sound, Noded
  <1>5. Ids(h) = 0 .. k - 1
    BY <1>2, <1>3, <1>4
  <1>6. QED
    BY <1>2, <1>3, <1>5

LEMMA StateIs ==
    ASSUME NEW g, NEW names, NEW ins, NEW ids \in Seq(Nat), NEW h \in GraphsOver(g, ins), Sound(h)
    PROVE  [ids |-> ids, names |-> names, graph |-> h] \in ResolveStates(g, names, ins)
  <1>1. PICK G, J, st : /\ G = GraphsOver(g, ins) /\ J = Seq(Nat)
                        /\ st = [ids |-> ids, names |-> names, graph |-> h]
    OBVIOUS
  <1>2. st \in [ids : J, names : {names}, graph : G] /\ st.graph = h
    BY <1>1
  <1>3. QED
    BY <1>1, <1>2 DEF ResolveStates

\* One turn of the loop.
LEMMA TurnStays ==
    ASSUME NEW g, Sound(g), NEW names, \A s \in DOMAIN names : names[s] \in Nat, NEW ins,
           NEW st \in ResolveStates(g, names, ins), NEW name \in ToSet(ins)
    PROVE  ResolveInput(st, name) \in ResolveStates(g, names, ins)
  <1>1. PICK ids \in Seq(Nat), h \in GraphsOver(g, ins) :
           Sound(h) /\ st = [ids |-> ids, names |-> names, graph |-> h]
    <2>1. PICK ids, h, G, J : ids = st.ids /\ h = st.graph /\ G = GraphsOver(g, ins) /\ J = Seq(Nat)
      OBVIOUS
    <2>2. st \in [ids : J, names : {names}, graph : G] /\ Sound(h)
      BY <2>1 DEF ResolveStates
    <2>3. ids \in J /\ h \in G /\ st = [ids |-> ids, names |-> names, graph |-> h]
      BY <2>1, <2>2
    <2>4. QED
      BY <2>1, <2>2, <2>3
  <1>2. h.n \in Nat
    BY <1>1 DEF Sound, Noded
  <1>3. PICK x, k : x = IdsWith(ids, names, h, name) /\ k = GraphWith(names, h, name)
    OBVIOUS
  <1>4. ResolveInput(st, name) = [ids |-> x, names |-> names, graph |-> k]
    BY <1>1, <1>3, ResolveInputIs
  <1>5. x \in Seq(Nat)
    <2>1. name \in DOMAIN names => Append(ids, names[name]) \in Seq(Nat)
      <3>1. ASSUME NEW w \in Nat PROVE Append(ids, w) \in Seq(Nat)
        OBVIOUS
      <3>2. QED
        BY <3>1
    <2>2. Append(ids, h.n) \in Seq(Nat)
      BY <1>2
    <2>3. QED
      BY <1>3, <2>1, <2>2 DEF IdsWith
  <1>6. k \in GraphsOver(g, ins) /\ Sound(k)
    <2>1. CASE name = "" \/ name \in DOMAIN names
      BY <1>1, <1>3, <2>1 DEF GraphWith
    <2>2. CASE ~(name = "" \/ name \in DOMAIN names)
      <3>1. PICK node : node = InputNode(name, <<1>>)
        OBVIOUS
      <3>2. k = PushNode(h, node) /\ node.ins \in Seq(Nat) /\ node.dims \in Seq(Nat)
        <4>1. <<1>> \in Seq(Nat)
          OBVIOUS
        <4>2. QED
          BY <1>3, <2>2, <3>1, <4>1, InputNodeIs DEF GraphWith
      <3>3. Sound(k) /\ Pushed(h, node, k)
        BY <1>1, <3>2, PushKeeps, PushIs
      <3>4. node \in NodesOf(g, ins)
        BY <3>1 DEF NodesOf
      <3>5. /\ \A v \in Ids(h) : h.nodes[v] \in NodesOf(g, ins)
            /\ h.inits = g.inits /\ h.outputs = g.outputs /\ h.edges = g.edges
        BY <1>1, OverIs
      <3>6. /\ \A v \in Ids(k) : k.nodes[v] \in NodesOf(g, ins)
            /\ k.inits = g.inits /\ k.outputs = g.outputs /\ k.edges = g.edges
        BY <3>3, <3>4, <3>5 DEF Pushed
      <3>7. QED
        BY <3>3, <3>6, IsOver
    <2>3. QED
      BY <2>1, <2>2
  <1>7. QED
    BY <1>4, <1>5, <1>6, StateIs

\* run is how the loop over `ins` goes.
IsResolving(g, names, ins, run) ==
    /\ run[0] = [ids |-> <<>>, names |-> names, graph |-> g]
    /\ \A k \in 0 .. Len(ins) - 1 : run[k + 1] = ResolveInput(run[k], ins[k + 1])
    /\ ResolveInputs(g, names, ins) = run[Len(ins)]

LEMMA Resolves ==
    ASSUME NEW g, Sound(g), NEW names, \A s \in DOMAIN names : names[s] \in Nat,
           NEW ins \in Seq(STRING)
    PROVE  \E run : IsResolving(g, names, ins, run)
  <1> DEFINE n    == Len(ins)
             V    == ResolveStates(g, names, ins)
             base == [ids |-> <<>>, names |-> names, graph |-> g]
             F    == [p \in (1 .. n) \X V |-> ResolveInput(p[2], ins[p[1]])]
             c    == CHOOSE f : f = [s \in SUBSET (1 .. n) |->
                       IF s = {} THEN base ELSE ResolveInput(f[s \ {Max(s)}], ins[Max(s)])]
  <1>1. n \in Nat /\ DOMAIN ins = 1 .. n
    OBVIOUS
  <1>2. ResolveInputs(g, names, ins) = c[1 .. n]
    BY <1>1, Zenon DEF ResolveInputs, FoldLeft, MapThenFoldSet
  <1>3. base \in V
    <2>1. \A v \in Ids(g) : g.nodes[v] \in NodesOf(g, ins)
      BY DEF NodesOf
    <2>2. g \in GraphsOver(g, ins)
      BY <2>1, IsOver
    <2>3. <<>> \in Seq(Nat)
      OBVIOUS
    <2>4. QED
      BY <2>2, <2>3, StateIs
  <1>4. \A j \in 1 .. n : ins[j] \in ToSet(ins)
    BY Members
  <1> HIDE DEF n, V, base
  <1>5. F \in [(1 .. n) \X V -> V]
    <2>1. ASSUME NEW p \in (1 .. n) \X V PROVE ResolveInput(p[2], ins[p[1]]) \in V
      <3>1. p[2] \in V /\ p[1] \in 1 .. n
        OBVIOUS
      <3>2. ins[p[1]] \in ToSet(ins)
        BY <1>4, <3>1
      <3>3. QED
        BY <3>1, <3>2, TurnStays DEF V
    <2>2. QED
      BY <2>1
  <1>6. PICK it : IsFold(n, V, base, F, it)
    <2> HIDE DEF F
    <2>1. QED
      BY <1>1, <1>3, <1>5, FoldExists
  <1>7. it = [s \in SUBSET (1 .. n) |->
                 IF s = {} THEN base ELSE ResolveInput(it[s \ {Max(s)}], ins[Max(s)])]
    <2>1. it \in [SUBSET (1 .. n) -> V]
      BY <1>6 DEF IsFold
    <2>2. ASSUME NEW s \in SUBSET (1 .. n), s # {}
          PROVE  it[s] = ResolveInput(it[s \ {Max(s)}], ins[Max(s)])
      <3>1. Max(s) \in 1 .. n
        BY <1>1, <2>2, MaxIs
      <3>2. it[s \ {Max(s)}] \in V
        BY <2>1
      <3>3. it[s] = F[<<Max(s), it[s \ {Max(s)}]>>]
        BY <1>6, <2>2 DEF IsFold
      <3>4. QED
        BY <3>1, <3>2, <3>3
    <2>3. \A s \in SUBSET (1 .. n) :
             it[s] = IF s = {} THEN base ELSE ResolveInput(it[s \ {Max(s)}], ins[Max(s)])
      BY <1>6, <2>2 DEF IsFold
    <2>4. QED
      BY <2>1, <2>3
  <1>8. c = [s \in SUBSET (1 .. n) |->
                IF s = {} THEN base ELSE ResolveInput(c[s \ {Max(s)}], ins[Max(s)])]
    BY <1>7, Zenon
  <1> HIDE DEF c
  <1>9. PICK run : run = [k \in 0 .. n |-> c[1 .. k]]
    OBVIOUS
  <1>10. run[0] = base /\ run[n] = c[1 .. n]
    <2>1. 1 .. 0 = {} /\ 0 \in 0 .. n /\ n \in 0 .. n
      BY <1>1
    <2>2. c[{}] = base
      BY <1>8
    <2>3. QED
      BY <1>9, <2>1, <2>2
  <1>11. ASSUME NEW k \in 0 .. n - 1 PROVE run[k + 1] = ResolveInput(run[k], ins[k + 1])
    <2>1. /\ k \in Nat /\ 1 .. k + 1 \in SUBSET (1 .. n) /\ 1 .. k + 1 # {}
          /\ k \in 0 .. n /\ k + 1 \in 0 .. n
      <3>1. k \in Nat /\ k + 1 \in 1 .. n /\ 1 .. k + 1 \in SUBSET (1 .. n) /\ 1 .. k + 1 # {}
        BY <1>1, PrefixOf
      <3>2. QED
        BY <1>1, <3>1
    <2>2. c[1 .. k + 1] = ResolveInput(c[(1 .. k + 1) \ {Max(1 .. k + 1)}], ins[Max(1 .. k + 1)])
      BY <1>8, <2>1
    <2>3. c[1 .. k + 1] = ResolveInput(c[1 .. k], ins[k + 1])
      BY <2>1, <2>2, LastOf
    <2>4. QED
      BY <1>9, <2>1, <2>3
  <1>12. QED
    BY <1>2, <1>10, <1>11 DEF IsResolving, n, base

\* Counting a prefix.
LEMMA CountStep ==
    ASSUME NEW k \in Nat, NEW S
    PROVE  /\ Cardinality({q \in 1 .. k : q \in S}) \in Nat
           /\ Cardinality({q \in 1 .. k + 1 : q \in S})
                = Cardinality({q \in 1 .. k : q \in S}) + (IF k + 1 \in S THEN 1 ELSE 0)
           /\ Cardinality({q \in 1 .. 0 : q \in S}) = 0
  <1>1. PICK A, B : A = {q \in 1 .. k : q \in S} /\ B = {q \in 1 .. k + 1 : q \in S}
    OBVIOUS
  <1>2. IsFiniteSet(A) /\ Cardinality(A) \in Nat
    <2>1. IsFiniteSet(1 .. k)
      BY Segment
    <2>2. A \subseteq 1 .. k
      BY <1>1
    <2>3. IsFiniteSet(A)
      BY <2>1, <2>2, FS_Subset
    <2>4. QED
      BY <2>3, FS_CardinalityType
  <1>3. CASE k + 1 \in S
    <2>1. B = A \cup {k + 1} /\ k + 1 \notin A
      BY <1>1, <1>3
    <2>2. Cardinality(B) = Cardinality(A) + 1
      BY <1>2, <2>1, FS_AddElement
    <2>3. QED
      BY <1>1, <1>2, <1>3, <2>2, FS_EmptySet
  <1>4. CASE k + 1 \notin S
    <2>1. B = A
      BY <1>1, <1>4
    <2>2. QED
      BY <1>1, <1>2, <1>4, <2>1, FS_EmptySet
  <1>5. QED
    BY <1>3, <1>4

LEMMA PortStep ==
    ASSUME NEW node, NEW k \in Nat
    PROVE  /\ Port(node, k) \in Nat /\ Port(node, 0) = 0
           /\ Port(node, k + 1) = Port(node, k) + (IF node.ins[k + 1] # "" THEN 1 ELSE 0)
  <1>1. PICK ins : ins = node.ins
    OBVIOUS
  <1>2. PICK S : S = {q \in Nat : ins[q] # ""}
    OBVIOUS
  <1>3. ASSUME NEW m \in Nat
        PROVE  Port(node, m) = Cardinality({q \in 1 .. m : q \in S})
    <2>1. {q \in 1 .. m : ins[q] # ""} = {q \in 1 .. m : q \in S}
      <3>1. ASSUME NEW q \in 1 .. m PROVE q \in S <=> ins[q] # ""
        <4>1. q \in Nat
          OBVIOUS
        <4>2. QED
          BY <1>2, <4>1, Zenon
      <3>2. QED
        BY <3>1
    <2>2. QED
      BY <1>1, <2>1 DEF Port
  <1>4. k + 1 \in S <=> ins[k + 1] # ""
    <2>1. k + 1 \in Nat
      OBVIOUS
    <2>2. QED
      BY <1>2, <2>1, Zenon
  <1>5. PICK c, c0, c1 : /\ c = Cardinality({q \in 1 .. k : q \in S})
                         /\ c0 = Cardinality({q \in 1 .. 0 : q \in S})
                         /\ c1 = Cardinality({q \in 1 .. k + 1 : q \in S})
    OBVIOUS
  <1>6. c \in Nat /\ c0 = 0 /\ c1 = c + (IF k + 1 \in S THEN 1 ELSE 0)
    BY <1>5, CountStep
  <1>7. Port(node, k) = c /\ Port(node, 0) = c0 /\ Port(node, k + 1) = c1
    <2>1. k + 1 \in Nat /\ 0 \in Nat
      OBVIOUS
    <2>2. QED
      BY <1>3, <1>5, <2>1
  <1>8. QED
    BY <1>1, <1>4, <1>6, <1>7

\* What a name is resolved to: what the table has, or an input of its own.
Reads(g, names, ids, h, name, port) ==
    /\ port \in 1 .. Len(ids)
    /\ name \in DOMAIN names => ids[port] = names[name]
    /\ name \notin DOMAIN names =>
          /\ ids[port] \notin Ids(g) /\ h.nodes[ids[port]] = InputNode(name, <<1>>)
          /\ \A a \in 1 .. Len(ids) : ids[a] = ids[port] => a = port

\* The graph has new inputs, and is otherwise the same.
Widens(g, h) ==
    /\ Sound(h) /\ Closed(h) /\ Grows(g, h)
    /\ h.refs = g.refs /\ h.edges = g.edges /\ h.inits = g.inits /\ h.outputs = g.outputs

\* The first k names have been resolved.
Resolving(g, names, node, k, st) ==
    /\ st = [ids |-> st.ids, names |-> names, graph |-> st.graph]
    /\ Widens(g, st.graph)
    /\ st.ids \in Seq(Ids(st.graph)) /\ Len(st.ids) = Port(node, k)
    /\ \A p \in 1 .. k :
          node.ins[p] # "" => Reads(g, names, st.ids, st.graph, node.ins[p], Port(node, p))

\* push_node keeps the nodes reading older ones, when the new one does.
LEMMA PushCloses ==
    ASSUME NEW g, Sound(g), Closed(g), NEW node, node.ins \in Seq(Ids(g)),
           NEW h, Pushed(g, node, h)
    PROVE  Closed(h)
  <1>1. g.n \in Nat /\ Ids(g) = 0 .. g.n - 1 /\ Ids(h) = Ids(g) \cup {g.n} /\ g.n \notin Ids(g)
    BY DEF Pushed, Sound, Noded, Ids
  <1>2. h.nodes[g.n] = node /\ \A v \in Ids(g) : h.nodes[v] = g.nodes[v]
    BY <1>1 DEF Pushed
  <1>3. ASSUME NEW v \in Ids(h), NEW w \in Producers(h, v) PROVE w \in Ids(h) /\ w < v
    <2>1. CASE v = g.n
      <3>1. PICK I, ins : I = Ids(g) /\ ins = node.ins
        OBVIOUS
      <3>2. w \in ToSet(ins) /\ ins \in Seq(I)
        BY <1>2, <2>1, <3>1 DEF Producers
      <3>3. w \in I
        BY <3>2, Members
      <3>4. QED
        BY <1>1, <2>1, <3>1, <3>3
    <2>2. CASE v \in Ids(g)
      <3>1. Producers(h, v) = Producers(g, v)
        BY <1>2, <2>2 DEF Producers
      <3>2. QED
        BY <1>1, <2>2, <3>1 DEF Closed
    <2>3. QED
      BY <1>1, <2>1, <2>2
  <1>4. QED
    BY <1>3 DEF Closed

\* Nor do the registries and the edges matter to it.
LEMMA SameCloses ==
    ASSUME NEW g, Closed(g), NEW h, h.n = g.n, h.nodes = g.nodes
    PROVE  Closed(h)
  BY DEF Closed, Producers, Ids

\* The input node made for a name without definition.
OwnInput(name) == InputNode(name, <<1>>)

\* One more of them keeps Widens.
LEMMA NodeWidens ==
    ASSUME NEW g, NEW h, Sound(g), Widens(g, h), NEW name, NEW k,
           k = PushNode(h, OwnInput(name))
    PROVE  /\ Widens(g, k) /\ Ids(k) = Ids(h) \cup {h.n} /\ h.n \notin Ids(h)
           /\ k.nodes[h.n] = OwnInput(name)
           /\ \A v \in Ids(h) : k.nodes[v] = h.nodes[v]
           /\ Ids(g) \subseteq Ids(h)
  <1>1. PICK node : node = OwnInput(name)
    OBVIOUS
  <1>2. node.ins = <<>> /\ node.ins \in Seq(Nat) /\ node.dims \in Seq(Nat)
    <2>1. <<1>> \in Seq(Nat)
      OBVIOUS
    <2>2. QED
      BY <1>1, <2>1, InputNodeIs DEF OwnInput
  <1>3. Sound(h) /\ Closed(h) /\ Grows(g, h)
    BY DEF Widens
  <1>4. Sound(k) /\ Grows(h, k) /\ Pushed(h, node, k)
    BY <1>1, <1>2, <1>3, PushKeeps, PushIs
  <1>5. /\ Ids(k) = Ids(h) \cup {h.n} /\ h.n \notin Ids(h) /\ h.n \in Ids(k) /\ h.n \in Nat
        /\ k.nodes = [v \in Ids(k) |-> IF v = h.n THEN node ELSE h.nodes[v]]
        /\ k.refs = h.refs \o [p \in 1 .. Len(node.ins) |-> Ref(h.n, node.ins[p])]
        /\ k.inits = h.inits /\ k.outputs = h.outputs /\ k.edges = h.edges
    BY <1>4 DEF Pushed
  <1>6. /\ k.nodes[h.n] = node
        /\ \A v \in Ids(h) : k.nodes[v] = h.nodes[v]
    BY <1>5
  <1>7. Closed(k)
    <2>1. node.ins \in Seq(Ids(h))
      BY <1>2
    <2>2. QED
      BY <1>3, <1>4, <2>1, PushCloses
  <1>8. k.refs = h.refs
    <2>1. PICK R, r : R = [to : Ids(h), from : Nat] /\ r = h.refs
      OBVIOUS
    <2>2. r \in Seq(R)
      BY <1>3, <2>1 DEF Sound, Referred
    <2>3. [p \in 1 .. Len(node.ins) |-> Ref(h.n, node.ins[p])] = <<>>
      BY <1>2
    <2>4. r \o <<>> = r
      BY <2>2
    <2>5. QED
      BY <1>5, <2>1, <2>3, <2>4
  <1>9. Grows(g, k) /\ Ids(g) \subseteq Ids(h)
    <2>1. g.n \in Nat /\ h.n \in Nat /\ g.n <= h.n
      BY <1>3, <1>5 DEF Sound, Noded, Grows
    <2>2. Ids(g) \subseteq Ids(h)
      BY <2>1 DEF Ids
    <2>3. h.inits = g.inits /\ Len(g.inits) \in Nat
      BY Listing DEF Widens, Sound
    <2>4. k.n = h.n + 1
      BY <1>4 DEF Pushed
    <2>5. g.n <= k.n
      BY <2>1, <2>4
    <2>6. \A v \in Ids(g) : k.nodes[v] = g.nodes[v]
      BY <1>3, <1>6, <2>2 DEF Grows
    <2>7. k.inits = g.inits
      BY <1>5, <2>3
    <2>8. Len(g.inits) <= Len(k.inits) /\ \A p \in 1 .. Len(g.inits) : k.inits[p] = g.inits[p]
      BY <2>3, <2>7
    <2>9. QED
      BY <2>2, <2>5, <2>6, <2>8 DEF Grows
  <1>10. Widens(g, k)
    BY <1>4, <1>5, <1>7, <1>8, <1>9 DEF Widens
  <1>11. QED
    BY <1>1, <1>5, <1>6, <1>9, <1>10

\* A sequence with one more entry.
LEMMA AppendIs ==
    ASSUME NEW S, NEW s \in Seq(S), NEW v \in S, NEW t, t = Append(s, v)
    PROVE  /\ t \in Seq(S) /\ Len(t) = Len(s) + 1 /\ t[Len(s) + 1] = v /\ Len(s) \in Nat
           /\ \A a \in 1 .. Len(s) : t[a] = s[a] /\ s[a] \in S
  OBVIOUS

\* One more name is resolved.
LEMMA ResolvingStep ==
    ASSUME NEW g, Sound(g), NEW names, \A s \in DOMAIN names : names[s] \in Ids(g),
           NEW node, node.ins \in Seq(STRING), NEW k \in 0 .. Len(node.ins) - 1,
           NEW st, Resolving(g, names, node, k, st)
    PROVE  Resolving(g, names, node, k + 1, ResolveInput(st, node.ins[k + 1]))
  <1>1. PICK name, ids, h, x, j, c : /\ name = node.ins[k + 1] /\ ids = st.ids /\ h = st.graph
                                     /\ x = IdsWith(ids, names, h, name)
                                     /\ j = GraphWith(names, h, name) /\ c = Port(node, k)
    OBVIOUS
  <1>2. /\ st = [ids |-> ids, names |-> names, graph |-> h]
        /\ Widens(g, h) /\ ids \in Seq(Ids(h)) /\ Len(ids) = c
        /\ \A p \in 1 .. k :
              node.ins[p] # "" => Reads(g, names, ids, h, node.ins[p], Port(node, p))
    BY <1>1 DEF Resolving
  <1>2a. ids \in Seq(Ids(h)) /\ Len(ids) = c /\ Widens(g, h)
    BY <1>2
  <1>3. ResolveInput(st, name) = [ids |-> x, names |-> names, graph |-> j]
    BY <1>1, <1>2, ResolveInputIs
  <1>4. /\ k \in Nat /\ k + 1 \in Nat
        /\ \A p \in 1 .. k + 1 : p \in 1 .. k \/ p = k + 1
    <2>1. Len(node.ins) \in Nat
      OBVIOUS
    <2>2. QED
      BY <2>1
  <1>5. c \in Nat /\ Port(node, k + 1) = c + (IF name # "" THEN 1 ELSE 0)
    BY <1>1, <1>4, PortStep
  <1>5a. c \in Nat /\ c + 1 \in 1 .. c + 1 /\ \A a \in 1 .. c + 1 : a \in 1 .. c \/ a = c + 1
    <2>1. c \in Nat
      BY <1>5
    <2>2. QED
      BY <2>1
  <1>5b. \A a \in 1 .. c : a \in 1 .. c + 1
    BY <1>5a
  <1>6. g.n \in Nat /\ Ids(g) = 0 .. g.n - 1 /\ h.n \in Nat /\ Ids(h) = 0 .. h.n - 1 /\ g.n <= h.n
    BY <1>2 DEF Sound, Noded, Widens, Grows, Ids
  <1>7. Ids(g) \subseteq Ids(h)
    BY <1>6
  <1>8. CASE name = ""
    <2>1. x = ids /\ j = h
      BY <1>1, <1>8 DEF IdsWith, GraphWith
    <2>2. Len(ids) = Port(node, k + 1)
      <3>1. Port(node, k + 1) = c + 0 /\ c \in Nat
        BY <1>5, <1>8
      <3>2. QED
        BY <1>2a, <3>1
    <2>3. \A p \in 1 .. k + 1 :
              node.ins[p] # "" => Reads(g, names, ids, h, node.ins[p], Port(node, p))
      BY <1>1, <1>2, <1>4, <1>8
    <2>4. QED
      BY <1>1, <1>2, <1>3, <2>1, <2>2, <2>3 DEF Resolving
  <1>9. CASE name # "" /\ name \in DOMAIN names
    <2>1. x = Append(ids, names[name]) /\ j = h /\ names[name] \in Ids(h)
      BY <1>1, <1>7, <1>9 DEF IdsWith, GraphWith
    <2>2. /\ x \in Seq(Ids(h)) /\ Len(x) = c + 1 /\ x[c + 1] = names[name]
          /\ \A a \in 1 .. c : x[a] = ids[a] /\ ids[a] \in Ids(h)
      <3>1. PICK S, w : S = Ids(h) /\ w = names[name]
        OBVIOUS
      <3>2. ids \in Seq(S) /\ w \in S /\ x = Append(ids, w)
        BY <1>2a, <2>1, <3>1
      <3>3. /\ x \in Seq(S) /\ Len(x) = Len(ids) + 1 /\ x[Len(ids) + 1] = w
            /\ \A a \in 1 .. Len(ids) : x[a] = ids[a] /\ ids[a] \in S
        BY <3>2, AppendIs
      <3>4. QED
        BY <1>2a, <3>1, <3>3
    <2>3. ASSUME NEW p \in 1 .. k, node.ins[p] # ""
          PROVE  Reads(g, names, x, h, node.ins[p], Port(node, p))
      <3>1. PICK q, s : q = Port(node, p) /\ s = node.ins[p]
        OBVIOUS
      <3>2. Reads(g, names, ids, h, s, q)
        BY <1>2, <2>3, <3>1
      <3>3. q \in 1 .. c /\ q \in 1 .. c + 1 /\ x[q] = ids[q]
        BY <1>2, <1>5b, <2>2, <3>2 DEF Reads
      <3>4. ASSUME s \notin DOMAIN names, NEW a \in 1 .. c + 1, x[a] = x[q] PROVE a = q
        <4>1. ids[q] \notin Ids(g) /\ \A b \in 1 .. c : ids[b] = ids[q] => b = q
          BY <1>2, <3>2, <3>4 DEF Reads
        <4>2. CASE a = c + 1
          BY <1>1, <1>9, <2>2, <3>3, <3>4, <4>1, <4>2
        <4>3. CASE a \in 1 .. c
          BY <2>2, <3>3, <3>4, <4>1, <4>3
        <4>4. QED
          BY <1>5a, <3>4, <4>2, <4>3
      <3>5. QED
        BY <1>2, <2>2, <3>1, <3>2, <3>3, <3>4 DEF Reads
    <2>4. Reads(g, names, x, h, name, c + 1)
      BY <1>5a, <1>9, <2>2 DEF Reads
    <2>5. \A p \in 1 .. k + 1 :
              node.ins[p] # "" => Reads(g, names, x, h, node.ins[p], Port(node, p))
      BY <1>1, <1>4, <1>5, <1>9, <2>3, <2>4
    <2>6. QED
      <3>1. PICK st1 : st1 = [ids |-> x, names |-> names, graph |-> h]
        OBVIOUS
      <3>2. st1.ids = x /\ st1.graph = h /\ st1 = [ids |-> st1.ids, names |-> names, graph |-> st1.graph]
        BY <3>1
      <3>3. Len(x) = Port(node, k + 1) /\ x \in Seq(Ids(h))
        BY <1>5, <1>9, <2>2
      <3>4. Resolving(g, names, node, k + 1, st1)
        BY <1>2a, <2>5, <3>2, <3>3 DEF Resolving
      <3>5. QED
        BY <1>1, <1>3, <2>1, <3>1, <3>4
  <1>10. CASE name # "" /\ name \notin DOMAIN names
    <2>1. x = Append(ids, h.n) /\ j = PushNode(h, InputNode(name, <<1>>))
      BY <1>1, <1>10 DEF IdsWith, GraphWith
    <2>2. /\ Widens(g, j) /\ Ids(j) = Ids(h) \cup {h.n} /\ h.n \notin Ids(h)
          /\ j.nodes[h.n] = InputNode(name, <<1>>)
          /\ \A v \in Ids(h) : j.nodes[v] = h.nodes[v]
      <3>1. j = PushNode(h, InputNode(name, <<1>>)) /\ Widens(g, h) /\ Sound(g)
        BY <1>2a, <2>1
      <3>2. /\ Widens(g, j) /\ Ids(j) = Ids(h) \cup {h.n} /\ h.n \notin Ids(h)
            /\ j.nodes[h.n] = InputNode(name, <<1>>)
            /\ \A v \in Ids(h) : j.nodes[v] = h.nodes[v]
            /\ Ids(g) \subseteq Ids(h)
        BY <3>1, NodeWidens DEF OwnInput
      <3>3. QED
        BY <3>2
    <2>3. ids \in Seq(Ids(j)) /\ h.n \in Ids(j)
      BY <1>2, <2>2, SeqWidens
    <2>4. /\ x \in Seq(Ids(j)) /\ Len(x) = c + 1 /\ x[c + 1] = h.n
          /\ \A a \in 1 .. c : x[a] = ids[a]
      <3>1. PICK S, w : S = Ids(j) /\ w = h.n
        OBVIOUS
      <3>2. ids \in Seq(S) /\ w \in S /\ x = Append(ids, w)
        BY <2>1, <2>3, <3>1
      <3>3. /\ x \in Seq(S) /\ Len(x) = Len(ids) + 1 /\ x[Len(ids) + 1] = w
            /\ \A a \in 1 .. Len(ids) : x[a] = ids[a]
        BY <3>2, AppendIs
      <3>4. QED
        BY <1>2a, <3>1, <3>3
    <2>5. \A a \in 1 .. c : ids[a] \in Ids(h)
      BY <1>2, Members
    <2>6. ASSUME NEW p \in 1 .. k, node.ins[p] # ""
          PROVE  Reads(g, names, x, j, node.ins[p], Port(node, p))
      <3>1. PICK q, s : q = Port(node, p) /\ s = node.ins[p]
        OBVIOUS
      <3>2. Reads(g, names, ids, h, s, q)
        BY <1>2, <2>6, <3>1
      <3>3. q \in 1 .. c /\ q \in 1 .. c + 1 /\ x[q] = ids[q] /\ ids[q] \in Ids(h)
        BY <1>2, <1>5b, <2>4, <2>5, <3>2 DEF Reads
      <3>4. ASSUME s \notin DOMAIN names, NEW a \in 1 .. c + 1, x[a] = x[q] PROVE a = q
        <4>1. \A b \in 1 .. c : ids[b] = ids[q] => b = q
          BY <1>2, <3>2, <3>4 DEF Reads
        <4>2. CASE a = c + 1
          BY <2>2, <2>4, <3>3, <3>4, <4>2
        <4>3. CASE a \in 1 .. c
          BY <2>4, <3>3, <3>4, <4>1, <4>3
        <4>4. QED
          BY <1>5a, <3>4, <4>2, <4>3
      <3>5. j.nodes[ids[q]] = h.nodes[ids[q]]
        BY <2>2, <3>3
      <3>6. QED
        BY <1>2, <2>4, <3>1, <3>2, <3>3, <3>4, <3>5 DEF Reads
    <2>7. Reads(g, names, x, j, name, c + 1)
      <3>1. h.n \notin Ids(g)
        BY <1>6
      <3>2. \A a \in 1 .. c + 1 : x[a] = h.n => a = c + 1
        <4>1. \A a \in 1 .. c : x[a] # h.n
          BY <2>2, <2>4, <2>5
        <4>2. QED
          BY <1>5a, <4>1
      <3>3. QED
        BY <1>5a, <1>10, <2>2, <2>4, <3>1, <3>2 DEF Reads
    <2>8. \A p \in 1 .. k + 1 :
              node.ins[p] # "" => Reads(g, names, x, j, node.ins[p], Port(node, p))
      BY <1>1, <1>4, <1>5, <1>10, <2>6, <2>7
    <2>9. QED
      <3>1. PICK st1 : st1 = [ids |-> x, names |-> names, graph |-> j]
        OBVIOUS
      <3>2. st1.ids = x /\ st1.graph = j /\ st1 = [ids |-> st1.ids, names |-> names, graph |-> st1.graph]
        BY <3>1
      <3>3. Len(x) = Port(node, k + 1) /\ x \in Seq(Ids(j)) /\ Widens(g, j)
        BY <1>5, <1>10, <2>2, <2>4
      <3>4. Resolving(g, names, node, k + 1, st1)
        BY <2>8, <3>2, <3>3 DEF Resolving
      <3>5. QED
        BY <1>1, <1>3, <3>1, <3>4
  <1>11. QED
    BY <1>8, <1>9, <1>10

\* All of them are.
LEMMA ResolvingAll ==
    ASSUME NEW g, Sound(g), Closed(g), NEW names, \A s \in DOMAIN names : names[s] \in Ids(g),
           NEW node, node.ins \in Seq(STRING)
    PROVE  Resolving(g, names, node, Len(node.ins), ResolveInputs(g, names, node.ins))
  <1>1. Ids(g) \subseteq Nat /\ g.n \in Nat
    BY DEF Sound, Noded, Ids
  <1>2. PICK run : IsResolving(g, names, node.ins, run)
    BY <1>1, Resolves
  <1>3. PICK n \in Nat : n = Len(node.ins)
    OBVIOUS
  <1>4. PICK P : P = {k \in 0 .. n : Resolving(g, names, node, k, run[k])}
    OBVIOUS
  <1>5. 0 \in P
    <2>1. PICK st : st = run[0]
      OBVIOUS
    <2>2. st = [ids |-> <<>>, names |-> names, graph |-> g]
      BY <1>2, <2>1 DEF IsResolving
    <2>3. st.ids = <<>> /\ st.graph = g
      BY <2>2
    <2>4. Widens(g, g)
      <3>1. Grows(g, g)
        BY SameGrows
      <3>2. QED
        BY <3>1 DEF Widens
    <2>5. Port(node, 0) = 0
      <3>1. 0 \in Nat
        OBVIOUS
      <3>2. QED
        BY <3>1, PortStep
    <2>6. <<>> \in Seq(Ids(g)) /\ Len(<<>>) = 0
      OBVIOUS
    <2>7. Resolving(g, names, node, 0, st)
      BY <2>2, <2>3, <2>4, <2>5, <2>6 DEF Resolving
    <2>8. 0 \in 0 .. n
      BY <1>3
    <2>9. QED
      BY <1>4, <2>1, <2>7, <2>8
  <1>6. ASSUME NEW k \in 0 .. n - 1, k \in P PROVE k + 1 \in P
    <2>1. Resolving(g, names, node, k, run[k])
      BY <1>4, <1>6
    <2>2. Resolving(g, names, node, k + 1, ResolveInput(run[k], node.ins[k + 1]))
      BY <1>3, <2>1, ResolvingStep
    <2>3. run[k + 1] = ResolveInput(run[k], node.ins[k + 1])
      BY <1>2, <1>3 DEF IsResolving
    <2>4. k + 1 \in 0 .. n
      BY <1>3
    <2>5. QED
      BY <1>4, <2>2, <2>3, <2>4
  <1>7. n \in P
    <2>1. \A k \in 0 .. n : k \in P
      BY <1>3, <1>5, <1>6, UpTo
    <2>2. QED
      BY <1>3, <2>1
  <1>8. ResolveInputs(g, names, node.ins) = run[n]
    BY <1>2, <1>3 DEF IsResolving
  <1>9. QED
    BY <1>3, <1>4, <1>7, <1>8

-----------------------------------------------------------------------------
(* The loader's invariant *)

\* The loader builds a sound graph of which every node reads older ones; the
\* table and `made` name nodes of it, and every node read so far was made.
LoadInv ==
    /\ file \in Files
    /\ LoadTypeOK
    /\ cursor \in Nat \ {0}
    /\ Sound(graph) /\ Closed(graph)
    /\ made \in Seq(Ids(graph))
    /\ phase \in {"check", "inputs", "initializers"} => made = <<>>
    /\ phase = "nodes" => Len(made) = cursor - 1

\* A table with one more entry.
LEMMA PutIs ==
    ASSUME NEW f, NEW x, NEW y
    PROVE  /\ DOMAIN Put(f, x, y) = DOMAIN f \cup {x}
           /\ Put(f, x, y)[x] = y
           /\ \A z \in DOMAIN f : z # x => Put(f, x, y)[z] = f[z]
  BY DEF Put

\* The file is a file.
LEMMA FileIs ==
    ASSUME file \in Files
    PROVE  /\ file.inputs \in Seq([name : STRING, dims : {NoShape} \cup Seq(Int)])
           /\ file.outputs \in Seq([name : STRING, dims : {NoShape} \cup Seq(Int)])
           /\ file.inits \in Seq(Tensors)
           /\ Len(file.nodes) \in Nat /\ DOMAIN file.nodes = 1 .. Len(file.nodes)
           /\ \A j \in 1 .. Len(file.nodes) : IsNode(file.nodes[j])
  BY LoaderAssumption DEF IsFile, Tensors

\* add_node with the id the graph expects: it is refused or it pushes the node.
LEMMA AddNodeIs ==
    ASSUME NEW g, NEW node, NEW added, added = AddNode(g, g.n, node)
    PROVE  added.err # None \/ (added.err = None /\ added.graph = PushNode(g, node))
  <1>1. CASE RankError(node.dims) # None
    BY <1>1 DEF AddNode, Refuses
  <1>2. CASE RankError(node.dims) = None
    BY <1>2 DEF AddNode, Accepts
  <1>3. QED
    BY <1>1, <1>2

\* To grow is transitive.
LEMMA GrowsOn ==
    ASSUME NEW g, Sound(g), NEW h, Sound(h), NEW k, Sound(k), Grows(g, h), Grows(h, k)
    PROVE  Grows(g, k)
  <1>1. g.n \in Nat /\ h.n \in Nat /\ k.n \in Nat /\ g.n <= h.n /\ h.n <= k.n
    BY DEF Sound, Noded, Grows
  <1>2. Ids(g) \subseteq Ids(h)
    BY <1>1 DEF Ids
  <1>3. PICK p, q, r : p = Len(g.inits) /\ q = Len(h.inits) /\ r = Len(k.inits)
    OBVIOUS
  <1>4. p \in Nat /\ q \in Nat /\ r \in Nat /\ p <= q /\ q <= r
    BY <1>3, Listing DEF Sound, Grows
  <1>5. g.n <= k.n /\ p <= r /\ \A a \in 1 .. p : a \in 1 .. q
    BY <1>1, <1>4
  <1>6. QED
    BY <1>2, <1>3, <1>5 DEF Grows

\* The new input node of a name, and what else the turn changes.
Adds(name, dims) ==
    /\ Sound(graph') /\ Closed(graph') /\ Grows(graph, graph')
    /\ graph.n \in Nat /\ graph.n \notin Ids(graph)
    /\ graph'.n = graph.n + 1 /\ Ids(graph') = Ids(graph) \cup {graph.n}
    /\ graph'.nodes[graph.n] = InputNode(name, dims)
    /\ graph'.edges = graph.edges
    /\ nameToNode' = Put(nameToNode, name, graph.n)
    /\ Goes /\ UNCHANGED made

LEMMA AddNamedIs ==
    ASSUME Sound(graph), Closed(graph), NEW name, NEW dims \in Seq(Nat), NEW data,
           AddNamed(name, dims, data)
    PROVE  (\E error : error # None /\ Fail(error)) \/ Adds(name, dims)
  <1>1. PICK node, added, h : /\ node = InputNode(name, dims)
                              /\ added = AddNode(graph, graph.n, node)
                              /\ h = PushNode(graph, node)
    OBVIOUS
  <1>2. CASE added.err # None
    <2>1. Fail(added.err)
      BY <1>1, <1>2 DEF AddNamed
    <2>2. QED
      BY <1>2, <2>1
  <1>3. CASE added.err = None
    <2>1. added.graph = h
      BY <1>1, <1>3, AddNodeIs
    <2>2. /\ nameToNode' = Put(nameToNode, name, graph.n)
          /\ graph' = IF data = <<>> THEN h ELSE AddInitializer(h, data[1]).graph
          /\ Goes /\ UNCHANGED made
      BY <1>1, <1>3, <2>1 DEF AddNamed
    <2>3. node.ins = <<>> /\ node.ins \in Seq(Nat) /\ node.dims \in Seq(Nat)
      BY <1>1, InputNodeIs
    <2>4. Sound(h) /\ Grows(graph, h) /\ Pushed(graph, node, h)
      BY <1>1, <2>3, PushKeeps, PushIs
    <2>5. Closed(h)
      <3>1. node.ins \in Seq(Ids(graph))
        BY <2>3
      <3>2. QED
        BY <2>4, <3>1, PushCloses
    <2>6. graph' = h \/ graph' = [h EXCEPT !.inits = Append(@, data[1])]
      <3>1. CASE data = <<>>
        BY <2>2, <3>1
      <3>2. CASE data # <<>> /\ InitializerError(data[1].dims, data[1].len) # None
        BY <2>2, <3>2 DEF AddInitializer, Refuses
      <3>3. CASE data # <<>> /\ InitializerError(data[1].dims, data[1].len) = None
        BY <2>2, <3>3 DEF AddInitializer, Accepts
      <3>4. QED
        BY <3>1, <3>2, <3>3
    <2>7. /\ Sound(graph') /\ Grows(h, graph')
          /\ graph'.n = h.n /\ graph'.nodes = h.nodes /\ graph'.edges = h.edges
      <3>1. CASE graph' = h
        BY <2>4, <3>1, SameGrows
      <3>2. CASE graph' = [h EXCEPT !.inits = Append(@, data[1])]
        <4>1. PICK init, k : init = data[1] /\ k = graph'
          OBVIOUS
        <4>2. k = [h EXCEPT !.inits = Append(@, init)]
          BY <3>2, <4>1
        <4>3. /\ Sound(k) /\ Grows(h, k)
              /\ k.n = h.n /\ k.nodes = h.nodes /\ k.edges = h.edges
          BY <2>4, <4>2, InitKeeps
        <4>4. QED
          BY <4>1, <4>3
      <3>3. QED
        BY <2>6, <3>1, <3>2
    <2>8. Closed(graph')
      BY <2>5, <2>7, SameCloses
    <2>9. /\ graph.n \in Nat /\ graph.n \notin Ids(graph) /\ h.n = graph.n + 1
          /\ Ids(h) = Ids(graph) \cup {graph.n}
          /\ h.nodes[graph.n] = node /\ h.edges = graph.edges
      BY <2>4 DEF Pushed
    <2>10. Grows(graph, graph')
      BY <2>4, <2>7, GrowsOn
    <2>11. Ids(graph') = Ids(h)
      BY <2>7 DEF Ids
    <2>12. QED
      BY <1>1, <2>2, <2>7, <2>8, <2>9, <2>10, <2>11 DEF Adds
  <1>4. QED
    BY <1>2, <1>3

\* What a file node adds: `new`, whose inputs `ids` are in h, the graph with the
\* inputs made for unknown names, and its edges.
Makes(node, ids, h, new) ==
    /\ Resolving(graph, nameToNode, node, Len(node.ins),
                 [ids |-> ids, names |-> nameToNode, graph |-> h])
    /\ Sound(graph') /\ Closed(graph') /\ Grows(graph, graph')
    /\ h.n \in Nat /\ h.n \notin Ids(h) /\ Ids(graph') = Ids(h) \cup {h.n}
    /\ new.ins = ids
    /\ graph'.nodes = [v \in Ids(graph') |-> IF v = h.n THEN new ELSE h.nodes[v]]
    /\ graph'.refs = graph.refs \o [p \in 1 .. Len(ids) |-> Ref(h.n, ids[p])]
    /\ graph'.edges = graph.edges \o PortEdges(graph', h.n, ids)
    /\ made' = Append(made, h.n)
    /\ nameToNode' = IF FirstOutput(node) = "" THEN nameToNode
                     ELSE Put(nameToNode, FirstOutput(node), h.n)
    /\ Goes

\* The edges of a node whose inputs are ids of the graph.
LEMMA PortEdgesAre ==
    ASSUME NEW g, Sound(g), NEW id \in Nat, NEW ids \in Seq(Ids(g)), NEW y, y = PortEdges(g, id, ids)
    PROVE  /\ y \in Seq(Edges)
           /\ y = [p \in 1 .. Len(ids) |-> [from |-> ids[p], to |-> id, to_port |-> p - 1,
                                            dims |-> g.nodes[ids[p]].dims]]
  <1>1. PICK n : n = Len(ids)
    OBVIOUS
  <1>2. n \in Nat /\ DOMAIN ids = 1 .. n /\ \A p \in 1 .. n : ids[p] \in Ids(g)
    BY <1>1
  <1>3. Ids(g) \subseteq Nat
    BY DEF Sound, Noded, Ids
  <1>4. ASSUME NEW p \in 1 .. n
        PROVE  [from |-> ids[p], to |-> id, to_port |-> p - 1, dims |-> g.nodes[ids[p]].dims] \in Edges
    <2>1. ids[p] \in Nat /\ p - 1 \in Nat
      BY <1>2, <1>3
    <2>2. g.nodes[ids[p]].dims \in Seq(Nat)
      BY <1>2 DEF Sound, Noded
    <2>3. PICK from, port, dims, S :
             from = ids[p] /\ port = p - 1 /\ dims = g.nodes[ids[p]].dims /\ S = Seq(Nat)
      OBVIOUS
    <2>4. [from |-> from, to |-> id, to_port |-> port, dims |-> dims]
            \in [from : Nat, to : Nat, to_port : Nat, dims : S]
      BY <2>1, <2>2, <2>3
    <2>5. QED
      BY <2>3, <2>4 DEF Edges
  <1>5. PICK E : E = Edges
    OBVIOUS
  <1>6. [p \in 1 .. n |-> [from |-> ids[p], to |-> id, to_port |-> p - 1,
                           dims |-> g.nodes[ids[p]].dims]] \in Seq(E)
    <2>1. \A p \in 1 .. n :
             [from |-> ids[p], to |-> id, to_port |-> p - 1, dims |-> g.nodes[ids[p]].dims] \in E
      BY <1>4, <1>5
    <2>2. ASSUME NEW f, f = [p \in 1 .. n |-> f[p]], \A p \in 1 .. n : f[p] \in E
          PROVE  f \in Seq(E)
      BY <1>2, <2>2
    <2>3. PICK f : f = [p \in 1 .. n |-> [from |-> ids[p], to |-> id, to_port |-> p - 1,
                                          dims |-> g.nodes[ids[p]].dims]]
      OBVIOUS
    <2>4. f = [p \in 1 .. n |-> f[p]] /\ \A p \in 1 .. n : f[p] \in E
      BY <2>1, <2>3
    <2>5. QED
      BY <2>2, <2>3, <2>4
  <1>7. y = [p \in 1 .. n |-> [from |-> ids[p], to |-> id, to_port |-> p - 1,
                               dims |-> g.nodes[ids[p]].dims]]
    BY <1>2, Zenon DEF PortEdges
  <1>8. QED
    BY <1>1, <1>5, <1>6, <1>7, Zenon

\* The shape a file node is loaded with.
LEMMA LoadedShapeIs ==
    ASSUME file \in Files, NEW node, IsNode(node), NEW g, Sound(g), NEW ids \in Seq(Ids(g)),
           NEW in, in = [p \in DOMAIN ids |-> g.nodes[ids[p]].dims]
    PROVE  ShapeOf(node, LoadedOperator(node, in), in).dims \in Seq(Nat)
  <1>1. PICK op : op = LoadedOperator(node, in)
    OBVIOUS
  <1>2. in \in Seq(Seq(Nat))
    <2>1. PICK S, n : S = Seq(Nat) /\ n = Len(ids)
      OBVIOUS
    <2>2. n \in Nat /\ DOMAIN ids = 1 .. n /\ \A p \in 1 .. n : ids[p] \in Ids(g)
      BY <2>1
    <2>3. \A p \in 1 .. n : g.nodes[ids[p]].dims \in S
      BY <2>1, <2>2 DEF Sound, Noded
    <2>4. in \in Seq(S)
      BY <2>2, <2>3
    <2>5. QED
      BY <2>1, <2>4
  <1>3. IsOp(op)
    <2>1. file.inits \in Seq(Tensors)
      BY FileIs
    <2>2. IsOp(BuildOperator(node, file.inits))
      BY <2>1, BuildOperatorIs
    <2>3. QED
      BY <1>1, <1>2, <2>2, FixUpsKeep DEF LoadedOperator
  <1>4. InferNodeShape(op, in, <<1>>).dims \in Seq(Nat)
    <2>1. <<1>> \in Seq(Nat)
      OBVIOUS
    <2>2. QED
      BY <1>2, <1>3, <2>1, InferNodeShapeIs
  <1>5. Declared(node.outs[1]) \in Seq(Nat) /\ <<>> \in Seq(Nat)
    BY DeclaredIs
  <1>6. \A s \in Seq(Nat) : ShapeIs(s).dims \in Seq(Nat)
    BY DEF ShapeIs
  <1>7. ShapeOf(node, op, in).dims \in Seq(Nat)
    BY <1>4, <1>5, <1>6 DEF ShapeOf
  <1>8. QED
    BY <1>1, <1>7

\* A node of the file is loaded, or the load fails.
LEMMA LoadNodeIs ==
    ASSUME LoadInv, LoadNode, cursor \in DOMAIN file.nodes
    PROVE  \/ \E error : error # None /\ Fail(error)
           \/ \E ids, h, new : Makes(file.nodes[cursor], ids, h, new)
  <1> DEFINE node     == file.nodes[cursor]
             resolved == ResolveInputs(graph, nameToNode, node.ins)
             h        == resolved.graph
             ids      == resolved.ids
             in       == [p \in DOMAIN ids |-> h.nodes[ids[p]].dims]
             op       == LoadedOperator(node, in)
             shape    == ShapeOf(node, op, in)
             new      == [op |-> op, ins |-> ids, dims |-> shape.dims, name |-> node.name]
             added    == AddNode(h, h.n, new)
             error    == FirstError(<<shape.err, added.err>>)
  <1>1. /\ cursor \in Nat /\ Len(file.nodes) \in Nat /\ ~(cursor > Len(file.nodes))
        /\ IsNode(node) /\ file \in Files
    <2>1. /\ Len(file.nodes) \in Nat /\ DOMAIN file.nodes = 1 .. Len(file.nodes)
          /\ \A j \in 1 .. Len(file.nodes) : IsNode(file.nodes[j])
      BY FileIs DEF LoadInv
    <2>2. cursor \in 1 .. Len(file.nodes)
      BY <2>1
    <2>3. QED
      BY <2>1, <2>2 DEF LoadInv
  <1>2. \/ error # None /\ Fail(error)
        \/ /\ error = None
           /\ graph' = PushEdges(added.graph, PortEdges(added.graph, h.n, ids))
           /\ made' = Append(made, h.n)
           /\ nameToNode' = IF FirstOutput(node) = "" THEN resolved.names
                            ELSE Put(resolved.names, FirstOutput(node), h.n)
           /\ Goes
    BY <1>1, Zenon DEF LoadNode, LoopTurn
  <1>3. Resolving(graph, nameToNode, node, Len(node.ins), resolved)
    <2>1. /\ Sound(graph) /\ Closed(graph) /\ \A s \in DOMAIN nameToNode : nameToNode[s] \in Ids(graph)
          /\ node.ins \in Seq(STRING)
      BY <1>1 DEF LoadInv, LoadTypeOK, IsNode
    <2> HIDE DEF node
    <2>2. QED
      BY <2>1, ResolvingAll
  <1>4. /\ resolved = [ids |-> ids, names |-> nameToNode, graph |-> h]
        /\ Widens(graph, h) /\ ids \in Seq(Ids(h))
    <2> HIDE DEF node
    <2>1. QED
      BY <1>3 DEF Resolving
  <1>5. shape.dims \in Seq(Nat)
    <2> HIDE DEF node, resolved
    <2>1. Sound(h)
      BY <1>4 DEF Widens
    <2>2. PICK s, i, j : s = ids /\ i = in /\ j = h
      OBVIOUS
    <2>3. i = [p \in DOMAIN s |-> j.nodes[s[p]].dims]
      BY <2>2
    <2>3a. file \in Files /\ IsNode(node) /\ Sound(j) /\ s \in Seq(Ids(j))
      BY <1>1, <1>4, <2>1, <2>2
    <2>4. ShapeOf(node, LoadedOperator(node, i), i).dims \in Seq(Nat)
      <3> HIDE DEF node
      <3>1. QED
        BY <2>3, <2>3a, LoadedShapeIs
    <2>5. QED
      BY <2>2, <2>4
  <1>6. new.ins = ids /\ new.dims = shape.dims
    <2> HIDE DEF op, shape, resolved
    <2>1. QED
      OBVIOUS
  <1>7. resolved.names = nameToNode
    <2> HIDE DEF resolved
    <2>1. PICK x, y : x = ids /\ y = h
      OBVIOUS
    <2>2. resolved = [ids |-> x, names |-> nameToNode, graph |-> y]
      BY <1>4, <2>1
    <2>3. QED
      BY <2>2
  <1> HIDE DEF node, resolved, shape, op, new
  <1>8. CASE error = None
    <2>1. added.err = None
      <3>1. PICK x, y, c : x = shape.err /\ y = added.err /\ c = <<x, y>>
        OBVIOUS
      <3>2. FirstError(c) = None
        BY <1>8, <3>1
      <3>3. Len(c) = 2 /\ DOMAIN c = 1 .. Len(c) /\ Len(c) \in Nat /\ 2 \in 1 .. Len(c) /\ c[2] = y
        BY <3>1
      <3>4. c[2] = None
        BY <3>2, <3>3, NoErrors
      <3>5. QED
        BY <3>1, <3>3, <3>4
    <2> DEFINE k  == PushNode(h, new)
               es == PortEdges(k, h.n, ids)
    <2>2. added.graph = k
      BY <2>1, AddNodeIs
    <2>3. /\ graph' = PushEdges(k, es) /\ made' = Append(made, h.n)
          /\ nameToNode' = IF FirstOutput(node) = "" THEN nameToNode
                           ELSE Put(nameToNode, FirstOutput(node), h.n)
          /\ Goes
      BY <1>2, <1>7, <1>8, <2>2
    <2>4. /\ Sound(h) /\ Closed(h) /\ Grows(graph, h) /\ h.refs = graph.refs /\ h.edges = graph.edges
          /\ Ids(h) \subseteq Nat
      <3>1. PICK i : i = h
        OBVIOUS
      <3>2. Widens(graph, i)
        BY <1>4, <3>1
      <3>3. /\ Sound(i) /\ Closed(i) /\ Grows(graph, i) /\ i.refs = graph.refs
            /\ i.edges = graph.edges
        BY <3>2 DEF Widens
      <3>4. Ids(i) \subseteq Nat
        BY <3>3 DEF Sound, Noded, Ids
      <3>5. QED
        BY <3>1, <3>3, <3>4
    <2>5. new.ins \in Seq(Ids(h)) /\ new.ins \in Seq(Nat) /\ new.dims \in Seq(Nat)
      BY <1>4, <1>5, <1>6, <2>4, SeqWidens
    <2>6. Sound(k) /\ Grows(h, k) /\ Pushed(h, new, k)
      BY <2>4, <2>5, PushKeeps, PushIs
    <2>7. Closed(k)
      BY <2>4, <2>5, <2>6, PushCloses
    <2>8. /\ h.n \in Nat /\ h.n \notin Ids(h) /\ Ids(k) = Ids(h) \cup {h.n}
          /\ k.nodes = [v \in Ids(k) |-> IF v = h.n THEN new ELSE h.nodes[v]]
          /\ k.refs = h.refs \o [p \in 1 .. Len(new.ins) |-> Ref(h.n, new.ins[p])]
          /\ k.edges = h.edges
      BY <2>6 DEF Pushed
    <2> HIDE DEF k, es
    <2>9. ids \in Seq(Ids(k))
      BY <1>4, <2>8, SeqWidens
    <2>10. es \in Seq(Edges)
      <3>1. es = PortEdges(k, h.n, ids) /\ h.n \in Nat
        BY <2>8 DEF es
      <3>2. QED
        BY <2>6, <2>9, <3>1, PortEdgesAre
    <2>11. PICK j : j = graph'
      OBVIOUS
    <2>12. /\ Sound(j) /\ Grows(k, j) /\ j.n = k.n /\ j.nodes = k.nodes /\ j.refs = k.refs
           /\ j.edges = k.edges \o es
      BY <2>3, <2>6, <2>10, <2>11, EdgesKeep
    <2>13. Closed(j) /\ Ids(j) = Ids(k)
      BY <2>7, <2>12, SameCloses DEF Ids
    <2>14. Grows(graph, j)
      BY <2>4, <2>6, <2>12, GrowsOn DEF LoadInv
    <2>15. es = PortEdges(j, h.n, ids)
      BY <2>12 DEF es, PortEdges
    <2>16. Makes(node, ids, h, new)
      <3>1. PICK s, i : s = ids /\ i = h
        OBVIOUS
      <3>2. /\ Resolving(graph, nameToNode, node, Len(node.ins),
                         [ids |-> s, names |-> nameToNode, graph |-> i])
            /\ Sound(graph') /\ Closed(graph') /\ Grows(graph, graph')
        BY <1>3, <1>4, <2>11, <2>12, <2>13, <2>14, <3>1
      <3>3. /\ i.n \in Nat /\ i.n \notin Ids(i) /\ Ids(graph') = Ids(i) \cup {i.n}
            /\ new.ins = s
            /\ graph'.nodes = [v \in Ids(graph') |-> IF v = i.n THEN new ELSE i.nodes[v]]
        BY <1>6, <2>8, <2>11, <2>12, <2>13, <3>1
      <3>4. /\ graph'.refs = graph.refs \o [p \in 1 .. Len(s) |-> Ref(i.n, s[p])]
            /\ graph'.edges = graph.edges \o PortEdges(graph', i.n, s)
        BY <1>6, <2>4, <2>8, <2>11, <2>12, <2>15, <3>1
      <3>5. Makes(node, s, i, new)
        BY <2>3, <3>1, <3>2, <3>3, <3>4 DEF Makes
      <3>6. QED
        BY <3>1, <3>5
    <2>17. \E s, i, w : Makes(node, s, i, w)
      BY <2>16
    <2>18. QED
      BY <2>17 DEF node
  <1>9. CASE error # None
    BY <1>2, <1>9
  <1>10. QED
    BY <1>8, <1>9

\* The ids of a graph are ids of what it grows into.
LEMMA GrownIds ==
    ASSUME NEW g, Sound(g), NEW h, Sound(h), Grows(g, h)
    PROVE  /\ Ids(g) \subseteq Ids(h)
           /\ \A s \in Seq(Ids(g)) : s \in Seq(Ids(h))
  <1>1. g.n \in Nat /\ h.n \in Nat /\ g.n <= h.n
    BY DEF Sound, Noded, Grows
  <1>2. Ids(g) \subseteq Ids(h)
    BY <1>1 DEF Ids
  <1>3. QED
    BY <1>2, SeqWidens

\* A table with an entry for an id of the graph names ids of the graph.
LEMMA PutNames ==
    ASSUME NEW f, NEW S, \A s \in DOMAIN f : f[s] \in S, NEW T, S \subseteq T, NEW x, NEW y \in T
    PROVE  \A s \in DOMAIN Put(f, x, y) : Put(f, x, y)[s] \in T
  BY DEF Put

LEMMA LoadInitInv == LoadInit => LoadInv
  <1> SUFFICES ASSUME LoadInit PROVE LoadInv
    OBVIOUS
  <1>1. Sound(graph) /\ Ids(graph) = {}
    BY EmptyIsSound DEF LoadInit, EmptyGraph, Ids
  <1>2. Closed(graph)
    BY <1>1 DEF Closed
  <1>3. made = <<>> /\ Len(made) = 0 /\ made \in Seq(Ids(graph))
    BY DEF LoadInit
  <1>4. LoadTypeOK
    <2>1. file \in Files /\ Len(file.nodes) \in Nat
      BY FileIs DEF LoadInit
    <2>2. DOMAIN nameToNode = {}
      BY DEF LoadInit
    <2>3. QED
      BY <1>3, <2>1, <2>2 DEF LoadTypeOK, LoadInit
  <1>5. QED
    BY <1>1, <1>2, <1>3, <1>4 DEF LoadInv, LoadInit

LEMMA FailKeeps ==
    ASSUME LoadInv, NEW error, error # None, Fail(error), UNCHANGED file
    PROVE  LoadInv'
  BY DEF LoadInv, LoadTypeOK, Fail

\* A turn that makes no file node.
LEMMA LoadTurnKeeps ==
    ASSUME LoadInv, UNCHANGED <<file, made>>, phase # "nodes", phase # "failed",
           Sound(graph'), Closed(graph'), Grows(graph, graph'),
           \A s \in DOMAIN nameToNode' : nameToNode'[s] \in Ids(graph'),
           Goes
    PROVE  LoadInv'
  <1>1. made \in Seq(Ids(graph'))
    BY GrownIds DEF LoadInv
  <1>2. cursor' \in Nat \ {0}
    BY DEF LoadInv, Goes
  <1>3. LoadTypeOK'
    BY DEF LoadInv, LoadTypeOK, Goes
  <1>4. QED
    BY <1>1, <1>2, <1>3 DEF LoadInv, Goes

\* The end of a loop.
LEMMA EndKeeps ==
    ASSUME LoadInv, UNCHANGED <<file, nameToNode, made, loadError, graph>>, cursor' = 1,
           \/ phase = "inputs" /\ phase' = "initializers"
           \/ phase = "initializers" /\ phase' = "nodes"
           \/ phase = "nodes" /\ phase' = "outputs"
           \/ phase = "outputs" /\ phase' = "marked"
    PROVE  LoadInv'
  <1>1. LoadTypeOK'
    BY DEF LoadInv, LoadTypeOK
  <1>2. phase' = "nodes" => Len(made') = cursor' - 1
    BY DEF LoadInv
  <1>3. QED
    BY <1>1, <1>2 DEF LoadInv

\* AddNamed keeps the invariant in the first two loops.
LEMMA AddNamedKeeps ==
    ASSUME LoadInv, phase \in {"inputs", "initializers"}, UNCHANGED file,
           NEW name, NEW dims \in Seq(Nat), NEW data, AddNamed(name, dims, data)
    PROVE  LoadInv'
  <1>1. Sound(graph) /\ Closed(graph)
    BY DEF LoadInv
  <1>2. CASE \E error : error # None /\ Fail(error)
    BY <1>2, FailKeeps
  <1>3. CASE Adds(name, dims)
    <2>1. /\ Sound(graph') /\ Closed(graph') /\ Grows(graph, graph')
          /\ Ids(graph') = Ids(graph) \cup {graph.n}
          /\ nameToNode' = Put(nameToNode, name, graph.n) /\ Goes /\ made' = made
      BY <1>3 DEF Adds
    <2>2. \A s \in DOMAIN nameToNode' : nameToNode'[s] \in Ids(graph')
      <3>1. PICK S, T, f : S = Ids(graph) /\ T = Ids(graph') /\ f = nameToNode
        OBVIOUS
      <3>2. S \subseteq T /\ graph.n \in T /\ \A s \in DOMAIN f : f[s] \in S
        BY <2>1, <3>1 DEF LoadInv, LoadTypeOK
      <3>3. \A s \in DOMAIN Put(f, name, graph.n) : Put(f, name, graph.n)[s] \in T
        BY <3>2, PutNames
      <3>4. QED
        BY <2>1, <3>1, <3>3
    <2>3. QED
      BY <2>1, <2>2, LoadTurnKeeps
  <1>4. QED
    BY <1>1, <1>2, <1>3, AddNamedIs

LEMMA CheckKeeps == LoadInv /\ Check => LoadInv'
  <1> SUFFICES ASSUME LoadInv, Check PROVE LoadInv'
    OBVIOUS
  <1>1. CASE CheckLimits # None /\ Fail(CheckLimits)
    BY <1>1, FailKeeps DEF Check
  <1>2. CASE phase' = "inputs" /\ UNCHANGED <<cursor, nameToNode, made, loadError, graph>>
    BY <1>2 DEF Check, LoadInv, LoadTypeOK
  <1>3. QED
    BY <1>1, <1>2 DEF Check

LEMMA LoadInputKeeps == LoadInv /\ LoadInput => LoadInv'
  <1> SUFFICES ASSUME LoadInv, LoadInput PROVE LoadInv'
    OBVIOUS
  <1> DEFINE name == file.inputs[cursor].name
  <1>1. /\ phase = "inputs" /\ UNCHANGED file
        /\ \/ name \in InitNames /\ Goes /\ UNCHANGED <<nameToNode, made, graph>>
           \/ AddNamed(name, OrOne(Declared(name)), <<>>)
           \/ phase' = "initializers" /\ cursor' = 1 /\ UNCHANGED <<nameToNode, made, loadError, graph>>
    BY DEF LoadInput, LoopTurn
  <1> HIDE DEF name
  <1>2. CASE Goes /\ UNCHANGED <<nameToNode, made, graph>>
    <2>1. Sound(graph') /\ Closed(graph') /\ Grows(graph, graph')
      BY <1>2, SameGrows DEF LoadInv
    <2>2. \A s \in DOMAIN nameToNode' : nameToNode'[s] \in Ids(graph')
      BY <1>2 DEF LoadInv, LoadTypeOK
    <2>3. QED
      BY <1>1, <1>2, <2>1, <2>2, LoadTurnKeeps
  <1>3. CASE AddNamed(name, OrOne(Declared(name)), <<>>)
    <2>1. OrOne(Declared(name)) \in Seq(Nat)
      BY DeclaredIs, OrOneIs DEF LoadInv
    <2>2. QED
      BY <1>1, <1>3, <2>1, AddNamedKeeps
  <1>4. CASE phase' = "initializers" /\ cursor' = 1 /\ UNCHANGED <<nameToNode, made, loadError, graph>>
    BY <1>1, <1>4, EndKeeps
  <1>5. QED
    BY <1>1, <1>2, <1>3, <1>4

\* An initializer that is taken has no negative dimension.
LEMMA InitDimsAre ==
    ASSUME NEW init \in Tensors, InitError(init) = None
    PROVE  OrOne(init.dims) \in Seq(Nat)
  <1>1. ~\E d \in DOMAIN init.dims : init.dims[d] < 0
    BY DEF InitError, None
  <1>2. PICK dims : dims = init.dims
    OBVIOUS
  <1>3. dims \in Seq(Int)
    BY <1>2 DEF Tensors
  <1>4. /\ Len(dims) \in Nat /\ dims = [d \in 1 .. Len(dims) |-> dims[d]]
        /\ \A d \in 1 .. Len(dims) : dims[d] \in Nat
    BY <1>1, <1>2, <1>3
  <1>5. dims \in Seq(Nat)
    BY <1>4
  <1>6. QED
    BY <1>2, <1>5, OrOneIs

LEMMA LoadInitializerKeeps == LoadInv /\ LoadInitializer => LoadInv'
  <1> SUFFICES ASSUME LoadInv, LoadInitializer PROVE LoadInv'
    OBVIOUS
  <1> DEFINE init == file.inits[cursor]
             data == [name |-> init.name, len |-> Len(init.data), dims |-> OrOne(init.dims)]
             some == IF Bound(init) THEN <<data>> ELSE <<>>
  <1>1. /\ phase = "initializers" /\ UNCHANGED file
        /\ \/ /\ cursor \in DOMAIN file.inits
              /\ \/ InitError(init) # None /\ Fail(InitError(init))
                 \/ InitError(init) = None /\ AddNamed(init.name, OrOne(init.dims), some)
           \/ phase' = "nodes" /\ cursor' = 1 /\ UNCHANGED <<nameToNode, made, loadError, graph>>
    BY Zenon DEF LoadInitializer, LoopTurn
  <1> HIDE DEF some, data
  <1>2. CASE InitError(init) # None /\ Fail(InitError(init))
    BY <1>1, <1>2, FailKeeps
  <1>3. CASE /\ cursor \in DOMAIN file.inits
             /\ InitError(init) = None /\ AddNamed(init.name, OrOne(init.dims), some)
    <2>1. init \in Tensors
      <3>1. PICK T, s : T = Tensors /\ s = file.inits
        OBVIOUS
      <3>2. s \in Seq(T) /\ cursor \in DOMAIN s
        BY <1>3, <3>1, FileIs DEF LoadInv
      <3>3. s[cursor] \in T
        BY <3>2
      <3>4. QED
        BY <3>1, <3>3
    <2> HIDE DEF init
    <2>2. OrOne(init.dims) \in Seq(Nat)
      BY <1>3, <2>1, InitDimsAre
    <2>3. QED
      BY <1>1, <1>3, <2>2, AddNamedKeeps
  <1>4. CASE phase' = "nodes" /\ cursor' = 1 /\ UNCHANGED <<nameToNode, made, loadError, graph>>
    BY <1>1, <1>4, EndKeeps
  <1>5. QED
    BY <1>1, <1>2, <1>3, <1>4

\* A file node that is loaded.
LEMMA MakesKeeps ==
    ASSUME LoadInv, phase = "nodes", UNCHANGED file, cursor \in DOMAIN file.nodes,
           NEW node, NEW ids, NEW h, NEW new, Makes(node, ids, h, new)
    PROVE  LoadInv'
  <1>1. /\ Sound(graph') /\ Closed(graph') /\ Grows(graph, graph')
        /\ Ids(graph') = Ids(h) \cup {h.n} /\ made' = Append(made, h.n)
        /\ nameToNode' = IF FirstOutput(node) = "" THEN nameToNode
                         ELSE Put(nameToNode, FirstOutput(node), h.n)
        /\ cursor' = cursor + 1 /\ phase' = phase /\ loadError' = loadError
    BY DEF Makes, Goes
  <1>2. made \in Seq(Ids(graph')) /\ Ids(graph) \subseteq Ids(graph') /\ h.n \in Ids(graph')
    BY <1>1, GrownIds DEF LoadInv
  <1>3. made' \in Seq(Ids(graph')) /\ Len(made') = Len(made) + 1
    <2>1. PICK T, s, t : T = Ids(graph') /\ s = made /\ t = made'
      OBVIOUS
    <2>2. s \in Seq(T) /\ h.n \in T /\ t = Append(s, h.n)
      BY <1>1, <1>2, <2>1
    <2>3. t \in Seq(T) /\ Len(t) = Len(s) + 1
      BY <2>2, AppendIs
    <2>4. QED
      BY <2>1, <2>3
  <1>4. \A s \in DOMAIN nameToNode' : nameToNode'[s] \in Ids(graph')
    <2>1. PICK S, T, f : S = Ids(graph) /\ T = Ids(graph') /\ f = nameToNode
      OBVIOUS
    <2>2. S \subseteq T /\ h.n \in T /\ \A s \in DOMAIN f : f[s] \in S
      BY <1>2, <2>1 DEF LoadInv, LoadTypeOK
    <2>3. /\ \A s \in DOMAIN f : f[s] \in T
          /\ \A s \in DOMAIN Put(f, FirstOutput(node), h.n) : Put(f, FirstOutput(node), h.n)[s] \in T
      BY <2>2, PutNames
    <2>4. QED
      BY <1>1, <2>1, <2>3
  <1>5. /\ Len(made) = cursor - 1 /\ cursor \in Nat \ {0} /\ Len(file.nodes) \in Nat
        /\ cursor <= Len(file.nodes)
    BY FileIs DEF LoadInv
  <1>6. Len(made') <= Len(file'.nodes) /\ Len(made') = cursor' - 1 /\ cursor' \in Nat \ {0}
    <2>1. Len(made') = cursor
      BY <1>3, <1>5
    <2>2. file' = file /\ cursor' = cursor + 1
      BY <1>1
    <2>3. QED
      BY <1>5, <2>1, <2>2
  <1>7. LoadTypeOK'
    BY <1>1, <1>4, <1>6 DEF LoadTypeOK, LoadInv
  <1>8. QED
    BY <1>1, <1>3, <1>6, <1>7 DEF LoadInv

LEMMA LoadNodeKeeps == LoadInv /\ LoadNode => LoadInv'
  <1> SUFFICES ASSUME LoadInv, LoadNode PROVE LoadInv'
    OBVIOUS
  <1>1. /\ phase = "nodes" /\ UNCHANGED file
        /\ \/ cursor \in DOMAIN file.nodes
           \/ phase' = "outputs" /\ cursor' = 1 /\ UNCHANGED <<nameToNode, made, loadError, graph>>
    BY DEF LoadNode, LoopTurn
  <1>2. CASE cursor \in DOMAIN file.nodes
    BY <1>1, <1>2, LoadNodeIs, FailKeeps, MakesKeeps
  <1>3. CASE phase' = "outputs" /\ cursor' = 1 /\ UNCHANGED <<nameToNode, made, loadError, graph>>
    BY <1>1, <1>3, EndKeeps
  <1>4. QED
    BY <1>1, <1>2, <1>3

\* Whoever only changes the registries changes no node, entry or edge.
Registers ==
    /\ Sound(graph') /\ Closed(graph') /\ Grows(graph, graph')
    /\ graph'.n = graph.n /\ graph'.nodes = graph.nodes
    /\ graph'.refs = graph.refs /\ graph'.edges = graph.edges

LEMMA LoadOutputIs ==
    ASSUME LoadInv, LoadOutput
    PROVE  /\ phase = "outputs" /\ UNCHANGED <<file, nameToNode, made>> /\ Registers
           /\ \/ Goes
              \/ phase' = "marked" /\ cursor' = 1 /\ UNCHANGED <<loadError, graph>>
  <1> DEFINE name == file.outputs[cursor].name
  <1>1. /\ phase = "outputs" /\ UNCHANGED file
        /\ \/ /\ graph' = IF name \notin DOMAIN nameToNode THEN graph
                          ELSE MarkOutput(graph, nameToNode[name]).graph
              /\ Goes /\ UNCHANGED <<nameToNode, made>>
           \/ phase' = "marked" /\ cursor' = 1 /\ UNCHANGED <<nameToNode, made, loadError, graph>>
    BY DEF LoadOutput, LoopTurn
  <1> HIDE DEF name
  <1>2. Sound(graph) /\ Closed(graph)
    BY DEF LoadInv
  <1>3. CASE graph' = graph
    <2>1. Registers
      BY <1>2, <1>3, SameGrows DEF Registers
    <2>2. QED
      BY <1>1, <2>1
  <1>4. CASE graph' # graph
    <2>1. PICK id, h : id = nameToNode[name] /\ h = graph'
      OBVIOUS
    <2>2. name \in DOMAIN nameToNode /\ h = MarkOutput(graph, id).graph /\ Goes /\ UNCHANGED <<nameToNode, made>>
      BY <1>1, <1>4, <2>1
    <2>3. id \in Ids(graph)
      BY <2>1, <2>2 DEF LoadInv, LoadTypeOK
    <2>4. h = [graph EXCEPT !.outputs = Mark(@, id)]
      BY <2>2, <2>3 DEF MarkOutput, Accepts
    <2>5. /\ Sound(h) /\ Grows(graph, h) /\ h.n = graph.n /\ h.nodes = graph.nodes
          /\ h.refs = graph.refs /\ h.edges = graph.edges
      BY <1>2, <2>3, <2>4, MarksKeep
    <2>6. Closed(h)
      BY <1>2, <2>5, SameCloses
    <2>7. Registers
      BY <2>1, <2>5, <2>6 DEF Registers
    <2>8. QED
      BY <1>1, <2>2, <2>7
  <1>5. QED
    BY <1>3, <1>4

LEMMA LoadOutputKeeps == LoadInv /\ LoadOutput => LoadInv'
  <1> SUFFICES ASSUME LoadInv, LoadOutput PROVE LoadInv'
    OBVIOUS
  <1>1. /\ phase = "outputs" /\ UNCHANGED <<file, nameToNode, made>> /\ Registers
        /\ \/ Goes
           \/ phase' = "marked" /\ cursor' = 1 /\ UNCHANGED <<loadError, graph>>
    BY LoadOutputIs
  <1>2. CASE Goes
    <2>1. Sound(graph') /\ Closed(graph') /\ Grows(graph, graph') /\ Ids(graph') = Ids(graph)
      BY <1>1 DEF Registers, Ids
    <2>2. \A s \in DOMAIN nameToNode' : nameToNode'[s] \in Ids(graph')
      BY <1>1, <2>1 DEF LoadInv, LoadTypeOK
    <2>3. QED
      BY <1>1, <1>2, <2>1, <2>2, LoadTurnKeeps
  <1>3. CASE phase' = "marked" /\ cursor' = 1 /\ UNCHANGED <<loadError, graph>>
    BY <1>1, <1>3, EndKeeps
  <1>4. QED
    BY <1>1, <1>2, <1>3

LEMMA FinishIs ==
    ASSUME LoadInv, Finish
    PROVE  /\ phase' = "loaded" /\ UNCHANGED <<file, cursor, nameToNode, made, loadError>>
           /\ phase = "marked" /\ Registers
  <1>1. /\ phase' = "loaded" /\ UNCHANGED <<file, cursor, nameToNode, made, loadError>>
        /\ phase = "marked" /\ (graph' = graph \/ graph' = InferOutputs(graph))
    BY DEF Finish
  <1>2. Sound(graph) /\ Closed(graph)
    BY DEF LoadInv
  <1>3. CASE graph' = graph
    BY <1>1, <1>2, <1>3, SameGrows DEF Registers
  <1>4. CASE graph' = InferOutputs(graph)
    <2>1. PICK h : h = graph'
      OBVIOUS
    <2>2. /\ Sound(h) /\ Grows(graph, h) /\ h.n = graph.n /\ h.nodes = graph.nodes
          /\ h.refs = graph.refs /\ h.edges = graph.edges
      BY <1>2, <1>4, <2>1, InferKeeps
    <2>3. Closed(h)
      BY <1>2, <2>2, SameCloses
    <2>4. QED
      BY <1>1, <2>1, <2>2, <2>3 DEF Registers
  <1>5. QED
    BY <1>1, <1>3, <1>4

LEMMA FinishKeeps == LoadInv /\ Finish => LoadInv'
  <1> SUFFICES ASSUME LoadInv, Finish PROVE LoadInv'
    OBVIOUS
  <1>1. /\ phase' = "loaded" /\ UNCHANGED <<file, cursor, nameToNode, made, loadError>>
        /\ phase = "marked" /\ Registers
    BY FinishIs
  <1>2. Sound(graph') /\ Closed(graph') /\ Ids(graph') = Ids(graph)
    BY <1>1 DEF Registers, Ids
  <1>3. LoadTypeOK'
    BY <1>1, <1>2 DEF LoadInv, LoadTypeOK
  <1>4. QED
    BY <1>1, <1>2, <1>3 DEF LoadInv

LEMMA LoadKeeps == LoadInv /\ Load => LoadInv'
  BY CheckKeeps, LoadInputKeeps, LoadInitializerKeeps, LoadNodeKeeps, LoadOutputKeeps, FinishKeeps
     DEF Load

LEMMA LoadStutters == LoadInv /\ UNCHANGED loadVars => LoadInv'
  BY DEF LoadInv, LoadTypeOK, loadVars

-----------------------------------------------------------------------------
(* The compiler's invariant *)

\* What is bound when the first j nodes of the order have been emitted.
Emitted(j) == \A a \in 1 .. j : order[a] \in BoundBefore(Len(program) + 1)

\* Each statement names nodes of the order and reads what is bound before it.
Programmed ==
    /\ IsList(program)
    /\ \A s \in 1 .. Len(program) : /\ program[s].to \in ToSet(order)
                                    /\ ToSet(program[s].reads) \subseteq ToSet(order)
                                    /\ ToSet(program[s].reads) \subseteq BoundBefore(s)

\* A graph is given to the compiler when it is loaded; what it compiles has an
\* order and one output; what has been emitted is bound.
AotInv ==
    /\ stage \in {"waiting", "idle", "fold", "emit", "compiled", "run", "return", "answered",
                  "refused", "panicked"}
    /\ stage # "waiting" => phase = "loaded"
    /\ order # <<>> => IsTopological(graph, order) /\ Len(graph.outputs) = 1
    /\ stage \in {"fold", "emit"} => order # <<>> /\ at \in 1 .. Len(order)
    /\ stage \in {"waiting", "idle", "fold"} => program = <<>>
    /\ stage \in {"waiting", "idle"} => order = <<>>
    /\ stage \in {"compiled", "run", "return"} => order # <<>>
    /\ DOMAIN folded \subseteq ToSet(order)
    /\ Programmed
    /\ stage = "emit" => Emitted(at - 1)
    /\ stage \in {"compiled", "run"} => Emitted(Len(order))

LEMMA EmptyProgram ==
    ASSUME NEW p, p = <<>>
    PROVE  IsList(p) /\ Len(p) = 0 /\ 1 .. Len(p) = {}
  <1>1. p \in Seq({}) /\ Len(p) = 0
    OBVIOUS
  <1>2. IsList(p)
    <2>1. PICK S : S = {}
      OBVIOUS
    <2>2. p \in Seq(S)
      BY <1>1, <2>1
    <2>3. QED
      BY <2>2, SeqIsList
  <1>3. 1 .. 0 = {}
    OBVIOUS
  <1>4. QED
    BY <1>1, <1>2, <1>3

LEMMA AotInitInv == AotInit("waiting") => AotInv
  <1> SUFFICES ASSUME AotInit("waiting") PROVE AotInv
    OBVIOUS
  <1>1. Programmed
    BY EmptyProgram DEF AotInit, Programmed
  <1>2. DOMAIN folded = {}
    BY DEF AotInit
  <1>3. QED
    BY <1>1, <1>2 DEF AotInit, AotInv

\* Nothing but the stage, the index and what is run changes.
LEMMA RestKeeps ==
    ASSUME AotInv, UNCHANGED <<graph, order, inputId, folded, program, phase>>,
           stage' \in {"compiled", "run", "return", "answered", "refused", "panicked"},
           stage \notin {"waiting"},
           stage' \in {"compiled", "run"} => stage \in {"compiled", "run"},
           stage' = "return" => stage \in {"compiled", "run", "return"}
    PROVE  AotInv'
  <1>1. Programmed'
    BY DEF AotInv, Programmed, BoundBefore
  <1>2. stage' \in {"compiled", "run"} => Emitted(Len(order))'
    BY DEF AotInv, Emitted, BoundBefore
  <1>3. order' # <<>> => IsTopological(graph', order') /\ Len(graph'.outputs) = 1
    BY DEF AotInv
  <1>4. QED
    BY <1>1, <1>2, <1>3 DEF AotInv

\* The checks.
LEMMA CheckGraphKeeps ==
    ASSUME LoadInv, AotInv, CheckGraph, phase' = phase
    PROVE  AotInv'
  <1> DEFINE sort   == TopologicalSort(graph)
             checks == <<Require(graph.n # 0, "EmptyGraph"),
                         Require(sort.verdict = "ordered", "Graph"),
                         Require(Len(RuntimeInputs) = 1, "UnsupportedInputCount"),
                         Require(Len(graph.outputs) = 1, "UnsupportedOutputCount")>>
             error  == FirstError(checks)
  <1>1. /\ stage = "idle" /\ UNCHANGED <<graph, folded, program, supplied, env>>
        /\ \/ error # None /\ Stop(error) /\ UNCHANGED <<order, inputId>>
           \/ /\ error = None /\ Enter("fold")
              /\ order' = sort.order /\ inputId' = RuntimeInputs[1]
              /\ UNCHANGED result
    BY Zenon DEF CheckGraph
  <1>2. CASE error # None
    <2>1. Stop(error) /\ UNCHANGED <<order, inputId>>
      BY <1>1, <1>2
    <2>2. stage' \in {"refused", "panicked"}
      <3> HIDE DEF error
      <3>1. QED
        BY <2>1 DEF Stop
    <2> HIDE DEF error, sort
    <2>3. QED
      BY <1>1, <2>1, <2>2, RestKeeps
  <1>3. CASE error = None
    <2>1. checks[1] = None /\ checks[2] = None /\ checks[4] = None
      <3>1. PICK a, b, c, d, s : /\ a = checks[1] /\ b = checks[2] /\ c = checks[3] /\ d = checks[4]
                                 /\ s = <<a, b, c, d>>
        OBVIOUS
      <3>2. s = checks
        BY <3>1, Zenon
      <3>3. FirstError(s) = None
        BY <1>3, <3>2
      <3>4. /\ Len(s) = 4 /\ DOMAIN s = 1 .. Len(s) /\ Len(s) \in Nat
            /\ 1 \in 1 .. Len(s) /\ 2 \in 1 .. Len(s) /\ 4 \in 1 .. Len(s)
            /\ s[1] = a /\ s[2] = b /\ s[4] = d
        <4> HIDE DEF checks
        <4>1. QED
          BY <3>1
      <3>5. s[1] = None /\ s[2] = None /\ s[4] = None
        <4> HIDE DEF checks
        <4>1. QED
          BY <3>3, <3>4, NoErrors
      <3>6. QED
        BY <3>1, <3>4, <3>5
    <2>2. graph.n # 0 /\ sort.verdict = "ordered" /\ Len(graph.outputs) = 1
      <3>1. /\ checks[1] = Require(graph.n # 0, "EmptyGraph")
            /\ checks[2] = Require(sort.verdict = "ordered", "Graph")
            /\ checks[4] = Require(Len(graph.outputs) = 1, "UnsupportedOutputCount")
        <4> HIDE DEF sort
        <4>1. QED
          BY DEF checks
      <3> HIDE DEF checks, sort
      <3>2. QED
        BY <2>1, <3>1 DEF Require, None
    <2>3. /\ stage' = "fold" /\ at' = 1 /\ order' = sort.order
      BY <1>1, <1>3 DEF Enter
    <2>4. IsTopological(graph, sort.order)
      BY ClosedSorts DEF LoadInv
    <2> HIDE DEF error, checks, sort
    <2>5. IsTopological(graph', order') /\ Len(graph'.outputs) = 1
      BY <1>1, <2>2, <2>3, <2>4
    <2>6. order' # <<>> /\ Len(order') \in Nat \ {0} /\ at' \in 1 .. Len(order')
      <3>1. graph.n \in Nat
        BY DEF LoadInv, Sound, Noded
      <3>2. PICK s, S, n : s = order' /\ S = Ids(graph) /\ n = graph.n
        OBVIOUS
      <3>3. s \in Seq(S) /\ Len(s) = n
        BY <2>3, <2>4, <3>2 DEF IsTopological
      <3>4. s # <<>> /\ Len(s) \in Nat \ {0}
        BY <2>2, <3>1, <3>2, <3>3
      <3>5. QED
        BY <2>3, <3>2, <3>4
    <2>7. folded' = folded /\ program' = <<>> /\ phase' = "loaded"
      BY <1>1 DEF AotInv
    <2>8. DOMAIN folded' \subseteq ToSet(order')
      <3>1. order = <<>> /\ ToSet(order) = {}
        BY <1>1 DEF AotInv, ToSet
      <3>2. QED
        BY <2>7, <3>1 DEF AotInv
    <2>9. Programmed'
      BY <2>7, EmptyProgram DEF Programmed
    <2>10. QED
      BY <2>3, <2>5, <2>6, <2>7, <2>8, <2>9 DEF AotInv
  <1>4. QED
    BY <1>2, <1>3

\* The order has a length, and its members are at its positions.
LEMMA OrderIs ==
    ASSUME AotInv, order # <<>>
    PROVE  /\ Len(order) \in Nat /\ DOMAIN order = 1 .. Len(order)
           /\ \A a \in 1 .. Len(order) : order[a] \in ToSet(order) /\ order[a] \in Ids(graph)
           /\ \A v \in ToSet(order) : \E a \in 1 .. Len(order) : order[a] = v
  <1>1. order \in Seq(Ids(graph))
    BY DEF AotInv, IsTopological
  <1>2. QED
    BY <1>1, Members

\* A turn of fold_constants.
LEMMA FoldNodeKeeps ==
    ASSUME LoadInv, AotInv, FoldNode, phase' = phase
    PROVE  AotInv'
  <1> DEFINE value == FoldValue(order[at])
  <1>1. /\ stage = "fold" /\ UNCHANGED <<graph, order, inputId, program>>
        /\ \/ Stop("panic") /\ UNCHANGED folded
           \/ /\ folded' = Put(folded, order[at], value.out)
              /\ Advance("emit", Len(order))
           \/ Advance("emit", Len(order)) /\ UNCHANGED folded
    BY DEF FoldNode
  <1> HIDE DEF value
  <1>2. CASE Stop("panic") /\ UNCHANGED folded
    BY <1>1, <1>2, RestKeeps DEF Stop
  <1>3. CASE Advance("emit", Len(order)) /\ DOMAIN folded' \subseteq ToSet(order)
    <2>1. order # <<>> /\ at \in 1 .. Len(order) /\ Len(order) \in Nat
      BY <1>1, OrderIs DEF AotInv
    <2>2. /\ stage' \in {"fold", "emit"} /\ at' \in 1 .. Len(order)
          /\ stage' = "emit" => at' = 1
      BY <1>1, <1>3, <2>1 DEF Advance, Enter
    <2>3. Programmed'
      BY <1>1 DEF AotInv, Programmed, BoundBefore
    <2>4. stage' = "emit" => Emitted(at - 1)'
      <3>1. \A a \in 1 .. 0 : FALSE
        OBVIOUS
      <3>2. stage' = "emit" => at' - 1 = 0
        BY <2>2
      <3>3. QED
        BY <3>1, <3>2 DEF Emitted
    <2>5. order' # <<>> => IsTopological(graph', order') /\ Len(graph'.outputs) = 1
      BY <1>1, <2>2 DEF AotInv
    <2>6. QED
      BY <1>1, <1>3, <2>1, <2>2, <2>3, <2>4, <2>5 DEF AotInv
  <1>4. order[at] \in ToSet(order) /\ DOMAIN folded \subseteq ToSet(order)
    BY <1>1, OrderIs DEF AotInv
  <1>5. DOMAIN Put(folded, order[at], value.out) \subseteq ToSet(order)
    <2>1. PICK v, y : v = order[at] /\ y = value.out
      OBVIOUS
    <2>2. DOMAIN Put(folded, v, y) = DOMAIN folded \cup {v}
      BY PutIs
    <2>3. QED
      BY <1>4, <2>1, <2>2
  <1>6. QED
    BY <1>1, <1>2, <1>3, <1>4, <1>5

\* A list with one more entry.
LEMMA ListWithOne ==
    ASSUME NEW p, IsList(p), NEW x, NEW q, q = p \o <<x>>
    PROVE  /\ IsList(q) /\ Len(p) \in Nat /\ Len(q) = Len(p) + 1 /\ q[Len(p) + 1] = x
           /\ \A s \in 1 .. Len(p) : q[s] = p[s]
  <1>1. PICK S, T : T = ToSet(p) /\ S = T \cup {x}
    OBVIOUS
  <1>2. p \in Seq(S) /\ <<x>> \in Seq(S) /\ Len(<<x>>) = 1 /\ <<x>>[1] = x
    <2>1. p \in Seq(T) /\ T \subseteq S /\ x \in S
      BY <1>1 DEF IsList
    <2>2. p \in Seq(S)
      BY <2>1
    <2>3. QED
      BY <2>1, <2>2
  <1>3. /\ q \in Seq(S) /\ Len(q) = Len(p) + Len(<<x>>) /\ Len(p) \in Nat
        /\ \A a \in 1 .. Len(p) : q[a] = p[a]
        /\ \A a \in 1 .. Len(<<x>>) : q[Len(p) + a] = <<x>>[a]
    BY <1>2, Joined
  <1>4. q[Len(p) + 1] = x /\ Len(q) = Len(p) + 1
    BY <1>2, <1>3
  <1>5. IsList(q)
    BY <1>3, SeqIsList
  <1>6. QED
    BY <1>3, <1>4, <1>5

\* The statements of a node: none for the parameter; else one that binds the
\* node and reads nothing or its producers.
LEMMA StatementsAre ==
    ASSUME NEW v, Statements(v).err = None
    PROVE  \/ v = inputId /\ Statements(v).let = <<>>
           \/ \E x : /\ Statements(v).let = <<x>> /\ x.to = v
                     /\ ToSet(x.reads) = {} \/ ToSet(x.reads) = Producers(graph, v)
  <1>1. CASE v = inputId
    BY <1>1 DEF Statements
  <1>2. CASE v # inputId /\ v \in DOMAIN folded
    <2>1. PICK c, x : c = Code("Literal", folded[v]) /\ x = [to |-> v, reads |-> <<>>, code |-> c]
      OBVIOUS
    <2>2. Statements(v) = [err |-> None, let |-> <<x>>]
      BY <1>2, <2>1, Zenon DEF Statements
    <2>3. x.to = v /\ x.reads = <<>> /\ ToSet(x.reads) = {} /\ Statements(v).let = <<x>>
      BY <2>1, <2>2 DEF ToSet
    <2>4. QED
      BY <2>3
  <1>3. CASE v # inputId /\ v \notin DOMAIN folded /\ IsInput(graph, v)
    BY <1>3 DEF Statements, None
  <1>4. CASE v # inputId /\ v \notin DOMAIN folded /\ ~IsInput(graph, v)
    <2> DEFINE emitted == EmitOp(graph.nodes[v].op, InDims(v), Dims(v))
    <2>1. Statements(v) = [err |-> emitted.err,
             let |-> <<[to |-> v, reads |-> graph.nodes[v].ins, code |-> emitted.code]>>]
      BY <1>4, Zenon DEF Statements
    <2> HIDE DEF emitted
    <2>2. PICK i, c, x : /\ i = graph.nodes[v].ins /\ c = emitted.code
                         /\ x = [to |-> v, reads |-> i, code |-> c]
      OBVIOUS
    <2>3. Statements(v) = [err |-> emitted.err, let |-> <<x>>]
      BY <2>1, <2>2, Zenon
    <2>4. x.to = v /\ x.reads = i /\ Statements(v).let = <<x>>
      BY <2>2, <2>3
    <2>5. ToSet(x.reads) = Producers(graph, v)
      BY <2>2, <2>4 DEF Producers
    <2>6. QED
      BY <2>4, <2>5
  <1>5. QED
    BY <1>1, <1>2, <1>3, <1>4

\* The producers of a node come before it in the order.
LEMMA ProducersBefore ==
    ASSUME LoadInv, AotInv, order # <<>>, NEW j \in 1 .. Len(order),
           NEW w \in Producers(graph, order[j])
    PROVE  \E k \in 1 .. j - 1 : order[k] = w
  <1>1. PICK v, n : v = order[j] /\ n = graph.n
    OBVIOUS
  <1>2. IsTopological(graph, order) /\ v \in Ids(graph) /\ Len(order) = n /\ n \in Nat
    BY <1>1, OrderIs DEF AotInv, IsTopological
  <1>3. PICK r \in DOMAIN graph.refs : graph.refs[r] = Ref(v, w)
    BY <1>1, <1>2 DEF LoadInv, Sound, Referred
  <1>4. graph.refs[r].to = v /\ graph.refs[r].from = w
    BY <1>3 DEF Ref
  <1>5. \E k \in 1 .. n : k < j /\ order[k] = graph.refs[r].from
    BY <1>1, <1>2, <1>4 DEF IsTopological
  <1>6. QED
    BY <1>2, <1>4, <1>5

\* A node is emitted.
LEMMA EmitNodeKeeps ==
    ASSUME LoadInv, AotInv, EmitNode, phase' = phase
    PROVE  AotInv'
  <1> DEFINE emitted == Statements(order[at])
  <1>1. /\ stage = "emit" /\ UNCHANGED <<graph, order, inputId, folded>>
        /\ \/ emitted.err # None /\ Stop(emitted.err) /\ UNCHANGED program
           \/ /\ emitted.err = None /\ program' = program \o emitted.let
              /\ Advance("compiled", Len(order))
    BY DEF EmitNode
  <1>2. CASE emitted.err # None /\ Stop(emitted.err) /\ UNCHANGED program
    <2> HIDE DEF emitted
    <2>1. stage' \in {"refused", "panicked"}
      BY <1>2 DEF Stop
    <2>2. QED
      BY <1>1, <1>2, <2>1, RestKeeps
  <1>3. CASE /\ emitted.err = None /\ program' = program \o emitted.let
             /\ Advance("compiled", Len(order))
    <2>1. /\ order # <<>> /\ at \in 1 .. Len(order) /\ Len(order) \in Nat
          /\ order[at] \in ToSet(order) /\ IsList(program) /\ Emitted(at - 1)
      BY <1>1, OrderIs DEF AotInv, Programmed
    <2>2. PICK v, m : v = order[at] /\ m = Len(program)
      OBVIOUS
    <2>3. ASSUME NEW w \in Producers(graph, v)
          PROVE  w \in BoundBefore(m + 1) /\ w \in ToSet(order)
      <3>1. PICK k \in 1 .. at - 1 : order[k] = w
        BY <2>1, <2>2, <2>3, ProducersBefore
      <3>2. k \in 1 .. Len(order)
        BY <2>1
      <3>3. QED
        BY <2>1, <2>2, <3>1, <3>2, OrderIs DEF Emitted
    <2>4. Len(program) \in Nat
      BY <2>1, Listing
    <2> DEFINE Grown == /\ IsList(program') /\ Len(program') \in Nat
                        /\ Programmed'
                        /\ BoundBefore(m + 1) \cup {v} \subseteq BoundBefore(Len(program) + 1)'
    <2>5. ASSUME v = inputId, emitted.let = <<>>
          PROVE  Grown
      <3>1. program' = program
        <4>1. PICK S, p : S = ToSet(program) /\ p = program
          OBVIOUS
        <4>2. p \in Seq(S) /\ p \o <<>> = p
          BY <2>1, <4>1 DEF IsList
        <4>3. QED
          BY <1>3, <2>5, <4>1, <4>2
      <3>1a. Programmed /\ order' = order /\ inputId' = inputId
        BY <1>1 DEF AotInv
      <3>2. Programmed'
        <4> HIDE DEF Grown, emitted
        <4>1. ASSUME NEW s PROVE BoundBefore(s)' = BoundBefore(s)
          BY <3>1, <3>1a DEF BoundBefore
        <4>2. QED
          BY <3>1, <3>1a, <4>1 DEF Programmed
      <3>3. BoundBefore(m + 1) \cup {v} \subseteq BoundBefore(Len(program) + 1)'
        BY <1>1, <2>2, <2>5, <3>1 DEF BoundBefore
      <3>4. Grown
        BY <2>1, <2>4, <3>1, <3>2, <3>3
      <3>5. QED
        BY <3>4
    <2>6. ASSUME NEW x, emitted.let = <<x>>, x.to = v,
                 ToSet(x.reads) = {} \/ ToSet(x.reads) = Producers(graph, v)
          PROVE  Grown
      <3>1. /\ emitted.let = <<x>> /\ x.to = v
            /\ ToSet(x.reads) = {} \/ ToSet(x.reads) = Producers(graph, v)
        BY <2>6
      <3>2. /\ IsList(program') /\ m \in Nat /\ Len(program') = m + 1 /\ program'[m + 1] = x
            /\ \A s \in 1 .. m : program'[s] = program[s]
        <4>1. PICK p, q : p = program /\ q = program'
          OBVIOUS
        <4>2. IsList(p) /\ q = p \o <<x>>
          BY <1>3, <2>1, <3>1, <4>1
        <4>3. IsList(q) /\ Len(p) \in Nat /\ Len(q) = Len(p) + 1 /\ q[Len(p) + 1] = x
          BY <4>2, ListWithOne
        <4>3a. \A s \in 1 .. Len(p) : q[s] = p[s]
          BY <4>2, ListWithOne
        <4>4. QED
          BY <2>2, <4>1, <4>3, <4>3a
      <3>3. /\ \A s \in 1 .. m + 1 : BoundBefore(s)' = BoundBefore(s)
            /\ BoundBefore(m + 2)' = BoundBefore(m + 1) \cup {v}
        <4>1. inputId' = inputId
          BY <1>1
        <4>2. ASSUME NEW s \in 1 .. m + 1 PROVE BoundBefore(s)' = BoundBefore(s)
          <5>1. \A r \in 1 .. s - 1 : program'[r] = program[r]
            BY <3>2
          <5>2. QED
            BY <4>1, <5>1 DEF BoundBefore
        <4>3. 1 .. (m + 2) - 1 = (1 .. (m + 1) - 1) \cup {m + 1} /\ \A r \in 1 .. (m + 1) - 1 : r \in 1 .. m
          BY <3>2
        <4>4. {program'[r].to : r \in 1 .. (m + 2) - 1}
                = {program[r].to : r \in 1 .. (m + 1) - 1} \cup {v}
          BY <3>1, <3>2, <4>3
        <4>5. QED
          BY <4>1, <4>2, <4>4 DEF BoundBefore
      <3>4. ASSUME NEW s \in 1 .. m + 1
            PROVE  /\ program'[s].to \in ToSet(order')
                   /\ ToSet(program'[s].reads) \subseteq ToSet(order')
                   /\ ToSet(program'[s].reads) \subseteq BoundBefore(s)'
        <4>1. CASE s = m + 1
          <5>1. program'[s] = x /\ s = m + 1
            BY <3>2, <4>1
          <5>2. ToSet(x.reads) \subseteq ToSet(order) /\ ToSet(x.reads) \subseteq BoundBefore(m + 1)
            BY <2>3, <3>1
          <5>3. x.to \in ToSet(order)
            BY <2>1, <2>2, <3>1
          <5>4. order' = order /\ BoundBefore(s)' = BoundBefore(s)
            BY <1>1, <3>3
          <5>5. QED
            BY <5>1, <5>2, <5>3, <5>4
        <4>2. CASE s \in 1 .. m
          <5>1. /\ program[s].to \in ToSet(order)
                /\ ToSet(program[s].reads) \subseteq ToSet(order)
                /\ ToSet(program[s].reads) \subseteq BoundBefore(s)
            BY <2>2, <4>2 DEF AotInv, Programmed
          <5>2. order' = order /\ BoundBefore(s)' = BoundBefore(s) /\ program'[s] = program[s]
            BY <1>1, <3>2, <3>3, <4>2
          <5>3. QED
            BY <5>1, <5>2
        <4>3. s = m + 1 \/ s \in 1 .. m
          BY <3>2
        <4>4. QED
          BY <4>1, <4>2, <4>3
      <3>5. Programmed'
        BY <3>2, <3>4 DEF Programmed
      <3>6. BoundBefore(m + 1) \cup {v} \subseteq BoundBefore(Len(program) + 1)'
        <4>1. Len(program') + 1 = m + 2
          BY <3>2
        <4>2. QED
          BY <3>3, <4>1
      <3>7. Grown
        BY <3>2, <3>5, <3>6
      <3>8. QED
        BY <3>7
    <2>7. Grown
      <3>1. Statements(v).err = None /\ Statements(v).let = emitted.let
        BY <1>3, <2>2
      <3>2. \/ v = inputId /\ emitted.let = <<>>
            \/ \E x : /\ emitted.let = <<x>> /\ x.to = v
                      /\ ToSet(x.reads) = {} \/ ToSet(x.reads) = Producers(graph, v)
        BY <3>1, StatementsAre
      <3> HIDE DEF Grown, emitted
      <3>3. QED
        BY <2>5, <2>6, <3>2
    <2>8. \A a \in 1 .. at : order'[a] \in BoundBefore(Len(program) + 1)'
      <3>1. ASSUME NEW a \in 1 .. at PROVE order'[a] \in BoundBefore(Len(program) + 1)'
        <4>1. a \in 1 .. at - 1 \/ a = at
          BY <2>1
        <4>2. order[a] \in BoundBefore(m + 1) \cup {v}
          BY <2>1, <2>2, <4>1 DEF Emitted
        <4>3. QED
          BY <1>1, <2>7, <4>2
      <3>2. QED
        BY <3>1
    <2>9. CASE at = Len(order)
      <3>1. stage' = "compiled" /\ Emitted(Len(order))'
        BY <1>1, <1>3, <2>8, <2>9 DEF Advance, Enter, Emitted
      <3>2. QED
        BY <1>1, <2>1, <2>7, <3>1 DEF AotInv
    <2>10. CASE at # Len(order)
      <3>1. stage' = "emit" /\ at' = at + 1 /\ at' - 1 = at /\ at' \in 1 .. Len(order)
        BY <1>1, <1>3, <2>1, <2>10 DEF Advance
      <3>2. Emitted(at - 1)'
        BY <2>8, <3>1 DEF Emitted
      <3>3. QED
        BY <1>1, <2>1, <2>7, <3>1, <3>2 DEF AotInv
    <2>11. QED
      BY <2>9, <2>10
  <1>4. QED
    BY <1>1, <1>2, <1>3

-----------------------------------------------------------------------------
(* The tool chain *)

ToolchainInv == LoadInv /\ AotInv

LEMMA ToolchainInitInv == Init => ToolchainInv
  BY LoadInitInv, AotInitInv DEF Init, ToolchainInv

\* A run of the program keeps the compiler's invariant.
LEMMA ExecuteKeeps ==
    ASSUME AotInv, ExecuteStep, UNCHANGED phase
    PROVE  AotInv'
  <1>1. CASE CallExecute
    <2>1. /\ stage = "compiled" /\ UNCHANGED <<graph, order, inputId, folded, program>>
          /\ stage' \in {"run", "return", "refused", "panicked"}
      BY <1>1 DEF CallExecute, Stop, Enter
    <2>2. QED
      BY <2>1, RestKeeps
  <1>2. CASE RunStatement
    <2>1. /\ stage = "run" /\ UNCHANGED <<graph, order, inputId, folded, program>>
          /\ stage' \in {"run", "return", "refused", "panicked"}
      BY <1>2 DEF RunStatement, Stop, Enter, Advance
    <2>2. QED
      BY <2>1, RestKeeps
  <1>3. CASE ReturnValue
    <2>1. /\ stage = "return" /\ UNCHANGED <<graph, order, inputId, folded, program>>
          /\ stage' = "answered"
      BY <1>3 DEF ReturnValue
    <2>2. QED
      BY <2>1, RestKeeps
  <1>4. QED
    BY <1>1, <1>2, <1>3 DEF ExecuteStep

\* While a file is loaded there is nothing to compile.
LEMMA WaitingKeeps ==
    ASSUME AotInv, UNCHANGED aotVars, stage = "waiting"
    PROVE  AotInv'
  <1>1. stage' = "waiting" /\ order' = <<>> /\ program' = <<>> /\ folded' = folded
    BY DEF AotInv, aotVars
  <1>2. DOMAIN folded' \subseteq ToSet(order')
    BY DEF AotInv, aotVars
  <1>3. Programmed'
    BY <1>1, EmptyProgram DEF Programmed
  <1>4. QED
    BY <1>1, <1>2, <1>3 DEF AotInv

LEMMA ToolchainStepInv == ToolchainInv /\ [Next]_vars => ToolchainInv'
  <1> SUFFICES ASSUME ToolchainInv, [Next]_vars PROVE ToolchainInv'
    OBVIOUS
  <1>1. CASE LoadStep
    <2>1. phase # "loaded"
      BY <1>1 DEF LoadStep, Load, Check, LoadInput, LoadInitializer, LoadNode, LoadOutput, Finish, LoopTurn
    <2>2. stage = "waiting"
      BY <2>1 DEF ToolchainInv, AotInv
    <2>3. QED
      BY <1>1, <2>2, LoadKeeps, WaitingKeeps DEF LoadStep, ToolchainInv
  <1>2. CASE Compile
    <2>1. LoadInv'
      BY <1>2, LoadStutters DEF Compile, ToolchainInv
    <2>2. AotInv'
      <3>1. Programmed'
        BY <1>2 DEF Compile, loadVars, ToolchainInv, AotInv, Programmed, BoundBefore
      <3>2. QED
        BY <1>2, <3>1 DEF Compile, loadVars, ToolchainInv, AotInv
    <2>3. QED
      BY <2>1, <2>2 DEF ToolchainInv
  <1>3. CASE AotStep
    <2>1. /\ UNCHANGED <<file, phase, cursor, nameToNode, made, loadError>>
          /\ CheckGraph \/ FoldNode \/ EmitNode \/ ExecuteStep
      BY <1>3 DEF AotStep, CompileStep
    <2>2. graph' = graph
      BY <2>1 DEF CheckGraph, FoldNode, EmitNode, ExecuteStep, CallExecute, RunStatement, ReturnValue
    <2>3. LoadInv'
      BY <2>1, <2>2, LoadStutters DEF ToolchainInv, loadVars
    <2>4. AotInv'
      BY <2>1, CheckGraphKeeps, FoldNodeKeeps, EmitNodeKeeps, ExecuteKeeps DEF ToolchainInv
    <2>5. QED
      BY <2>3, <2>4 DEF ToolchainInv
  <1>4. CASE UNCHANGED vars
    <2>1. LoadInv'
      BY <1>4, LoadStutters DEF vars, ToolchainInv
    <2>2. AotInv'
      <3>1. UNCHANGED <<stage, at, order, inputId, folded, program, graph, phase>> /\ AotInv
        BY <1>4 DEF vars, aotVars, loadVars, ToolchainInv
      <3>2. Programmed'
        BY <3>1 DEF AotInv, Programmed, BoundBefore
      <3>3. /\ stage' = "emit" => Emitted(at - 1)'
            /\ stage' \in {"compiled", "run"} => Emitted(Len(order))'
        BY <3>1 DEF AotInv, Emitted, BoundBefore
      <3>4. QED
        BY <3>1, <3>2, <3>3 DEF AotInv
    <2>3. QED
      BY <2>1, <2>2 DEF ToolchainInv
  <1>5. QED
    BY <1>1, <1>2, <1>3, <1>4 DEF Next

\* The inductive invariant: what graph_from_proto has built when each of its loops
\* takes a turn, and what aot_compile has emitted, for every file.
THEOREM ToolchainInvariant == Spec => []ToolchainInv
  BY ToolchainInitInv, ToolchainStepInv, PTL DEF Spec

\* Every local of the loader and of the compiler keeps its type: the table and the
\* registries name nodes of the graph, shapes are shapes, indices are in their loops.
THEOREM ToolchainTypeCorrect == Spec => []TypeOK
  <1>1. ToolchainInv => TypeOK
    <2> SUFFICES ASSUME ToolchainInv PROVE TypeOK
      OBVIOUS
    <2>1. AotTypeOK
      <3>1. DOMAIN program = 1 .. Len(program)
        BY Listing DEF ToolchainInv, AotInv, Programmed
      <3>2. QED
        BY <3>1 DEF AotTypeOK, ToolchainInv, AotInv, Programmed
    <2>2. QED
      BY <2>1 DEF TypeOK, ToolchainInv, LoadInv, AotInv
  <1>2. QED
    BY <1>1, ToolchainInvariant, PTL

\* Each statement that `generate` emits reads what an earlier one has bound, and the
\* returned value is bound: folded nodes, runtime inputs and emitted nodes, decided in
\* three places, leave no name without a binding.
THEOREM SourceStaysClosed == Spec => []SourceIsClosed
  <1>1. ToolchainInv => SourceIsClosed
    <2> SUFFICES ASSUME ToolchainInv, stage \in {"emit", "compiled", "run"}
                 PROVE  /\ \A s \in DOMAIN program : ToSet(program[s].reads) \subseteq BoundBefore(s)
                        /\ stage = "compiled" => graph.outputs[1] \in BoundBefore(Len(program) + 1)
      BY DEF SourceIsClosed
    <2>1. DOMAIN program = 1 .. Len(program)
      BY Listing DEF ToolchainInv, AotInv, Programmed
    <2>2. \A s \in DOMAIN program : ToSet(program[s].reads) \subseteq BoundBefore(s)
      BY <2>1 DEF ToolchainInv, AotInv, Programmed
    <2>3. ASSUME stage = "compiled" PROVE graph.outputs[1] \in BoundBefore(Len(program) + 1)
      <3>1. /\ IsTopological(graph, order) /\ Len(graph.outputs) = 1 /\ Emitted(Len(order))
            /\ Sound(graph)
        BY <2>3 DEF ToolchainInv, AotInv, LoadInv
      <3>2. graph.outputs[1] \in Ids(graph)
        <4>1. PICK S, s : S = Ids(graph) /\ s = graph.outputs
          OBVIOUS
        <4>2. s \in Seq(S) /\ Len(s) = 1
          BY <3>1, <4>1 DEF Sound, Registered
        <4>3. s[1] \in S
          BY <4>2
        <4>4. QED
          BY <4>1, <4>3
      <3>3. PICK a \in 1 .. Len(order) : order[a] = graph.outputs[1]
        BY <3>1, <3>2 DEF IsTopological
      <3>4. QED
        BY <3>1, <3>3 DEF Emitted
    <2>4. QED
      BY <2>2, <2>3
  <1>2. QED
    BY <1>1, ToolchainInvariant, PTL

\* Whatever the file, the graph is one that the executor's theorems assume, while it
\* is built and when it is done (GraphsAssumption).
THEOREM LoadedGraphsAreWellFormed == Spec => []WellFormed(graph)
  <1>1. ToolchainInv => WellFormed(graph)
    BY SoundIsWellFormed DEF ToolchainInv, LoadInv
  <1>2. QED
    BY <1>1, ToolchainInvariant, PTL

\* A loaded graph has a topological order, although the file's nodes need not be in
\* one: a name used too early becomes an input, so no file gives a cycle.
THEOREM LoadedGraphsSort == Spec => [](TopologicalSort(graph).verdict = "ordered")
  <1>1. ToolchainInv => TopologicalSort(graph).verdict = "ordered"
    BY ClosedSorts DEF ToolchainInv, LoadInv
  <1>2. QED
    BY <1>1, ToolchainInvariant, PTL

-----------------------------------------------------------------------------
(* The wiring of the loaded nodes *)

\* What has been read of the file's lists when a name is looked up: the true
\* inputs up to a, the initializers up to b, the nodes before j.
InputsNamed(a, name) == {k \in 1 .. a : TrueInput(k) /\ file.inputs[k].name = name}
InitsNamed(b, name)  == {k \in 1 .. b : file.inits[k].name = name}
NodesNamed(j, name)  == {k \in 1 .. j - 1 : FirstOutput(file.nodes[k]) = name}

\* The id that the last of them gives the name; m has the ids of the nodes.
Meant(m, a, b, j, name) ==
    IF NodesNamed(j, name) # {} THEN m[Max(NodesNamed(j, name))]
    ELSE IF InitsNamed(b, name) # {}
         THEN InputsUpTo(Len(file.inputs)) + Max(InitsNamed(b, name)) - 1
    ELSE IF InputsNamed(a, name) # {} THEN InputsUpTo(Max(InputsNamed(a, name))) - 1
    ELSE NoNode

\* What a name means to file node j, once inputs and initializers are read.
Sense(m, j, name) == Meant(m, Len(file.inputs), Len(file.inits), j, name)

\* A name is in the table exactly if it means something, and then with that.
Tabled(table, m, a, b, j) ==
    \A name : name # "" =>
        IF Meant(m, a, b, j, name) = NoNode THEN name \notin DOMAIN table
        ELSE name \in DOMAIN table /\ table[name] = Meant(m, a, b, j, name)

\* The lists of the file have lengths.
LEMMA ListsAre ==
    ASSUME file \in Files
    PROVE  /\ Len(file.inputs) \in Nat /\ DOMAIN file.inputs = 1 .. Len(file.inputs)
           /\ Len(file.inits) \in Nat /\ DOMAIN file.inits = 1 .. Len(file.inits)
           /\ Len(file.nodes) \in Nat /\ DOMAIN file.nodes = 1 .. Len(file.nodes)
  <1>1. PICK S, T, s, t : /\ S = [name : STRING, dims : {NoShape} \cup Seq(Int)] /\ T = Tensors
                          /\ s = file.inputs /\ t = file.inits
    OBVIOUS
  <1>2. s \in Seq(S) /\ t \in Seq(T)
    BY <1>1, FileIs
  <1>3. Len(s) \in Nat /\ DOMAIN s = 1 .. Len(s) /\ Len(t) \in Nat /\ DOMAIN t = 1 .. Len(t)
    BY <1>2
  <1>4. QED
    BY <1>1, <1>3, FileIs

\* The largest of some positions.
LEMMA LastInIs ==
    ASSUME NEW n \in Nat, NEW S \in SUBSET (1 .. n)
    PROVE  /\ LastIn(S) # 0 <=> S # {}
           /\ S # {} => LastIn(S) = Max(S) /\ Max(S) \in S /\ Max(S) \in 1 .. n
  <1>1. CASE S = {}
    BY <1>1 DEF LastIn
  <1>2. CASE S # {}
    <2>1. Max(S) \in S
      BY <1>2, MaxIs
    <2>2. PICK m : m = Max(S)
      OBVIOUS
    <2>3. m \in 1 .. n
      BY <2>1, <2>2
    <2>4. LastIn(S) = m
      BY <1>2, <2>2 DEF LastIn
    <2>5. QED
      BY <1>2, <2>1, <2>2, <2>3, <2>4
  <1>3. QED
    BY <1>1, <1>2

\* The definition read off the file is that meaning.
LEMMA DefinitionIs ==
    ASSUME file \in Files, NEW j \in Nat \ {0}, NEW name
    PROVE  DefinitionOf(j, name) = Sense(made, j, name)
  <1>1. PICK N, I, P, Q, n, i, p :
          /\ N = NodesNamed(j, name) /\ I = InitsNamed(Len(file.inits), name)
          /\ P = InputsNamed(Len(file.inputs), name)
          /\ Q = {k \in 1 .. Len(file.inputs) : file.inputs[k].name = name}
          /\ n = Len(file.nodes) /\ i = Len(file.inits) /\ p = Len(file.inputs)
    OBVIOUS
  <1>2. n \in Nat /\ i \in Nat /\ p \in Nat
    BY <1>1, ListsAre
  <1>3. j - 1 \in Nat
    OBVIOUS
  <1>4. N \in SUBSET (1 .. j - 1) /\ I \in SUBSET (1 .. i) /\ Q \in SUBSET (1 .. p)
    BY <1>1 DEF NodesNamed, InitsNamed
  <1>5. I = {} => P = Q
    <2>1. ASSUME I = {}, NEW k \in Q PROVE TrueInput(k)
      <3>1. file.inputs[k].name = name
        BY <1>1, <2>1
      <3>2. \A q \in 1 .. i : file.inits[q].name # name
        BY <1>1, <2>1 DEF InitsNamed
      <3>3. name \notin InitNames
        BY <1>1, <3>2, ListsAre DEF InitNames
      <3>4. QED
        BY <3>1, <3>3 DEF TrueInput
    <2>2. QED
      BY <1>1, <2>1 DEF InputsNamed
  <1>6. /\ LastIn(N) # 0 <=> N # {}
        /\ N # {} => LastIn(N) = Max(N)
    BY <1>3, <1>4, LastInIs
  <1>7. /\ LastIn(I) # 0 <=> I # {}
        /\ I # {} => LastIn(I) = Max(I)
    BY <1>2, <1>4, LastInIs
  <1>8. /\ LastIn(Q) # 0 <=> Q # {}
        /\ Q # {} => LastIn(Q) = Max(Q)
    BY <1>2, <1>4, LastInIs
  <1>9. DefinitionOf(j, name) = IF LastIn(N) # 0 THEN made[LastIn(N)]
                                ELSE IF LastIn(I) # 0 THEN InputsUpTo(p) + LastIn(I) - 1
                                ELSE IF LastIn(Q) # 0 THEN InputsUpTo(LastIn(Q)) - 1
                                ELSE NoNode
    BY <1>1, Zenon DEF DefinitionOf, NodesNamed, InitsNamed
  <1>10. Sense(made, j, name) = IF N # {} THEN made[Max(N)]
                                ELSE IF I # {} THEN InputsUpTo(p) + Max(I) - 1
                                ELSE IF P # {} THEN InputsUpTo(Max(P)) - 1
                                ELSE NoNode
    BY <1>1, Zenon DEF Sense, Meant
  <1>11. QED
    BY <1>5, <1>6, <1>7, <1>8, <1>9, <1>10

\* An input of its own: nobody else reads it, and no name means it.
Private(g, table, name, w) ==
    /\ w \in Ids(g) /\ g.nodes[w] = InputNode(name, <<1>>)
    /\ \A r, s \in DOMAIN g.refs : g.refs[r].from = w /\ g.refs[s].from = w => r = s
    /\ \A s \in DOMAIN table : table[s] # w

\* The p-th input that file node j gives is read from what its name means.
ReadsSense(g, m, table, j, p) ==
    LET name == file.nodes[j].ins[p]
        w    == g.nodes[m[j]].ins[Port(file.nodes[j], p)]
    IN  IF Sense(m, j, name) # NoNode THEN w = Sense(m, j, name)
        ELSE Private(g, table, name, w)

\* The edges to v.
Into(g, v) == {e \in DOMAIN g.edges : g.edges[e].to = v}

\* The edges to v stand behind the first k, in the order of its inputs.
PortsAt(g, v, ins, k) ==
    /\ Into(g, v) = k + 1 .. k + Len(ins)
    /\ \A p \in DOMAIN ins :
          g.edges[k + p] = [from |-> ins[p], to |-> v, to_port |-> p - 1,
                            dims |-> g.nodes[ins[p]].dims]

\* The edges to v say the same as its input list.
PortsFollow(g, v) == \E k \in 0 .. Len(g.edges) : PortsAt(g, v, g.nodes[v].ins, k)

\* File node j is wired as the file says, in the graph g where its id is m[j].
WiredIn(g, m, table, j) ==
    /\ Len(g.nodes[m[j]].ins) = Port(file.nodes[j], Len(file.nodes[j].ins))
    /\ \A p \in Given(file.nodes[j]) : ReadsSense(g, m, table, j, p)
    /\ PortsFollow(g, m[j])

\* The nodes before j are the same in a longer list.
Agree(j, m, m2) == j \in Nat /\ \A k \in 1 .. j - 1 : m2[k] = m[k]

\* The names mean the same to file node j, whatever has been read.
SameMeaning(j, m, m2) ==
    \A a, b, name : Meant(m2, a, b, j, name) = Meant(m, a, b, j, name)

\* A name's meaning needs the ids of the nodes before j only.
LEMMA SenseStays ==
    ASSUME NEW j, NEW m, NEW m2, Agree(j, m, m2)
    PROVE  SameMeaning(j, m, m2)
  <1> SUFFICES ASSUME NEW a, NEW b, NEW name
               PROVE  Meant(m2, a, b, j, name) = Meant(m, a, b, j, name)
    BY DEF SameMeaning
  <1>1. CASE NodesNamed(j, name) # {}
    <2>1. PICK N : N = NodesNamed(j, name)
      OBVIOUS
    <2>2. N \in SUBSET (1 .. j - 1) /\ N # {}
      BY <1>1, <2>1 DEF NodesNamed
    <2>3. j - 1 \in Nat
      BY <2>2 DEF Agree
    <2>4. Max(N) \in N
      BY <2>2, <2>3, MaxIs
    <2>5. m2[Max(N)] = m[Max(N)]
      BY <2>2, <2>4 DEF Agree
    <2>6. QED
      BY <1>1, <2>1, <2>5 DEF Meant
  <1>2. CASE NodesNamed(j, name) = {}
    BY <1>2 DEF Meant
  <1>3. QED
    BY <1>1, <1>2

\* The edges of a node stay when those of others are added behind.
LEMMA PortsStay ==
    ASSUME NEW g, Sound(g), Closed(g), NEW h, Grows(g, h), NEW v \in Ids(g), PortsFollow(g, v),
           NEW y \in Seq(Edges), h.edges = g.edges \o y, \A a \in 1 .. Len(y) : y[a].to # v
    PROVE  PortsFollow(h, v)
  <1>1. PICK s, t, n, ins, c : /\ s = g.edges /\ t = h.edges /\ n = Len(s)
                               /\ ins = g.nodes[v].ins /\ c = Len(ins)
    OBVIOUS
  <1>2. s \in Seq(Edges) /\ n \in Nat /\ DOMAIN s = 1 .. n
    <2>1. PICK E : E = Edges
      OBVIOUS
    <2>2. s \in Seq(E)
      BY <1>1, <2>1 DEF Sound
    <2>3. n \in Nat /\ DOMAIN s = 1 .. n
      BY <1>1, <2>2
    <2>4. QED
      BY <2>1, <2>2, <2>3
  <1>3. /\ Len(t) = n + Len(y) /\ Len(y) \in Nat /\ DOMAIN t = 1 .. Len(t)
        /\ \A a \in 1 .. n : t[a] = s[a]
        /\ \A a \in 1 .. Len(y) : t[n + a] = y[a]
    <2>1. PICK E : E = Edges
      OBVIOUS
    <2>2. s \in Seq(E) /\ y \in Seq(E) /\ t = s \o y
      BY <1>1, <1>2, <2>1
    <2>3. /\ t \in Seq(E) /\ Len(t) = n + Len(y) /\ Len(y) \in Nat
          /\ \A a \in 1 .. n : t[a] = s[a]
          /\ \A a \in 1 .. Len(y) : t[n + a] = y[a]
      BY <1>1, <2>2, Joined
    <2>4. DOMAIN t = 1 .. Len(t)
      BY <2>3
    <2>5. QED
      BY <2>3, <2>4
  <1>4. Into(h, v) = Into(g, v)
    <2>1. ASSUME NEW e \in 1 .. Len(t) PROVE t[e].to = v <=> (e \in 1 .. n /\ s[e].to = v)
      <3>1. CASE e \in 1 .. n
        BY <1>3, <3>1
      <3>2. CASE e \notin 1 .. n
        <4>1. e - n \in 1 .. Len(y) /\ n + (e - n) = e
          BY <1>2, <1>3, <2>1, <3>2
        <4>2. t[e] = y[e - n]
          BY <1>3, <4>1
        <4>3. QED
          BY <3>2, <4>1, <4>2
      <3>3. QED
        BY <3>1, <3>2
    <2>2. \A e \in 1 .. n : e \in 1 .. Len(t)
      BY <1>2, <1>3
    <2>3. {e \in 1 .. Len(t) : t[e].to = v} = {e \in 1 .. n : s[e].to = v}
      BY <2>1, <2>2
    <2>4. QED
      BY <1>1, <1>2, <1>3, <2>3 DEF Into
  <1>5. h.nodes[v] = g.nodes[v] /\ h.nodes[v].ins = ins
    BY <1>1 DEF Grows
  <1>6. c \in Nat /\ DOMAIN ins = 1 .. c /\ \A p \in 1 .. c : ins[p] \in Ids(g)
    <2>1. ins \in Seq(Nat)
      BY <1>1 DEF Sound, Noded
    <2>2. c \in Nat /\ DOMAIN ins = 1 .. c
      BY <1>1, <2>1
    <2>3. \A p \in 1 .. c : ins[p] \in ToSet(ins)
      BY <2>2 DEF ToSet
    <2>4. \A p \in 1 .. c : ins[p] \in Ids(g)
      BY <1>1, <2>3 DEF Closed, Producers
    <2>5. QED
      BY <2>2, <2>4
  <1>7a. PICK k \in 0 .. n : PortsAt(g, v, ins, k)
    BY <1>1 DEF PortsFollow
  <1>7. /\ Into(g, v) = k + 1 .. k + c
        /\ \A p \in 1 .. c : s[k + p] = [from |-> ins[p], to |-> v, to_port |-> p - 1,
                                         dims |-> g.nodes[ins[p]].dims]
    BY <1>1, <1>6, <1>7a DEF PortsAt
  <1>8. ASSUME NEW p \in 1 .. c
        PROVE  t[k + p] = [from |-> ins[p], to |-> v, to_port |-> p - 1,
                           dims |-> h.nodes[ins[p]].dims]
    <2>1. k + p \in k + 1 .. k + c
      BY <1>2, <1>6
    <2>2. k + p \in 1 .. n
      BY <1>1, <1>2, <1>7, <2>1 DEF Into
    <2>3. t[k + p] = s[k + p]
      BY <1>3, <2>2
    <2>4. h.nodes[ins[p]] = g.nodes[ins[p]]
      BY <1>6 DEF Grows
    <2>5. QED
      BY <1>7, <2>3, <2>4
  <1>9. k \in 0 .. Len(t)
    BY <1>2, <1>3
  <1>10. PortsAt(h, v, ins, k)
    BY <1>1, <1>4, <1>6, <1>7, <1>8 DEF PortsAt
  <1>11. QED
    BY <1>1, <1>5, <1>9, <1>10 DEF PortsFollow

\* What a graph has, and the table means, is there still; what is added reads
\* old nodes only as the table says.
Extends(g, m, table, h, m2, table2) ==
    /\ Sound(g) /\ Closed(g) /\ Sound(h) /\ Grows(g, h)
    /\ m \in Seq(Ids(g)) /\ \A a \in 1 .. Len(m) : m2[a] = m[a]
    /\ \E x \in Seq([to : Nat, from : Nat]) :
          /\ h.refs = g.refs \o x
          /\ \A a \in 1 .. Len(x) : x[a].from \in Ids(g) => \E s \in DOMAIN table : table[s] = x[a].from
    /\ \E y \in Seq(Edges) :
          h.edges = g.edges \o y /\ \A a \in 1 .. Len(y) : y[a].to \notin Ids(g)
    /\ \A s \in DOMAIN table2 :
          table2[s] \in Ids(g) => \E t \in DOMAIN table : table[t] = table2[s]

\* An input of its own stays one while other nodes are loaded.
LEMMA PrivateStays ==
    ASSUME NEW g, NEW m, NEW table, NEW h, NEW m2, NEW table2,
           Extends(g, m, table, h, m2, table2), NEW name, NEW w, Private(g, table, name, w)
    PROVE  Private(h, table2, name, w)
  <1>1. /\ Sound(g) /\ Sound(h) /\ Grows(g, h) /\ w \in Ids(g)
        /\ g.nodes[w] = InputNode(name, <<1>>) /\ \A s \in DOMAIN table : table[s] # w
        /\ \A r, s \in DOMAIN g.refs : g.refs[r].from = w /\ g.refs[s].from = w => r = s
    BY DEF Extends, Private
  <1>2. w \in Ids(h) /\ h.nodes[w] = g.nodes[w]
    BY <1>1, GrownIds DEF Grows
  <1>3. \A s \in DOMAIN table2 : table2[s] # w
    BY <1>1 DEF Extends
  <1>4. PICK x \in Seq([to : Nat, from : Nat]) :
           /\ h.refs = g.refs \o x
           /\ \A a \in 1 .. Len(x) : x[a].from \in Ids(g) => \E s \in DOMAIN table : table[s] = x[a].from
    BY DEF Extends
  <1>5. \A a \in 1 .. Len(x) : x[a].from # w
    BY <1>1, <1>4
  <1>6. PICK s, t, n, R : s = g.refs /\ t = h.refs /\ n = Len(s) /\ R = [to : Nat, from : Nat]
    OBVIOUS
  <1>7. /\ n \in Nat /\ DOMAIN s = 1 .. n /\ Len(x) \in Nat /\ DOMAIN t = 1 .. n + Len(x)
        /\ \A a \in 1 .. n : t[a] = s[a]
        /\ \A a \in 1 .. Len(x) : t[n + a] = x[a]
    <2>1. PICK Q : Q = [to : Ids(g), from : Nat]
      OBVIOUS
    <2>2. s \in Seq(Q) /\ Q \subseteq R
      <3>1. Ids(g) \subseteq Nat
        BY <1>1 DEF Sound, Noded, Ids
      <3>2. Q \subseteq R
        BY <1>6, <2>1, <3>1
      <3>3. QED
        BY <1>1, <1>6, <2>1, <3>2 DEF Sound, Referred
    <2>3. s \in Seq(R) /\ x \in Seq(R) /\ t = s \o x
      <3>1. s \in Seq(R)
        BY <2>2, SeqWidens
      <3>2. QED
        BY <1>4, <1>6, <3>1
    <2>4. /\ t \in Seq(R) /\ Len(t) = n + Len(x) /\ Len(x) \in Nat /\ n \in Nat
          /\ \A a \in 1 .. n : t[a] = s[a]
          /\ \A a \in 1 .. Len(x) : t[n + a] = x[a]
      BY <1>6, <2>3, Joined
    <2>5. DOMAIN t = 1 .. Len(t) /\ DOMAIN s = 1 .. n
      BY <1>6, <2>3, <2>4
    <2>6. QED
      BY <2>4, <2>5
  <1>8. ASSUME NEW r \in 1 .. n + Len(x), t[r].from = w PROVE r \in 1 .. n /\ s[r].from = w
    <2>1. CASE r \in 1 .. n
      BY <1>7, <1>8, <2>1
    <2>2. CASE r \notin 1 .. n
      <3>1. r - n \in 1 .. Len(x) /\ n + (r - n) = r
        BY <1>7, <2>2
      <3>2. QED
        BY <1>5, <1>7, <1>8, <3>1
    <2>3. QED
      BY <2>1, <2>2
  <1>9. \A p, q \in DOMAIN t : t[p].from = w /\ t[q].from = w => p = q
    BY <1>1, <1>6, <1>7, <1>8
  <1>10. QED
    BY <1>1, <1>2, <1>3, <1>6, <1>9 DEF Private

\* A node keeps its wiring while others are loaded.
LEMMA WiredStays ==
    ASSUME NEW g, NEW m, NEW table, NEW h, NEW m2, NEW table2,
           Extends(g, m, table, h, m2, table2), NEW j \in 1 .. Len(m), WiredIn(g, m, table, j)
    PROVE  WiredIn(h, m2, table2, j)
  <1>1. PICK n, v : n = Len(m) /\ v = m[j]
    OBVIOUS
  <1>2. n \in Nat /\ v \in Ids(g) /\ m2[j] = v /\ j \in Nat
    <2>1. PICK S : S = Ids(g)
      OBVIOUS
    <2>2. m \in Seq(S)
      BY <2>1 DEF Extends
    <2>3. n \in Nat /\ v \in S
      BY <1>1, <2>2
    <2>4. QED
      BY <1>1, <2>1, <2>3 DEF Extends
  <1>3. /\ Sound(g) /\ Closed(g) /\ Grows(g, h) /\ h.nodes[v] = g.nodes[v]
        /\ PortsFollow(g, v)
        /\ Len(g.nodes[v].ins) = Port(file.nodes[j], Len(file.nodes[j].ins))
    BY <1>1, <1>2 DEF Extends, Grows, WiredIn
  <1>4. PortsFollow(h, v)
    <2>1. PICK y \in Seq(Edges) : h.edges = g.edges \o y /\ \A a \in 1 .. Len(y) : y[a].to \notin Ids(g)
      BY DEF Extends
    <2>2. \A a \in 1 .. Len(y) : y[a].to # v
      BY <1>2, <2>1
    <2>3. QED
      BY <1>2, <1>3, <2>1, <2>2, PortsStay
  <1>5. ASSUME NEW p \in Given(file.nodes[j]) PROVE ReadsSense(h, m2, table2, j, p)
    <2>1. PICK name, w, d :
             /\ name = file.nodes[j].ins[p] /\ w = g.nodes[v].ins[Port(file.nodes[j], p)]
             /\ d = Sense(m, j, name)
      OBVIOUS
    <2>2. Sense(m2, j, name) = d
      <3>1. \A k \in 1 .. j - 1 : m2[k] = m[k]
        BY <1>1, <1>2 DEF Extends
      <3>2. PICK a, b : a = Len(file.inputs) /\ b = Len(file.inits)
        OBVIOUS
      <3>2a. Agree(j, m, m2)
        BY <1>2, <3>1 DEF Agree
      <3>3. Meant(m2, a, b, j, name) = Meant(m, a, b, j, name)
        BY <3>2a, SenseStays DEF SameMeaning
      <3>4. QED
        BY <2>1, <3>2, <3>3 DEF Sense
    <2>3. h.nodes[m2[j]].ins[Port(file.nodes[j], p)] = w
      BY <1>2, <1>3, <2>1
    <2>4. IF d # NoNode THEN w = d ELSE Private(g, table, name, w)
      BY <1>1, <1>5, <2>1 DEF WiredIn, ReadsSense
    <2>5. IF d # NoNode THEN w = d ELSE Private(h, table2, name, w)
      BY <2>4, PrivateStays
    <2>6. QED
      BY <2>1, <2>2, <2>3, <2>5 DEF ReadsSense
  <1>6. QED
    BY <1>2, <1>3, <1>4, <1>5 DEF WiredIn

\* The file does not change, so neither does what it says of names.
LEMMA FileStays ==
    ASSUME file' = file, NEW CONSTANT m, NEW CONSTANT a, NEW CONSTANT b, NEW CONSTANT j,
           NEW CONSTANT name
    PROVE  /\ InputsUpTo(a)' = InputsUpTo(a)
           /\ Meant(m, a, b, j, name)' = Meant(m, a, b, j, name)
           /\ Sense(m, j, name)' = Sense(m, j, name)
  <1>1. InputsUpTo(a)' = InputsUpTo(a)
    BY DEF InputsUpTo, TrueInput, InitNames
  <1>2. InputsUpTo(Len(file.inputs))' = InputsUpTo(Len(file.inputs))
    BY DEF InputsUpTo, TrueInput, InitNames
  <1>3. NodesNamed(j, name)' = NodesNamed(j, name)
    BY DEF NodesNamed, FirstOutput
  <1>4. InitsNamed(b, name)' = InitsNamed(b, name)
    BY DEF InitsNamed
  <1>5. InputsNamed(a, name)' = InputsNamed(a, name)
    BY DEF InputsNamed, TrueInput, InitNames
  <1>5a. InputsUpTo(Max(InputsNamed(a, name)))' = InputsUpTo(Max(InputsNamed(a, name)))
    BY <1>5 DEF InputsUpTo, TrueInput, InitNames
  <1>6. Meant(m, a, b, j, name)' = Meant(m, a, b, j, name)
    BY <1>2, <1>3, <1>4, <1>5, <1>5a, Zenon DEF Meant
  <1>7. Sense(m, j, name)' = Sense(m, j, name)
    <2>1. Meant(m, Len(file.inputs), Len(file.inits), j, name)' = Meant(m, Len(file.inputs), Len(file.inits), j, name)
      BY <1>2 DEF Meant, NodesNamed, FirstOutput, InitsNamed, InputsNamed, TrueInput, InitNames, InputsUpTo
    <2>2. QED
      BY <2>1 DEF Sense
  <1>8. QED
    BY <1>1, <1>6, <1>7

\* The last of some positions is their largest.
LEMMA LastIsMax ==
    ASSUME NEW n \in Nat, NEW S \in SUBSET (1 .. n), n \in S
    PROVE  Max(S) = n
  <1>1. PICK x : x = Max(S)
    OBVIOUS
  <1>2. x \in S /\ n <= x
    BY <1>1, MaxIs
  <1>3. x = n
    BY <1>2
  <1>4. QED
    BY <1>1, <1>3

\* No id is NoNode.
LEMMA IdsAreNodes ==
    ASSUME NEW id \in Nat
    PROVE  id # NoNode
  BY DEF NoNode

\* The key has a new meaning, the other names have the one they had.
Learns(m, a, b, j, m2, a2, b2, j2, key, id) ==
    /\ key # "" => Meant(m2, a2, b2, j2, key) = id
    /\ \A name : name # key /\ name # "" =>
          Meant(m2, a2, b2, j2, name) = Meant(m, a, b, j, name)

\* The table gets one entry, and the names one meaning.
LEMMA TabledPut ==
    ASSUME NEW table, NEW m, NEW a, NEW b, NEW j, Tabled(table, m, a, b, j),
           NEW m2, NEW a2, NEW b2, NEW j2, NEW key, NEW id \in Nat,
           Learns(m, a, b, j, m2, a2, b2, j2, key, id)
    PROVE  Tabled(Put(table, key, id), m2, a2, b2, j2)
  <1>1. PICK t2 : t2 = Put(table, key, id)
    OBVIOUS
  <1>2. /\ DOMAIN t2 = DOMAIN table \cup {key} /\ t2[key] = id
        /\ \A z \in DOMAIN table : z # key => t2[z] = table[z]
    BY <1>1 DEF Put
  <1>3. id # NoNode
    BY IdsAreNodes
  <1>4. ASSUME NEW name, name # ""
        PROVE  IF Meant(m2, a2, b2, j2, name) = NoNode THEN name \notin DOMAIN t2
               ELSE name \in DOMAIN t2 /\ t2[name] = Meant(m2, a2, b2, j2, name)
    <2>1. CASE name = key
      <3>1. Meant(m2, a2, b2, j2, name) = id
        BY <1>4, <2>1 DEF Learns
      <3>2. QED
        BY <1>2, <1>3, <2>1, <3>1
    <2>2. CASE name # key
      <3>1. PICK d : d = Meant(m, a, b, j, name)
        OBVIOUS
      <3>2. Meant(m2, a2, b2, j2, name) = d
        BY <1>4, <2>2, <3>1 DEF Learns
      <3>3. IF d = NoNode THEN name \notin DOMAIN table ELSE name \in DOMAIN table /\ table[name] = d
        BY <1>4, <3>1 DEF Tabled
      <3>4. QED
        BY <1>2, <2>2, <3>2, <3>3
    <2>3. QED
      BY <2>1, <2>2
  <1>5. QED
    BY <1>1, <1>4 DEF Tabled

\* The initializers and the nodes named before any is read.
LEMMA NoneNamed ==
    ASSUME NEW name
    PROVE  /\ NodesNamed(1, name) = {} /\ InitsNamed(0, name) = {}
           /\ InputsNamed(0, name) = {} /\ InputsUpTo(0) = 0
  <1>1. 1 .. 1 - 1 = {} /\ 1 .. 0 = {}
    OBVIOUS
  <1>2. {q \in 1 .. 0 : TrueInput(q)} = {}
    BY <1>1
  <1>3. InputsUpTo(0) = 0
    BY <1>2, FS_EmptySet DEF InputsUpTo
  <1>4. QED
    BY <1>1, <1>3 DEF NodesNamed, InitsNamed, InputsNamed

\* The next input.
LEMMA InputsStep ==
    ASSUME NEW k \in Nat
    PROVE  /\ InputsUpTo(k) \in Nat
           /\ InputsUpTo(k + 1) = InputsUpTo(k) + (IF TrueInput(k + 1) THEN 1 ELSE 0)
  <1>1. PICK S : S = {q \in Nat : TrueInput(q)}
    OBVIOUS
  <1>2. ASSUME NEW n \in Nat PROVE InputsUpTo(n) = Cardinality({q \in 1 .. n : q \in S})
    <2>1. {q \in 1 .. n : TrueInput(q)} = {q \in 1 .. n : q \in S}
      BY <1>1
    <2>2. QED
      BY <2>1 DEF InputsUpTo
  <1>3. PICK c, c1 : /\ c = Cardinality({q \in 1 .. k : q \in S})
                     /\ c1 = Cardinality({q \in 1 .. k + 1 : q \in S})
    OBVIOUS
  <1>4. c \in Nat /\ c1 = c + (IF k + 1 \in S THEN 1 ELSE 0)
    BY <1>3, CountStep
  <1>5. InputsUpTo(k) = c /\ InputsUpTo(k + 1) = c1
    <2>1. k + 1 \in Nat
      OBVIOUS
    <2>2. QED
      BY <1>2, <1>3, <2>1
  <1>6. k + 1 \in S <=> TrueInput(k + 1)
    <2>1. k + 1 \in Nat
      OBVIOUS
    <2>2. QED
      BY <1>1, <2>1, Zenon
  <1>7. QED
    BY <1>4, <1>5, <1>6

\* What an input of the file means, once it is read.
LEMMA InputMeans ==
    ASSUME NEW m, NEW k \in Nat, NEW key, key = file.inputs[k + 1].name
    PROVE  /\ TrueInput(k + 1) => Meant(m, k + 1, 0, 1, key) = InputsUpTo(k)
           /\ \A name : name # key \/ ~TrueInput(k + 1) =>
                 Meant(m, k + 1, 0, 1, name) = Meant(m, k, 0, 1, name)
  <1>1. \A name : /\ Meant(m, k, 0, 1, name) = IF InputsNamed(k, name) # {}
                                               THEN InputsUpTo(Max(InputsNamed(k, name))) - 1 ELSE NoNode
                  /\ Meant(m, k + 1, 0, 1, name)
                       = IF InputsNamed(k + 1, name) # {}
                         THEN InputsUpTo(Max(InputsNamed(k + 1, name))) - 1 ELSE NoNode
    BY NoneNamed DEF Meant
  <1>2. ASSUME NEW name, name # key \/ ~TrueInput(k + 1)
        PROVE  InputsNamed(k + 1, name) = InputsNamed(k, name)
    BY <1>2 DEF InputsNamed
  <1>3. ASSUME TrueInput(k + 1) PROVE Meant(m, k + 1, 0, 1, key) = InputsUpTo(k)
    <2>1. PICK n, S : n = k + 1 /\ n \in Nat /\ S = InputsNamed(k + 1, key)
      OBVIOUS
    <2>2. S \in SUBSET (1 .. n) /\ n \in S
      BY <1>3, <2>1 DEF InputsNamed
    <2>3. Max(S) = n
      BY <2>2, LastIsMax
    <2>4. Meant(m, k + 1, 0, 1, key) = InputsUpTo(n) - 1
      BY <1>1, <2>1, <2>2, <2>3
    <2>5. InputsUpTo(n) = InputsUpTo(k) + 1 /\ InputsUpTo(k) \in Nat
      BY <1>3, <2>1, InputsStep
    <2>6. QED
      BY <2>4, <2>5
  <1>4. QED
    BY <1>1, <1>2, <1>3

\* What an initializer means.
LEMMA InitMeans ==
    ASSUME NEW m, NEW a, NEW k \in Nat, NEW key, key = file.inits[k + 1].name,
           InputsUpTo(Len(file.inputs)) \in Nat
    PROVE  /\ Meant(m, a, k + 1, 1, key) = InputsUpTo(Len(file.inputs)) + k
           /\ \A name : name # key => Meant(m, a, k + 1, 1, name) = Meant(m, a, k, 1, name)
  <1>1. ASSUME NEW name, name # key PROVE InitsNamed(k + 1, name) = InitsNamed(k, name)
    BY <1>1 DEF InitsNamed
  <1>2. \A name : name # key => Meant(m, a, k + 1, 1, name) = Meant(m, a, k, 1, name)
    BY <1>1 DEF Meant
  <1>3. PICK n, S, p : n = k + 1 /\ n \in Nat /\ S = InitsNamed(k + 1, key) /\ p = InputsUpTo(Len(file.inputs))
    OBVIOUS
  <1>4. S \in SUBSET (1 .. n) /\ n \in S
    BY <1>3 DEF InitsNamed
  <1>5. Max(S) = n
    BY <1>4, LastIsMax
  <1>6. NodesNamed(1, key) = {}
    BY NoneNamed
  <1>7. Meant(m, a, k + 1, 1, key) = p + n - 1
    BY <1>3, <1>4, <1>5, <1>6 DEF Meant
  <1>8. p + n - 1 = p + k
    BY <1>3
  <1>9. QED
    BY <1>2, <1>3, <1>7, <1>8

\* The output of node j means its id to the next.
LEMMA OutputMeans ==
    ASSUME NEW m, NEW a, NEW b, NEW j \in Nat \ {0}, NEW key, key = FirstOutput(file.nodes[j])
    PROVE  Meant(m, a, b, j + 1, key) = m[j]
  <1>1. PICK S : S = NodesNamed(j + 1, key)
    OBVIOUS
  <1>2. S \in SUBSET (1 .. j) /\ j \in S /\ j \in Nat
    <2>1. (j + 1) - 1 = j
      OBVIOUS
    <2>2. QED
      BY <1>1, <2>1 DEF NodesNamed
  <1>3. Max(S) = j
    BY <1>2, LastIsMax
  <1>4. QED
    BY <1>1, <1>2, <1>3 DEF Meant

\* ... and the other names mean to it what they meant to the node.
LEMMA NodeMeans ==
    ASSUME NEW m, NEW m2, NEW a, NEW b, NEW j \in Nat \ {0}, Agree(j, m, m2),
           NEW name, name # FirstOutput(file.nodes[j])
    PROVE  Meant(m2, a, b, j + 1, name) = Meant(m, a, b, j, name)
  <1>1. NodesNamed(j + 1, name) = NodesNamed(j, name)
    BY DEF NodesNamed
  <1>2. PICK N : N = NodesNamed(j, name)
    OBVIOUS
  <1>3. N # {} => m2[Max(N)] = m[Max(N)]
    <2>1. N \in SUBSET (1 .. j - 1) /\ j - 1 \in Nat
      BY <1>2 DEF NodesNamed
    <2>2. N # {} => Max(N) \in N
      BY <2>1, MaxIs
    <2>3. QED
      BY <2>1, <2>2 DEF Agree
  <1>4. QED
    BY <1>1, <1>2, <1>3 DEF Meant

\* Every edge leads to a node of the graph.
OwnEdges(g) == \A e \in DOMAIN g.edges : g.edges[e].to \in Ids(g)

\* Every loaded file node is wired.
AllWired(g, m, table) == \A j \in 1 .. Len(m) : WiredIn(g, m, table, j)

\* In each loop the table has what has been read, and the ids are given out in
\* the order of the lists; the loaded nodes are wired.
Wires(p, g, m, table, c) ==
    /\ p = "check" => c = 1
    /\ p \in {"check", "inputs"} =>
          /\ c <= Len(file.inputs) + 1 /\ g.n = InputsUpTo(c - 1)
          /\ Tabled(table, m, c - 1, 0, 1)
    /\ p = "initializers" =>
          /\ c <= Len(file.inits) + 1 /\ g.n = InputsUpTo(Len(file.inputs)) + c - 1
          /\ Tabled(table, m, Len(file.inputs), c - 1, 1)
    /\ p = "nodes" => Tabled(table, m, Len(file.inputs), Len(file.inits), c)
    /\ OwnEdges(g) /\ AllWired(g, m, table)

\* The invariant of the loader's wiring.
WireInv == Wires(phase, graph, made, nameToNode, cursor)

\* What the table says of the file, it says of it in the next state too.
LEMMA TabledPrimed ==
    ASSUME file' = file, NEW CONSTANT table, NEW CONSTANT m, NEW CONSTANT a, NEW CONSTANT b,
           NEW CONSTANT j
    PROVE  Tabled(table, m, a, b, j)' <=> Tabled(table, m, a, b, j)
  <1>1. \A name : Meant(m, a, b, j, name)' = Meant(m, a, b, j, name)
    BY FileStays
  <1>2. QED
    BY <1>1 DEF Tabled

\* A node wired as the file says is so in the next state too.
LEMMA WiredPrimed ==
    ASSUME file' = file, NEW CONSTANT g, NEW CONSTANT m, NEW CONSTANT table, NEW CONSTANT j
    PROVE  WiredIn(g, m, table, j)' <=> WiredIn(g, m, table, j)
  <1>1. \A name : Sense(m, j, name)' = Sense(m, j, name)
    BY FileStays
  <1>2. ASSUME NEW CONSTANT p PROVE ReadsSense(g, m, table, j, p)' <=> ReadsSense(g, m, table, j, p)
    BY <1>1 DEF ReadsSense
  <1>3. Given(file.nodes[j])' = Given(file.nodes[j])
    BY DEF Given
  <1>4. QED
    BY <1>2, <1>3 DEF WiredIn

\* The invariant of the next state is about the same file.
LEMMA WiresPrimed ==
    ASSUME file' = file, Wires(phase', graph', made', nameToNode', cursor')
    PROVE  WireInv'
  <1>1. PICK p, g, m, table, c :
           p = phase' /\ g = graph' /\ m = made' /\ table = nameToNode' /\ c = cursor'
    OBVIOUS
  <1>2. Wires(p, g, m, table, c)
    BY <1>1
  <1>3. /\ InputsUpTo(c - 1)' = InputsUpTo(c - 1)
        /\ \A a, b, j : Tabled(table, m, a, b, j)' <=> Tabled(table, m, a, b, j)
        /\ \A j : WiredIn(g, m, table, j)' <=> WiredIn(g, m, table, j)
    BY FileStays, TabledPrimed, WiredPrimed
  <1>3a. InputsUpTo(Len(file.inputs))' = InputsUpTo(Len(file.inputs))
    BY DEF InputsUpTo, TrueInput, InitNames
  <1>4. Wires(p, g, m, table, c)'
    BY <1>2, <1>3, <1>3a DEF Wires, AllWired
  <1>5. QED
    BY <1>1, <1>4 DEF WireInv

\* Before any file node is loaded there is nothing to be wired.
LEMMA NoneWired ==
    ASSUME NEW g, NEW table
    PROVE  AllWired(g, <<>>, table)
  <1>1. 1 .. Len(<<>>) = {}
    OBVIOUS
  <1>2. QED
    BY <1>1 DEF AllWired

\* An empty graph and an empty table.
LEMMA WireInit == LoadInit => WireInv
  <1> SUFFICES ASSUME LoadInit PROVE WireInv
    OBVIOUS
  <1>1. /\ phase = "check" /\ cursor = 1 /\ nameToNode = <<>> /\ made = <<>>
        /\ graph.n = 0 /\ graph.edges = <<>> /\ file \in Files
    BY DEF LoadInit, EmptyGraph
  <1>2. \A name : Meant(<<>>, 0, 0, 1, name) = NoNode
    BY NoneNamed DEF Meant
  <1>3. Tabled(<<>>, <<>>, 0, 0, 1)
    <2>1. DOMAIN <<>> = {}
      OBVIOUS
    <2>2. QED
      BY <1>2, <2>1 DEF Tabled
  <1>4. InputsUpTo(0) = 0
    BY NoneNamed
  <1>5. OwnEdges(graph)
    <2>1. DOMAIN <<>> = {}
      OBVIOUS
    <2>2. QED
      BY <1>1, <2>1 DEF OwnEdges
  <1>6. Len(file.inputs) \in Nat
    BY <1>1, ListsAre
  <1>7. 1 <= Len(file.inputs) + 1 /\ 1 - 1 = 0
    BY <1>6
  <1>8. AllWired(graph, made, nameToNode)
    BY <1>1, NoneWired
  <1>9. QED
    BY <1>1, <1>3, <1>4, <1>5, <1>7, <1>8 DEF WireInv, Wires

\* A failed load changes neither the graph nor the table.
LEMMA FailWires ==
    ASSUME WireInv, NEW error, Fail(error), UNCHANGED file
    PROVE  WireInv'
  <1>1. phase' = "failed" /\ UNCHANGED <<cursor, nameToNode, made, graph>>
    BY DEF Fail
  <1>2. OwnEdges(graph) /\ AllWired(graph, made, nameToNode)
    BY DEF WireInv, Wires
  <1>3. Wires(phase', graph', made', nameToNode', cursor')
    BY <1>1, <1>2 DEF Wires
  <1>4. QED
    BY <1>3, WiresPrimed

\* Each action of the loader keeps the wiring.
LEMMA CheckWires == LoadInv /\ WireInv /\ Check => WireInv'
  <1> SUFFICES ASSUME LoadInv, WireInv, Check PROVE WireInv'
    OBVIOUS
  <1>1. CASE CheckLimits # None /\ Fail(CheckLimits)
    BY <1>1, FailWires DEF Check
  <1>2. CASE phase' = "inputs" /\ UNCHANGED <<cursor, nameToNode, made, loadError, graph>>
    <2>1. file' = file /\ phase = "check"
      BY DEF Check
    <2>2. Wires(phase', graph', made', nameToNode', cursor')
      BY <1>2, <2>1 DEF WireInv, Wires
    <2>3. QED
      BY <2>1, <2>2, WiresPrimed
  <1>3. QED
    BY <1>1, <1>2 DEF Check

\* The two ways a turn can go for an input.
LEMMA LoadInputIs ==
    ASSUME LoadInv, LoadInput
    PROVE  /\ phase = "inputs" /\ file' = file
           /\ \/ \E error : Fail(error)
              \/ /\ cursor <= Len(file.inputs) /\ ~TrueInput(cursor) /\ Goes
                 /\ UNCHANGED <<nameToNode, made, graph>>
              \/ /\ cursor <= Len(file.inputs) /\ TrueInput(cursor)
                 /\ \E dims : Adds(file.inputs[cursor].name, dims)
              \/ /\ cursor > Len(file.inputs) /\ phase' = "initializers" /\ cursor' = 1
                 /\ UNCHANGED <<nameToNode, made, graph>>
  <1> DEFINE name == file.inputs[cursor].name
  <1>1. /\ phase = "inputs" /\ file' = file
        /\ \/ /\ cursor \in DOMAIN file.inputs
              /\ \/ name \in InitNames /\ Goes /\ UNCHANGED <<nameToNode, made, graph>>
                 \/ name \notin InitNames /\ AddNamed(name, OrOne(Declared(name)), <<>>)
           \/ /\ cursor > Len(file.inputs) /\ phase' = "initializers" /\ cursor' = 1
              /\ UNCHANGED <<nameToNode, made, loadError, graph>>
    BY DEF LoadInput, LoopTurn
  <1>2. TrueInput(cursor) <=> name \notin InitNames
    BY DEF TrueInput
  <1> HIDE DEF name
  <1>3. cursor \in DOMAIN file.inputs => cursor <= Len(file.inputs)
    BY ListsAre DEF LoadInv
  <1>4. ASSUME AddNamed(name, OrOne(Declared(name)), <<>>)
        PROVE  (\E error : Fail(error)) \/ \E dims : Adds(name, dims)
    <2>1. PICK dims : dims = OrOne(Declared(name))
      OBVIOUS
    <2>2. dims \in Seq(Nat) /\ Sound(graph) /\ Closed(graph)
      BY <2>1, DeclaredIs, OrOneIs DEF LoadInv
    <2>3. (\E error : error # None /\ Fail(error)) \/ Adds(name, dims)
      BY <1>4, <2>1, <2>2, AddNamedIs
    <2>4. QED
      BY <2>3
  <1>5. QED
    BY <1>1, <1>2, <1>3, <1>4 DEF name

\* The edges keep leading to nodes of the graph when it grows without new ones.
LEMMA OwnStays ==
    ASSUME NEW g, OwnEdges(g), NEW h, h.edges = g.edges, Ids(g) \subseteq Ids(h)
    PROVE  OwnEdges(h)
  BY DEF OwnEdges

LEMMA LoadInputWires == LoadInv /\ WireInv /\ LoadInput => WireInv'
  <1> SUFFICES ASSUME LoadInv, WireInv, LoadInput PROVE WireInv'
    OBVIOUS
  <1>1. phase = "inputs" /\ file' = file /\ made = <<>> /\ cursor \in Nat \ {0} /\ file \in Files
    BY LoadInputIs DEF LoadInv
  <1>2. PICK k \in Nat : cursor = k + 1 /\ cursor - 1 = k
    BY <1>1
  <1>3. /\ cursor <= Len(file.inputs) + 1 /\ graph.n = InputsUpTo(k)
        /\ Tabled(nameToNode, <<>>, k, 0, 1)
        /\ OwnEdges(graph) /\ Len(file.inputs) \in Nat
    BY <1>1, <1>2, ListsAre DEF WireInv, Wires
  <1>4. InputsUpTo(k) \in Nat /\ InputsUpTo(k + 1) = InputsUpTo(k) + (IF TrueInput(k + 1) THEN 1 ELSE 0)
    BY InputsStep
  <1>5. CASE \E error : Fail(error)
    BY <1>1, <1>5, FailWires
  <1>6. CASE /\ cursor <= Len(file.inputs) /\ ~TrueInput(cursor) /\ Goes
             /\ UNCHANGED <<nameToNode, made, graph>>
    <2>1. cursor' = cursor + 1 /\ phase' = "inputs" /\ made' = <<>> /\ cursor' - 1 = k + 1
          /\ cursor' <= Len(file.inputs) + 1
      BY <1>1, <1>2, <1>3, <1>6 DEF Goes
    <2>2. graph'.n = InputsUpTo(k + 1)
      BY <1>2, <1>3, <1>4, <1>6
    <2>3. Tabled(nameToNode', <<>>, k + 1, 0, 1)
      <3>1. \A name : Meant(<<>>, k + 1, 0, 1, name) = Meant(<<>>, k, 0, 1, name)
        BY <1>2, <1>6, InputMeans
      <3>2. QED
        BY <1>3, <1>6, <3>1 DEF Tabled
    <2>4. Wires(phase', graph', made', nameToNode', cursor')
      BY <1>3, <1>6, <2>1, <2>2, <2>3, NoneWired DEF Wires
    <2>5. QED
      BY <1>1, <2>4, WiresPrimed
  <1>7. ASSUME cursor <= Len(file.inputs), TrueInput(cursor), NEW dims,
               Adds(file.inputs[cursor].name, dims)
        PROVE  WireInv'
    <2>1. PICK key, id : key = file.inputs[cursor].name /\ id = graph.n
      OBVIOUS
    <2>2. /\ cursor' = cursor + 1 /\ phase' = "inputs" /\ made' = <<>> /\ cursor' - 1 = k + 1
          /\ cursor' <= Len(file.inputs) + 1
      BY <1>1, <1>2, <1>3, <1>7 DEF Goes, Adds
    <2>3. /\ graph'.n = graph.n + 1 /\ graph'.edges = graph.edges /\ Ids(graph) \subseteq Ids(graph')
          /\ nameToNode' = Put(nameToNode, key, id)
      BY <1>7, <2>1 DEF Adds
    <2>4. graph'.n = InputsUpTo(k + 1) /\ id = InputsUpTo(k) /\ id \in Nat
      BY <1>2, <1>3, <1>4, <1>7, <2>1, <2>3
    <2>5. Tabled(nameToNode', <<>>, k + 1, 0, 1)
      <3>1. Learns(<<>>, k, 0, 1, <<>>, k + 1, 0, 1, key, id)
        <4>1. key = file.inputs[k + 1].name /\ TrueInput(k + 1)
          BY <1>2, <1>7, <2>1
        <4>2. Meant(<<>>, k + 1, 0, 1, key) = InputsUpTo(k)
          BY <4>1, InputMeans
        <4>3. \A name : name # key => Meant(<<>>, k + 1, 0, 1, name) = Meant(<<>>, k, 0, 1, name)
          BY <4>1, InputMeans
        <4>4. QED
          BY <2>4, <4>2, <4>3 DEF Learns
      <3>2. QED
        BY <1>3, <2>3, <2>4, <3>1, TabledPut
    <2>6. OwnEdges(graph')
      BY <1>3, <2>3, OwnStays
    <2>7. Wires(phase', graph', made', nameToNode', cursor')
      BY <2>2, <2>4, <2>5, <2>6, NoneWired DEF Wires
    <2>8. QED
      BY <1>1, <2>7, WiresPrimed
  <1>8. CASE /\ cursor > Len(file.inputs) /\ phase' = "initializers" /\ cursor' = 1
             /\ UNCHANGED <<nameToNode, made, graph>>
    <2>1. k = Len(file.inputs)
      BY <1>2, <1>3, <1>8
    <2>2. Len(file.inits) \in Nat
      BY <1>1, ListsAre
    <2>3. /\ cursor' <= Len(file.inits) + 1 /\ cursor' - 1 = 0
          /\ graph'.n = InputsUpTo(Len(file.inputs)) + cursor' - 1
      BY <1>3, <1>4, <1>8, <2>1, <2>2
    <2>4. Wires(phase', graph', made', nameToNode', cursor')
      BY <1>1, <1>3, <1>8, <2>1, <2>3, NoneWired DEF Wires
    <2>5. QED
      BY <1>1, <2>4, WiresPrimed
  <1>9. QED
    BY <1>5, <1>6, <1>7, <1>8, LoadInputIs

\* The two ways a turn can go for an initializer.
LEMMA LoadInitializerIs ==
    ASSUME LoadInv, LoadInitializer
    PROVE  /\ phase = "initializers" /\ file' = file
           /\ \/ \E error : Fail(error)
              \/ /\ cursor <= Len(file.inits)
                 /\ \E dims : Adds(file.inits[cursor].name, dims)
              \/ /\ cursor > Len(file.inits) /\ phase' = "nodes" /\ cursor' = 1
                 /\ UNCHANGED <<nameToNode, made, graph>>
  <1> DEFINE init == file.inits[cursor]
             data == [name |-> init.name, len |-> Len(init.data), dims |-> OrOne(init.dims)]
             some == IF Bound(init) THEN <<data>> ELSE <<>>
  <1>1. /\ phase = "initializers" /\ file' = file
        /\ \/ /\ cursor \in DOMAIN file.inits
              /\ \/ InitError(init) # None /\ Fail(InitError(init))
                 \/ InitError(init) = None /\ AddNamed(init.name, OrOne(init.dims), some)
           \/ /\ cursor > Len(file.inits) /\ phase' = "nodes" /\ cursor' = 1
              /\ UNCHANGED <<nameToNode, made, loadError, graph>>
    BY Zenon DEF LoadInitializer, LoopTurn
  <1> HIDE DEF some, data
  <1>2. CASE InitError(init) # None /\ Fail(InitError(init))
    BY <1>1, <1>2
  <1>3. CASE /\ cursor \in DOMAIN file.inits
             /\ InitError(init) = None /\ AddNamed(init.name, OrOne(init.dims), some)
    <2>1. init \in Tensors /\ cursor <= Len(file.inits)
      <3>1. PICK T, s : T = Tensors /\ s = file.inits
        OBVIOUS
      <3>2. s \in Seq(T) /\ cursor \in DOMAIN s
        BY <1>3, <3>1, FileIs DEF LoadInv
      <3>3. s[cursor] \in T /\ cursor <= Len(s)
        BY <3>2
      <3>4. QED
        BY <3>1, <3>3
    <2> HIDE DEF init
    <2>2. PICK name, dims : name = init.name /\ dims = OrOne(init.dims)
      OBVIOUS
    <2>3. dims \in Seq(Nat) /\ Sound(graph) /\ Closed(graph)
      BY <1>3, <2>1, <2>2, InitDimsAre DEF LoadInv
    <2>4. (\E error : error # None /\ Fail(error)) \/ Adds(name, dims)
      BY <1>3, <2>2, <2>3, AddNamedIs
    <2>5. QED
      BY <1>1, <2>1, <2>2, <2>4 DEF init
  <1>4. CASE /\ cursor > Len(file.inits) /\ phase' = "nodes" /\ cursor' = 1
             /\ UNCHANGED <<nameToNode, made, loadError, graph>>
    BY <1>1, <1>4
  <1>5. QED
    BY <1>1, <1>2, <1>3, <1>4

LEMMA LoadInitializerWires == LoadInv /\ WireInv /\ LoadInitializer => WireInv'
  <1> SUFFICES ASSUME LoadInv, WireInv, LoadInitializer PROVE WireInv'
    OBVIOUS
  <1>1. phase = "initializers" /\ file' = file /\ made = <<>> /\ cursor \in Nat \ {0} /\ file \in Files
    BY LoadInitializerIs DEF LoadInv
  <1>2. PICK k \in Nat : cursor = k + 1 /\ cursor - 1 = k
    BY <1>1
  <1>3. PICK a, p : a = Len(file.inputs) /\ p = InputsUpTo(a)
    OBVIOUS
  <1>4. /\ cursor <= Len(file.inits) + 1 /\ graph.n = p + cursor - 1
        /\ Tabled(nameToNode, <<>>, a, k, 1)
        /\ OwnEdges(graph) /\ Len(file.inits) \in Nat /\ a \in Nat
    BY <1>1, <1>2, <1>3, ListsAre DEF WireInv, Wires
  <1>5. p \in Nat
    BY <1>3, <1>4, InputsStep
  <1>6. CASE \E error : Fail(error)
    BY <1>1, <1>6, FailWires
  <1>7. ASSUME cursor <= Len(file.inits), NEW dims, Adds(file.inits[cursor].name, dims)
        PROVE  WireInv'
    <2>1. PICK key, id : key = file.inits[cursor].name /\ id = graph.n
      OBVIOUS
    <2>2. /\ cursor' = cursor + 1 /\ phase' = "initializers" /\ made' = <<>> /\ cursor' - 1 = k + 1
          /\ cursor' <= Len(file.inits) + 1
      BY <1>1, <1>2, <1>4, <1>7 DEF Goes, Adds
    <2>3. /\ graph'.n = graph.n + 1 /\ graph'.edges = graph.edges /\ Ids(graph) \subseteq Ids(graph')
          /\ nameToNode' = Put(nameToNode, key, id)
      BY <1>7, <2>1 DEF Adds
    <2>4. graph'.n = p + cursor' - 1 /\ id = p + k /\ id \in Nat
      BY <1>2, <1>4, <1>5, <2>1, <2>2, <2>3
    <2>5. Tabled(nameToNode', <<>>, a, k + 1, 1)
      <3>1. Learns(<<>>, a, k, 1, <<>>, a, k + 1, 1, key, id)
        <4>1. key = file.inits[k + 1].name /\ InputsUpTo(Len(file.inputs)) \in Nat
          BY <1>2, <1>3, <1>5, <2>1
        <4>2. Meant(<<>>, a, k + 1, 1, key) = p + k
          BY <1>3, <4>1, InitMeans
        <4>3. \A name : name # key => Meant(<<>>, a, k + 1, 1, name) = Meant(<<>>, a, k, 1, name)
          BY <4>1, InitMeans
        <4>4. QED
          BY <2>4, <4>2, <4>3 DEF Learns
      <3>2. QED
        BY <1>4, <2>3, <2>4, <3>1, TabledPut
    <2>6. OwnEdges(graph')
      BY <1>4, <2>3, OwnStays
    <2>7. Wires(phase', graph', made', nameToNode', cursor')
      BY <1>3, <2>2, <2>4, <2>5, <2>6, NoneWired DEF Wires
    <2>8. QED
      BY <1>1, <2>7, WiresPrimed
  <1>8. CASE /\ cursor > Len(file.inits) /\ phase' = "nodes" /\ cursor' = 1
             /\ UNCHANGED <<nameToNode, made, graph>>
    <2>1. k = Len(file.inits)
      BY <1>2, <1>4, <1>8
    <2>2. Wires(phase', graph', made', nameToNode', cursor')
      BY <1>1, <1>3, <1>4, <1>8, <2>1, NoneWired DEF Wires
    <2>3. QED
      BY <1>1, <2>2, WiresPrimed
  <1>9. QED
    BY <1>6, <1>7, <1>8, LoadInitializerIs

\* A step that only registers nodes extends the graph by nothing.
LEMMA RegistersExtends ==
    ASSUME LoadInv, Registers, UNCHANGED <<nameToNode, made>>
    PROVE  Extends(graph, made, nameToNode, graph', made', nameToNode')
  <1>1. PICK g, h, m, table : g = graph /\ h = graph' /\ m = made /\ table = nameToNode
    OBVIOUS
  <1>2. /\ Sound(g) /\ Closed(g) /\ Sound(h) /\ Grows(g, h)
        /\ h.refs = g.refs /\ h.edges = g.edges
        /\ m \in Seq(Ids(g))
    BY <1>1 DEF LoadInv, Registers
  <1>3. \E x \in Seq([to : Nat, from : Nat]) :
          /\ h.refs = g.refs \o x
          /\ \A a \in 1 .. Len(x) : x[a].from \in Ids(g) => \E s \in DOMAIN table : table[s] = x[a].from
    <2>1. PICK R, r : R = [to : Ids(g), from : Nat] /\ r = g.refs
      OBVIOUS
    <2>2. r \in Seq(R)
      BY <1>2, <2>1 DEF Sound, Referred
    <2>3. r \o <<>> = r
      BY <2>2
    <2>4. <<>> \in Seq([to : Nat, from : Nat]) /\ 1 .. Len(<<>>) = {}
      OBVIOUS
    <2>5. h.refs = g.refs \o <<>>
      BY <1>2, <2>1, <2>3
    <2>6. QED
      BY <2>4, <2>5
  <1>4. \E y \in Seq(Edges) : h.edges = g.edges \o y /\ \A a \in 1 .. Len(y) : y[a].to \notin Ids(g)
    <2>1. PICK E, e : E = Edges /\ e = g.edges
      OBVIOUS
    <2>2. e \in Seq(E)
      BY <1>2, <2>1 DEF Sound
    <2>3. e \o <<>> = e
      BY <2>2
    <2>4. <<>> \in Seq(Edges) /\ 1 .. Len(<<>>) = {}
      OBVIOUS
    <2>5. h.edges = g.edges \o <<>>
      BY <1>2, <2>1, <2>3
    <2>6. QED
      BY <2>4, <2>5
  <1>5. \A s \in DOMAIN table : table[s] \in Ids(g) => \E t \in DOMAIN table : table[t] = table[s]
    OBVIOUS
  <1>6. Extends(g, m, table, h, m, table)
    BY <1>2, <1>3, <1>4, <1>5 DEF Extends
  <1>7. QED
    BY <1>1, <1>6

\* The nodes stay wired.
LEMMA AllStays ==
    ASSUME NEW g, NEW m, NEW table, NEW h, NEW m2, NEW table2,
           Extends(g, m, table, h, m2, table2), AllWired(g, m, table)
    PROVE  \A j \in 1 .. Len(m) : WiredIn(h, m2, table2, j)
  BY WiredStays DEF AllWired

\* A step that only registers nodes keeps them wired.
LEMMA RegistersWires ==
    ASSUME LoadInv, WireInv, Registers, UNCHANGED <<file, nameToNode, made>>,
           phase' \in {"outputs", "marked", "loaded"}
    PROVE  WireInv'
  <1>1. OwnEdges(graph) /\ AllWired(graph, made, nameToNode)
    BY DEF WireInv, Wires
  <1>2. OwnEdges(graph')
    BY <1>1, OwnStays DEF Registers, Ids
  <1>3. AllWired(graph', made', nameToNode')
    <2>1. \A j \in 1 .. Len(made) : WiredIn(graph', made', nameToNode', j)
      BY <1>1, RegistersExtends, AllStays
    <2>2. QED
      BY <2>1 DEF AllWired
  <1>4. Wires(phase', graph', made', nameToNode', cursor')
    BY <1>2, <1>3 DEF Wires
  <1>5. QED
    BY <1>4, WiresPrimed

LEMMA LoadOutputWires == LoadInv /\ WireInv /\ LoadOutput => WireInv'
  BY LoadOutputIs, RegistersWires DEF Goes

LEMMA FinishWires == LoadInv /\ WireInv /\ Finish => WireInv'
  BY FinishIs, RegistersWires

\* Every port belongs to an input that is given.
LEMMA PortIsGiven ==
    ASSUME NEW node, NEW n \in Nat, NEW a \in 1 .. Port(node, n)
    PROVE  \E p \in 1 .. n : node.ins[p] # "" /\ Port(node, p) = a
  <1> DEFINE held(k, b) == \E p \in 1 .. k : node.ins[p] # "" /\ Port(node, p) = b
             P == {k \in 0 .. n : \A b \in 1 .. Port(node, k) : held(k, b)}
  <1>1. 0 \in P
    <2>1. Port(node, 0) = 0
      <3>1. 0 \in Nat
        OBVIOUS
      <3>2. QED
        BY <3>1, PortStep
    <2>2. 1 .. 0 = {} /\ 0 \in 0 .. n
      OBVIOUS
    <2>3. QED
      BY <2>1, <2>2
  <1>2. ASSUME NEW k \in 0 .. n - 1, k \in P PROVE k + 1 \in P
    <2>1. k \in Nat /\ k + 1 \in 0 .. n
      OBVIOUS
    <2>2. PICK c, d : c = Port(node, k) /\ d = Port(node, k + 1)
      OBVIOUS
    <2>3. c \in Nat /\ d = c + (IF node.ins[k + 1] # "" THEN 1 ELSE 0)
      BY <2>1, <2>2, PortStep
    <2>4. ASSUME NEW b \in 1 .. d PROVE held(k + 1, b)
      <3>1. CASE b \in 1 .. c
        <4>1. PICK p \in 1 .. k : node.ins[p] # "" /\ Port(node, p) = b
          BY <1>2, <2>2, <3>1
        <4>2. p \in 1 .. k + 1
          BY <2>1
        <4>3. \E q \in 1 .. k + 1 : node.ins[q] # "" /\ Port(node, q) = b
          BY <4>1, <4>2, Zenon
        <4>4. QED
          BY <4>3
      <3>2. CASE b \notin 1 .. c
        <4>1. node.ins[k + 1] # "" /\ b = d
          <5>1. CASE node.ins[k + 1] = ""
            <6>1. d = c + 0 /\ c \in Nat
              BY <2>3, <5>1
            <6>2. d = c
              BY <6>1
            <6>3. FALSE
              BY <2>4, <3>2, <6>2
            <6>4. QED
              BY <6>3
          <5>2. CASE node.ins[k + 1] # ""
            <6>1. d = c + 1 /\ c \in Nat
              BY <2>3, <5>2
            <6>2. b = d
              BY <2>4, <3>2, <6>1
            <6>3. QED
              BY <5>2, <6>2
          <5>3. QED
            BY <5>1, <5>2
        <4>2. k + 1 \in 1 .. k + 1
          BY <2>1
        <4>3. QED
          BY <2>2, <4>1, <4>2
      <3>3. QED
        BY <3>1, <3>2
    <2>5. QED
      BY <2>1, <2>2, <2>4
  <1> HIDE DEF P
  <1>3. \A k \in 0 .. n : k \in P
    BY <1>1, <1>2, UpTo
  <1>4. n \in P
    BY <1>3
  <1>5. QED
    BY <1>4 DEF P

\* The table has a name for the node.
Named(names, w) == \E s \in DOMAIN names : names[s] = w

\* An input that was in the graph is one that the table names.
LEMMA OldReadsAreNamed ==
    ASSUME NEW g, NEW names, NEW node, node.ins \in Seq(STRING), NEW st,
           Resolving(g, names, node, Len(node.ins), st), NEW a \in 1 .. Len(st.ids),
           st.ids[a] \in Ids(g)
    PROVE  Named(names, st.ids[a])
  <1>1. PICK n, ids : n = Len(node.ins) /\ ids = st.ids
    OBVIOUS
  <1>2. n \in Nat /\ Resolving(g, names, node, n, st)
    <2>1. PICK ins : ins = node.ins
      OBVIOUS
    <2>2. ins \in Seq(STRING) /\ n = Len(ins)
      BY <1>1, <2>1
    <2>3. n \in Nat
      BY <2>2
    <2>4. QED
      BY <1>1, <2>3
  <1>2a. a \in 1 .. Port(node, n)
    <2>1. Len(st.ids) = Port(node, n)
      BY <1>2 DEF Resolving
    <2>2. QED
      BY <2>1
  <1>3. PICK p \in 1 .. n : node.ins[p] # "" /\ Port(node, p) = a
    BY <1>2, <1>2a, PortIsGiven
  <1>4. Reads(g, names, ids, st.graph, node.ins[p], a)
    BY <1>1, <1>2, <1>3 DEF Resolving
  <1>5. QED
    BY <1>1, <1>4 DEF Reads, Named

\* The new node extends the graph.
LEMMA MakesExtends ==
    ASSUME LoadInv, NEW node, node.ins \in Seq(STRING), NEW ids, NEW h, NEW new,
           Makes(node, ids, h, new)
    PROVE  Extends(graph, made, nameToNode, graph', made', nameToNode')
  <1>1. PICK g, g2, m, m2, names, names2, st :
           /\ g = graph /\ g2 = graph' /\ m = made /\ m2 = made'
           /\ names = nameToNode /\ names2 = nameToNode'
           /\ st = [ids |-> ids, names |-> names, graph |-> h]
    OBVIOUS
  <1>2. /\ Resolving(g, names, node, Len(node.ins), st) /\ st.ids = ids /\ st.graph = h
        /\ Sound(g) /\ Closed(g) /\ Sound(g2) /\ Grows(g, g2)
        /\ h.n \in Nat /\ h.n \notin Ids(h) /\ Ids(g2) = Ids(h) \cup {h.n}
        /\ g2.refs = g.refs \o [p \in 1 .. Len(ids) |-> Ref(h.n, ids[p])]
        /\ g2.edges = g.edges \o PortEdges(g2, h.n, ids)
        /\ m2 = Append(m, h.n)
        /\ names2 = IF FirstOutput(node) = "" THEN names ELSE Put(names, FirstOutput(node), h.n)
    BY <1>1 DEF Makes, LoadInv
  <1>2a. /\ Resolving(g, names, node, Len(node.ins), st) /\ st.ids = ids /\ st.graph = h
         /\ Sound(g) /\ Closed(g) /\ Sound(g2) /\ Grows(g, g2)
    BY <1>2
  <1>2b. h.n \in Nat /\ h.n \notin Ids(h) /\ Ids(g2) = Ids(h) \cup {h.n}
    BY <1>2
  <1>2c. m2 = Append(m, h.n)
    BY <1>2
  <1>3. Widens(g, h) /\ ids \in Seq(Ids(h))
    BY <1>2a DEF Resolving
  <1>4. Ids(g) \subseteq Ids(h) /\ h.n \notin Ids(g)
    BY <1>2a, <1>2b, <1>3, GrownIds DEF Widens
  <1>5. ids \in Seq(Nat) /\ ids \in Seq(Ids(g2))
    <2>1. Ids(h) \subseteq Nat
      BY <1>3 DEF Widens, Sound, Noded, Ids
    <2>2. Ids(h) \subseteq Ids(g2)
      BY <1>2b
    <2>3. QED
      BY <1>3, <2>1, <2>2, SeqWidens
  <1>6. m \in Seq(Ids(g)) /\ \A a \in 1 .. Len(m) : m2[a] = m[a]
    <2>1. PICK I, J : I = Ids(g) /\ J = I \cup {h.n}
      OBVIOUS
    <2>2. m \in Seq(I) /\ I \subseteq J /\ h.n \in J
      BY <1>1, <2>1 DEF LoadInv
    <2>3. m \in Seq(J)
      BY <2>2, SeqWidens
    <2>4. \A a \in 1 .. Len(m) : m2[a] = m[a]
      BY <1>2c, <2>2, <2>3, AppendIs
    <2>5. QED
      BY <2>1, <2>2, <2>4
  <1>7. \E x \in Seq([to : Nat, from : Nat]) :
          /\ g2.refs = g.refs \o x
          /\ \A a \in 1 .. Len(x) : x[a].from \in Ids(g) => \E s \in DOMAIN names : names[s] = x[a].from
    <2>1. PICK n, id, x, R : /\ n = Len(ids) /\ id = h.n /\ x = [p \in 1 .. n |-> Ref(id, ids[p])]
                             /\ R = [to : Nat, from : Nat]
      OBVIOUS
    <2>2. n \in Nat /\ id \in Nat /\ \A p \in 1 .. n : ids[p] \in Nat
      BY <1>2b, <1>5, <2>1
    <2>3. \A p \in 1 .. n : Ref(id, ids[p]) \in R /\ Ref(id, ids[p]).from = ids[p]
      BY <2>1, <2>2 DEF Ref
    <2>4. x \in Seq(R) /\ Len(x) = n /\ \A p \in 1 .. n : x[p].from = ids[p]
      BY <2>1, <2>2, <2>3
    <2>5. \A a \in 1 .. n : ids[a] \in Ids(g) => \E s \in DOMAIN names : names[s] = ids[a]
      <3>1. st.ids = ids /\ Resolving(g, names, node, Len(node.ins), st)
        BY <1>2a
      <3>2. ASSUME NEW a \in 1 .. Len(st.ids), st.ids[a] \in Ids(g)
            PROVE  Named(names, st.ids[a])
        BY <3>1, <3>2, OldReadsAreNamed
      <3>3. QED
        BY <2>1, <3>1, <3>2 DEF Named
    <2>6. g2.refs = g.refs \o x
      BY <1>2, <2>1
    <2>7. QED
      BY <2>1, <2>4, <2>5, <2>6
  <1>8. \E y \in Seq(Edges) : g2.edges = g.edges \o y /\ \A a \in 1 .. Len(y) : y[a].to \notin Ids(g)
    <2>1. PICK y, id, n : y = PortEdges(g2, id, ids) /\ id = h.n /\ n = Len(ids)
      BY Zenon
    <2>1a. n \in Nat /\ id \in Nat
      BY <1>2b, <1>5, <2>1
    <2>2. /\ y \in Seq(Edges)
          /\ y = [p \in 1 .. n |-> [from |-> ids[p], to |-> id, to_port |-> p - 1,
                                    dims |-> g2.nodes[ids[p]].dims]]
      <3>1. Sound(g2) /\ id \in Nat /\ ids \in Seq(Ids(g2)) /\ y = PortEdges(g2, id, ids)
        BY <1>2a, <1>5, <2>1, <2>1a
      <3>2. /\ y \in Seq(Edges)
            /\ y = [p \in 1 .. Len(ids) |->
                  [from |-> ids[p], to |-> id, to_port |-> p - 1, dims |-> g2.nodes[ids[p]].dims]]
        BY <3>1, PortEdgesAre
      <3>3. QED
        BY <2>1, <3>2, Zenon
    <2>3. Len(y) = n /\ \A a \in 1 .. n : y[a].to = id
      BY <2>1a, <2>2
    <2>4. QED
      BY <1>2, <1>4, <2>1, <2>2, <2>3
  <1>9. \A s \in DOMAIN names2 : names2[s] \in Ids(g) => \E t \in DOMAIN names : names[t] = names2[s]
    BY <1>2, <1>4 DEF Put
  <1>10. Extends(g, m, names, g2, m2, names2)
    BY <1>2, <1>6, <1>7, <1>8, <1>9 DEF Extends
  <1>11. QED
    BY <1>1, <1>10

\* The edges of a new node say what its inputs say, and lead to it.
LEMMA NewPorts ==
    ASSUME NEW g, Sound(g), OwnEdges(g), NEW h, Sound(h), Ids(g) \subseteq Ids(h),
           NEW id \in Ids(h), id \notin Ids(g), NEW ids \in Seq(Ids(h)), h.nodes[id].ins = ids,
           NEW y \in Seq(Edges), h.edges = g.edges \o y,
           y = [p \in 1 .. Len(ids) |-> [from |-> ids[p], to |-> id, to_port |-> p - 1,
                                         dims |-> h.nodes[ids[p]].dims]]
    PROVE  PortsFollow(h, id) /\ OwnEdges(h)
  <1>1. PICK s, t, n, c : s = g.edges /\ t = h.edges /\ n = Len(s) /\ c = Len(ids)
    OBVIOUS
  <1>2. c \in Nat /\ DOMAIN ids = 1 .. c
    <2>1. PICK I : I = Ids(h)
      OBVIOUS
    <2>2. ids \in Seq(I)
      BY <2>1
    <2>3. QED
      BY <1>1, <2>2
  <1>3. y = [p \in 1 .. c |-> [from |-> ids[p], to |-> id, to_port |-> p - 1,
                               dims |-> h.nodes[ids[p]].dims]]
    BY <1>1, Zenon
  <1>4. /\ Len(y) = c
        /\ \A p \in 1 .. c : y[p] = [from |-> ids[p], to |-> id, to_port |-> p - 1,
                                     dims |-> h.nodes[ids[p]].dims]
        /\ \A p \in 1 .. c : y[p].to = id
    BY <1>2, <1>3
  <1>5. /\ n \in Nat /\ DOMAIN s = 1 .. n /\ Len(t) = n + c /\ DOMAIN t = 1 .. n + c
        /\ \A e \in 1 .. n : t[e] = s[e]
        /\ \A p \in 1 .. c : t[n + p] = y[p]
    <2>1. PICK E : E = Edges
      OBVIOUS
    <2>2. s \in Seq(E) /\ y \in Seq(E) /\ t = s \o y /\ n = Len(s)
      BY <1>1, <1>3, <2>1 DEF Sound
    <2>3. /\ t \in Seq(E) /\ Len(t) = n + Len(y) /\ n \in Nat
          /\ \A e \in 1 .. n : t[e] = s[e]
          /\ \A p \in 1 .. Len(y) : t[n + p] = y[p]
      BY <2>2, Joined
    <2>4. DOMAIN t = 1 .. Len(t) /\ DOMAIN s = 1 .. n
      BY <2>2, <2>3
    <2>5. QED
      BY <1>4, <2>3, <2>4
  <1>6. \A e \in 1 .. n : s[e].to \in Ids(g) /\ s[e].to # id
    <2>1. DOMAIN s = 1 .. n /\ s = g.edges
      BY <1>1, <1>5
    <2>2. \A e \in DOMAIN s : s[e].to \in Ids(g)
      BY <2>1, Zenon DEF OwnEdges
    <2>3. QED
      BY <2>1, <2>2, Zenon
  <1>7. ASSUME NEW e \in 1 .. n + c
        PROVE  t[e].to \in Ids(h) /\ (t[e].to = id <=> e \in n + 1 .. n + c)
    <2>1. CASE e \in 1 .. n
      <3>1. e \notin n + 1 .. n + c
        BY <1>2, <1>5, <2>1
      <3>2. t[e].to = s[e].to
        BY <1>5, <2>1
      <3>3. QED
        BY <1>6, <2>1, <3>1, <3>2
    <2>2. CASE e \notin 1 .. n
      <3>1. e - n \in 1 .. c /\ n + (e - n) = e /\ e \in n + 1 .. n + c
        BY <1>2, <1>5, <1>7, <2>2
      <3>2. t[e].to = id
        <4>1. PICK p \in 1 .. c : n + p = e
          BY <3>1
        <4>2. t[e] = y[p]
          BY <1>5, <4>1
        <4>3. QED
          BY <1>4, <4>2
      <3>3. QED
        BY <3>1, <3>2
    <2>3. QED
      BY <2>1, <2>2
  <1>8. Into(h, id) = n + 1 .. n + c
    <2>1. \A e \in n + 1 .. n + c : e \in 1 .. n + c
      BY <1>2, <1>5
    <2>2. {e \in 1 .. n + c : t[e].to = id} = n + 1 .. n + c
      BY <1>7, <2>1
    <2>3. QED
      BY <1>1, <1>5, <2>2 DEF Into
  <1>9. PortsAt(h, id, ids, n)
    <2>1. \A p \in 1 .. c : t[n + p] = [from |-> ids[p], to |-> id, to_port |-> p - 1,
                                        dims |-> h.nodes[ids[p]].dims]
      <3>1. \A p \in 1 .. c : t[n + p] = y[p]
        BY <1>5
      <3>2. \A p \in 1 .. c : y[p] = [from |-> ids[p], to |-> id, to_port |-> p - 1,
                                    dims |-> h.nodes[ids[p]].dims]
        BY <1>4
      <3>3. QED
        BY <3>1, <3>2, Zenon
    <2>2. QED
      BY <1>1, <1>2, <1>8, <2>1 DEF PortsAt
  <1>10. n \in 0 .. Len(h.edges)
    BY <1>1, <1>2, <1>5
  <1>11. PortsFollow(h, id)
    BY <1>9, <1>10 DEF PortsFollow
  <1>12. OwnEdges(h)
    BY <1>1, <1>5, <1>7 DEF OwnEdges
  <1>13. QED
    BY <1>11, <1>12

\* An input made for a name without a definition stays with the one mention.
LEMMA NewPrivate ==
    ASSUME NEW g, Sound(g), Closed(g), NEW names, \A s \in DOMAIN names : names[s] \in Ids(g),
           NEW h, Sound(h), NEW k, Sound(k), NEW ids \in Seq(Ids(h)), NEW id, id \notin Ids(h),
           Ids(g) \subseteq Ids(h), Ids(k) = Ids(h) \cup {id},
           \A v \in Ids(h) : k.nodes[v] = h.nodes[v],
           k.refs = g.refs \o [p \in 1 .. Len(ids) |-> Ref(id, ids[p])],
           NEW names2, \A s \in DOMAIN names2 : names2[s] \in Ids(g) \cup {id},
           NEW name, name \notin DOMAIN names, NEW port, Reads(g, names, ids, h, name, port)
    PROVE  Private(k, names2, name, ids[port])
  <1>1. PICK s, t, x, n, c, w : /\ s = g.refs /\ t = k.refs /\ n = Len(s) /\ c = Len(ids)
                                /\ x = [p \in 1 .. c |-> Ref(id, ids[p])] /\ w = ids[port]
    BY Zenon
  <1>2. /\ port \in 1 .. c /\ w \notin Ids(g) /\ h.nodes[w] = InputNode(name, <<1>>)
        /\ \A a \in 1 .. c : ids[a] = w => a = port
    BY <1>1 DEF Reads
  <1>3. c \in Nat /\ w \in Ids(h) /\ \A p \in 1 .. c : ids[p] \in Ids(h)
    <2>1. PICK I : I = Ids(h)
      OBVIOUS
    <2>2. ids \in Seq(I)
      BY <2>1
    <2>3. c \in Nat /\ \A p \in 1 .. c : ids[p] \in I
      BY <1>1, <2>2
    <2>4. QED
      BY <1>1, <1>2, <2>1, <2>3
  <1>4. w # id /\ w \in Ids(k) /\ k.nodes[w] = InputNode(name, <<1>>)
    BY <1>2, <1>3
  <1>5. /\ n \in Nat /\ DOMAIN t = 1 .. n + c
        /\ \A r \in 1 .. n : t[r] = s[r] /\ s[r].from \in Ids(g)
        /\ \A p \in 1 .. c : t[n + p].from = ids[p]
    <2>1. PICK R, Q : R = [to : Nat, from : Nat] /\ Q = [to : Ids(g), from : Nat]
      OBVIOUS
    <2>2. s \in Seq(Q) /\ Q \subseteq R
      <3>1. Ids(g) \subseteq Nat
        BY DEF Sound, Noded, Ids
      <3>2. Q \subseteq R
        BY <2>1, <3>1
      <3>3. QED
        BY <1>1, <2>1, <3>2 DEF Sound, Referred
    <2>3. s \in Seq(R)
      BY <2>2, SeqWidens
    <2>4. Ids(k) \subseteq Nat
      BY DEF Sound, Noded, Ids
    <2>5. \A p \in 1 .. c : Ref(id, ids[p]) \in R /\ Ref(id, ids[p]).from = ids[p]
      BY <1>3, <2>1, <2>4 DEF Ref
    <2>6. x \in Seq(R) /\ Len(x) = c /\ \A p \in 1 .. c : x[p].from = ids[p]
      BY <1>1, <1>3, <2>5
    <2>7. t = s \o x
      BY <1>1
    <2>8. /\ t \in Seq(R) /\ Len(t) = n + Len(x) /\ n \in Nat
          /\ \A a \in 1 .. n : t[a] = s[a]
          /\ \A a \in 1 .. Len(x) : t[n + a] = x[a]
      BY <1>1, <2>3, <2>6, <2>7, Joined
    <2>9. DOMAIN t = 1 .. n + c /\ DOMAIN s = 1 .. n
      BY <1>1, <2>3, <2>6, <2>8
    <2>10. \A r \in 1 .. n : s[r].from \in Ids(g)
      BY <1>1, <2>9 DEF Sound, Referred, Closed
    <2>11. QED
      BY <2>6, <2>8, <2>9, <2>10
  <1>6. ASSUME NEW r \in 1 .. n + c, t[r].from = w PROVE r = n + port
    <2>1. r \notin 1 .. n
      BY <1>2, <1>5, <1>6
    <2>2. PICK p \in 1 .. c : n + p = r
      <3>1. r - n \in 1 .. c /\ n + (r - n) = r
        BY <1>3, <1>5, <2>1
      <3>2. QED
        BY <3>1
    <2>3. ids[p] = w
      BY <1>5, <1>6, <2>2
    <2>4. QED
      BY <1>2, <2>2, <2>3
  <1>7. \A p, q \in DOMAIN t : t[p].from = w /\ t[q].from = w => p = q
    BY <1>5, <1>6
  <1>8. \A r \in DOMAIN names2 : names2[r] # w
    BY <1>2, <1>4
  <1>9. QED
    BY <1>1, <1>4, <1>7, <1>8 DEF Private

\* The new node reads what the names mean.
LEMMA MakesReads ==
    ASSUME LoadInv, NEW j, NEW node, node = file.nodes[j], node.ins \in Seq(STRING),
           NEW ids, NEW h, NEW new, Makes(node, ids, h, new),
           Tabled(nameToNode, made, Len(file.inputs), Len(file.inits), j),
           Agree(j, made, made'), made'[j] = h.n, NEW p \in Given(node)
    PROVE  ReadsSense(graph', made', nameToNode', j, p)
  <1>1. PICK g, k, m, m2, names, names2, id, name, port, d :
           /\ g = graph /\ k = graph' /\ m = made /\ m2 = made'
           /\ names = nameToNode /\ names2 = nameToNode' /\ id = h.n
           /\ name = node.ins[p] /\ port = Port(node, p) /\ d = Sense(m, j, name)
    BY Zenon
  <1>2. Resolving(g, names, node, Len(node.ins), [ids |-> ids, names |-> names, graph |-> h])
    BY <1>1 DEF Makes
  <1>3. Widens(g, h) /\ ids \in Seq(Ids(h))
    BY <1>2 DEF Resolving
  <1>4. p \in 1 .. Len(node.ins) /\ name # ""
    <2>1. PICK ins : ins = node.ins
      OBVIOUS
    <2>2. ins \in Seq(STRING)
      BY <2>1
    <2>3. DOMAIN ins = 1 .. Len(ins)
      BY <2>2
    <2>4. QED
      BY <1>1, <2>1, <2>3 DEF Given
  <1>5. Reads(g, names, ids, h, name, port)
    BY <1>1, <1>2, <1>4 DEF Resolving
  <1>6. /\ id \notin Ids(h) /\ Ids(k) = Ids(h) \cup {id}
        /\ new.ins = ids /\ k.nodes = [v \in Ids(k) |-> IF v = id THEN new ELSE h.nodes[v]]
        /\ k.refs = g.refs \o [q \in 1 .. Len(ids) |-> Ref(id, ids[q])]
        /\ names2 = IF FirstOutput(node) = "" THEN names ELSE Put(names, FirstOutput(node), id)
    BY <1>1 DEF Makes
  <1>7. k.nodes[id].ins = ids /\ \A v \in Ids(h) : k.nodes[v] = h.nodes[v]
    BY <1>6
  <1>8. Sense(m2, j, name) = d
    <2>1. SameMeaning(j, m, m2)
      BY <1>1, SenseStays
    <2>2. QED
      BY <1>1, <2>1 DEF SameMeaning, Sense
  <1>9. IF d = NoNode THEN name \notin DOMAIN names ELSE name \in DOMAIN names /\ names[name] = d
    BY <1>1, <1>4 DEF Tabled, Sense
  <1>10. ASSUME d # NoNode PROVE ids[port] = d
    BY <1>5, <1>9, <1>10 DEF Reads
  <1>11. ASSUME d = NoNode PROVE Private(k, names2, name, ids[port])
    <2>1. /\ Sound(g) /\ Closed(g) /\ \A s \in DOMAIN names : names[s] \in Ids(g)
      BY <1>1 DEF LoadInv, LoadTypeOK
    <2>2. Sound(h) /\ Sound(k) /\ Ids(g) \subseteq Ids(h)
      BY <1>1, <1>3, <2>1, GrownIds DEF Widens, Makes
    <2>3. \A s \in DOMAIN names2 : names2[s] \in Ids(g) \cup {id}
      BY <1>6, <2>1 DEF Put
    <2>4. name \notin DOMAIN names
      BY <1>9, <1>11
    <2>5. k.refs = g.refs \o [q \in 1 .. Len(ids) |-> Ref(id, ids[q])]
      BY <1>6
    <2>6. id \notin Ids(h) /\ Ids(k) = Ids(h) \cup {id}
      BY <1>6
    <2>7. QED
      BY <1>3, <1>5, <1>7, <2>1, <2>2, <2>3, <2>4, <2>5, <2>6, NewPrivate
  <1>12. m2[j] = id /\ k.nodes[m2[j]].ins[port] = ids[port]
    BY <1>1, <1>7
  <1>13. QED
    BY <1>1, <1>8, <1>10, <1>11, <1>12 DEF ReadsSense

\* The new node is wired.
LEMMA MakesWired ==
    ASSUME LoadInv, OwnEdges(graph), NEW j, NEW node, node = file.nodes[j], node.ins \in Seq(STRING),
           NEW ids, NEW h, NEW new, Makes(node, ids, h, new),
           Tabled(nameToNode, made, Len(file.inputs), Len(file.inits), j),
           Agree(j, made, made'), made'[j] = h.n
    PROVE  WiredIn(graph', made', nameToNode', j) /\ OwnEdges(graph')
  <1>1. PICK g, k, id, c : g = graph /\ k = graph' /\ id = h.n /\ c = Len(node.ins)
    OBVIOUS
  <1>2. Resolving(g, nameToNode, node, c, [ids |-> ids, names |-> nameToNode, graph |-> h])
    BY <1>1 DEF Makes
  <1>3. Widens(g, h) /\ ids \in Seq(Ids(h)) /\ Len(ids) = Port(node, c)
    BY <1>2 DEF Resolving
  <1>4. /\ id \in Nat /\ id \notin Ids(h) /\ Ids(k) = Ids(h) \cup {id} /\ Sound(k)
        /\ new.ins = ids /\ k.nodes = [v \in Ids(k) |-> IF v = id THEN new ELSE h.nodes[v]]
        /\ k.edges = g.edges \o PortEdges(k, id, ids)
    BY <1>1 DEF Makes
  <1>4a. Sound(k) /\ id \in Nat
    BY <1>4
  <1>5. Sound(g) /\ Ids(g) \subseteq Ids(h)
    BY <1>1, <1>3, GrownIds DEF LoadInv, Widens
  <1>6. Ids(g) \subseteq Ids(k) /\ id \in Ids(k) /\ id \notin Ids(g) /\ k.nodes[id].ins = ids
    BY <1>4, <1>5
  <1>7. ids \in Seq(Ids(k))
    <2>1. Ids(h) \subseteq Ids(k)
      BY <1>4
    <2>2. QED
      BY <1>3, <2>1, SeqWidens
  <1>8. PICK y : y = PortEdges(k, id, ids)
    BY Zenon
  <1>8a. /\ y \in Seq(Edges)
         /\ y = [p \in 1 .. Len(ids) |-> [from |-> ids[p], to |-> id, to_port |-> p - 1,
                                          dims |-> k.nodes[ids[p]].dims]]
    BY <1>4a, <1>7, <1>8, PortEdgesAre
  <1>8b. k.edges = g.edges \o y
    BY <1>4, <1>8
  <1>9. PortsFollow(k, id) /\ OwnEdges(k)
    <2>1. OwnEdges(g)
      BY <1>1
    <2>2. QED
      BY <1>4a, <1>5, <1>6, <1>7, <1>8a, <1>8b, <2>1, NewPorts
  <1>10. \A p \in Given(node) : ReadsSense(graph', made', nameToNode', j, p)
    BY MakesReads
  <1>11. QED
    BY <1>1, <1>3, <1>6, <1>9, <1>10 DEF WiredIn

\* A turn that loads a node: the old ones stay wired, the new one is, and its
\* output has its meaning.
LEMMA MakesWires ==
    ASSUME LoadInv, WireInv, phase = "nodes", file' = file, cursor \in DOMAIN file.nodes,
           NEW node, node = file.nodes[cursor], NEW ids, NEW h, NEW new, Makes(node, ids, h, new)
    PROVE  WireInv'
  <1>1. PICK g, k, m, m2, names, names2, id, j, a, b, key :
           /\ g = graph /\ k = graph' /\ m = made /\ m2 = made'
           /\ names = nameToNode /\ names2 = nameToNode' /\ id = h.n /\ j = cursor
           /\ a = Len(file.inputs) /\ b = Len(file.inits) /\ key = FirstOutput(node)
    BY Zenon
  <1>2. j \in Nat \ {0} /\ Len(m) = j - 1 /\ m \in Seq(Ids(g)) /\ file \in Files
    BY <1>1 DEF LoadInv
  <1>3. node.ins \in Seq(STRING)
    BY FileIs DEF LoadInv, IsNode
  <1>4. /\ Ids(k) = Ids(h) \cup {id} /\ m2 = Append(m, id) /\ id \in Nat
        /\ names2 = IF key = "" THEN names ELSE Put(names, key, id)
        /\ cursor' = cursor + 1 /\ phase' = phase
    BY <1>1 DEF Makes, Goes
  <1>5. Len(m2) = j /\ m2[j] = id /\ \A q \in 1 .. j - 1 : m2[q] = m[q]
    <2>1. PICK I : I = Nat
      OBVIOUS
    <2>2. Ids(g) \subseteq I
      BY <1>1, <2>1 DEF LoadInv, Sound, Noded, Ids
    <2>3. m \in Seq(I) /\ id \in I /\ m2 = Append(m, id)
      BY <1>2, <1>4, <2>1, <2>2, SeqWidens
    <2>4. /\ Len(m2) = Len(m) + 1 /\ m2[Len(m) + 1] = id
          /\ \A q \in 1 .. Len(m) : m2[q] = m[q]
      BY <2>3, AppendIs
    <2>5. Len(m) + 1 = j
      BY <1>2
    <2>6. QED
      BY <1>2, <2>4, <2>5
  <1>6. Agree(j, m, m2)
    BY <1>2, <1>5 DEF Agree
  <1>7. Tabled(names, m, a, b, j) /\ OwnEdges(g) /\ AllWired(g, m, names)
    BY <1>1 DEF WireInv, Wires
  <1>8. WiredIn(k, m2, names2, j) /\ OwnEdges(k)
    <2>1. /\ OwnEdges(graph) /\ node = file.nodes[j] /\ made'[j] = h.n
          /\ Tabled(nameToNode, made, Len(file.inputs), Len(file.inits), j)
          /\ Agree(j, made, made')
      BY <1>1, <1>5, <1>6, <1>7
    <2>2. WiredIn(graph', made', nameToNode', j) /\ OwnEdges(graph')
      BY <1>3, <2>1, MakesWired
    <2>3. QED
      BY <1>1, <2>2
  <1>9. AllWired(k, m2, names2)
    <2>1. Extends(g, m, names, k, m2, names2)
      BY <1>1, <1>3, MakesExtends
    <2>2. \A q \in 1 .. Len(m) : WiredIn(k, m2, names2, q)
      BY <1>7, <2>1, AllStays
    <2>3. \A q \in 1 .. Len(m2) : q \in 1 .. Len(m) \/ q = j
      BY <1>2, <1>5
    <2>4. QED
      BY <1>8, <2>2, <2>3 DEF AllWired
  <1>10. /\ Meant(m2, a, b, j + 1, key) = id
         /\ \A name : name # key => Meant(m2, a, b, j + 1, name) = Meant(m, a, b, j, name)
    <2>1. key = FirstOutput(file.nodes[j]) /\ j \in Nat \ {0}
      BY <1>1, <1>2
    <2>2. Meant(m2, a, b, j + 1, key) = m2[j]
      BY <2>1, OutputMeans
    <2>3. ASSUME NEW name, name # key
          PROVE  Meant(m2, a, b, j + 1, name) = Meant(m, a, b, j, name)
      BY <1>6, <2>1, <2>3, NodeMeans
    <2>4. QED
      BY <1>5, <2>2, <2>3
  <1>11. Tabled(names2, m2, a, b, j + 1)
    <2>1. CASE key = ""
      BY <1>4, <1>7, <1>10, <2>1 DEF Tabled
    <2>2. CASE key # ""
      <3>1. Learns(m, a, b, j, m2, a, b, j + 1, key, id)
        BY <1>10 DEF Learns
      <3>2. QED
        BY <1>4, <1>7, <2>2, <3>1, TabledPut
    <2>3. QED
      BY <2>1, <2>2
  <1>12. Wires(phase', k, m2, names2, j + 1)
    BY <1>1, <1>4, <1>8, <1>9, <1>11 DEF Wires
  <1>13. QED
    BY <1>1, <1>4, <1>12, WiresPrimed

LEMMA LoadNodeWires == LoadInv /\ WireInv /\ LoadNode => WireInv'
  <1> SUFFICES ASSUME LoadInv, WireInv, LoadNode PROVE WireInv'
    OBVIOUS
  <1>1. /\ phase = "nodes" /\ file' = file
        /\ \/ cursor \in DOMAIN file.nodes
           \/ phase' = "outputs" /\ cursor' = 1 /\ UNCHANGED <<nameToNode, made, loadError, graph>>
    BY DEF LoadNode, LoopTurn
  <1>2. CASE cursor \in DOMAIN file.nodes
    BY <1>1, <1>2, LoadNodeIs, FailWires, MakesWires
  <1>3. CASE phase' = "outputs" /\ cursor' = 1 /\ UNCHANGED <<nameToNode, made, loadError, graph>>
    <2>1. Wires(phase', graph', made', nameToNode', cursor')
      BY <1>1, <1>3 DEF WireInv, Wires
    <2>2. QED
      BY <1>1, <2>1, WiresPrimed
  <1>4. QED
    BY <1>1, <1>2, <1>3

LEMMA WireStepInv == ToolchainInv /\ WireInv /\ [Next]_vars => WireInv'
  <1> SUFFICES ASSUME ToolchainInv, WireInv, [Next]_vars PROVE WireInv'
    OBVIOUS
  <1>1. CASE LoadStep
    BY <1>1, CheckWires, LoadInputWires, LoadInitializerWires, LoadNodeWires, LoadOutputWires,
       FinishWires DEF LoadStep, Load, ToolchainInv
  <1>2. CASE UNCHANGED loadVars
    <2>1. file' = file /\ UNCHANGED <<phase, cursor, nameToNode, made, graph>>
      BY <1>2 DEF loadVars
    <2>2. Wires(phase', graph', made', nameToNode', cursor')
      BY <2>1 DEF WireInv
    <2>3. QED
      BY <2>1, <2>2, WiresPrimed
  <1>3. CASE Compile
    BY <1>2, <1>3 DEF Compile
  <1>4. CASE AotStep
    <2>1. /\ UNCHANGED <<file, phase, cursor, nameToNode, made, loadError>>
          /\ CheckGraph \/ FoldNode \/ EmitNode \/ ExecuteStep
      BY <1>4 DEF AotStep, CompileStep
    <2>2. graph' = graph
      BY <2>1 DEF CheckGraph, FoldNode, EmitNode, ExecuteStep, CallExecute, RunStatement, ReturnValue
    <2>3. QED
      BY <1>2, <2>1, <2>2 DEF loadVars
  <1>5. CASE UNCHANGED vars
    BY <1>2, <1>5 DEF vars
  <1>6. QED
    BY <1>1, <1>3, <1>4, <1>5 DEF Next

\* What stays of the wiring: each loop of graph_from_proto has entered in
\* name_to_node exactly the meanings that the lists read so far give the names, and
\* every loaded node is wired as the file says.
THEOREM WiringInvariant == Spec => []WireInv
  <1>1. Init => WireInv
    BY WireInit DEF Init
  <1>2. QED
    BY <1>1, WireStepInv, ToolchainInvariant, PTL DEF Spec

\* A node loaded from a file reads, in the order of the file's input list and
\* leaving out omitted inputs, the latest earlier definition of each name, or an input
\* made for this one mention; its edges say the same as its input list.
THEOREM LoadedWiringExact == Spec => []WiringExact
  <1>1. ToolchainInv /\ WireInv => WiringExact
    <2> SUFFICES ASSUME ToolchainInv, WireInv, NEW j \in DOMAIN made
                 PROVE  /\ Len(graph.nodes[made[j]].ins) = Cardinality(Given(file.nodes[j]))
                        /\ \A p \in Given(file.nodes[j]) : ReadsDefinition(j, p)
                        /\ EdgesFollow(made[j])
      BY DEF WiringExact
    <2>1. PICK n, v, node : n = Len(made) /\ v = made[j] /\ node = file.nodes[j]
      OBVIOUS
    <2>2. n \in Nat /\ j \in 1 .. n /\ j \in Nat \ {0}
      <3>1. PICK I, m : I = Ids(graph) /\ m = made
        OBVIOUS
      <3>2. m \in Seq(I)
        BY <3>1 DEF ToolchainInv, LoadInv
      <3>3. n \in Nat /\ j \in 1 .. n
        BY <2>1, <3>1, <3>2
      <3>4. QED
        BY <3>3
    <2>3. file \in Files /\ n <= Len(file.nodes) /\ j \in 1 .. Len(file.nodes) /\ node.ins \in Seq(STRING)
      <3>1. file \in Files /\ n <= Len(file.nodes)
        BY <2>1 DEF ToolchainInv, LoadInv, LoadTypeOK
      <3>2. j \in 1 .. Len(file.nodes)
        BY <2>2, <3>1, FileIs
      <3>3. QED
        BY <2>1, <3>1, <3>2, FileIs DEF IsNode
    <2>4. WiredIn(graph, made, nameToNode, j)
      BY <2>1, <2>2 DEF WireInv, Wires, AllWired
    <2>5. Cardinality(Given(node)) = Port(node, Len(node.ins))
      <3>1. PICK ins : ins = node.ins
        OBVIOUS
      <3>2. DOMAIN ins = 1 .. Len(ins)
        BY <2>3, <3>1
      <3>3. QED
        BY <3>1, <3>2 DEF Given, Port
    <2>6. ASSUME NEW p \in Given(node) PROVE ReadsDefinition(j, p)
      <3>1. PICK name, w, d : /\ name = node.ins[p] /\ w = graph.nodes[v].ins[Port(node, p)]
                              /\ d = Sense(made, j, name)
        OBVIOUS
      <3>2. DefinitionOf(j, name) = d
        BY <2>2, <2>3, <3>1, DefinitionIs
      <3>3. IF d # NoNode THEN w = d ELSE Private(graph, nameToNode, name, w)
        <4>1. ReadsSense(graph, made, nameToNode, j, p)
          BY <2>1, <2>4, <2>6 DEF WiredIn
        <4>2. QED
          BY <2>1, <3>1, <4>1 DEF ReadsSense
      <3>4. QED
        BY <2>1, <3>1, <3>2, <3>3 DEF ReadsDefinition, Private
    <2>7. EdgesFollow(v)
      <3>1. PortsFollow(graph, v)
        BY <2>1, <2>4 DEF WiredIn
      <3>2. QED
        BY <3>1 DEF PortsFollow, PortsAt, Into, EdgesFollow
    <2>8. QED
      BY <2>1, <2>4, <2>5, <2>6, <2>7 DEF WiredIn
  <1>2. QED
    BY <1>1, ToolchainInvariant, WiringInvariant, PTL
=============================================================================
