----------------------------- MODULE AotCompile -----------------------------
(***************************************************************************)
(* aot_compile (tpt-infer-compile/src/model.rs) and the program it leaves: *)
(* the checks, constant folding node by node, code generation node by node *)
(* and, for one call of the generated `execute`, its statements in order.  *)
(*                                                                         *)
(* The program is a sequence of `let v{id} = code(reads)`.  A panic, at    *)
(* compile time or in the program, ends in stage "panicked".               *)
(***************************************************************************)
EXTENDS SharedGraph, AotFold, AotEmit

CONSTANT Excess     \* how many elements too many a caller may supply

VARIABLES
    stage, at,                  \* the part of aot_compile or of the program, its loop index
    order, inputId, folded,     \* locals of aot_compile
    program,
    supplied, env,              \* the length of `input`; the bindings of the program
    result                      \* a CompileError, or what `execute` returned

aotVars == <<stage, at, order, inputId, folded, program, supplied, env, result>>

\* There is no graph to compile yet, or there is.
AotInit(stage0) ==
    /\ stage = stage0 /\ at = 1
    /\ order = <<>> /\ inputId = NoNode /\ folded = <<>>
    /\ program = <<>> /\ supplied = 0 /\ env = <<>> /\ result = Writes(<<>>)

Enter(next)   == stage' = next /\ at' = 1
Advance(next, last) == IF at = last THEN Enter(next) ELSE at' = at + 1 /\ UNCHANGED stage
Stop(error) ==
    /\ stage' = IF error = "panic" THEN "panicked" ELSE "refused"
    /\ result' = Fails(error) /\ UNCHANGED at

Dims(v) == graph.nodes[v].dims
InDims(v) == [p \in DOMAIN graph.nodes[v].ins |-> Dims(graph.nodes[v].ins[p])]

\* The marked inputs whose name is not an initializer's.
RuntimeInputs == SelectSeq(graph.inputs, LAMBDA v : InitializerOf(graph, v) = 0)

-----------------------------------------------------------------------------
CheckGraph ==
    /\ stage = "idle"
    /\ LET sort  == TopologicalSort(graph)
           error == FirstError(
               <<Require(graph.n # 0, "EmptyGraph"),
                 Require(sort.verdict = "ordered", "Graph"),
                 Require(Len(RuntimeInputs) = 1, "UnsupportedInputCount"),
                 Require(Len(graph.outputs) = 1, "UnsupportedOutputCount")>>)
       IN  \/ error # None /\ Stop(error) /\ UNCHANGED <<order, inputId>>
           \/ /\ error = None /\ Enter("fold")
              /\ order' = sort.order /\ inputId' = RuntimeInputs[1]
              /\ UNCHANGED result
    /\ UNCHANGED <<graph, folded, program, supplied, env>>

\* One turn of fold_constants: what the node is known to be.
FoldValue(v) ==
    IF IsInput(graph, v)
    THEN IF InitializerOf(graph, v) = 0 THEN NotFolded
         ELSE Writes(Weight(graph, InitializerOf(graph, v)))
    ELSE IF ~(Producers(graph, v) \subseteq DOMAIN folded) THEN NotFolded
    ELSE TryEval(graph.nodes[v].op,
                 [p \in DOMAIN graph.nodes[v].ins |-> folded[graph.nodes[v].ins[p]]],
                 InDims(v), Dims(v))

FoldNode ==
    /\ stage = "fold"
    /\ \E value \in {FoldValue(order[at])} :
          \/ value = Panics /\ Stop("panic") /\ UNCHANGED folded
          \/ /\ value.err = None /\ folded' = Put(folded, order[at], value.out)
             /\ Advance("emit", Len(order)) /\ UNCHANGED result
          \/ value = NotFolded /\ Advance("emit", Len(order)) /\ UNCHANGED <<folded, result>>
    /\ UNCHANGED <<graph, order, inputId, program, supplied, env>>

\* Mutant: a folded value that nothing but folded nodes read is left out.
StatementsLean(v) ==
    IF v = inputId THEN [err |-> None, let |-> <<>>]
    ELSE IF v \in DOMAIN folded
    THEN [err |-> None,
          let |-> IF \E w \in Ids(graph) \ DOMAIN folded : v \in Producers(graph, w)
                  THEN <<[to |-> v, reads |-> <<>>, code |-> Code("Literal", folded[v])]>>
                  ELSE <<>>]
    ELSE IF IsInput(graph, v) THEN [err |-> "MissingInitializer", let |-> <<>>]
    ELSE LET emitted == EmitOp(graph.nodes[v].op, InDims(v), Dims(v))
         IN  [err |-> emitted.err,
              let |-> <<[to |-> v, reads |-> graph.nodes[v].ins, code |-> emitted.code]>>]

\* One turn of generate: the statements of a node.
Statements(v) ==
    IF v = inputId THEN [err |-> None, let |-> <<>>]
    ELSE IF v \in DOMAIN folded
    THEN [err |-> None,
          let |-> <<[to |-> v, reads |-> <<>>, code |-> Code("Literal", folded[v])]>>]
    ELSE IF IsInput(graph, v) THEN [err |-> "MissingInitializer", let |-> <<>>]
    ELSE LET emitted == EmitOp(graph.nodes[v].op, InDims(v), Dims(v))
         IN  [err |-> emitted.err,
              let |-> <<[to |-> v, reads |-> graph.nodes[v].ins, code |-> emitted.code]>>]

EmitNode ==
    /\ stage = "emit"
    /\ \E emitted \in {Statements(order[at])} :
          \/ emitted.err # None /\ Stop(emitted.err) /\ UNCHANGED program
          \/ /\ emitted.err = None /\ program' = program \o emitted.let
             /\ Advance("compiled", Len(order)) /\ UNCHANGED result
    /\ UNCHANGED <<graph, order, inputId, folded, supplied, env>>

-----------------------------------------------------------------------------
\* execute(input): the assertion on the length of `input`.
CallExecute ==
    /\ stage = "compiled"
    /\ \E more \in 0 .. Excess :
          LET len == Product(Dims(inputId)) + more
          IN  /\ supplied' = len
              /\ \/ more # 0 /\ Stop("panic") /\ UNCHANGED env
                 \/ /\ more = 0 /\ UNCHANGED result
                    /\ env' = Put(<<>>, inputId, Slice(<<len>>, 1))
                    /\ Enter(IF program = <<>> THEN "return" ELSE "run")
    /\ UNCHANGED <<graph, order, inputId, folded, program>>

RunStatement ==
    /\ stage = "run"
    /\ LET statement == program[at]
           value == Evaluate(statement.code,
                             [p \in DOMAIN statement.reads |-> env[statement.reads[p]]])
       IN  \/ value = Panics /\ Stop("panic") /\ UNCHANGED env
           \/ /\ value.err = None /\ env' = Put(env, statement.to, value.out)
              /\ Advance("return", Len(program)) /\ UNCHANGED result
    /\ UNCHANGED <<graph, order, inputId, folded, program, supplied>>

ReturnValue ==
    /\ stage = "return"
    /\ stage' = "answered" /\ result' = Writes(env[graph.outputs[1]])
    /\ UNCHANGED <<graph, at, order, inputId, folded, program, supplied, env>>

CompileStep == CheckGraph \/ FoldNode \/ EmitNode
ExecuteStep == CallExecute \/ RunStatement \/ ReturnValue

-----------------------------------------------------------------------------
(* Properties *)

AotTypeOK ==
    /\ stage \in {"waiting", "idle", "fold", "emit", "compiled", "run", "return", "answered",
                  "refused", "panicked"}
    /\ DOMAIN folded \subseteq ToSet(order)
    /\ \A s \in DOMAIN program : program[s].to \in ToSet(order) /\ ToSet(program[s].reads) \subseteq ToSet(order)

\* The folding of an arithmetic node whose operands have different shapes of
\* one length pairs their elements by position (see FoldMirrorsEmitted).
PairedAcrossShapes ==
    \E v \in DOMAIN folded : /\ graph.nodes[v].op.kind \in Arithmetic
                             /\ \E p, q \in {1, 2} : InDims(v)[p] # InDims(v)[q]

\* Before the program is called, a slice of the right length is meant.
Answers ==
    Deserved(graph, <<IF program = <<>> \/ supplied = 0 THEN Product(Dims(inputId)) ELSE supplied>>)

\* The generated program answers what the interpreter answers: when the
\* interpreter accepts the graph and the slice, the program does not panic and
\* returns the interpreter's tensor.  (It may accept a graph the interpreter
\* refuses.)
CompiledAgrees ==
    stage \in {"answered", "panicked"} /\ ~PairedAcrossShapes =>
        \A reply \in Answers :
            reply.err = None => stage = "answered" /\ result.out = reply.outs[1].data

\* Folding a node gives the value the interpreter computes for it, where it
\* computes one.
Mirrored(v) ==
    LET meant == Value(graph, <<Product(Dims(inputId))>>)[v]
    IN  meant.err = None => folded[v] = meant.out

FoldedAsInterpreted ==
    inputId # NoNode /\ Misbound(graph, <<Product(Dims(inputId))>>) = {} /\ ~PairedAcrossShapes =>
        \A v \in DOMAIN folded : Mirrored(v)

\* fold.rs:80-82: "Mirrors the runtime semantics of the same operators in
\* [`crate::codegen`]": a folded node has the value the code generated for it
\* would have, where code is generated and the operands have the lengths of their
\* shapes.
FoldMirrorsEmitted ==
    \A v \in DOMAIN folded \ {w \in Ids(graph) : IsInput(graph, w)} :
        LET node    == graph.nodes[v]
            emitted == EmitOp(node.op, InDims(v), Dims(v))
        IN  /\ emitted.err = None
            /\ \A u \in Producers(graph, v) : Len(folded[u]) = Product(Dims(u))
            => Evaluate(emitted.code, [p \in DOMAIN node.ins |-> folded[node.ins[p]]]).out = folded[v]

\* Every statement reads the parameter or a binding made before it, and the
\* returned name is bound: the generated source has no dangling identifier.
BoundBefore(s) == {inputId} \cup {program[r].to : r \in 1 .. s - 1}

SourceIsClosed ==
    stage \in {"emit", "compiled", "run"} =>
        /\ \A s \in DOMAIN program : ToSet(program[s].reads) \subseteq BoundBefore(s)
        /\ stage = "compiled" => graph.outputs[1] \in BoundBefore(Len(program) + 1)

\* What is compiled is what runs: a graph of one input and one output that the
\* interpreter answers is refused only for what the documentation of
\* aot_compile leaves out, a convolution bias other than one per channel, or
\* for operands the interpreter does not look at.
Beyond(v) ==
    LET node == graph.nodes[v]
    IN  \/ node.op.kind = "Conv2d" /\ Len(node.ins) = 3
             /\ InDims(v)[3] # <<1, InDims(v)[2][1], 1, 1>>
        \/ node.op.kind \in ElementWise \cup Pools \cup {"Softmax", "Transpose"} /\ Len(node.ins) > 1

CompilesWhatRuns ==
    stage = "refused" /\ Len(RuntimeInputs) = 1 /\ Len(graph.outputs) = 1 =>
        \/ \E v \in Ids(graph) : Beyond(v)
        \/ \A reply \in Deserved(graph, <<Product(Dims(RuntimeInputs[1]))>>) : reply.err # None
=============================================================================
