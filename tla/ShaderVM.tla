------------------------------- MODULE ShaderVM -------------------------------
(***************************************************************************)
(* A surface shader from its graph to its evaluation: the graph is         *)
(* simplified and finalized, compiled, and the kernel runs the code        *)
(* (svm_eval_nodes in kernel/svm/svm.h) for whatever numbers its nodes     *)
(* compute.  The stack is not initialized.                                 *)
(***************************************************************************)
EXTENDS ShaderCompiler

LOCAL INSTANCE FiniteSetsExt

CONSTANTS
  Graphs,    \* the graphs that are compiled
  Factors    \* the numbers that nodes may compute

VARIABLES
  source,    \* the graph from Blender
  graph,     \* the graph that is compiled
  compiled,  \* the compiler's state at the end
  factor,    \* what nodes with these settings compute
  pc,        \* the instruction to run; 0 before, and Len(code) + 1 after
  stack,     \* per position who wrote it, and the number
  closures   \* the closures that ran: what each is, and its weight

vars == <<source, graph, compiled, factor, pc, stack, closures>>

code == compiled.code
Garbage == <<-1, 0>>
Numbers(g) == {g[n].val : n \in {m \in DOMAIN g : g[m].kind = "value"}}

Init ==
  /\ source \in Graphs
  /\ graph = source
  /\ compiled = Start(source)
  /\ factor = <<>>
  /\ pc = 0
  /\ stack = [k \in 0 .. StackSize - 1 |-> <<Garbage, Zero>>]
  /\ closures = {}

(* SVMCompiler::compile *)
Compile ==
  /\ pc = 0 /\ graph = source
  /\ graph' = Finalized(Clean(source))
  /\ compiled' = Compiled(graph')
  /\ pc' = -1
  /\ UNCHANGED <<source, factor, stack, closures>>

(* The kernel shades a point. *)
Shade ==
  /\ pc = -1
  /\ factor' \in [Numbers(source) -> Factors]
  /\ pc' = 1
  /\ UNCHANGED <<source, graph, compiled, stack, closures>>

RunLoad ==
  /\ pc \in DOMAIN code /\ code[pc].op = "load"
  /\ stack' = [k \in DOMAIN stack |->
                 IF k \in Cells(code[pc].at, code[pc].size) THEN <<NoLink, code[pc].number>>
                 ELSE stack[k]]
  /\ pc' = pc + 1
  /\ UNCHANGED <<source, graph, compiled, factor, closures>>

RunJump ==
  /\ pc \in DOMAIN code /\ code[pc].op = "jump"
  /\ pc' = IF stack[code[pc].at][2] = code[pc].when THEN pc + 1 + code[pc].by ELSE pc + 1
  /\ UNCHANGED <<source, graph, compiled, factor, stack, closures>>

(* AOVs are only written for camera rays. *)
RunAovStart ==
  /\ pc \in DOMAIN code /\ code[pc].op = "aov start"
  /\ pc' \in {pc + 1, Len(code) + 1}
  /\ UNCHANGED <<source, graph, compiled, factor, stack, closures>>

Weight(at) == IF at = Invalid THEN One ELSE stack[at][2]
Results(n, in) ==
  CASE graph[n].kind = "value" -> <<factor[graph[n].val]>>
    [] graph[n].kind = "weight" -> <<Rest(Weight(in[1]), Weight(in[2])), Part(Weight(in[1]), Weight(in[2]))>>
    [] graph[n].kind = "math" -> <<Add(Weight(in[1]), Weight(in[2]))>>
    [] OTHER -> <<Zero>>

RunNode ==
  /\ pc \in DOMAIN code /\ code[pc].op = "node"
  /\ LET n == code[pc].node
         out == code[pc].out
         Written(k) == {o \in DOMAIN out : k \in Cells(out[o], Size(graph, <<n, o>>))}
     IN /\ stack' = [k \in DOMAIN stack |->
                       IF Written(k) = {} THEN stack[k]
                       ELSE LET o == First(Written(k)) IN <<<<n, o>>, Results(n, code[pc].in)[o]>>]
        /\ closures' = IF graph[n].kind # "bsdf" THEN closures
                       ELSE closures \cup {<<n, Weight(code[pc].in[1])>>}
  /\ pc' = pc + 1
  /\ UNCHANGED <<source, graph, compiled, factor>>

Next == Compile \/ Shade \/ RunLoad \/ RunJump \/ RunAovStart \/ RunNode

Spec == Init /\ [][Next]_vars

-----------------------------------------------------------------------------
Ended == pc > 0 /\ pc = Len(code) + 1

(* Who computes what an input reads: a convert shares its input's cells,   *)
(* and the value of an input without a link is loaded.                     *)
RECURSIVE Computes(_)
Computes(out) == IF out # NoLink /\ graph[out[1]].kind = "convert" THEN Computes(graph[out[1]].from[1]) ELSE out

Fresh(n) ==
  \A i \in DOMAIN graph[n].from :
    (graph[n].from[i] # NoLink \/ code[pc].in[i] # Invalid) =>
      \A k \in Cells(code[pc].in[i], InputSize(graph, n, i)) :
        k \in DOMAIN stack /\ stack[k][1] = Computes(graph[n].from[i])

InAovs == \E k \in DOMAIN code : k < pc /\ code[k].op = "aov start"

(* Whatever is jumped over, and however positions are used again, a node   *)
(* of a surface reads what the nodes it is linked to have written.         *)
InputsFresh ==
  /\ (pc \in DOMAIN code /\ code[pc].op = "node" /\ ~InAovs) => Fresh(code[pc].node)
  /\ (pc \in DOMAIN code /\ code[pc].op = "jump") =>
       code[pc].at \in DOMAIN stack /\ stack[code[pc].at][1] = code[pc].factor

(* The same for AOVs. *)
AovsFresh ==
  (pc \in DOMAIN code /\ code[pc].op = "node" /\ InAovs) => Fresh(code[pc].node)

(* The surface is the one that the graph from Blender describes: of every  *)
(* closure there is as much, after all that was folded, merged, shared and *)
(* skipped.                                                                *)
TotalWeight(ran) == FoldSet(LAMBDA c, w : Add(c[2], w), Zero, ran)
IsClosure(g, n) == g[n].kind = "bsdf"
RECURSIVE Acyclic(_, _)
Acyclic(g, ids) ==
  LET leaves == {n \in ids : Sources(g, n) \cap ids = {}}
  IN ids = {} \/ (leaves # {} /\ Acyclic(g, ids \ leaves))
ShadesAsDescribed ==
  (Ended /\ ~compiled.failed /\ Acyclic(source, DOMAIN source)) =>
    \A m \in DOMAIN source : IsClosure(source, m) =>
      LET closure == Meaning(source, <<m, 1>>)
      IN TotalWeight({c \in closures : Meaning(graph, <<c[1], 1>>) = closure})
           = WeightOf(source, source[Output].from[1], closure, factor)

(* The passes over the nodes end, positions are given back no more often   *)
(* than they were taken, and those that are left belong to outputs that    *)
(* nobody reads, that only decide jumps, or that other parts of the shader *)
(* use.                                                                    *)
StackBalanced ==
  pc # 0 =>
    /\ ~compiled.stuck
    /\ ~compiled.failed => \A k \in DOMAIN compiled.users :
         compiled.users[k] = Cardinality({out \in DOMAIN compiled.offset :
           compiled.offset[out] # Invalid /\ k \in Cells(compiled.offset[out], Size(graph, out))})
=============================================================================
