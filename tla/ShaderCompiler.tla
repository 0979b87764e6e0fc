---------------------------- MODULE ShaderCompiler ----------------------------
(***************************************************************************)
(* The compiler of shader graphs for the SVM (render/svm.cpp): it allots   *)
(* the outputs of nodes positions on a stack, gives them back when all     *)
(* users of an output are compiled, and lets the kernel jump over closures *)
(* without weight, with the nodes that only they need.                     *)
(*                                                                         *)
(* The state c of a compilation has the users of every stack position, the *)
(* offsets of outputs, the nodes done, the closures done and the code so   *)
(* far.  The stack_offset of a linked input is the one of its output.      *)
(***************************************************************************)
EXTENDS ShaderGraph

CONSTANT StackSize   \* SVM_STACK_SIZE

Invalid == -1
Size(g, out) == IF g[out[1]].kind \in {"texture", "convert"} THEN 3 ELSE 1
InputSize(g, n, i) == IF g[n].kind \in {"bsdf", "aov"} /\ i # 3 /\ ~(g[n].kind = "bsdf" /\ i = 1)
                      THEN 3 ELSE 1
Outputs(g, n) == IF g[n].kind = "weight" THEN <<<<n, 1>>, <<n, 2>>>>
                 ELSE IF g[n].kind \in {"value", "texture", "math"} THEN <<<<n, 1>>>>
                 ELSE <<>>
Cells(at, size) == at .. at + size - 1
Use(c, at, size, d) == [c EXCEPT !.users = [k \in DOMAIN @ |-> @[k] + IF k \in Cells(at, size) THEN d ELSE 0]]

(* stack_find_offset *)
FreeOffsets(c, size) ==
  {at \in 0 .. StackSize - size : \A k \in Cells(at, size) : c.users[k] = 0}
FindOffset(c, size) ==
  LET free == FreeOffsets(c, size)
  IN IF free = {} THEN [c EXCEPT !.failed = TRUE, !.found = 0]
     ELSE [Use(c, First(free), size, 1) EXCEPT !.found = First(free)]

(* stack_assign of an output; of an input without link, which loads its value *)
RECURSIVE AssignOutputs(_, _, _)
AssignOutputs(g, c, outs) ==
  IF outs = <<>> THEN c
  ELSE LET out == Head(outs)
           d == FindOffset(c, Size(g, out))
       IN AssignOutputs(g, IF c.offset[out] # Invalid THEN c ELSE [d EXCEPT !.offset[out] = d.found],
                        Tail(outs))

(* The inputs that a node only reads if they are linked. *)
IfLinked(g, n) == CASE g[n].kind = "bsdf" -> {1, 2}
                    [] g[n].kind \in {"texture", "value", "convert"} -> DOMAIN g[n].from
                    [] OTHER -> {}

RECURSIVE AssignTemporaries(_, _, _, _)
AssignTemporaries(g, c, n, i) ==
  IF i > Len(g[n].from) THEN c
  ELSE LET size == InputSize(g, n, i)
           d == FindOffset(c, size)
           loaded == [d EXCEPT !.temp = Append(@, <<i, d.found>>),
                               !.code = Append(@, [op |-> "load", at |-> d.found, size |-> size,
                                                   number |-> g[n].def[i]])]
       IN AssignTemporaries(g, IF i \in Linked(g, n) \cup IfLinked(g, n) THEN c ELSE loaded, n, i + 1)

TempOffset(c, i) ==
  LET t == {k \in DOMAIN c.temp : c.temp[k][1] = i}
  IN IF t = {} THEN Invalid ELSE c.temp[First(t)][2]

AddNode(g, c, n) ==
  [c EXCEPT !.code = Append(@,
    [op |-> "node", node |-> n,
     in |-> [i \in DOMAIN g[n].from |->
               IF g[n].from[i] # NoLink THEN c.offset[g[n].from[i]] ELSE TempOffset(c, i)],
     out |-> [o \in DOMAIN Outputs(g, n) |-> c.offset[Outputs(g, n)[o]]]])]

(* The compile() of a node; a convert shares the position of its input. *)
CompileNode(g, c, n) ==
  IF g[n].kind \in Combines THEN c
  ELSE IF g[n].kind = "convert"
  THEN LET at == c.offset[g[n].from[1]]
       IN [Use(c, at, 3, 1) EXCEPT !.offset[<<n, 1>>] = at]
  ELSE AddNode(g, AssignOutputs(g, AssignTemporaries(g, c, n, 1), Outputs(g, n)), n)

(* stack_clear_users: outputs whose users are all done, n included *)
Over_FirstUser(g, c, n) ==   \* mutant: an output is given back after its first user
  {out \in {g[n].from[i] : i \in Linked(g, n)} : c.offset[out] # Invalid}
Over(g, c, n) ==
  {out \in {g[n].from[i] : i \in Linked(g, n)} :
     c.offset[out] # Invalid /\ Users(g, out) \subseteq c.done \cup {n}}
ClearUsers(g, c, n) ==
  LET over == Over(g, c, n)
      On(k) == {out \in over : k \in Cells(c.offset[out], Size(g, out))}
  IN [c EXCEPT !.users = [k \in DOMAIN @ |-> @[k] - Cardinality(On(k))],
               !.offset = [out \in DOMAIN @ |-> IF out \in over THEN Invalid ELSE @[out]]]

ClearTemporary_Leaks(g, c, n) ==   \* mutant: positions of default values are kept
  [c EXCEPT !.temp = <<>>]
ClearTemporary(g, c, n) ==
  LET On(k) == {t \in DOMAIN c.temp : k \in Cells(c.temp[t][2], InputSize(g, n, c.temp[t][1]))}
  IN [c EXCEPT !.users = [k \in DOMAIN @ |-> @[k] - Cardinality(On(k))], !.temp = <<>>]

GenerateNode(g, c, n) == ClearTemporary(g, ClearUsers(g, CompileNode(g, c, n), n), n)
Done(c, n) == [c EXCEPT !.done = @ \cup {n}]

-----------------------------------------------------------------------------
(* find_dependencies: what a link needs that is not done, without `skip`. *)
RECURSIVE Reach(_, _, _)
Reach(g, without, ids) ==
  LET more == ids \cup (UNION {Sources(g, n) : n \in ids} \ without)
  IN IF more = ids THEN ids ELSE Reach(g, without, more)
DependenciesBut(g, c, out, skip) == Reach(g, c.done \cup {skip, 0}, {out[1]} \ (c.done \cup {skip, 0}))
Dependencies(g, c, out) == DependenciesBut(g, c, out, 0)

(* generate_svm_nodes: passes over the nodes until all are done.  A pass   *)
(* that generates nothing would be repeated forever.                       *)
RECURSIVE Pass(_, _, _), GenerateNodes(_, _, _), AfterPass(_, _, _, _)
Pass(g, c, ids) ==
  IF ids = {} THEN c
  ELSE LET n == First(ids)
       IN Pass(g, IF n \in c.done \/ ~(Sources(g, n) \subseteq c.done) THEN c
                  ELSE Done(GenerateNode(g, c, n), n),
               ids \ {n})
GenerateNodes(g, c, ids) ==
  IF ids \subseteq c.done THEN c
  ELSE AfterPass(g, c, Pass(g, c, ids), ids)
AfterPass(g, c, d, ids) ==
  IF d.done = c.done THEN [c EXCEPT !.stuck = TRUE] ELSE GenerateNodes(g, d, ids)

RECURSIVE GenerateInputs(_, _, _, _)
GenerateInputs(g, c, n, i) ==
  IF i > Len(g[n].from) THEN c
  ELSE GenerateInputs(g, GenerateNodes(g, c, Dependencies(g, c, g[n].from[i])), n, i + 1)

(* generate_closure_node, and generate_aov_node *)
GenerateWithInputs(g, c, n) == GenerateNode(g, GenerateInputs(g, c, n, 1), n)

(* What both inputs of a mix need, or another part of the surface does. *)
Shared_OfInputs(g, c, root, n) ==   \* mutant: other parts of the surface are not looked at
  Dependencies(g, c, g[n].from[2]) \cap Dependencies(g, c, g[n].from[3])
Shared(g, c, root, n) ==
  LET deps1 == Dependencies(g, c, g[n].from[2])
      deps2 == Dependencies(g, c, g[n].from[3])
      others == UNION {DependenciesBut(g, c, g[root].from[i], n) : i \in DOMAIN g[root].from}
  IN (deps1 \cap deps2) \cup (IF root = n THEN {} ELSE others \cap (deps1 \cup deps2))

(* A branch of a mix, jumped over when the factor is `skip`. *)
Jump(c, skip, fac) ==
  [c EXCEPT !.code = Append(@, [op |-> "jump", when |-> skip, factor |-> fac,
                                at |-> c.offset[fac], by |-> 0])]
Land(c, jump) == [c EXCEPT !.code[jump].by = Len(c.code) - jump]

RECURSIVE MultiClosure(_, _, _, _), Mix(_, _, _, _), GenerateShared(_, _, _, _, _),
  Branch(_, _, _, _, _, _), SharedClosures(_, _, _, _, _)
MultiClosure(g, c, root, out) ==
  LET n == out[1]
      first == IF g[n].kind = "mix" THEN 2 ELSE 1
      in1 == g[n].from[first]
      in2 == g[n].from[first + 1]
      c0 == [c EXCEPT !.closures = @ \cup {n}]
  IN CASE out = NoLink \/ n \in c.closures -> c
       [] out # NoLink /\ g[n].kind \notin Combines -> Done(GenerateWithInputs(g, c0, n), n)
       [] out # NoLink /\ g[n].kind \in Combines /\ in1 = NoLink /\ in2 = NoLink -> c0
       [] out # NoLink /\ g[n].kind = "mix" /\ g[n].from[1] # NoLink ->
            Done(Mix(g, GenerateNodes(g, c0, Dependencies(g, c0, g[n].from[1])), root, n), n)
       [] OTHER -> Done(MultiClosure(g, MultiClosure(g, c0, root, in1), root, in2), n)
(* Both branches of a mix, after what must not be skipped with either.     *)
Mix(g, c, root, n) ==
  Branch(g, Branch(g, GenerateShared(g, c, root, n, Shared(g, c, root, n)),
                   root, n, g[n].from[2], One),
         root, n, g[n].from[3], Zero)
GenerateShared(g, c, root, n, shared) ==
  IF shared = {} THEN c
  ELSE GenerateNodes(g, SharedClosures(g, SharedClosures(g, c, root, g[n].from[2], shared),
                                       root, g[n].from[3], shared),
                     shared)
Branch(g, c, root, n, out, skip) ==
  IF out = NoLink THEN c
  ELSE Land(MultiClosure(g, Jump(c, skip, g[n].from[1]), root, out), Len(c.code) + 1)
(* generated_shared_closure_nodes *)
SharedClosures(g, c, root, out, shared) ==
  LET n == out[1]
      first == IF g[n].kind = "mix" THEN 2 ELSE 1
  IN CASE out = NoLink -> c
       [] out # NoLink /\ n \in shared -> MultiClosure(g, c, root, out)
       [] out # NoLink /\ n \notin shared /\ g[n].kind \in Combines ->
            SharedClosures(g, SharedClosures(g, c, root, g[n].from[first], shared),
                           root, g[n].from[first + 1], shared)
       [] OTHER -> c

RECURSIVE GenerateAovs(_, _, _)
GenerateAovs(g, c, ids) ==
  IF ids = {} THEN c
  ELSE GenerateAovs(g, Done(GenerateWithInputs(g, c, First(ids)), First(ids)), ids \ {First(ids)})

(* compile_type, for a surface.  A compilation that failed has no code. *)
Start(g) ==
  [users |-> [k \in 0 .. StackSize - 1 |-> 0], offset |-> [out \in (DOMAIN g) \X {1, 2} |-> Invalid],
   found |-> 0, temp |-> <<>>, code |-> <<>>, done |-> {}, closures |-> {},
   failed |-> FALSE, stuck |-> FALSE]
Compiled(g) ==
  LET surface == g[Output].from[1]
      c == MultiClosure(g, Start(g), surface[1], surface)
      d == GenerateAovs(g, [c EXCEPT !.code = Append(@, [op |-> "aov start"])], Aovs(g))
      e == IF Aovs(g) = {} THEN c ELSE d
  IN [e EXCEPT !.code = IF e.failed THEN <<>> ELSE @]
=============================================================================
