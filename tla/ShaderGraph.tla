----------------------------- MODULE ShaderGraph -----------------------------
(***************************************************************************)
(* Shader graphs before they are compiled (render/graph.cpp): folding of   *)
(* constants, merging of equal nodes, breaking of cycles, removal of unused*)
(* nodes, and the transformation of mixes of closures into nodes that      *)
(* compute the weight of every closure.                                    *)
(*                                                                         *)
(* A graph maps the ids of its nodes to nodes; node 1 is the output.  A    *)
(* node has a kind, settings, and per input the output it is linked to or a*)
(* value.  Kinds stand for families of node types:                         *)
(*   value   computes a number         const    is a number                *)
(*   texture computes a color          convert  a color to a vector        *)
(*   bsdf    is a closure              mix, add combine two closures       *)
(*   aov     writes a color            weight, math  made by the transform *)
(* Numbers are multiples of powers of 1/2.  Graphs have no volume, no bump *)
(* and no displacement.                                                    *)
(***************************************************************************)
EXTENDS Integers, Sequences, FiniteSets, DyadicRationals

NoLink == <<0, 0>>
Two == Add(One, One)

Output == 1
Combines == {"mix", "add"}
Linked(g, n) == {i \in DOMAIN g[n].from : g[n].from[i] # NoLink}
Sources(g, n) == {g[n].from[i][1] : i \in Linked(g, n)}
Inputs(g, out) == {<<n, i>> \in UNION {{n} \X Linked(g, n) : n \in DOMAIN g} : g[n].from[i] = out}
Users(g, out) == {p[1] : p \in Inputs(g, out)}
First(ids) == CHOOSE n \in ids : \A m \in ids : n <= m

(* Links to an output moved to another one, or cut. *)
Relink(g, out, to) ==
  [n \in DOMAIN g |->
    [g[n] EXCEPT !.from = [i \in DOMAIN @ |-> IF @[i] = out THEN to ELSE @[i]]]]
MakeConstant(g, out, v) ==
  [n \in DOMAIN g |->
    [g[n] EXCEPT !.from = [i \in DOMAIN @ |-> IF @[i] = out THEN NoLink ELSE @[i]],
                 !.def = [i \in DOMAIN @ |-> IF g[n].from[i] = out THEN v ELSE @[i]]]]
Disconnected(g, n) == [g EXCEPT ![n].from = [i \in DOMAIN @ |-> NoLink]]

(* ::constant_fold of the kinds; a mix has the inputs Fac, Closure1, Closure2. *)
FoldNode(g, n) ==
  LET out == <<n, 1>>
      from == g[n].from
      Bypass(i) == Relink(g, out, from[i])   \* or discard, when it is not linked
  IN CASE g[n].kind = "const" -> MakeConstant(g, out, g[n].val)
       [] g[n].kind = "add" /\ from[1] = NoLink -> Bypass(2)
       [] g[n].kind = "add" /\ from[2] = NoLink -> Bypass(1)
       [] g[n].kind = "mix" /\ from[2] = from[3] -> Bypass(2)
       [] g[n].kind = "mix" /\ from[2] # from[3] /\ from[1] = NoLink /\ g[n].def[1] = Zero -> Bypass(2)
       [] g[n].kind = "mix" /\ from[2] # from[3] /\ from[1] = NoLink
            /\ g[n].def[1] \in {One, Two} -> Bypass(3)
       [] OTHER -> g

(* ShaderNode::equals *)
EqualNodes_LinkedOnly(g, n, m) ==   \* mutant: the values of inputs without links are not compared
  /\ g[n].kind = g[m].kind /\ g[n].val = g[m].val
  /\ \A i \in DOMAIN g[n].from : g[n].from[i] = g[m].from[i]
EqualNodes(g, n, m) ==
  /\ g[n].kind = g[m].kind /\ g[n].val = g[m].val
  /\ \A i \in DOMAIN g[n].from :
       g[n].from[i] = g[m].from[i] /\ (g[n].from[i] = NoLink => g[n].def[i] = g[m].def[i])

(* The nodes whose inputs are all done are visited from a queue; s has the *)
(* graph, the queue, and the nodes that were kept (deduplicate_nodes).     *)
Ready(s, n) == n \notin s.seen /\ Sources(s.g, n) \subseteq s.done

RECURSIVE Enqueue(_, _)
Enqueue(s, ids) ==
  IF ids = {} THEN s
  ELSE LET n == First(ids)
       IN Enqueue([s EXCEPT !.queue = Append(@, n), !.seen = @ \cup {n}], ids \ {n})

RECURSIVE Traverse(_, _)
Traverse(s, fold) ==
  IF s.queue = <<>> THEN s.g
  ELSE LET n == Head(s.queue)
           users == Users(s.g, <<n, 1>>)
           t == [s EXCEPT !.queue = Tail(@), !.done = @ \cup {n}]
           u == Enqueue(t, {m \in users : Ready(t, m)})
           equal == {m \in s.kept : EqualNodes(s.g, n, m)}
       IN Traverse(
            CASE users = {} -> u
              [] users # {} /\ fold -> [u EXCEPT !.g = FoldNode(@, n)]
              [] users # {} /\ ~fold /\ equal # {} ->
                   [u EXCEPT !.g = Relink(Disconnected(@, n), <<n, 1>>, <<First(equal), 1>>)]
              [] OTHER -> [u EXCEPT !.kept = @ \cup {n}],
            fold)

TraverseFromLeaves(g, fold) ==
  LET s == [g |-> g, queue |-> <<>>, seen |-> {}, done |-> {}, kept |-> {}]
  IN Traverse(Enqueue(s, {n \in DOMAIN g : Linked(g, n) = {}}), fold)
ConstantFold(g) == TraverseFromLeaves(g, TRUE)
DeduplicateNodes(g) == TraverseFromLeaves(g, FALSE)

(* break_cycles: depth first, a link to a node on the stack is cut. *)
RECURSIVE Visit(_, _), VisitInput(_, _, _)
Visit(s, n) ==
  LET t == VisitInput([s EXCEPT !.visited = @ \cup {n}, !.onStack = @ \cup {n}], n, 1)
  IN [t EXCEPT !.onStack = @ \ {n}]
VisitInput(s, n, i) ==
  IF i > Len(s.g[n].from) THEN s
  ELSE LET from == s.g[n].from[i][1]
       IN VisitInput(CASE from \in s.onStack -> [s EXCEPT !.g[n].from[i] = NoLink]
                       [] from # 0 /\ from \notin s.visited \cup s.onStack -> Visit(s, from)
                       [] OTHER -> s,
                     n, i + 1)

RECURSIVE VisitAll(_, _)
VisitAll(s, ids) == IF ids = {} THEN s ELSE VisitAll(Visit(s, First(ids)), ids \ {First(ids)})

Aovs(g) == {n \in DOMAIN g : g[n].kind = "aov"}

BreakCycles(g) ==
  VisitAll(Visit([g |-> g, visited |-> {}, onStack |-> {}], Output), Aovs(g))

(* What the output and the AOVs do not depend on is removed. *)
Clean(g) ==
  LET s == BreakCycles(DeduplicateNodes(ConstantFold(g)))
  IN [n \in s.visited |-> s.g[n]]

-----------------------------------------------------------------------------
NewNode(g, kind, from, def) ==
  LET id == 1 + CHOOSE n \in DOMAIN g : \A m \in DOMAIN g : m <= n
  IN [id |-> id,
      g |-> [n \in DOMAIN g \cup {id} |->
               IF n = id THEN [kind |-> kind, val |-> Zero, from |-> from, def |-> def] ELSE g[n]]]

(* A bsdf has the inputs SurfaceMixWeight, Color and Roughness. *)
Weigh_Overwrite(g, n, w) ==   \* mutant: the weights of a closure used twice are not added
  IF w # NoLink THEN [g EXCEPT ![n].from[1] = w] ELSE [g EXCEPT ![n].def[1] = One]
Weigh(g, n, w) ==
  IF g[n].from[1] # NoLink \/ g[n].def[1] # Zero
  THEN LET sum == NewNode(g, "math", <<g[n].from[1], w, NoLink>>, <<g[n].def[1], One, Zero>>)
       IN [sum.g EXCEPT ![n].from[1] = <<sum.id, 1>>]
  ELSE IF w # NoLink THEN [g EXCEPT ![n].from[1] = w] ELSE [g EXCEPT ![n].def[1] = One]

RECURSIVE TransformMultiClosure(_, _, _)
TransformMultiClosure(g, out, w) ==
  LET n == out[1]
      from == g[n].from
      mixed == NewNode(g, "weight", <<w, from[1]>>, <<One, g[n].def[1]>>)
  IN CASE out = NoLink -> g
       [] out # NoLink /\ g[n].kind = "mix" ->
            TransformMultiClosure(
              TransformMultiClosure(mixed.g, from[2], <<mixed.id, 1>>), from[3], <<mixed.id, 2>>)
       [] out # NoLink /\ g[n].kind = "add" ->
            TransformMultiClosure(TransformMultiClosure(g, from[1], w), from[2], w)
       [] out # NoLink /\ g[n].kind = "bsdf" -> Weigh(g, n, w)
       [] OTHER -> g

Finalized(g) == TransformMultiClosure(g, g[Output].from[1], NoLink)

-----------------------------------------------------------------------------
(* What a graph means, for comparison.  A cell of the VM's stack is named  *)
(* by the node that computes it; what a node computes is told by its kind, *)
(* its settings and what its inputs are.                                   *)
RECURSIVE Meaning(_, _)
Meaning(g, out) ==
  LET n == out[1]
      Is(kind) == out # NoLink /\ g[n].kind = kind
  IN CASE out = NoLink \/ Is("const") -> <<"unlinked", Zero, <<>>, <<>>>>
       [] Is("convert") -> Meaning(g, g[n].from[1])
       [] OTHER -> <<g[n].kind, g[n].val,
                     [i \in DOMAIN g[n].from |->
                        IF g[n].kind = "bsdf" /\ i = 1 THEN Meaning(g, NoLink)
                        ELSE Meaning(g, g[n].from[i])],
                     [i \in DOMAIN g[n].def |->
                        LET from == g[n].from[i][1]
                        IN CASE g[n].kind = "bsdf" /\ i = 1 -> Zero
                             [] from = 0 -> g[n].def[i]
                             [] from # 0 /\ g[from].kind = "const" -> g[from].val
                             [] OTHER -> Zero]>>

Saturate(v) == IF v = Two THEN One ELSE v
(* w * (1 - v), for the factors that occur *)
Rest(w, v) == IF Saturate(v) = Zero \/ w = Zero THEN w ELSE IF Saturate(v) = One THEN Zero ELSE Half(w)
Part(w, v) == IF Saturate(v) = Zero \/ w = Zero THEN Zero ELSE IF Saturate(v) = One THEN w ELSE Half(w)

(* The number at an input, when nodes that compute numbers give `factor`. *)
Number(g, n, i, factor) ==
  LET from == g[n].from[i][1]
  IN IF from = 0 THEN g[n].def[i]
     ELSE IF g[from].kind = "const" THEN g[from].val ELSE factor[g[from].val]

(* The weight in which a surface has a closure. *)
RECURSIVE WeightOf(_, _, _, _)
WeightOf(g, out, closure, factor) ==
  LET n == out[1]
      from == g[n].from
      W(i) == WeightOf(g, from[i], closure, factor)
  IN CASE out = NoLink -> Zero
       [] out # NoLink /\ g[n].kind = "bsdf" -> IF Meaning(g, out) = closure THEN One ELSE Zero
       [] out # NoLink /\ g[n].kind = "add" -> Add(W(1), W(2))
       [] out # NoLink /\ g[n].kind = "mix" ->
            Add(Rest(W(2), Number(g, n, 1, factor)), Part(W(3), Number(g, n, 1, factor)))
       [] OTHER -> Zero
=============================================================================
