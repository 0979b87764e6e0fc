------------------------------- MODULE MCShader -------------------------------
(***************************************************************************)
(* ShaderVM on families of small graphs: two or three nested mixes or adds *)
(* over two closures whose colors come from two textures, one of them      *)
(* maybe through a conversion; closures, textures and factors are shared   *)
(* in all ways between the branches and the AOV.                           *)
(***************************************************************************)
EXTENDS ShaderVM

Node(kind, val, from, def) == [kind |-> kind, val |-> val, from |-> from, def |-> def]

\* ids: 1 the output, 2 .. 4 factors, 5 .. 7 colors, 8 and 9 closures
V == <<2, 1>>   \* a number
W == <<3, 1>>   \* another, computed from a number or not
K == <<4, 1>>   \* a constant
X == <<5, 1>>
Y == <<6, 1>>
C == <<7, 1>>   \* X converted
A == <<8, 1>>
B == <<9, 1>>
P == <<10, 1>>
Q == <<11, 1>>
R == <<12, 1>>

Leaves(wFrom, const, yVal, aColor, bColor, aRough, bRough) ==
  <<Node("value", 1, <<>>, <<>>), Node("value", 2, <<wFrom>>, <<Zero>>), Node("const", const, <<>>, <<>>),
    Node("texture", 1, <<V>>, <<Zero>>), Node("texture", yVal, <<V>>, <<Zero>>),
    Node("convert", 0, <<X>>, <<Zero>>),
    Node("bsdf", 1, <<NoLink, aColor, NoLink>>, <<Zero, Zero, aRough>>),
    Node("bsdf", 1, <<NoLink, bColor, NoLink>>, <<Zero, Zero, bRough>>)>>

Combine(kind, fac, c1, c2) ==
  IF kind = "mix" THEN Node("mix", 0, <<fac, c1, c2>>, <<Half(One), Zero, Zero>>)
  ELSE Node("add", 0, <<c1, c2>>, <<Zero, Zero>>)
Surface(out) == Node("output", 0, <<out>>, <<Zero>>)
Aov(color) == IF color = NoLink THEN <<>> ELSE <<Node("aov", 0, <<color>>, <<Zero>>)>>

Graph(surface, leaves, combines, aov) == <<Surface(surface)>> \o leaves \o combines \o Aov(aov)

\* Factors of all kinds, and closures that are the same or differ in a value.
Folding ==
  {Graph(Q, Leaves(NoLink, const, yVal, X, Y, Zero, rough),
         <<Combine("mix", fac1, A, c2), Combine(kind, fac2, P, c3)>>, NoLink) :
     const \in {Zero, Half(One), One}, yVal \in {1, 2}, rough \in {Zero, One},
     fac1 \in {V, K}, c2 \in {A, B, NoLink}, kind \in {"mix", "add"}, fac2 \in {W, K, NoLink},
     c3 \in {A, P, NoLink}}

\* Colors and factors shared between branches and with the AOV.
Sharing ==
  {Graph(Q, Leaves(wFrom, One, 2, aColor, bColor, Zero, One),
         <<Combine("mix", fac1, A, ab), Combine(kind, fac2, c1, c2)>>, aov) :
     ab \in {B, NoLink}, kind \in {"mix", "add"},
     wFrom \in {V, NoLink}, aColor \in {X, Y, C}, bColor \in {X, C, NoLink},
     fac1 \in {V, W}, fac2 \in {V, W},
     c1 \in {P, B}, c2 \in {P, A, B}, aov \in {NoLink, X, Y}}

\* Three levels, in which closures and whole mixes are used more than once.
Deep ==
  {Graph(R, Leaves(V, One, 2, X, bColor, Zero, One),
         <<Combine(kind1, V, A, B), Combine("mix", W, P, c2), Combine(kind3, V, c3, Q)>>, NoLink) :
     bColor \in {Y, C}, kind1 \in {"mix", "add"}, c2 \in {A, B, P}, kind3 \in {"mix", "add"},
     c3 \in {A, P, Q}}

\* A mix that is its own input.
Cyclic ==
  {Graph(Q, Leaves(NoLink, One, 2, X, Y, Zero, One),
         <<Combine("mix", V, A, c2), Combine("mix", W, P, c3)>>, NoLink) : c2 \in {P, Q}, c3 \in {B, Q}}

MCGraphs == Folding \cup Sharing \cup Deep \cup Cyclic
MCFactors == {Zero, Half(One), One, Two}
===============================================================================
