---------------------------- MODULE MCImageManager ----------------------------
(* Handles of one and two tiles; a file shared by both kinds, and a builtin *)
(* image.                                                                   *)
EXTENDS ImageManager, TLC

MCWanted ==
  {[t \in Tile |-> IF t = 1 THEN "file" ELSE NoKey],
   [t \in Tile |-> IF t = 1 THEN "file" ELSE "udim"],
   [t \in Tile |-> IF t = 1 THEN "builtin" ELSE NoKey]}

Symmetry == Permutations(Node)
=============================================================================
