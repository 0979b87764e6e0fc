---------------------------- MODULE MCSceneUpdate ----------------------------
(* Tables of one to four chunks, and shaders that do one thing each, or all.*)
EXTENDS SceneUpdate

MCDataSize == [shutter |-> 2, filter |-> 3, beckmann |-> 5]

Kind(emission, volume, displaced, glossy) ==
  [emission |-> emission, volume |-> volume, displaced |-> displaced, glossy |-> glossy]
MCGraphs ==
  {Kind(TRUE, FALSE, TRUE, TRUE), Kind(FALSE, TRUE, FALSE, FALSE)}

OnePass == {{}, {"uv"}, {"ao"}}
=============================================================================
