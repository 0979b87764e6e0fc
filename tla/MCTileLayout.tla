---------------------------- MODULE MCTileLayout -----------------------------
(* Instances of TileLayout for TLC: the sessions BlenderSync sets up, with  *)
(* small images, and images of several blocks of the Hilbert spiral.       *)
EXTENDS TileLayout

Unranged == [start |-> 0, num |-> -1]
Ranges == {Unranged, [start |-> 2, num |-> 1]}

SmallImages == {[w |-> w, h |-> h] : w \in {1, 2, 3, 5, 8}, h \in {1, 3, 4, 7}}
WideImages == {[w |-> 9, h |-> 3], [w |-> 17, h |-> 9], [w |-> 15, h |-> 4], [w |-> 5, h |-> 19]}
LargeImages == {[w |-> 33, h |-> 2]}
TileSizes == {[tw |-> 1, th |-> 1], [tw |-> 2, th |-> 3], [tw |-> 16, th |-> 4]}
Devices == {1, 2, 3}

Viewport(image, tile, devices, overlap, resolution, pixels) ==
  image @@ tile @@ Unranged @@
  [devices |-> devices, background |-> FALSE, preserve |-> TRUE, hilbert |-> FALSE,
   overlap |-> overlap, startResolution |-> resolution, denoise |-> FALSE,
   progressive |-> TRUE, pixelSize |-> pixels]

Final(image, tile, devices, refine, hilbert, denoise, range) ==
  image @@ tile @@ range @@
  [devices |-> devices, background |-> TRUE, preserve |-> refine, hilbert |-> hilbert,
   overlap |-> 0, startResolution |-> Unlimited, denoise |-> denoise,
   progressive |-> refine, pixelSize |-> 1]

MCSetups ==
  {Viewport(i, t, d, o, r, p) : i \in SmallImages, t \in TileSizes, d \in Devices,
                                o \in {0, 1}, r \in {1, 2, 4}, p \in {1, 2}}
  \cup
  {Final(i, t, d, p, c, n, r) : i \in SmallImages \cup WideImages, t \in TileSizes,
                                d \in Devices, p, c, n \in BOOLEAN, r \in Ranges}
  \cup
  {Final(i, t, 2, TRUE, TRUE, FALSE, Unranged) : i \in LargeImages, t \in TileSizes}
=============================================================================
