------------------------------ MODULE TileLayout ------------------------------
(***************************************************************************)
(* The passes of a render over the tiles TileGrid lays out: TileManager's  *)
(* next(), which halves the resolution divider of a viewport's previews    *)
(* and lays the tiles out again for each, and the pixel samples that reach *)
(* the progress bar.  TileManager takes tiles, devices and neighbours as   *)
(* constants; here they come from the geometry.                            *)
(***************************************************************************)
EXTENDS TileGrid, FiniteSets

CONSTANTS
  Setups,        \* the setups g of TileGrid, each with progressive, pixelSize
                 \* and the sample range start, num (-1 when there is none)
  SampleCounts   \* numbers of samples

(* What SessionParams are set to.  Only a background render has the Hilbert*)
(* spiral (gen_tiles asserts it, with slice_overlap = 0) or a sample range.*)
(* Previews need `progressive', which only final renders from Blender do   *)
(* without, and those have no start_resolution.  The pixel sizes are those *)
(* of Blender's menu; it is 1 where the tile manager schedules denoising,  *)
(* since that is for renders without a display.                            *)
ASSUME SetupAssumption ==
  /\ SampleCounts \subseteq Nat
  /\ \A g \in Setups :
       /\ {g.w, g.h, g.tw, g.th, g.devices} \subseteq Nat \ {0}
       /\ {g.overlap, g.startResolution, g.start} \subseteq Nat
       /\ {g.background, g.preserve, g.hilbert, g.denoise, g.progressive} \subseteq BOOLEAN
       /\ g.pixelSize \in {1, 2, 4, 8}
       /\ g.hilbert => g.background /\ g.overlap = 0
       /\ g.num \in Nat \cup {-1}
       /\ g.num = -1 => g.start = 0
       /\ g.startResolution # Unlimited => g.progressive /\ g.num = -1
       /\ g.denoise => g.pixelSize = 1

VARIABLES
  setup,         \* the parameters of this render
  numSamples, sample, passSamples, divider, \* see PassCounter
  tiles,         \* state.tiles
  lists,         \* number of state.render_tiles
  pixelSamples,  \* progress.pixel_samples
  total          \* progress.total_pixel_samples

counters == <<numSamples, sample, passSamples, divider>>
vars == <<setup, counters, tiles, lists, pixelSamples, total>>

Counter(progressive, pixelSize, start, num) ==
  INSTANCE PassCounter WITH
    Progressive <- progressive, PixelSize <- pixelSize, StartDivider <- 1,
    RangeStart <- start, RangeNum <- num

(* After reset_. *)
Init ==
  /\ setup \in Setups
  /\ numSamples \in SampleCounts
  /\ sample = setup.start - 1
  /\ passSamples = 0
  /\ divider = GetDivider(setup.w, setup.h, setup.startResolution)
  /\ tiles = <<>>
  /\ lists = 0
  /\ pixelSamples = 0
  /\ total = TotalPixelSamples(setup, setup.pixelSize,
                               IF setup.num = -1 THEN numSamples ELSE setup.num)

Area(t) == t.w * t.h

AllPixels(ts) == FoldLeft(LAMBDA n, t : n + Area(t), 0, ts)

(* set_tiles, at the resolution of the pass. *)
SetTiles(d) ==
  LET iw == Scaled(setup.w, d)
      ih == Scaled(setup.h, d)
  IN  /\ tiles' = GenTiles(setup, iw, ih)
      /\ lists' = Lists(setup, ih)

(* next(), and the pass it starts: every tile reports its pixels for each  *)
(* sample, and once more when it is denoised after the last one.           *)
NextPass ==
  \E p \in {setup.progressive}, s \in {setup.pixelSize}, b \in {setup.start},
     n \in {setup.num} :
    /\ Counter(p, s, b, n)!NextPass
    /\ IF Counter(p, s, b, n)!LaysOutTiles
       THEN SetTiles(divider')
       ELSE UNCHANGED <<tiles, lists>>
    /\ pixelSamples' = pixelSamples + passSamples' * AllPixels(tiles')
         + (IF setup.denoise /\ Counter(p, s, b, n)!Done' THEN AllPixels(tiles') ELSE 0)
    /\ UNCHANGED <<setup, total>>

Finished ==
  \E p \in {setup.progressive}, s \in {setup.pixelSize}, b \in {setup.start},
     n \in {setup.num} : Counter(p, s, b, n)!Done

(* next() returns false. *)
NoMorePasses == Finished /\ UNCHANGED vars

Next == NextPass \/ NoMorePasses

Spec == Init /\ [][Next]_vars

-----------------------------------------------------------------------------
(* Properties                                                              *)

Width == Scaled(setup.w, divider)
Height == Scaled(setup.h, divider)

(* gen_tiles covers the image: every pixel is in exactly one tile, or in   *)
(* the tiles of two slices where those overlap, and no tile is empty or    *)
(* reaches out of the image, or is of a logical device without a list,     *)
(* which gen_render_tiles would index.  A device of a viewport has work.   *)
(* The Hilbert spiral comes to every tile once.                            *)
TilesCoverImage ==
  tiles # <<>> =>
    /\ \A x \in 0 .. Width - 1, y \in 0 .. Height - 1 :
         LET holders == {k \in DOMAIN tiles : Holds(tiles[k], x, y)}
         IN  /\ holders # {}
             /\ setup.overlap = 0 => Cardinality(holders) = 1
    /\ \A k \in DOMAIN tiles :
         LET t == tiles[k] IN
         /\ t.x >= 0 /\ t.y >= 0 /\ t.w > 0 /\ t.h > 0
         /\ t.x + t.w <= Width /\ t.y + t.h <= Height
         /\ t.device < lists
    /\ ~setup.background =>
         \A d \in 0 .. lists - 1 : \E k \in DOMAIN tiles : tiles[k].device = d
    /\ setup.hilbert => Len(HilbertOrder(setup, Width, Height)) = Len(tiles)

(* get_neighbor_index computes with the geometry, not with the tiles: in a *)
(* final render it finds exactly the tiles that touch a tile, itself       *)
(* included, so that the relation is symmetric, which the denoising of     *)
(* TileManager relies on; in any other it stays within the table.          *)
NeighborsTouch ==
  \A i \in DOMAIN tiles :
    LET neighbors == NeighborIndices(setup, Width, Height, i - 1) IN
    /\ \A n \in neighbors : n + 1 \in DOMAIN tiles
    /\ setup.background =>
         neighbors = {k - 1 : k \in {j \in DOMAIN tiles : Touch(tiles[i], tiles[j])}}

(* When the last pass is over, the progress bar is at its end: previews,   *)
(* samples and denoising are what set_samples counted on.  (The overlap of *)
(* slices is not counted there, but is reported by the tiles.)             *)
ProgressReachesTotal == Finished /\ setup.overlap = 0 => pixelSamples = total
=============================================================================
