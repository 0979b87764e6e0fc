------------------------------- MODULE TileGrid -------------------------------
(***************************************************************************)
(* How render/tile.cpp divides an image into tiles (gen_tiles), which      *)
(* tiles it takes to be neighbours (get_neighbor_index), at which          *)
(* resolution a viewport starts (get_divider), and how many pixel samples  *)
(* the progress bar expects (set_samples).                                 *)
(*                                                                         *)
(* A setup g is a record of the parameters of the session and the size of  *)
(* its image: w, h, tw, th (tile_size), devices (num_devices), background, *)
(* preserve (preserve_tile_device), hilbert (tile_order is the Hilbert     *)
(* spiral), overlap (slice_overlap), startResolution, denoise              *)
(* (schedule_denoising).  The other tile orders only sort the lists of     *)
(* tiles, which are left unordered.                                        *)
(***************************************************************************)
EXTENDS Integers, SequencesExt

Larger(a, b) == IF a > b THEN a ELSE b
Smaller(a, b) == IF a < b THEN a ELSE b

DivideUp(x, y) == (x + y - 1) \div y

(* C++ rounds the quotient of integers towards zero. *)
Quotient(x, y) == IF x < 0 THEN -((-x) \div y) ELSE x \div y

(* params.width / resolution, but at least one pixel. *)
Scaled(size, divider) == Larger(1, size \div divider)

Unlimited == 0  \* start_resolution = INT_MAX: no previews

(* divider[d] is the divider the loop ends with when it has come to d. *)
GetDivider(w, h, startResolution) ==
  LET divider[d \in Nat \ {0}] ==
        IF Scaled(w, d) * Scaled(h, d) > startResolution * startResolution
        THEN divider[2 * d]
        ELSE d
  IN  IF startResolution = Unlimited THEN 1 ELSE divider[1]

-----------------------------------------------------------------------------
(* gen_tiles.  The image has iw times ih pixels at the current resolution. *)
(* A tile is a record of its rectangle and its logical device; the tile    *)
(* with index i is at position i + 1.                                      *)

Lists(g, ih) == IF g.preserve \/ ~g.background THEN Smaller(ih, g.devices) ELSE 1
Slices(g, ih) == IF g.background THEN 1 ELSE Lists(g, ih)

(* Columns, or rows, of tiles of the given size. *)
Count(size, tile) == IF tile >= size THEN 1 ELSE DivideUp(size, tile)

PerDevice_Floor(tiles, lists) == Larger(1, tiles \div lists)

(* tiles_per_device *)
PerDevice(tiles, lists) == DivideUp(tiles, lists)

(* Slice s, with its overlap. *)
SliceHeight(g, ih, s) ==
  LET n == Slices(g, ih) IN
  IF s = n - 1 THEN ih - s * (ih \div n) ELSE ih \div n

Slice(g, ih, s) ==
  LET y == (ih \div Slices(g, ih)) * s
      top == Larger(y - g.overlap, 0)
      bottom == Smaller(y + SliceHeight(g, ih, s) + g.overlap, ih)
  IN  [y |-> top, h |-> bottom - top]

LastHeight_Full(g, slice, ty, rows) == g.th

(* The last row of tiles takes what is left of the slice. *)
LastHeight(g, slice, ty, rows) == IF ty = rows - 1 THEN slice.h - ty * g.th ELSE g.th

SliceTiles(g, iw, ih, s) ==
  LET slice == Slice(g, ih, s)
      columns == Count(iw, g.tw)
      rows == Count(slice.h, g.th)
  IN  [k \in 1 .. columns * rows |->
         LET tx == (k - 1) % columns
             ty == (k - 1) \div columns
         IN  [x |-> tx * g.tw,
              y |-> ty * g.th + slice.y,
              w |-> IF tx = columns - 1 THEN iw - tx * g.tw ELSE g.tw,
              h |-> LastHeight(g, slice, ty, rows),
              device |-> IF g.background
                         THEN (k - 1) \div PerDevice(columns * rows, Lists(g, ih))
                         ELSE s]]

SlicedTiles(g, iw, ih) ==
  FlattenSeq([s \in 1 .. Slices(g, ih) |-> SliceTiles(g, iw, ih, s - 1)])

(* Position d on a Hilbert curve through a square of n by n, by doubling   *)
(* the side: pos[s] is the position in the square of side s it lies in.    *)
Quadrant(p, s) ==
  LET rx == (p.d \div 2) % 2
      ry == (p.d + rx) % 2
      x == IF ry = 0 /\ rx = 1 THEN s - 1 - p.x ELSE p.x
      y == IF ry = 0 /\ rx = 1 THEN s - 1 - p.y ELSE p.y
  IN  [x |-> (IF ry = 0 THEN y ELSE x) + rx * s,
       y |-> (IF ry = 0 THEN x ELSE y) + ry * s,
       d |-> p.d \div 4]

HilbertPos(n, d) ==
  LET pos[s \in 1 .. n] ==
        IF s = 1 THEN [x |-> 0, y |-> 0, d |-> d]
        ELSE Quadrant(pos[s \div 2], s \div 2)
  IN  pos[n]

(* hilbert_size *)
HilbertSize(g) == IF Larger(g.tw, g.th) <= 12 THEN 8 ELSE 4

(* The spiral of blocks, n on a side, from the corner to the centre: each  *)
(* block with the direction taken to it and the one taken from it.         *)
NextBlock(b, n) ==
  CASE b.dir = "up" ->
         [b EXCEPT !.y = @ + 1, !.prev = "up",
                   !.dir = IF b.y + 1 = n - b.i - 1 THEN "left" ELSE "up"]
    [] b.dir = "left" ->
         [b EXCEPT !.x = @ + 1, !.prev = "left",
                   !.dir = IF b.x + 1 = n - b.i - 1 THEN "down" ELSE "left"]
    [] b.dir = "down" ->
         [b EXCEPT !.y = @ - 1, !.prev = "down",
                   !.dir = IF b.y - 1 = b.i THEN "right" ELSE "down"]
    [] b.dir = "right" ->
         [b EXCEPT !.x = @ - 1, !.prev = "right",
                   !.dir = IF b.x - 1 = b.i + 1 THEN "up" ELSE "right",
                   !.i = IF b.x - 1 = b.i + 1 THEN @ + 1 ELSE @]

Spiral(n) ==
  LET block[k \in 1 .. n * n] ==
        IF k = 1 THEN [x |-> 0, y |-> 0, i |-> 0, prev |-> "up", dir |-> "up"]
        ELSE NextBlock(block[k - 1], n)
  IN  block

(* Position p of a block, turned to the direction of the spiral. *)
Turned(p, b, last) ==
  CASE b.prev = "up" /\ b.dir = "up" -> [x |-> p.y, y |-> p.x]
    [] b.dir = "left" \/ b.prev = "left" -> [x |-> p.x, y |-> p.y]
    [] b.dir = "down" /\ b.prev # "left" -> [x |-> last - p.y, y |-> last - p.x]
    [] OTHER -> [x |-> last - p.x, y |-> last - p.y]

(* How many blocks the spiral has on a side, which is odd. *)
SpiralSide(g, iw, ih) ==
  LET blocks == Larger(Count(iw, g.tw * HilbertSize(g)), Count(ih, g.th * HilbertSize(g)))
  IN  IF blocks % 2 = 0 THEN blocks + 1 ELSE blocks

(* Where the spiral begins, to be centered, in tiles. *)
SpiralOffset(size, tile, blocks) == Quotient(Quotient(size - blocks * tile, 2), tile)

(* The tiles of a block of the spiral, in or out of the image. *)
BlockTiles(g, iw, ih, b) ==
  LET side == HilbertSize(g)
      n == SpiralSide(g, iw, ih)
  IN  [d \in 1 .. side * side |->
         LET p == Turned(HilbertPos(side, d - 1), b, side - 1)
         IN  [x |-> (b.x * side + p.x + SpiralOffset(iw, g.tw, n * side)) * g.tw,
              y |-> (b.y * side + p.y + SpiralOffset(ih, g.th, n * side)) * g.th]]

InImage(p, iw, ih) == p.x \in 0 .. iw - 1 /\ p.y \in 0 .. ih - 1

(* Only those in the image are generated. *)
KeptTiles(ts, iw, ih) ==
  LET kept[k \in 0 .. Len(ts)] ==
        IF k = 0 THEN <<>>
        ELSE IF InImage(ts[k], iw, ih) THEN Append(kept[k - 1], ts[k])
        ELSE kept[k - 1]
  IN  kept[Len(ts)]

(* The tiles in the order in which the spiral comes to them. *)
HilbertOrder(g, iw, ih) ==
  LET n == SpiralSide(g, iw, ih)
      spiral == Spiral(n)
  IN  FlattenSeq([k \in 1 .. n * n |->
                    KeptTiles(BlockTiles(g, iw, ih, spiral[k]), iw, ih)])

HilbertTiles(g, iw, ih) ==
  LET columns == Count(iw, g.tw)
      total == columns * Count(ih, g.th)
      order == HilbertOrder(g, iw, ih)
      Index(p) == (p.y \div g.th) * columns + p.x \div g.tw
      At(i) == CHOOSE k \in DOMAIN order : Index(order[k]) = i
  IN  [i \in 1 .. total |->
         LET k == At(i - 1) IN
         [x |-> order[k].x,
          y |-> order[k].y,
          w |-> Smaller(g.tw, iw - order[k].x),
          h |-> Smaller(g.th, ih - order[k].y),
          device |-> (k - 1) \div PerDevice(total, Lists(g, ih))]]

GenTiles(g, iw, ih) ==
  IF g.hilbert THEN HilbertTiles(g, iw, ih) ELSE SlicedTiles(g, iw, ih)

(* Tile t covers the pixel x, y; two tiles share an edge or a corner.      *)
Holds(t, x, y) == x \in t.x .. t.x + t.w - 1 /\ y \in t.y .. t.y + t.h - 1

Touch(s, t) ==
  /\ s.x <= t.x + t.w /\ t.x <= s.x + s.w
  /\ s.y <= t.y + t.h /\ t.y <= s.y + s.h

-----------------------------------------------------------------------------
(* The indices get_neighbor_index finds around tile i, i itself included.  *)
NeighborIndices_NoColumnCheck(g, iw, ih, i) ==
  LET columns == Count(iw, g.tw)
      rows == Count(ih \div Slices(g, ih), g.th) * Slices(g, ih)
  IN  {ny * columns + nx : nx \in (i % columns) - 1 .. (i % columns) + 1,
                           ny \in ((i \div columns) - 1 .. (i \div columns) + 1)
                                  \cap (0 .. rows - 1)}

NeighborIndices(g, iw, ih, i) ==
  LET columns == Count(iw, g.tw)
      rows == Count(ih \div Slices(g, ih), g.th) * Slices(g, ih)
  IN  {ny * columns + nx :
         nx \in ((i % columns) - 1 .. (i % columns) + 1) \cap (0 .. columns - 1),
         ny \in ((i \div columns) - 1 .. (i \div columns) + 1) \cap (0 .. rows - 1)}

TotalPixelSamples_NoSkip(g, pixelSize, n) ==
  LET Area(d) == Scaled(g.w, d) * Scaled(g.h, d)
      first == Larger(GetDivider(g.w, g.h, g.startResolution), pixelSize)
      rest[d \in 0 .. first] == IF d > pixelSize THEN Area(d) + rest[d \div 2] ELSE n * Area(d)
  IN  rest[first] + (IF g.denoise THEN g.w * g.h ELSE 0)

(* state.total_pixel_samples for n samples: what is rendered from divider  *)
(* d on, which are the previews, and the samples at the last resolution.   *)
TotalPixelSamples(g, pixelSize, n) ==
  LET Area(d) == Scaled(g.w, d) * Scaled(g.h, d)
      first == Larger(GetDivider(g.w, g.h, g.startResolution) \div 2, pixelSize)
      rest[d \in 0 .. first] == IF d > pixelSize THEN Area(d) + rest[d \div 2] ELSE n * Area(d)
  IN  rest[first] + (IF g.denoise THEN g.w * g.h ELSE 0)
=============================================================================
