----------------------------- MODULE TileManager -----------------------------
(***************************************************************************)
(* The tile table of render/tile.cpp: the state of every tile, the queues  *)
(* of tiles to path trace and to denoise, and which tiles own render       *)
(* buffers.  Every operator below is what one TileManager method does; the *)
(* callers (TileRender) decide when, under Session::tile_mutex.            *)
(*                                                                         *)
(* The tile grid is a constant: its geometry (gen_tiles) enters only       *)
(* through the neighbour relation and the device a tile is assigned to.    *)
(* A queue is the set of its tiles: the order in which tiles are handed    *)
(* out (TileOrder) is left open.  An empty state.tiles is represented by a *)
(* table whose tiles are all DONE and own nothing, which is what           *)
(* has_tiles() and every loop over the table see of it.                    *)
(***************************************************************************)
EXTENDS PassCounter, FiniteSets

CONSTANTS
  Tile,               \* indices of state.tiles
  Neighbor,           \* Neighbor[t]: get_neighbor_index(t, 0..8), t included
  TileDevice,         \* TileDevice[t]: the logical device of tile t
  NumDevices,         \* TileManager::num_devices
  PreserveTileDevice, \* TileManager::preserve_tile_device
  ScheduleDenoising   \* TileManager::schedule_denoising

ASSUME TileAssumption ==
  /\ IsFiniteSet(Tile)
  /\ Neighbor \in [Tile -> SUBSET Tile]
  /\ \A t \in Tile : t \in Neighbor[t]
  /\ \A t, u \in Tile : u \in Neighbor[t] => t \in Neighbor[u]
  /\ NumDevices \in Nat \ {0}
  /\ TileDevice \in [Tile -> 0 .. NumDevices - 1]
  /\ PreserveTileDevice \in BOOLEAN
  /\ ScheduleDenoising \in BOOLEAN

(* Tile::State, ordered as in the source: check_neighbor_state compares.   *)
RENDER   == 0
RENDERED == 1
DENOISE  == 2
DENOISED == 3
DONE     == 4

VARIABLES
  tileState,      \* state.tiles[t].state
  buffers,        \* tiles whose state.tiles[t].buffers is not NULL
  renderTiles,    \* state.render_tiles, all logical devices together
  denoisingTiles  \* state.denoising_tiles, likewise

tileVars == <<tileState, buffers, renderTiles, denoisingTiles>>

TilesTypeOK ==
  /\ tileState \in [Tile -> RENDER .. DONE]
  /\ buffers \in SUBSET Tile
  /\ renderTiles \in SUBSET Tile
  /\ denoisingTiles \in SUBSET Tile

NoTiles ==
  /\ tileState = [t \in Tile |-> DONE]
  /\ buffers = {}
  /\ renderTiles = {}
  /\ denoisingTiles = {}

-----------------------------------------------------------------------------
(* TileManager::next lays out or refills the queues.                       *)

(* set_tiles: gen_tiles makes every tile anew, without buffers, and queues it. *)
SetTiles ==
  /\ tileState' = [t \in Tile |-> RENDER]
  /\ renderTiles' = Tile
  /\ denoisingTiles' = {}
  /\ buffers' = {}

(* gen_render_tiles: the tiles and their buffers stay for the next sample. *)
GenRenderTiles ==
  /\ tileState' = [t \in Tile |-> RENDER]
  /\ renderTiles' = renderTiles \cup Tile
  /\ UNCHANGED <<denoisingTiles, buffers>>

NextTiles == IF LaysOutTiles THEN SetTiles ELSE GenRenderTiles

HasTiles == \E t \in Tile : tileState[t] # DONE

(* device_free deletes the buffers of all tiles, in the two modes where    *)
(* tiles may still own some; then the table is cleared.                    *)
LeakedByDeviceFree == IF ScheduleDenoising \/ Progressive THEN {} ELSE buffers

-----------------------------------------------------------------------------
(* next_tile: the tiles a device may be handed from queue Q.  A device that*)
(* must keep its tiles looks at its own list only; any other (a separate   *)
(* denoising device has a number past the last list) takes from the first  *)
(* list that is not empty.                                                 *)
PreservesDevice(d) == PreserveTileDevice /\ d < NumDevices

Front(Q, d) ==
  IF PreservesDevice(d)
  THEN {t \in Q : TileDevice[t] = d}
  ELSE {t \in Q : \A u \in Q : TileDevice[t] <= TileDevice[u]}

-----------------------------------------------------------------------------
(* finish_tile                                                             *)

NeighborsAtLeast_SelfOnly(st, t, s) == st[t] >= s

NeighborsAtLeast_Unchecked(st, t, s) == TRUE

(* check_neighbor_state, in table st. *)
NeighborsAtLeast(st, t, s) == \A n \in Neighbor[t] : st[n] >= s

(* Finished path tracing, and this tile is denoised later. *)
FinishRendered(t) ==
  LET st == [tileState EXCEPT ![t] = RENDERED]
      ready == {n \in Neighbor[t] : NeighborsAtLeast(st, n, RENDERED)}
  IN  /\ tileState' = [n \in Tile |-> IF n \in ready THEN DENOISE ELSE st[n]]
      /\ denoisingTiles' = denoisingTiles \cup ready
      /\ UNCHANGED <<buffers, renderTiles>>

(* Finished path tracing, and no denoising follows: the caller writes the  *)
(* tile, then deletes its buffers unless the render is progressive.        *)
FinishUndenoised(t) ==
  /\ tileState' = [tileState EXCEPT ![t] = DONE]
  /\ buffers' = IF Progressive THEN buffers ELSE buffers \ {t}
  /\ UNCHANGED <<renderTiles, denoisingTiles>>

(* Finished denoising: every tile whose neighbours are all denoised is     *)
(* done, and is freed unless the render is progressive (the tile itself by *)
(* the caller, after it wrote it).                                         *)
FinishDenoised(t) ==
  LET st == [tileState EXCEPT ![t] = DENOISED]
      over == {n \in Neighbor[t] : NeighborsAtLeast(st, n, DENOISED)}
  IN  /\ tileState' = [n \in Tile |-> IF n \in over THEN DONE ELSE st[n]]
      /\ buffers' = IF Progressive THEN buffers ELSE buffers \ over
      /\ UNCHANGED <<renderTiles, denoisingTiles>>
=============================================================================
