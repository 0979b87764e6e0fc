----------------------------- MODULE PassCounter -----------------------------
(***************************************************************************)
(* The counters of TileManager::State that decide which pass is rendered   *)
(* next: `sample', `num_samples' and `resolution_divider', with the        *)
(* requested number of samples and the sample range of a resumable render. *)
(*                                                                         *)
(* A final render takes all its samples in one pass over the tiles.  With  *)
(* `progressive' every pass takes one sample of every tile, and a viewport *)
(* first renders previews: each halves the resolution divider until it     *)
(* reaches the pixel size.                                                 *)
(***************************************************************************)
EXTENDS Integers

CONSTANTS
  Progressive,   \* TileManager::progressive
  StartDivider,  \* what get_divider returns for the image being rendered
  PixelSize,     \* TileManager::pixel_size
  RangeStart,    \* TileManager::range_start_sample
  RangeNum       \* TileManager::range_num_samples, -1 when there is no range

(* The two are set together, by update_resumable_tile_manager; the         *)
(* constructor leaves 0 and -1.                                            *)
ASSUME CounterAssumption ==
  /\ Progressive \in BOOLEAN
  /\ StartDivider \in Nat \ {0}
  /\ PixelSize \in Nat \ {0}
  /\ RangeStart \in Nat
  /\ RangeNum \in Nat \cup {-1}
  /\ RangeNum = -1 => RangeStart = 0

VARIABLES
  numSamples,   \* TileManager::num_samples
  sample,       \* state.sample: first sample of the current pass
  passSamples,  \* state.num_samples: samples of the current pass
  divider       \* state.resolution_divider

counters == <<numSamples, sample, passSamples, divider>>

CountersTypeOK ==
  /\ numSamples \in Nat
  /\ sample \in Nat \cup {-1}
  /\ passSamples \in Nat
  /\ divider \in Nat \ {0}

-----------------------------------------------------------------------------
EffectiveSamples == IF RangeNum = -1 THEN numSamples ELSE RangeNum

EndSample == IF RangeNum = -1 THEN numSamples ELSE RangeStart + RangeNum

(* TileManager::done *)
Done == divider = PixelSize /\ sample + passSamples >= EndSample

(* The counters as TileManager::reset leaves them. *)
CountersReset(n) ==
  /\ numSamples = n
  /\ sample = RangeStart - 1
  /\ passSamples = 0
  /\ divider = StartDivider

ResetCounters(n) ==
  /\ numSamples' = n
  /\ sample' = RangeStart - 1
  /\ passSamples' = 0
  /\ divider' = StartDivider

SetSamples(n) ==
  /\ numSamples' = n
  /\ UNCHANGED <<sample, passSamples, divider>>

(* A preview pass at the next finer resolution. *)
IsPreviewPass == Progressive /\ divider > PixelSize

Finer(d) == IF d \div 2 > PixelSize THEN d \div 2 ELSE PixelSize

NextPreview ==
  /\ sample' = 0
  /\ divider' = Finer(divider)
  /\ passSamples' = 1

NextSample ==
  /\ sample' = sample + 1
  /\ passSamples' = IF Progressive THEN 1 ELSE EffectiveSamples
  /\ divider' = PixelSize

(* The counters' part of TileManager::next when it returns true. *)
NextPass ==
  /\ ~Done
  /\ IF IsPreviewPass THEN NextPreview ELSE NextSample
  /\ UNCHANGED numSamples

(* Does next() lay the tiles out again (set_tiles), or reuse them          *)
(* (gen_render_tiles)?  Evaluated with the new value of sample.            *)
LaysOutTiles == IsPreviewPass \/ sample + 1 = RangeStart
=============================================================================
