-------------------------- MODULE TileDeliveryProofs -------------------------
(***************************************************************************)
(* What the caller of a final render receives, for every grid of tiles,    *)
(* every number of devices and threads, and every sample count: each tile  *)
(* once, with the samples it is said to hold, and all of them unless the   *)
(* render was cancelled.                                                   *)
(*                                                                         *)
(* TileRenderProofs ties the threads to the tile table.  On top of that    *)
(* invariant, this one follows the samples into the buffers (Samples),     *)
(* shows that a pass leaves no tile behind (Drained), and relates what was *)
(* written to both.  The counters (Counted) decide which passes there are. *)
(***************************************************************************)
EXTENDS TileRenderProofs, WellFoundedInduction

(* The sample range lies inside the samples asked for.  A range that would *)
(* overshoot is shortened by the wrong number                              *)
(* (update_resumable_tile_manager), and then need not: a progressive render*)
(* reaches NumSamples, writes its tiles, goes on, and writes them again.   *)
RangeFits == RangeNum # -1 => RangeNum > 0 /\ RangeStart + RangeNum <= NumSamples

-----------------------------------------------------------------------------
(* The invariant                                                           *)

(* A render starts at full resolution.  In a final render one pass takes   *)
(* all samples, a progressive one takes a sample each.                     *)
Counted ==
  /\ numSamples = NumSamples
  /\ divider = PixelSize
  /\ \/ sample = RangeStart - 1 /\ passSamples = 0
     \/ /\ sample >= RangeStart
        /\ passSamples = IF Progressive THEN 1 ELSE EffectiveSamples
  /\ ~Progressive => sample <= RangeStart
  /\ Progressive /\ RangeFits => sample < EndSample
  /\ sPc \in {"update", "render", "refine"} => sample >= RangeStart
  /\ sPc \in {"finish", "end"} /\ ~cancel => Done

(* A pass was begun, and its tiles still exist. *)
Started == sPc # "freed" /\ sample >= RangeStart

(* The samples of a tile at the end of the pass. *)
Full == sample + passSamples - RangeStart

(* A thread that path traces knows how many samples its tile has, and      *)
(* leaves none out unless it stops on a cancel.                            *)
TracedSoFar ==
  \A w \in Worker :
    /\ wPc[w] = "trace" \/ (wPc[w] = "release" /\ wTask[w] = "PATH_TRACE") =>
         /\ acc[wTile[w]] = wSample[w] - RangeStart
         /\ wSample[w] <= sample + passSamples
    /\ wPc[w] = "release" /\ ~StopsOnCancel => wSample[w] = sample + passSamples
    /\ wPc[w] = "denoise" => wSample[w] = sample + passSamples

Tracing(t) == \E w \in Worker : wPc[w] \in {"trace", "release"} /\ wTile[w] = t

(* A tile that is still to be path traced has the samples of the earlier   *)
(* passes, or no buffers in the first pass.                                *)
ToTrace ==
  sPc \in {"update", "render"} => \A t \in Tile :
    tileState[t] = RENDER /\ ~Tracing(t) =>
      IF t \in buffers THEN acc[t] = sample - RangeStart ELSE sample = RangeStart

(* A path traced tile has all its samples; a progressive render keeps them.*)
Complete ==
  Started => \A t \in Tile : tileState[t] # RENDER =>
    /\ ~StopsOnCancel => acc[t] = Full
    /\ Progressive => t \in buffers

Samples == TracedSoFar /\ ToTrace /\ Complete

(* next_tile would find no tile to render for thread w. *)
NoneLeft(w) ==
  IF PreservesDevice(WorkerDevice[w])
  THEN \A t \in renderTiles : TileDevice[t] # WorkerDevice[w]
  ELSE renderTiles = {}

(* A tile to be rendered is queued or held; a thread stops only when its   *)
(* queue is empty, and one that denoises only when every tile is done.     *)
Covered ==
  /\ sPc = "update" => renderTiles = Tile
  /\ sPc = "render" => \A t \in Tile : tileState[t] = RENDER =>
       t \in renderTiles \/ \E w \in Worker : Held(w) /\ wTile[w] = t

StopsLast ==
  ~cancel /\ sPc = "render" => \A w \in Worker : wPc[w] = "idle" =>
    /\ w \in RenderWorker => NoneLeft(w)
    /\ MayDenoise(w) => ~HasTiles

AllDone == ~cancel /\ sPc \in {"next", "refine", "finish", "end"} => ~HasTiles

Drained == Covered /\ StopsLast /\ AllDone

(* One pass, every tile written by the thread that finishes it. *)
DeliveredAtOnce == ~Progressive =>
  /\ \A t \in Tile : written[t] # <<>> =>
       /\ sample >= RangeStart
       /\ tileState[t] \in {DENOISED, DONE}
       /\ Len(written[t]) = 1
       /\ ~cancel \/ ~ScheduleDenoising => written[t][1] - RangeStart = acc[t]
  /\ Started => \A t \in Tile : tileState[t] \in {DENOISED, DONE} => written[t] # <<>>
  /\ ~ScheduleDenoising => \A t \in buffers : \E w \in Worker :
       wPc[w] \in Holding \ {"allocate"} /\ wTile[w] = t

(* Many passes, all tiles written after the last. *)
DeliveredAtEnd == Progressive =>
  /\ ~cancel /\ (tilesWritten \/ sPc \in {"end", "freed"}) =>
       \A t \in Tile : written[t] # <<>>
  /\ RangeFits =>
       /\ sPc \notin {"end", "freed"} /\ ~tilesWritten => \A t \in Tile : written[t] = <<>>
       /\ sPc \notin {"end", "freed"} /\ tilesWritten =>
            sPc \in {"next", "finish"} /\ (cancel \/ Done)
       /\ \A t \in Tile : Len(written[t]) <= 1
       /\ ~cancel => \A t \in Tile :
            written[t] # <<>> => written[t][1] - RangeStart = acc[t]

FreedAll == sPc = "freed" => buffers = {}

DInv ==
  Counted /\ Drained /\ Samples /\ DeliveredAtOnce /\ DeliveredAtEnd /\ FreedAll

-----------------------------------------------------------------------------
(* The counters                                                            *)

(* There is no preview pass, and a pass that is over can only be followed  *)
(* by another one in a progressive render.                                 *)
LEMMA CounterFacts ==
  ASSUME TypeOK, Counted
  PROVE  /\ sample \in Int /\ passSamples \in Nat
         /\ RangeStart \in Nat /\ EffectiveSamples \in Nat /\ EndSample \in Int
         /\ NumSamples \in Nat \ {0}
         /\ ~IsPreviewPass
         /\ Done => sample >= RangeStart
         /\ sample >= RangeStart /\ ~Progressive =>
              sample = RangeStart /\ passSamples = EffectiveSamples /\ Done
<1>1. /\ sample \in Int /\ passSamples \in Nat
      /\ RangeStart \in Nat /\ EffectiveSamples \in Nat /\ EndSample \in Int
      /\ NumSamples \in Nat \ {0}
  BY CounterAssumption, RenderAssumption
     DEF TypeOK, CountersTypeOK, EffectiveSamples, EndSample
<1>2. ~IsPreviewPass
  BY CounterAssumption DEF Counted, IsPreviewPass
<1>3. Done => sample >= RangeStart
  BY <1>1, CounterAssumption DEF Counted, Done, EndSample
<1>4. sample >= RangeStart /\ ~Progressive =>
        sample = RangeStart /\ passSamples = EffectiveSamples /\ Done
  BY <1>1, CounterAssumption DEF Counted, Done, EndSample, EffectiveSamples
<1> QED BY <1>1, <1>2, <1>3, <1>4

(* What a new pass does to the counters. *)
LEMMA AdvanceCounters ==
  ASSUME TypeOK, Counted, Advance
  PROVE  /\ sample' = sample + 1
         /\ sample' = RangeStart <=> LaysOutTiles
         /\ sample' >= RangeStart
         /\ ~Progressive => sample < RangeStart
         /\ Progressive /\ sample >= RangeStart => Full = sample' - RangeStart
         /\ Counted'
<1>1. NextSample /\ ~Done /\ numSamples' = numSamples /\ sPc' = "update"
  BY CounterFacts DEF Advance, NextPass
<1>2. sample' = sample + 1 /\ (sample' = RangeStart <=> LaysOutTiles)
  BY <1>1, CounterFacts DEF NextSample, LaysOutTiles
<1>3. ~Progressive => sample < RangeStart
  BY <1>1, CounterFacts
<1>4. sample' >= RangeStart
  BY <1>2, CounterFacts DEF Counted
<1>5. Progressive /\ sample >= RangeStart => Full = sample' - RangeStart
  BY <1>2, CounterFacts DEF Counted, Full
<1>6. Progressive /\ RangeFits => sample' < EndSample'
  BY <1>1, <1>2, CounterFacts, CounterAssumption
     DEF Counted, Done, EndSample, RangeFits
<1>7. passSamples' = IF Progressive THEN 1 ELSE EffectiveSamples'
  BY <1>1 DEF NextSample, EffectiveSamples
<1>8. ~Progressive => sample' <= RangeStart
  BY <1>2, <1>3, CounterFacts
<1> QED
  BY <1>1, <1>2, <1>3, <1>4, <1>5, <1>6, <1>7, <1>8 DEF Counted, NextSample

(* Every step keeps the relation of the counters: next() and done() alone
   decide which pass comes after which. *)
LEMMA CountedStep ==
  ASSUME IInv, Counted, [Next]_vars
  PROVE  Counted'
<1> USE DEF IInv
<1>1. CASE Advance
  BY <1>1, AdvanceCounters
<1>2. ASSUME UNCHANGED counters, sPc' = sPc \/ sPc' # "update",
             sPc' \in {"render", "refine"} => sPc \in {"update", "render", "refine"},
             cancel => cancel',
             sPc' \in {"finish", "end"} /\ ~cancel => sPc \in {"finish", "end"} \/ Done
      PROVE  Counted'
  BY <1>2
     DEF Counted, counters, EffectiveSamples, EndSample, Done, TypeOK
<1>3. CASE StopLoop
  BY <1>2, <1>3 DEF StopLoop
<1>4. CASE AbandonPass \/ Render \/ TaskWait \/ UpdateProgressiveRefine \/ Finish
  BY <1>2, <1>4 DEF AbandonPass, Render, TaskWait, UpdateProgressiveRefine, Finish
<1>5. CASE Free
  BY <1>2, <1>5 DEF Free
<1>6. CASE SetCancel \/ UNCHANGED vars
  BY <1>2, <1>6 DEF SetCancel, vars, sessionVars
<1>7. ASSUME NEW w \in Worker, Thread(w)
      PROVE  UNCHANGED <<counters, sPc, cancel>>
  BY <1>7
     DEF Thread, AcquireCancelled, Acquire, TakeDenoisingTile, TakeRenderTile, HoldTile,
         NextTileFails, Allocate, TraceSample, TraceEnd, MapNeighborTiles,
         UnmapNeighborTiles, ReleaseTile, sessionVars
<1> QED
  BY <1>1, <1>2, <1>3, <1>4, <1>5, <1>6, <1>7 DEF Next, Session, Terminated

-----------------------------------------------------------------------------
(* The tile table                                                          *)

(* What release_tile does to the table: the released tile goes ahead, and  *)
(* no other tile starts or ends its path tracing or denoising.             *)
LEMMA ReleaseTable ==
  ASSUME IInv, NEW w \in Worker, ReleaseTile(w), NEW t, t = wTile[w]
  PROVE  /\ sPc = "render" /\ Held(w) /\ t \in Tile /\ t \in buffers
         /\ tileState[t] = IF wTask[w] = "DENOISE" THEN DENOISE ELSE RENDER
         /\ tileState'[t] # RENDER
         /\ tileState'[t] \in {DENOISED, DONE} <=> WriteNow(t)
         /\ \A u \in Tile \ {t} :
              /\ tileState'[u] = RENDER <=> tileState[u] = RENDER
              /\ tileState'[u] \in {DENOISED, DONE} <=> tileState[u] \in {DENOISED, DONE}
              /\ tileState[u] = RENDER => (u \in buffers' <=> u \in buffers)
         /\ UNCHANGED renderTiles
         /\ Progressive => UNCHANGED buffers
         /\ ~Progressive /\ ~ScheduleDenoising => buffers' = buffers \ {t}
<1> USE DEF IInv, RENDER, RENDERED, DENOISE, DENOISED, DONE
<1>1. /\ sPc = "render" /\ Held(w) /\ t \in Tile /\ t \in buffers
      /\ tileState[t] = IF wTask[w] = "DENOISE" THEN DENOISE ELSE RENDER
  <2>1. sPc = "render" /\ Held(w)
    BY Rendering DEF ReleaseTile, Held, Holding
  <2>2. t \in Tile /\ t \in buffers
    BY <2>1 DEF Exclusive, HoldsItsTile, Grid, BuffersKept, ReleaseTile, Held
  <2>3. tileState[t] = IF wTask[w] = "DENOISE" THEN DENOISE ELSE RENDER
    BY <2>1 DEF Exclusive, TaskMatchesState
  <2> QED BY <2>1, <2>2, <2>3
<1>2. /\ FinishTile(t) /\ tileState \in [Tile -> 0 .. 4]
      /\ needDenoise => NeighborsKeepUp /\ ScheduleDenoising
      /\ ~needDenoise => \A u \in Tile : tileState[u] \in {RENDER, DONE}
  BY DEF ReleaseTile, TypeOK, TilesTypeOK, Grid, PlainStates, Passes
<1>3. CASE tileState[t] = RENDER /\ needDenoise
  <2> DEFINE st == [tileState EXCEPT ![t] = RENDERED]
             ready == {n \in Neighbor[t] : NeighborsAtLeast(st, n, RENDERED)}
  <2>1. FinishRendered(t) /\ ~WriteNow(t)
    BY <1>2, <1>3 DEF FinishTile, WriteNow
  <2>2. /\ \A u \in Tile : tileState'[u] = IF u \in ready THEN DENOISE ELSE st[u]
        /\ UNCHANGED <<buffers, renderTiles>>
    BY <1>2, <2>1 DEF FinishRendered
  <2>3. \A u \in ready : u \in Tile /\ t \in Neighbor[u] /\ st[u] >= RENDERED
    BY <1>1, TileAssumption DEF NeighborsAtLeast
  <2>4. \A u \in Tile : st[u] = IF u = t THEN RENDERED ELSE tileState[u]
    BY <1>2
  <2> HIDE DEF st, ready
  <2>5. \A u \in ready : tileState[u] \notin {DENOISE, DENOISED, DONE}
    BY <1>2, <1>3, <2>3 DEF NeighborsKeepUp
  <2>6. \A u \in ready : u = t \/ tileState[u] = RENDERED
    BY <1>2, <2>3, <2>4, <2>5
  <2> QED BY <1>1, <1>2, <1>3, <2>1, <2>2, <2>4, <2>6
<1>4. CASE tileState[t] = RENDER /\ ~needDenoise
  <2>1. FinishUndenoised(t) /\ WriteNow(t)
    BY <1>2, <1>4 DEF FinishTile, WriteNow
  <2> QED BY <1>1, <1>2, <1>4, <2>1 DEF FinishUndenoised
<1>5. CASE tileState[t] = DENOISE
  <2> DEFINE st == [tileState EXCEPT ![t] = DENOISED]
             over == {n \in Neighbor[t] : NeighborsAtLeast(st, n, DENOISED)}
  <2>1. FinishDenoised(t) /\ WriteNow(t)
    BY <1>2, <1>5 DEF FinishTile, WriteNow
  <2>2. /\ \A u \in Tile : tileState'[u] = IF u \in over THEN DONE ELSE st[u]
        /\ buffers' = IF Progressive THEN buffers ELSE buffers \ over
        /\ UNCHANGED renderTiles
    BY <1>2, <2>1 DEF FinishDenoised
  <2>3. \A u \in over : u \in Tile /\ st[u] >= DENOISED
    BY <1>1, TileAssumption DEF NeighborsAtLeast
  <2>4. \A u \in Tile : st[u] = IF u = t THEN DENOISED ELSE tileState[u]
    BY <1>2
  <2> HIDE DEF st, over
  <2>5. \A u \in over : u = t \/ tileState[u] \in {DENOISED, DONE}
    BY <1>2, <2>3, <2>4
  <2>6. ScheduleDenoising
    <3>1. tileState[t] \notin {RENDER, DONE}
      BY <1>5
    <3>2. ~needDenoise => tileState[t] \in {RENDER, DONE}
      BY <1>1, <1>2
    <3> QED BY <1>2, <3>1, <3>2, Zenon
  <2> QED BY <1>1, <1>5, <2>1, <2>2, <2>4, <2>5, <2>6
<1> QED BY <1>1, <1>3, <1>4, <1>5

(* A tile that some thread holds is not done. *)
LEMMA HeldNotDone ==
  ASSUME IInv, NEW w \in Worker, Held(w)
  PROVE  HasTiles /\ wTile[w] \in Tile /\ tileState[wTile[w]] \in {RENDER, DENOISE}
BY DEF IInv, Exclusive, HoldsItsTile, TaskMatchesState, HasTiles, RENDER, DENOISE, DONE

(* next_tile finds no tile only when there is none for the device.         *)
LEMMA FrontEmpty ==
  ASSUME NEW Q \in SUBSET Tile, NEW d, Front(Q, d) = {}
  PROVE  IF PreservesDevice(d) THEN \A t \in Q : TileDevice[t] # d ELSE Q = {}
<1>1. CASE PreservesDevice(d)
  BY <1>1 DEF Front
<1>2. CASE ~PreservesDevice(d)
  <2> SUFFICES ASSUME Q # {} PROVE FALSE
    BY <1>2
  <2> DEFINE D == {TileDevice[t] : t \in Q}
  <2>1. D \subseteq Nat /\ D # {}
    BY TileAssumption
  <2>2. \E x \in D : \A y \in D : ~(<<y, x>> \in OpToRel(<, Nat))
    <3> HIDE DEF D
    <3> QED BY <2>1, NatLessThanWellFounded, WFMin
  <2>3. PICK x \in D : \A y \in D : ~(<<y, x>> \in OpToRel(<, Nat))
    BY <2>2
  <2>4. \A y \in D : x <= y
    <3> SUFFICES ASSUME NEW y \in D PROVE x <= y
      OBVIOUS
    <3>1. x \in Nat /\ y \in Nat
      BY <2>1
    <3>2. ~(y < x)
      BY <2>3, <3>1 DEF OpToRel
    <3> QED BY <3>1, <3>2
  <2>5. PICK t \in Q : TileDevice[t] = x
    BY <2>3
  <2>6. t \in Front(Q, d)
    BY <1>2, <2>4, <2>5 DEF Front
  <2> QED BY <2>6
<1> QED BY <1>1, <1>2

-----------------------------------------------------------------------------
(* A pass leaves no tile behind                                            *)

(* A thread moves on, and stops only when there is nothing left for it.    *)
LEMMA DrainedMoveOn ==
  ASSUME IInv, Drained, NEW w \in Worker, wPc[w] # "idle", NEW pc \in WorkerPc,
         wPc' = [wPc EXCEPT ![w] = pc], pc \in Holding <=> Held(w),
         pc = "idle" => \/ cancel
                        \/ (w \in RenderWorker => NoneLeft(w)) /\ (MayDenoise(w) => ~HasTiles),
         UNCHANGED <<tileState, renderTiles, sPc, needDenoise, cancel, wTile>>
  PROVE  Drained'
<1>1. \A v \in Worker : Held(v)' <=> Held(v)
  BY DEF Held, IInv, TypeOK
<1>2. Covered'
  BY <1>1 DEF Drained, Covered
<1>3. StopsLast'
  BY DEF Drained, StopsLast, NoneLeft, MayDenoise, HasTiles, IInv, TypeOK
<1>4. AllDone'
  BY DEF Drained, AllDone, HasTiles
<1> QED BY <1>2, <1>3, <1>4 DEF Drained

(* A pass ends, uncancelled, with every tile done: all threads have        *)
(* stopped, and some thread renders for each device.                       *)
LEMMA PassDrained ==
  ASSUME IInv, Drained, ~cancel, sPc = "render", \A w \in Worker : wPc[w] = "idle"
  PROVE  ~HasTiles
<1> SUFFICES ASSUME NEW t \in Tile, tileState[t] # DONE
             PROVE  FALSE
  BY DEF HasTiles
<1>1. CASE needDenoise
  <2>1. PICK w \in Worker : w \in DenoiseWorker
    BY <1>1, RenderAssumption DEF IInv, Passes
  <2> QED BY <1>1, <2>1 DEF Drained, StopsLast, MayDenoise, HasTiles
<1>2. CASE ~needDenoise
  <2>1. tileState[t] = RENDER
    BY <1>2 DEF IInv, Grid, PlainStates
  <2>2. t \in renderTiles
    BY <2>1 DEF Drained, Covered, Held, Holding
  <2>3. PICK w \in RenderWorker : WorkerDevice[w] = TileDevice[t]
    BY RenderAssumption
  <2>4. NoneLeft(w)
    BY <2>3, RenderAssumption DEF Drained, StopsLast
  <2> QED BY <2>2, <2>3, <2>4 DEF NoneLeft
<1> QED BY <1>1, <1>2

(* Every step keeps a begun pass in order: a tile that is not done is in a
   queue, with a thread, or waits for a neighbour that is. *)
LEMMA DrainedStep ==
  ASSUME IInv, Drained, [Next]_vars
  PROVE  Drained'
<1>1. CASE Advance
  <2>1. renderTiles' = Tile /\ sPc' = "update"
    BY <1>1 DEF Advance, NextTiles, SetTiles, GenRenderTiles, IInv, TypeOK, TilesTypeOK
  <2> QED BY <2>1 DEF Drained, Covered, StopsLast, AllDone
<1>2. CASE StopLoop \/ AbandonPass \/ UpdateProgressiveRefine \/ Finish
  <2>1. /\ UNCHANGED <<tileState, cancel>>
        /\ sPc' \notin {"update", "render"}
        /\ cancel \/ sPc \in {"next", "refine", "finish", "end"}
    BY <1>2 DEF StopLoop, AbandonPass, UpdateProgressiveRefine, Finish, tileVars
  <2> QED BY <2>1 DEF Drained, Covered, StopsLast, AllDone, HasTiles
<1>3. CASE Render
  <2>1. /\ sPc' = "render" /\ UNCHANGED <<tileState, renderTiles>> /\ renderTiles = Tile
        /\ needDenoise' = DenoiseThisPass
        /\ \A w \in Worker : wPc'[w] = IF HasTask(w) THEN "acquire" ELSE "idle"
    BY <1>3 DEF Render, tileVars, Drained, Covered
  <2> QED BY <2>1 DEF Drained, Covered, StopsLast, AllDone, HasTask, MayDenoise
<1>4. CASE TaskWait
  <2>1. ~cancel => ~HasTiles
    BY <1>4, PassDrained DEF TaskWait
  <2>2. sPc' = "refine" /\ UNCHANGED <<tileState, cancel>>
    BY <1>4 DEF TaskWait, tileVars
  <2> QED BY <2>1, <2>2 DEF Drained, Covered, StopsLast, AllDone, HasTiles
<1>5. CASE Free
  BY <1>5 DEF Free, Drained, Covered, StopsLast, AllDone
<1>6. CASE SetCancel \/ UNCHANGED vars
  BY <1>6
     DEF SetCancel, vars, tileVars, sessionVars, workerVars, Drained, Covered,
         StopsLast, AllDone, NoneLeft, MayDenoise, HasTiles, Held
<1>7. ASSUME NEW w \in Worker, Thread(w)
      PROVE  Drained'
  <2> USE DEF Held, Holding, WorkerPc
  <2>1. CASE AcquireCancelled(w) \/ Acquire(w)
    BY <2>1, DrainedMoveOn
       DEF AcquireCancelled, Acquire, StopsOnCancel, tileVars, sessionVars
  <2>2. CASE NextTileFails(w)
    <3>1. w \in RenderWorker => NoneLeft(w)
      BY <2>2, FrontEmpty
         DEF NextTileFails, RenderChoices, MayRender, NoneLeft, IInv, TypeOK, TilesTypeOK
    <3>2. \/ wPc' = [wPc EXCEPT ![w] = "waiting"]
          \/ /\ wPc' = [wPc EXCEPT ![w] = "idle"]
             /\ cancel \/ (MayDenoise(w) => ~HasTiles)
      BY <2>2 DEF NextTileFails
    <3>3. wPc[w] = "next_tile" /\ UNCHANGED <<tileState, renderTiles, sPc, needDenoise, cancel, wTile>>
      BY <2>2 DEF NextTileFails, tileVars, sessionVars
    <3> QED BY <3>1, <3>2, <3>3, DrainedMoveOn
  <2>3. CASE Allocate(w) \/ TraceEnd(w) \/ MapNeighborTiles(w) \/ UnmapNeighborTiles(w)
    <3>1. PICK pc \in Holding : wPc' = [wPc EXCEPT ![w] = pc]
      BY <2>3 DEF Allocate, TraceEnd, MapNeighborTiles, UnmapNeighborTiles
    <3>2. /\ wPc[w] \in Holding
          /\ UNCHANGED <<tileState, renderTiles, sPc, needDenoise, cancel, wTile>>
      BY <2>3 DEF Allocate, TraceEnd, MapNeighborTiles, UnmapNeighborTiles, tileVars, sessionVars
    <3> QED BY <3>1, <3>2, DrainedMoveOn
  <2>4. CASE TraceSample(w)
    BY <2>4
       DEF TraceSample, tileVars, sessionVars, Drained, Covered, StopsLast, AllDone,
           NoneLeft, MayDenoise, HasTiles
  <2>5. CASE TakeDenoisingTile(w) \/ TakeRenderTile(w)
    <3>1. PICK t : /\ HoldTile(w, t)
                   /\ renderTiles' \in {renderTiles, renderTiles \ {t}}
      BY <2>5 DEF TakeDenoisingTile, TakeRenderTile
    <3>2. /\ sPc = "render" /\ wPc[w] = "next_tile"
          /\ UNCHANGED <<sPc, cancel, needDenoise, tileState>>
          /\ \A v \in Worker \ {w} : wPc'[v] = wPc[v] /\ wTile'[v] = wTile[v]
          /\ wPc'[w] = "allocate" /\ wTile'[w] = t
      BY <2>5, <3>1, Rendering
         DEF TakeDenoisingTile, TakeRenderTile, HoldTile, sessionVars, IInv, TypeOK
    <3>3. Covered'
      BY <3>1, <3>2 DEF Drained, Covered
    <3>4. StopsLast'
      BY <3>1, <3>2 DEF Drained, StopsLast, NoneLeft, MayDenoise, HasTiles
    <3> QED BY <3>2, <3>3, <3>4 DEF Drained, AllDone
  <2>6. CASE ReleaseTile(w)
    <3>1. /\ sPc = "render" /\ Held(w) /\ UNCHANGED <<sPc, cancel, needDenoise, renderTiles>>
          /\ \A u \in Tile : tileState'[u] = RENDER => u # wTile[w] /\ tileState[u] = RENDER
      BY <2>6, ReleaseTable DEF ReleaseTile, sessionVars
    <3>2. /\ \A v \in Worker \ {w} : wTile'[v] = wTile[v] /\ (Held(v)' <=> Held(v))
          /\ \A v \in Worker : wPc'[v] = "idle" => wPc[v] = "idle"
      BY <2>6 DEF ReleaseTile, Woken, IInv, TypeOK
    <3>3. Covered'
      <4> SUFFICES ASSUME NEW u \in Tile, tileState'[u] = RENDER
                   PROVE  u \in renderTiles \/ \E v \in Worker : Held(v)' /\ wTile'[v] = u
        BY <3>1 DEF Covered
      <4>1. u \in renderTiles \/ \E v \in Worker \ {w} : Held(v) /\ wTile[v] = u
        BY <3>1 DEF Drained, Covered
      <4> QED BY <3>2, <4>1
    <3>4. HasTiles
      BY <3>1, HeldNotDone
    <3>5. StopsLast'
      BY <3>1, <3>2, <3>4 DEF Drained, StopsLast, NoneLeft, MayDenoise
    <3> QED BY <3>1, <3>3, <3>5 DEF Drained, AllDone
  <2> QED
    BY <1>7, <2>1, <2>2, <2>3, <2>4, <2>5, <2>6 DEF Thread
<1> QED
  BY <1>1, <1>2, <1>3, <1>4, <1>5, <1>6, <1>7 DEF Next, Session, Terminated

-----------------------------------------------------------------------------
(* Every sample asked for is in the buffers                                *)

(* The threads that have begun to work on their tiles do what they did.    *)
LEMMA SamplesKept ==
  ASSUME IInv, Samples, cancel => cancel',
         UNCHANGED <<counters, tileState, buffers, acc>>,
         sPc' \in {"update", "render"} => sPc \in {"update", "render"},
         sPc = "freed" => sPc' = "freed",
         \A w \in Worker : wPc[w] \in {"trace", "denoise", "release"} \/
                           wPc'[w] \in {"trace", "denoise", "release"} =>
           wPc'[w] = wPc[w] /\ wTile'[w] = wTile[w] /\ wTask'[w] = wTask[w]
           /\ wSample'[w] = wSample[w]
  PROVE  Samples'
<1> USE DEF IInv, TypeOK, counters, StopsOnCancel
<1>1. TracedSoFar'
  BY DEF Samples, TracedSoFar
<1>2. \A t \in Tile : Tracing(t)' <=> Tracing(t)
  BY DEF Tracing
<1>3. ToTrace'
  BY <1>2 DEF Samples, ToTrace
<1>4. Complete'
  BY DEF Samples, Complete, Started, Full
<1> QED BY <1>1, <1>3, <1>4 DEF Samples

(* A new pass continues with the samples of the one before it. *)
LEMMA SamplesAdvance ==
  ASSUME IInv, Counted, Drained, Samples, Advance
  PROVE  Samples'
<1> USE DEF IInv
<1>1. \A w \in Worker : wPc'[w] = "idle"
  BY DEF Advance, workerVars, Passes
<1>2. sPc' = "update" /\ \A t \in Tile : tileState'[t] = RENDER
  BY DEF Advance, NextTiles, SetTiles, GenRenderTiles, TypeOK, TilesTypeOK
<1>3. ASSUME NEW t \in Tile
      PROVE  IF t \in buffers' THEN acc'[t] = sample' - RangeStart ELSE sample' = RangeStart
  <2>1. CASE sample' = RangeStart
    BY <2>1, AdvanceCounters DEF Advance, NextTiles, SetTiles
  <2>2. CASE sample' # RangeStart
    <3>1. Progressive /\ sample >= RangeStart
      BY <2>2, AdvanceCounters, CounterFacts DEF TypeOK, Counted
    <3>2. UNCHANGED <<buffers, acc>>
      BY <2>2, AdvanceCounters DEF Advance, NextTiles, GenRenderTiles, history
    <3>3. tileState[t] # RENDER
      BY DEF Drained, AllDone, Advance, HasTiles, RENDER, DONE
    <3>4. Started /\ ~StopsOnCancel
      BY <3>1 DEF Started, StopsOnCancel, Advance
    <3>5. t \in buffers /\ acc[t] = Full
      BY <3>1, <3>3, <3>4 DEF Samples, Complete
    <3> QED BY <3>1, <3>2, <3>5, AdvanceCounters
  <2> QED BY <2>1, <2>2
<1>4. TracedSoFar'
  BY <1>1 DEF TracedSoFar
<1>5. ToTrace'
  BY <1>3 DEF ToTrace
<1>6. Complete'
  BY <1>2 DEF Complete
<1> QED BY <1>4, <1>5, <1>6 DEF Samples

(* New buffers hold no samples, and belong to the first pass. *)
LEMMA SamplesAllocate ==
  ASSUME IInv, Counted, Samples, NEW w \in Worker, Allocate(w)
  PROVE  Samples'
<1> DEFINE t == wTile[w]
<1> USE DEF IInv, TypeOK
<1>1. sPc = "render" /\ Held(w) /\ t \in Tile /\ sPc' = sPc /\ sample >= RangeStart
  BY Rendering, HeldNotDone DEF Allocate, Held, Holding, sessionVars, Counted
<1>2. tileState[t] = IF wTask[w] = "DENOISE" THEN DENOISE ELSE RENDER
  BY <1>1 DEF Exclusive, TaskMatchesState
<1>3. /\ \A v \in Worker \ {w} : Held(v) => wTile[v] # t
      /\ \A v \in Worker : wPc[v] \in {"trace", "release"} => Held(v) /\ v # w
  BY <1>1 DEF Exclusive, TileHeldOnce, Held, Holding, Allocate
<1>4. /\ acc' = IF t \in buffers THEN acc ELSE [acc EXCEPT ![t] = 0]
      /\ buffers' = buffers \cup {t}
      /\ wSample'[w] = sample
      /\ wPc'[w] = IF wTask[w] = "DENOISE" THEN "map" ELSE "trace"
      /\ \A v \in Worker \ {w} : wPc'[v] = wPc[v] /\ wSample'[v] = wSample[v]
      /\ UNCHANGED <<counters, tileState, wTile, wTask, cancel, sPc>>
  BY DEF Allocate, sessionVars
<1>5. tileState[t] = RENDER => acc'[t] = sample - RangeStart
  <2>1. tileState[t] = RENDER =>
          IF t \in buffers THEN acc[t] = sample - RangeStart ELSE sample = RangeStart
    BY <1>1, <1>3 DEF Samples, ToTrace, Tracing
  <2> QED BY <1>1, <1>4, <2>1, CounterFacts
<1>6. t \notin buffers => tileState[t] = RENDER
  BY <1>1, <1>2 DEF Grid, BuffersKept, RENDERED, DENOISE, DENOISED
<1>7. TracedSoFar'
  <2> SUFFICES ASSUME NEW v \in Worker
               PROVE  /\ wPc'[v] = "trace" \/ (wPc'[v] = "release" /\ wTask'[v] = "PATH_TRACE") =>
                           /\ acc'[wTile'[v]] = wSample'[v] - RangeStart
                           /\ wSample'[v] <= sample' + passSamples'
                      /\ wPc'[v] = "release" /\ ~StopsOnCancel' => wSample'[v] = sample' + passSamples'
                      /\ wPc'[v] = "denoise" => wSample'[v] = sample' + passSamples'
    BY DEF TracedSoFar
  <2>1. CASE v = w
    <3>1. wPc'[w] = "trace" => tileState[t] = RENDER
      BY <1>2, <1>4
    <3>2. sample <= sample + passSamples
      BY CounterFacts
    <3> QED BY <1>4, <1>5, <2>1, <3>1, <3>2 DEF counters
  <2>2. CASE v # w
    <3>1. wPc[v] \in {"trace", "release"} => acc'[wTile[v]] = acc[wTile[v]]
      BY <1>1, <1>3, <1>4, <2>2, HeldNotDone
    <3> QED BY <1>4, <2>2, <3>1 DEF counters, Samples, TracedSoFar, StopsOnCancel
  <2> QED BY <2>1, <2>2
<1>8. ToTrace'
  <2> SUFFICES ASSUME NEW u \in Tile, tileState[u] = RENDER, ~Tracing(u)'
               PROVE  IF u \in buffers' THEN acc'[u] = sample - RangeStart ELSE sample = RangeStart
    BY <1>4 DEF ToTrace, counters
  <2>1. CASE u = t
    BY <1>4, <1>5, <2>1
  <2>2. CASE u # t
    <3>1. ~Tracing(u)
      BY <1>3, <1>4 DEF Tracing
    <3> QED BY <1>1, <1>4, <2>2, <3>1 DEF Samples, ToTrace
  <2> QED BY <2>1, <2>2
<1>9. Complete'
  <2>1. \A u \in Tile : tileState[u] # RENDER => acc'[u] = acc[u]
    BY <1>4, <1>6
  <2> QED BY <1>4, <2>1 DEF Samples, Complete, Started, Full, StopsOnCancel, counters
<1> QED BY <1>7, <1>8, <1>9 DEF Samples

(* One more sample of a tile that this thread alone works on. *)
LEMMA SamplesTrace ==
  ASSUME IInv, Counted, Samples, NEW w \in Worker, TraceSample(w)
  PROVE  Samples'
<1> DEFINE t == wTile[w]
<1> USE DEF IInv, TypeOK
<1>1. sPc = "render" /\ Held(w) /\ t \in Tile
  BY Rendering, HeldNotDone DEF TraceSample, Held, Holding
<1>2. tileState[t] = RENDER
  BY <1>1 DEF Exclusive, TaskMatchesState, HoldsItsTile, TraceSample
<1>3. \A v \in Worker \ {w} : Held(v) => wTile[v] # t /\ wTile[v] \in Tile
  BY <1>1 DEF Exclusive, TileHeldOnce, HoldsItsTile
<1>4. /\ acc'[t] = acc[t] + 1 /\ wSample'[w] = wSample[w] + 1
      /\ \A u \in Tile \ {t} : acc'[u] = acc[u]
      /\ \A v \in Worker \ {w} : wSample'[v] = wSample[v]
      /\ UNCHANGED <<counters, tileState, buffers, sPc, cancel, wPc, wTile, wTask>>
      /\ wPc[w] = "trace" /\ wSample[w] < sample + passSamples
  BY <1>1 DEF TraceSample, MoreSamples, tileVars, sessionVars
<1>5. TracedSoFar'
  <2> SUFFICES ASSUME NEW v \in Worker
               PROVE  /\ wPc'[v] = "trace" \/ (wPc'[v] = "release" /\ wTask'[v] = "PATH_TRACE") =>
                           /\ acc'[wTile'[v]] = wSample'[v] - RangeStart
                           /\ wSample'[v] <= sample' + passSamples'
                      /\ wPc'[v] = "release" /\ ~StopsOnCancel' => wSample'[v] = sample' + passSamples'
                      /\ wPc'[v] = "denoise" => wSample'[v] = sample' + passSamples'
    BY DEF TracedSoFar
  <2>1. CASE v = w
    <3>1. acc[t] = wSample[w] - RangeStart
      BY <1>4 DEF Samples, TracedSoFar
    <3>2. /\ acc[t] \in Nat /\ wSample[w] \in Int /\ RangeStart \in Nat
          /\ sample + passSamples \in Int
      BY <1>1, CounterFacts
    <3> QED BY <1>4, <2>1, <3>1, <3>2 DEF counters
  <2>2. CASE v # w
    BY <1>3, <1>4, <2>2 DEF Samples, TracedSoFar, counters, StopsOnCancel, Held, Holding
  <2> QED BY <2>1, <2>2
<1>6. ToTrace'
  <2>1. \A u \in Tile : Tracing(u)' <=> Tracing(u)
    BY <1>4 DEF Tracing
  <2>2. Tracing(t)
    BY <1>4 DEF Tracing
  <2> QED BY <1>4, <2>1, <2>2 DEF Samples, ToTrace, counters
<1>7. Complete'
  BY <1>2, <1>4 DEF Samples, Complete, Started, Full, StopsOnCancel, counters
<1> QED BY <1>5, <1>6, <1>7 DEF Samples

(* A thread goes on to map, denoise or release the tile it holds. *)
LEMMA SamplesMoveOn ==
  ASSUME IInv, Counted, Samples, NEW w \in Worker,
         TraceEnd(w) \/ MapNeighborTiles(w) \/ UnmapNeighborTiles(w)
  PROVE  Samples'
<1> USE DEF IInv, TypeOK
<1>1. /\ UNCHANGED <<counters, tileState, buffers, acc, sPc, cancel, wTile, wTask>>
      /\ \A v \in Worker \ {w} : wPc'[v] = wPc[v] /\ wSample'[v] = wSample[v]
      /\ wPc[w] \in {"trace", "map", "denoise"}
      /\ wPc'[w] \in {"denoise", "release"}
      /\ wPc[w] = "trace" <=> TraceEnd(w)
  BY DEF TraceEnd, MapNeighborTiles, UnmapNeighborTiles, tileVars, sessionVars, history
<1>2. /\ wTask[w] = IF wPc[w] = "trace" THEN "PATH_TRACE" ELSE "DENOISE"
      /\ tileState[wTile[w]] = IF wPc[w] = "trace" THEN RENDER ELSE DENOISE
      /\ sPc = "render"
  BY <1>1, Rendering DEF Exclusive, HoldsItsTile, TaskMatchesState, Held, Holding
<1>3. TracedSoFar'
  <2> SUFFICES ASSUME NEW v \in Worker
               PROVE  /\ wPc'[v] = "trace" \/ (wPc'[v] = "release" /\ wTask'[v] = "PATH_TRACE") =>
                           /\ acc'[wTile'[v]] = wSample'[v] - RangeStart
                           /\ wSample'[v] <= sample' + passSamples'
                      /\ wPc'[v] = "release" /\ ~StopsOnCancel' => wSample'[v] = sample' + passSamples'
                      /\ wPc'[v] = "denoise" => wSample'[v] = sample' + passSamples'
    BY DEF TracedSoFar
  <2>1. CASE v = w /\ TraceEnd(w)
    <3>1. /\ wSample'[w] = wSample[w] /\ wPc'[w] = "release"
          /\ ~StopsOnCancel => ~(wSample[w] < sample + passSamples)
      BY <2>1 DEF TraceEnd, MoreSamples
    <3>2. /\ acc[wTile[w]] = wSample[w] - RangeStart
          /\ wSample[w] <= sample + passSamples
      BY <1>1, <2>1 DEF Samples, TracedSoFar
    <3>3. wSample[w] \in Int /\ sample + passSamples \in Int
      BY CounterFacts
    <3>4. ~StopsOnCancel => wSample[w] = sample + passSamples
      BY <3>1, <3>2, <3>3
    <3> QED BY <1>1, <2>1, <3>1, <3>2, <3>4 DEF counters, StopsOnCancel
  <2>2. CASE v = w /\ ~TraceEnd(w)
    <3>1. wTask[w] = "DENOISE" /\ wPc'[w] # "trace"
      BY <1>1, <1>2, <2>2
    <3>2. wSample'[w] = sample + passSamples
      BY <2>2 DEF MapNeighborTiles, UnmapNeighborTiles, Samples, TracedSoFar
    <3> QED BY <1>1, <2>2, <3>1, <3>2 DEF counters
  <2>3. CASE v # w
    BY <1>1, <2>3 DEF Samples, TracedSoFar, counters, StopsOnCancel
  <2> QED BY <2>1, <2>2, <2>3
<1>4. ToTrace'
  <2>1. \A u \in Tile : tileState[u] = RENDER /\ ~Tracing(u)' => ~Tracing(u)
    BY <1>1, <1>2 DEF Tracing, TraceEnd, RENDER, DENOISE
  <2> QED BY <1>1, <2>1 DEF Samples, ToTrace, counters
<1>5. Complete'
  BY <1>1 DEF Samples, Complete, Started, Full, StopsOnCancel, counters
<1> QED BY <1>3, <1>4, <1>5 DEF Samples

(* A tile is released with all its samples. *)
LEMMA SamplesRelease ==
  ASSUME IInv, Counted, Samples, NEW w \in Worker, ReleaseTile(w)
  PROVE  Samples'
<1> DEFINE t == wTile[w]
<1> USE DEF IInv, TypeOK
<1>1. /\ sPc = "render" /\ t \in Tile /\ t \in buffers
      /\ tileState[t] = IF wTask[w] = "DENOISE" THEN DENOISE ELSE RENDER
      /\ tileState'[t] # RENDER
      /\ \A u \in Tile \ {t} :
           /\ tileState'[u] = RENDER <=> tileState[u] = RENDER
           /\ tileState[u] = RENDER => (u \in buffers' <=> u \in buffers)
      /\ Progressive => UNCHANGED buffers
  BY ReleaseTable
<1>2. /\ UNCHANGED <<counters, sPc, cancel, wTask, wSample, acc>>
      /\ wPc[w] = "release" /\ wPc'[w] = "acquire"
      /\ \A v \in Worker \ {w} : wTile'[v] = wTile[v]
      /\ \A v \in Worker \ {w} : wPc[v] \in {"trace", "denoise", "release"} \/
                                 wPc'[v] \in {"trace", "denoise", "release"} => wPc'[v] = wPc[v]
  BY DEF ReleaseTile, Woken, sessionVars
<1>3. TracedSoFar'
  BY <1>2 DEF Samples, TracedSoFar, counters, StopsOnCancel
<1>4. ToTrace'
  <2>1. \A u \in Tile \ {t} : Tracing(u)' <=> Tracing(u)
    BY <1>2 DEF Tracing
  <2> QED BY <1>1, <1>2, <2>1 DEF Samples, ToTrace, counters
<1>5. tileState[t] = RENDER /\ ~StopsOnCancel => acc[t] = Full
  <2>1. wTask[w] \in {"PATH_TRACE", "DENOISE"}
    OBVIOUS
  <2>2. tileState[t] = RENDER => wTask[w] = "PATH_TRACE"
    BY <1>1, <2>1 DEF RENDER, DENOISE
  <2>3. wTask[w] = "PATH_TRACE" /\ ~StopsOnCancel =>
          acc[t] = wSample[w] - RangeStart /\ wSample[w] = sample + passSamples
    BY <1>2 DEF Samples, TracedSoFar
  <2> QED BY <2>2, <2>3, CounterFacts DEF Full
<1>6. Complete'
  <2> SUFFICES ASSUME Started, NEW u \in Tile, tileState'[u] # RENDER
               PROVE  /\ ~StopsOnCancel => acc[u] = Full
                      /\ Progressive => u \in buffers'
    BY <1>2 DEF Complete, Started, StopsOnCancel, Full, counters
  <2>1. CASE u = t
    BY <1>1, <1>5, <2>1 DEF Samples, Complete
  <2>2. CASE u # t
    BY <1>1, <2>2 DEF Samples, Complete
  <2> QED BY <2>1, <2>2
<1> QED BY <1>3, <1>4, <1>6 DEF Samples

(* Every step keeps what each tile's buffers hold: the samples of the
   passes before, and of this one once the tile was rendered in it. *)
LEMMA SamplesStep ==
  ASSUME IInv, Counted, Drained, Samples, [Next]_vars
  PROVE  Samples'
<1>1. CASE Advance
  BY <1>1, SamplesAdvance
<1>2. CASE StopLoop \/ AbandonPass \/ TaskWait \/ UpdateProgressiveRefine \/ Finish
  <2>1. /\ UNCHANGED <<counters, tileState, buffers, acc, cancel, workerVars>>
        /\ sPc \in {"next", "update", "render", "refine", "finish"}
        /\ sPc' \notin {"update", "render"}
    BY <1>2
       DEF StopLoop, AbandonPass, TaskWait, UpdateProgressiveRefine, Finish, tileVars, history
  <2> QED BY <2>1, SamplesKept DEF workerVars
<1>3. CASE Render
  <2>1. \A w \in Worker : wPc[w] = "idle" /\ wPc'[w] \in {"idle", "acquire"}
    BY <1>3 DEF Render, IInv, Passes
  <2> QED BY <1>3, <2>1, SamplesKept DEF Render, tileVars, history
<1>4. CASE Free
  <2>1. /\ \A w \in Worker : wPc'[w] = "idle"
        /\ sPc' = "freed"
    BY <1>4 DEF Free, workerVars, IInv, Passes
  <2> QED BY <2>1 DEF Samples, TracedSoFar, ToTrace, Complete, Started
<1>5. CASE SetCancel \/ UNCHANGED vars
  BY <1>5, SamplesKept DEF SetCancel, vars, tileVars, sessionVars, workerVars, history
<1>6. ASSUME NEW w \in Worker, Thread(w)
      PROVE  Samples'
  <2>1. CASE AcquireCancelled(w) \/ Acquire(w) \/ NextTileFails(w)
    <3>1. /\ wPc[w] \in {"acquire", "next_tile"}
          /\ wPc'[w] \in {"idle", "next_tile", "waiting"}
          /\ \A v \in Worker \ {w} : wPc'[v] = wPc[v]
          /\ UNCHANGED <<counters, tileState, buffers, acc, sPc, cancel, wTile, wTask, wSample>>
      BY <2>1
         DEF AcquireCancelled, Acquire, NextTileFails, tileVars, sessionVars, history,
             IInv, TypeOK
    <3> QED BY <3>1, SamplesKept
  <2>2. CASE TakeDenoisingTile(w) \/ TakeRenderTile(w)
    <3>1. /\ wPc[w] = "next_tile" /\ wPc'[w] = "allocate"
          /\ \A v \in Worker \ {w} : /\ wPc'[v] = wPc[v] /\ wTile'[v] = wTile[v]
                                     /\ wTask'[v] = wTask[v]
          /\ UNCHANGED <<counters, tileState, buffers, acc, sPc, cancel, wSample>>
      BY <2>2
         DEF TakeDenoisingTile, TakeRenderTile, HoldTile, sessionVars, history, IInv, TypeOK
    <3> QED BY <3>1, SamplesKept
  <2>3. CASE Allocate(w)
    BY <2>3, SamplesAllocate
  <2>4. CASE TraceSample(w)
    BY <2>4, SamplesTrace
  <2>5. CASE TraceEnd(w) \/ MapNeighborTiles(w) \/ UnmapNeighborTiles(w)
    BY <2>5, SamplesMoveOn
  <2>6. CASE ReleaseTile(w)
    BY <2>6, SamplesRelease
  <2> QED
    BY <1>6, <2>1, <2>2, <2>3, <2>4, <2>5, <2>6 DEF Thread
<1> QED
  BY <1>1, <1>2, <1>3, <1>4, <1>5, <1>6 DEF Next, Session, Terminated

-----------------------------------------------------------------------------
(* What was written                                                        *)

(* A sequence of the history to which one write is added. *)
LEMMA OneMore ==
  ASSUME NEW s \in Seq(Int), NEW n \in Int
  PROVE  /\ Append(s, n) # <<>>
         /\ s = <<>> => Len(Append(s, n)) = 1 /\ Append(s, n)[1] = n
<1>1. Len(Append(s, n)) = Len(s) + 1 /\ Append(s, n)[Len(s) + 1] = n /\ Len(s) \in Nat
  OBVIOUS
<1>2. Len(<<>>) = 0
  OBVIOUS
<1>3. Append(s, n) # <<>>
  BY <1>1, <1>2
<1> QED BY <1>1, <1>2, <1>3

(* In one pass, a tile that is still worked on was not written. *)
LEMMA NotYetWritten ==
  ASSUME DeliveredAtOnce, ~Progressive, NEW t \in Tile, tileState[t] \in {RENDER, DENOISE}
  PROVE  written[t] = <<>>
<1>1. tileState[t] \notin {DENOISED, DONE}
  BY DEF RENDER, DENOISE, DENOISED, DONE
<1>2. written[t] # <<>> => tileState[t] \in {DENOISED, DONE}
  BY DEF DeliveredAtOnce
<1> QED BY <1>1, <1>2

(* A step that neither moves a tile nor writes one, and takes no thread
   away from its tile, keeps what was written at once. *)
LEMMA OnceKept ==
  ASSUME IInv, DeliveredAtOnce, cancel => cancel',
         UNCHANGED <<counters, tileState, buffers, acc, written>>,
         sPc = "freed" => sPc' = "freed",
         \A w \in Worker : wPc[w] \in Holding \ {"allocate"} =>
           wPc'[w] \in Holding \ {"allocate"} /\ wTile'[w] = wTile[w]
  PROVE  DeliveredAtOnce'
BY DEF DeliveredAtOnce, Started, counters, IInv, TypeOK

(* The only pass begins before anything was written. *)
LEMMA OnceAdvance ==
  ASSUME IInv, Counted, DeliveredAtOnce, Advance, ~Progressive
  PROVE  DeliveredAtOnce'
<1>1. \A t \in Tile : written'[t] = <<>>
  <2>1. ~(sample >= RangeStart)
    BY AdvanceCounters, CounterFacts DEF IInv
  <2> QED BY <2>1 DEF DeliveredAtOnce, Advance, history
<1>2. SetTiles
  BY AdvanceCounters, CounterFacts DEF Advance, NextTiles, IInv, Counted
<1> QED BY <1>1, <1>2 DEF DeliveredAtOnce, SetTiles, RENDER, DENOISED, DONE

(* A tile gets its buffers when it is acquired, before anything of it is
   written. *)
LEMMA OnceAllocate ==
  ASSUME IInv, DeliveredAtOnce, NEW w \in Worker, Allocate(w)
  PROVE  DeliveredAtOnce'
<1> DEFINE t == wTile[w]
<1> USE DEF IInv, TypeOK
<1>1. t \in Tile /\ tileState[t] \in {RENDER, DENOISE}
  BY HeldNotDone DEF Allocate, Held, Holding
<1>2. /\ acc' = IF t \in buffers THEN acc ELSE [acc EXCEPT ![t] = 0]
      /\ buffers' = buffers \cup {t}
      /\ wPc'[w] \in Holding \ {"allocate"} /\ wTile'[w] = t
      /\ wPc[w] = "allocate"
      /\ \A v \in Worker \ {w} : wPc'[v] = wPc[v] /\ wTile'[v] = wTile[v]
      /\ UNCHANGED <<counters, tileState, cancel, sPc, written>>
  BY DEF Allocate, sessionVars, Holding
<1>3. \A u \in Tile : written[u] # <<>> /\ ~Progressive => acc'[u] = acc[u]
  BY <1>1, <1>2, NotYetWritten
<1>4. ~Progressive => \A u \in Tile : written[u] # <<>> =>
        /\ sample >= RangeStart
        /\ tileState[u] \in {DENOISED, DONE}
        /\ Len(written[u]) = 1
        /\ ~cancel \/ ~ScheduleDenoising => written[u][1] - RangeStart = acc'[u]
  BY <1>3 DEF DeliveredAtOnce
<1>5. ~Progressive /\ ~ScheduleDenoising => \A u \in buffers' : \E v \in Worker :
        wPc'[v] \in Holding \ {"allocate"} /\ wTile'[v] = u
  BY <1>2 DEF DeliveredAtOnce
<1> QED BY <1>2, <1>4, <1>5 DEF DeliveredAtOnce, Started, counters

(* A sample delivers nothing, and is traced only into tiles not yet written. *)
LEMMA OnceTrace ==
  ASSUME IInv, DeliveredAtOnce, NEW w \in Worker, TraceSample(w)
  PROVE  DeliveredAtOnce'
<1> DEFINE t == wTile[w]
<1> USE DEF IInv, TypeOK
<1>1. t \in Tile /\ tileState[t] \in {RENDER, DENOISE}
  BY HeldNotDone DEF TraceSample, Held, Holding
<1>2. /\ \A u \in Tile \ {t} : acc'[u] = acc[u]
      /\ UNCHANGED <<counters, tileState, buffers, cancel, sPc, written, wPc, wTile>>
  BY DEF TraceSample, sessionVars, tileVars
<1>3. \A u \in Tile : written[u] # <<>> /\ ~Progressive => acc'[u] = acc[u]
  BY <1>1, <1>2, NotYetWritten
<1> QED BY <1>2, <1>3 DEF DeliveredAtOnce, Started, counters

(* A tile is written with the samples it holds, by the thread that takes it*)
(* to the state from which it does not come back.                          *)
LEMMA OnceRelease ==
  ASSUME IInv, Counted, Samples, DeliveredAtOnce, NEW w \in Worker, ReleaseTile(w),
         ~Progressive
  PROVE  DeliveredAtOnce'
<1> DEFINE t == wTile[w]
<1> USE DEF IInv, TypeOK
<1>1. /\ sPc = "render" /\ t \in Tile
      /\ tileState[t] = IF wTask[w] = "DENOISE" THEN DENOISE ELSE RENDER
      /\ tileState'[t] \in {DENOISED, DONE} <=> WriteNow(t)
      /\ \A u \in Tile \ {t} :
           tileState'[u] \in {DENOISED, DONE} <=> tileState[u] \in {DENOISED, DONE}
      /\ ~ScheduleDenoising => buffers' = buffers \ {t}
  BY ReleaseTable
<1>2. /\ UNCHANGED <<counters, sPc, cancel, wTask, wSample, acc>>
      /\ wPc[w] = "release"
      /\ written' = IF WriteNow(t) THEN [written EXCEPT ![t] = Append(@, wSample[w])] ELSE written
      /\ \A v \in Worker \ {w} : /\ wTile'[v] = wTile[v]
                                 /\ wPc[v] \in Holding => wPc'[v] = wPc[v]
  BY RenderAssumption DEF ReleaseTile, Woken, Holding, sessionVars
<1>3. written[t] = <<>>
  BY <1>1, NotYetWritten
<1>4. WriteNow(t) => /\ written'[t] # <<>> /\ Len(written'[t]) = 1
                     /\ written'[t][1] = wSample[w]
  BY <1>1, <1>2, <1>3, OneMore
<1>5. ~cancel \/ ~ScheduleDenoising => wSample[w] - RangeStart = acc[t]
  <2>1. CASE tileState[t] = RENDER
    <3>1. wTask[w] = "PATH_TRACE"
      BY <1>1, <2>1 DEF RENDER, DENOISE
    <3> QED BY <1>2, <3>1 DEF Samples, TracedSoFar
  <2>2. CASE tileState[t] = DENOISE
    <3>1. ScheduleDenoising
      <4>1. tileState[t] \notin {RENDER, DONE}
        BY <2>2 DEF RENDER, DENOISE, DONE
      <4>2. ~needDenoise => tileState[t] \in {RENDER, DONE}
        BY <1>1 DEF Grid, PlainStates
      <4> QED BY <4>1, <4>2 DEF Passes
    <3>2. ~cancel => acc[t] = Full /\ wSample[w] = sample + passSamples
      BY <1>1, <1>2, <2>2
         DEF Samples, Complete, TracedSoFar, Started, StopsOnCancel, Counted, RENDER, DENOISE
    <3> QED BY <3>1, <3>2, CounterFacts DEF Full
  <2> QED BY <1>1, <2>1, <2>2
<1>6. \A u \in Tile : written'[u] # <<>> =>
        /\ sample >= RangeStart
        /\ tileState'[u] \in {DENOISED, DONE}
        /\ Len(written'[u]) = 1
        /\ ~cancel \/ ~ScheduleDenoising => written'[u][1] - RangeStart = acc[u]
  <2> SUFFICES ASSUME NEW u \in Tile, written'[u] # <<>>
               PROVE  /\ sample >= RangeStart
                      /\ tileState'[u] \in {DENOISED, DONE}
                      /\ Len(written'[u]) = 1
                      /\ ~cancel \/ ~ScheduleDenoising => written'[u][1] - RangeStart = acc[u]
    OBVIOUS
  <2>1. CASE u = t
    <3>1. WriteNow(t)
      BY <1>2, <1>3, <2>1
    <3> QED BY <1>1, <1>4, <1>5, <2>1, <3>1 DEF Counted
  <2>2. CASE u # t
    <3>1. written'[u] = written[u]
      BY <1>1, <1>2, <2>2
    <3> QED BY <1>1, <2>2, <3>1 DEF DeliveredAtOnce
  <2> QED BY <2>1, <2>2
<1>7. \A u \in Tile : tileState'[u] \in {DENOISED, DONE} => written'[u] # <<>>
  <2>1. \A u \in Tile \ {t} : written'[u] = written[u]
    BY <1>1, <1>2
  <2>2. Started
    BY <1>1 DEF Started, Counted
  <2> QED BY <1>1, <1>4, <2>1, <2>2 DEF DeliveredAtOnce
<1>8. ~ScheduleDenoising => \A u \in buffers' : \E v \in Worker :
        wPc'[v] \in Holding \ {"allocate"} /\ wTile'[v] = u
  <2> SUFFICES ASSUME ~ScheduleDenoising, NEW u \in buffers'
               PROVE  \E v \in Worker : wPc'[v] \in Holding \ {"allocate"} /\ wTile'[v] = u
    OBVIOUS
  <2>1. u # t /\ u \in buffers
    BY <1>1
  <2>2. PICK v \in Worker : wPc[v] \in Holding \ {"allocate"} /\ wTile[v] = u
    BY <2>1 DEF DeliveredAtOnce
  <2> QED BY <1>2, <2>1, <2>2
<1> QED BY <1>2, <1>6, <1>7, <1>8 DEF DeliveredAtOnce, counters

(* In a render of one pass every step keeps that a tile is written when its
   thread has finished it, once and not before. *)
LEMMA OnceStep ==
  ASSUME IInv, Counted, Samples, DeliveredAtOnce, [Next]_vars
  PROVE  DeliveredAtOnce'
<1> SUFFICES ASSUME ~Progressive PROVE DeliveredAtOnce'
  BY DEF DeliveredAtOnce
<1>1. CASE Advance
  BY <1>1, OnceAdvance
<1>2. CASE StopLoop \/ AbandonPass \/ TaskWait \/ UpdateProgressiveRefine \/ Finish
  <2>1. /\ UNCHANGED <<counters, tileState, buffers, acc, written, cancel, workerVars>>
        /\ sPc # "freed"
    BY <1>2, RenderAssumption
       DEF StopLoop, AbandonPass, TaskWait, UpdateProgressiveRefine, Finish, WriteTiles,
           tileVars, history
  <2> QED BY <2>1, OnceKept DEF workerVars
<1>3. CASE Render
  <2>1. \A w \in Worker : wPc[w] = "idle"
    BY <1>3 DEF Render, IInv, Passes
  <2> QED BY <1>3, <2>1, OnceKept DEF Render, tileVars, history, Holding
<1>4. CASE Free
  <2>1. ~ScheduleDenoising => buffers' = buffers
    BY <1>4 DEF Free, LeakedByDeviceFree
  <2>2. /\ sPc' = "freed" /\ UNCHANGED <<counters, written, acc, cancel, wPc, wTile>>
        /\ \A t \in Tile : tileState'[t] = DONE
    BY <1>4 DEF Free, workerVars, history
  <2> QED BY <2>1, <2>2 DEF DeliveredAtOnce, Started, counters
<1>5. CASE SetCancel \/ UNCHANGED vars
  BY <1>5, OnceKept DEF SetCancel, vars, tileVars, sessionVars, workerVars, history
<1>6. ASSUME NEW w \in Worker, Thread(w)
      PROVE  DeliveredAtOnce'
  <2>1. CASE AcquireCancelled(w) \/ Acquire(w) \/ NextTileFails(w)
             \/ TakeDenoisingTile(w) \/ TakeRenderTile(w)
    <3>1. /\ wPc[w] \in {"acquire", "next_tile"}
          /\ \A v \in Worker \ {w} : wPc'[v] = wPc[v] /\ wTile'[v] = wTile[v]
          /\ UNCHANGED <<counters, tileState, buffers, acc, written, sPc, cancel>>
      BY <2>1
         DEF AcquireCancelled, Acquire, NextTileFails, TakeDenoisingTile, TakeRenderTile,
             HoldTile, tileVars, sessionVars, history, IInv, TypeOK
    <3> QED BY <3>1, OnceKept DEF Holding
  <2>2. CASE TraceEnd(w) \/ MapNeighborTiles(w) \/ UnmapNeighborTiles(w)
    <3>1. /\ wPc'[w] \in {"denoise", "release"} /\ wTile' = wTile
          /\ \A v \in Worker \ {w} : wPc'[v] = wPc[v]
          /\ UNCHANGED <<counters, tileState, buffers, acc, written, sPc, cancel>>
      BY <2>2
         DEF TraceEnd, MapNeighborTiles, UnmapNeighborTiles, tileVars, sessionVars,
             history, IInv, TypeOK
    <3> QED BY <3>1, OnceKept DEF Holding
  <2>3. CASE Allocate(w)
    BY <2>3, OnceAllocate
  <2>4. CASE TraceSample(w)
    BY <2>4, OnceTrace
  <2>5. CASE ReleaseTile(w)
    BY <2>5, OnceRelease
  <2> QED
    BY <1>6, <2>1, <2>2, <2>3, <2>4, <2>5 DEF Thread
<1> QED
  BY <1>1, <1>2, <1>3, <1>4, <1>5, <1>6 DEF Next, Session, Terminated

(* The final write of a progressive render reaches every tile, once, with  *)
(* the samples of all passes.                                              *)
LEMMA FinalWrite ==
  ASSUME IInv, Counted, Drained, Samples, Progressive, WriteTiles(TRUE)
  PROVE  /\ \A t \in Tile : written[t] # <<>> => written'[t] # <<>>
         /\ ~cancel /\ (sPc \in {"refine", "finish"}) => \A t \in Tile :
              /\ written'[t] # <<>>
              /\ written[t] = <<>> => written'[t][1] - RangeStart = acc[t]
         /\ \A t \in Tile : written[t] = <<>> => Len(written'[t]) <= 1
<1> USE DEF IInv, TypeOK
<1>1. \A t \in Tile : written'[t] = IF t \in buffers THEN Append(written[t], sample + 1)
                                    ELSE written[t]
  BY RenderAssumption DEF WriteTiles, RefineWrites
<1>2. ASSUME NEW t \in Tile
      PROVE  /\ Append(written[t], sample + 1) # <<>>
             /\ written[t] = <<>> => /\ Len(Append(written[t], sample + 1)) = 1
                                     /\ Append(written[t], sample + 1)[1] = sample + 1
  <2>1. sample + 1 \in Int /\ written[t] \in Seq(Int)
    BY CounterFacts
  <2> QED BY <2>1, OneMore
<1>3. \A t \in Tile : written[t] # <<>> => written'[t] # <<>>
  BY <1>1, <1>2
<1>4. \A t \in Tile : written[t] = <<>> => Len(written'[t]) <= 1
  <2> SUFFICES ASSUME NEW t \in Tile, written[t] = <<>>
               PROVE  Len(written'[t]) <= 1
    OBVIOUS
  <2>1. Len(Append(written[t], sample + 1)) = 1
    BY <1>2
  <2>2. Len(written[t]) = 0
    OBVIOUS
  <2>3. written'[t] = Append(written[t], sample + 1) \/ written'[t] = written[t]
    BY <1>1
  <2>4. CASE written'[t] = Append(written[t], sample + 1)
    <3>1. Len(written'[t]) = 1
      BY <2>1, <2>4, Zenon
    <3> QED BY <3>1
  <2>5. CASE written'[t] = written[t]
    <3>1. Len(written'[t]) = 0
      BY <2>2, <2>5, Zenon
    <3> QED BY <3>1
  <2> QED BY <2>3, <2>4, <2>5
<1>5. ASSUME ~cancel, sPc \in {"refine", "finish"}, NEW t \in Tile
      PROVE  /\ written'[t] # <<>>
             /\ written[t] = <<>> => written'[t][1] - RangeStart = acc[t]
  <2>1. sample >= RangeStart
    BY <1>5, CounterFacts DEF Counted
  <2>2. Started /\ ~StopsOnCancel /\ tileState[t] # RENDER
    BY <1>5, <2>1
       DEF Started, StopsOnCancel, Drained, AllDone, HasTiles, RENDER, DONE
  <2>3. t \in buffers /\ acc[t] = Full
    BY <2>2 DEF Samples, Complete
  <2>4. Full = (sample + 1) - RangeStart
    BY <2>1, CounterFacts DEF Full, Counted
  <2>5. written'[t] = Append(written[t], sample + 1)
    BY <1>1, <2>3
  <2> QED BY <1>2, <2>3, <2>4, <2>5
<1> QED BY <1>3, <1>4, <1>5

(* While threads run, nothing of a progressive render is written.          *)
LEMMA EndKept ==
  ASSUME IInv, DeliveredAtEnd, UNCHANGED <<counters, written, tilesWritten>>,
         cancel => cancel',
         \/ sPc' = sPc /\ sPc = "render"
         \/ /\ UNCHANGED acc
            /\ sPc' = sPc \/ sPc' \notin {"end", "freed"}
            /\ sPc \notin {"end", "freed"} \/ sPc' = sPc
            /\ sPc' \in {"next", "finish"} \/ sPc' = sPc \/ sPc \notin {"next", "finish"}
                 \/ (~cancel /\ ~Done)
            /\ sPc' = "finish" => cancel \/ Done \/ sPc = "finish"
  PROVE  DeliveredAtEnd'
<1> SUFFICES ASSUME Progressive PROVE DeliveredAtEnd'
  BY DEF DeliveredAtEnd
<1>1. Done' <=> Done
  BY DEF Done, EndSample, counters
<1>2. ~cancel' /\ (tilesWritten' \/ sPc' \in {"end", "freed"}) =>
        \A t \in Tile : written'[t] # <<>>
  BY DEF DeliveredAtEnd
<1>3. ASSUME RangeFits
      PROVE  /\ sPc' \notin {"end", "freed"} /\ ~tilesWritten' => \A t \in Tile : written'[t] = <<>>
             /\ sPc' \notin {"end", "freed"} /\ tilesWritten' =>
                  sPc' \in {"next", "finish"} /\ (cancel' \/ Done')
             /\ \A t \in Tile : Len(written'[t]) <= 1
             /\ ~cancel' => \A t \in Tile :
                  written'[t] # <<>> => written'[t][1] - RangeStart = acc'[t]
  BY <1>1, <1>3 DEF DeliveredAtEnd
<1> QED BY <1>2, <1>3 DEF DeliveredAtEnd

(* In a progressive render every step keeps that no tile is written before
   the last pass is over, and that then all are. *)
LEMMA EndStep ==
  ASSUME IInv, Counted, Drained, Samples, DeliveredAtEnd, [Next]_vars
  PROVE  DeliveredAtEnd'
<1> SUFFICES ASSUME Progressive PROVE DeliveredAtEnd'
  BY DEF DeliveredAtEnd
<1>1. CASE Advance
  <2>1. /\ sPc = "next" /\ sPc' = "update" /\ ~cancel /\ ~Done
        /\ UNCHANGED <<written, acc, tilesWritten, cancel>>
    BY <1>1 DEF Advance, NextPass, history
  <2>2. RangeFits => ~tilesWritten /\ \A t \in Tile : written[t] = <<>>
    BY <2>1 DEF DeliveredAtEnd
  <2> QED BY <2>1, <2>2 DEF DeliveredAtEnd
<1>2. CASE StopLoop \/ AbandonPass \/ Render \/ TaskWait
  BY <1>2, EndKept DEF StopLoop, AbandonPass, Render, TaskWait, history
<1>3. CASE UpdateProgressiveRefine
  <2>1. /\ sPc = "refine" /\ sPc' = "next" /\ WriteTiles(cancel)
        /\ tilesWritten' = RefineWrites(cancel)
        /\ UNCHANGED <<counters, acc, cancel>>
    BY <1>3 DEF UpdateProgressiveRefine
  <2>2. RangeFits => ~tilesWritten /\ \A t \in Tile : written[t] = <<>>
    BY <2>1 DEF DeliveredAtEnd
  <2>3. CASE RefineWrites(cancel)
    <3>1. WriteTiles(TRUE)
      BY <2>1, <2>3 DEF WriteTiles, RefineWrites
    <3>2. RangeFits => cancel \/ Done
      <4> SUFFICES ASSUME RangeFits, sample + 1 = numSamples PROVE Done
        BY <2>3 DEF RefineWrites
      <4>1. passSamples = 1 /\ numSamples = NumSamples /\ divider = PixelSize
        BY <2>1, CounterFacts DEF Counted, IInv
      <4> QED BY <4>1, CounterAssumption, CounterFacts DEF Done, EndSample, RangeFits, IInv
    <3>3. Done' <=> Done
      BY <2>1 DEF Done, EndSample, counters
    <3> QED
      BY <2>1, <2>2, <2>3, <3>1, <3>2, <3>3, FinalWrite DEF DeliveredAtEnd
  <2>4. CASE ~RefineWrites(cancel)
    <3>1. written' = written
      BY <2>1, <2>4 DEF WriteTiles
    <3> QED BY <2>1, <2>2, <2>4, <3>1 DEF DeliveredAtEnd
  <2> QED BY <2>3, <2>4
<1>4. CASE Finish
  <2>1. /\ sPc = "finish" /\ sPc' = "end" /\ UNCHANGED <<counters, acc, cancel, tilesWritten>>
        /\ IF tilesWritten THEN UNCHANGED written ELSE WriteTiles(TRUE)
    BY <1>4 DEF Finish
  <2>2. CASE tilesWritten
    BY <2>1, <2>2 DEF DeliveredAtEnd
  <2>3. CASE ~tilesWritten
    <3>1. RangeFits => \A t \in Tile : written[t] = <<>>
      BY <2>1, <2>3 DEF DeliveredAtEnd
    <3> QED BY <2>1, <2>3, <3>1, FinalWrite DEF DeliveredAtEnd
  <2> QED BY <2>2, <2>3
<1>5. CASE Free
  BY <1>5 DEF Free, history, DeliveredAtEnd
<1>6. CASE SetCancel \/ UNCHANGED vars
  BY <1>6, EndKept DEF SetCancel, vars, sessionVars, history
<1>7. ASSUME NEW w \in Worker, Thread(w)
      PROVE  DeliveredAtEnd'
  <2>1. UNCHANGED <<counters, written, tilesWritten, cancel, sPc>>
    BY <1>7, RenderAssumption
       DEF Thread, AcquireCancelled, Acquire, TakeDenoisingTile, TakeRenderTile, HoldTile,
           NextTileFails, Allocate, TraceSample, TraceEnd, MapNeighborTiles,
           UnmapNeighborTiles, ReleaseTile, sessionVars, history
  <2>2. wPc[w] # "idle"
    BY <1>7
       DEF Thread, AcquireCancelled, Acquire, TakeDenoisingTile, TakeRenderTile,
           NextTileFails, Allocate, TraceSample, TraceEnd, MapNeighborTiles,
           UnmapNeighborTiles, ReleaseTile
  <2> QED BY <2>1, <2>2, EndKept, Rendering
<1> QED
  BY <1>1, <1>2, <1>3, <1>4, <1>5, <1>6, <1>7 DEF Next, Session, Terminated

(* device_free leaves no buffers: in the mode where it deletes none, every *)
(* tile's were deleted with the tile.                                      *)
LEMMA FreedStep ==
  ASSUME IInv, DeliveredAtOnce, FreedAll, [Next]_vars
  PROVE  FreedAll'
<1>1. CASE Free
  <2>1. \A w \in Worker : wPc[w] = "idle"
    BY <1>1 DEF Free, IInv, Passes
  <2>2. ~Progressive /\ ~ScheduleDenoising => buffers = {}
    BY <2>1 DEF DeliveredAtOnce, Holding
  <2> QED BY <1>1, <2>2 DEF Free, LeakedByDeviceFree, FreedAll
<1>2. CASE SetCancel \/ UNCHANGED vars
  BY <1>2 DEF SetCancel, vars, tileVars, sessionVars, FreedAll
<1>3. CASE Advance \/ StopLoop \/ AbandonPass \/ Render \/ TaskWait
           \/ UpdateProgressiveRefine \/ Finish
  BY <1>3
     DEF Advance, StopLoop, AbandonPass, Render, TaskWait, UpdateProgressiveRefine,
         Finish, FreedAll
<1>4. ASSUME NEW w \in Worker, Thread(w)
      PROVE  sPc' # "freed"
  <2>1. wPc[w] # "idle" /\ sPc' = sPc
    BY <1>4
       DEF Thread, AcquireCancelled, Acquire, TakeDenoisingTile, TakeRenderTile, HoldTile,
           NextTileFails, Allocate, TraceSample, TraceEnd, MapNeighborTiles,
           UnmapNeighborTiles, ReleaseTile, sessionVars
  <2> QED BY <2>1, Rendering
<1> QED
  BY <1>1, <1>2, <1>3, <1>4 DEF Next, Session, Terminated, FreedAll

(* Before the first pass there are no tiles, buffers or deliveries. *)
LEMMA InitDInv == Init => DInv
<1> SUFFICES ASSUME Init PROVE DInv
  OBVIOUS
<1> USE DEF Init, CountersReset, NoTiles
<1>1. Counted
  BY CounterAssumption, RenderAssumption DEF Counted, EndSample, RangeFits
<1>2. Drained
  BY DEF Drained, Covered, StopsLast, AllDone, HasTiles
<1>3. Samples
  <2>1. ~Started
    BY CounterAssumption DEF Started
  <2> QED BY <2>1 DEF Samples, TracedSoFar, ToTrace, Complete
<1>4. DeliveredAtOnce /\ DeliveredAtEnd /\ FreedAll
  <2>1. ~Started
    BY CounterAssumption DEF Started
  <2>2. Len(<<>>) = 0
    OBVIOUS
  <2> QED BY <2>1, <2>2 DEF DeliveredAtOnce, DeliveredAtEnd, FreedAll
<1> QED BY <1>1, <1>2, <1>3, <1>4 DEF DInv

(* The invariant holds in every reachable state. *)
THEOREM DeliveryInvariance == Spec => [](IInv /\ DInv)
<1>1. IInv /\ DInv /\ [Next]_vars => DInv'
  BY CountedStep, DrainedStep, SamplesStep, OnceStep, EndStep, FreedStep DEF DInv
<1> QED BY <1>1, InitDInv, InitIInv, NextIInv, PTL DEF Spec

-----------------------------------------------------------------------------
(* What this means for the caller                                          *)

(* gen_render_tiles finds empty queues and no tile under way: every thread *)
(* of an uncancelled pass goes on until its tiles are done.                *)
THEOREM PassesDrain == Spec => []QueuesDrained
<1>1. IInv /\ DInv => QueuesDrained
  <2> SUFFICES ASSUME IInv, DInv, sPc \in {"next", "refine"}, ~cancel
               PROVE  renderTiles = {} /\ denoisingTiles = {} /\ ~HasTiles
    BY DEF QueuesDrained
  <2>1. ~HasTiles
    BY DEF DInv, Drained, AllDone
  <2> QED
    BY <2>1
       DEF IInv, TypeOK, TilesTypeOK, Exclusive, QueuesMatchState, HasTiles, RENDER,
           DENOISE, DONE
<1> QED BY <1>1, DeliveryInvariance, PTL

(* A tile is denoised with neighbours that hold all the samples asked for, *)
(* in an uncancelled render.                                               *)
THEOREM CompleteInputs ==
  ASSUME Progressive => RangeFits
  PROVE  Spec => []DenoiseInputsComplete
<1>1. IInv /\ DInv => DenoiseInputsComplete
  <2> SUFFICES ASSUME IInv, DInv, NEW w \in Worker, wPc[w] = "denoise", ~cancel,
                      NEW n \in Neighbor[wTile[w]]
               PROVE  acc[n] = EffectiveSamples
    BY DEF DenoiseInputsComplete
  <2>1. wTile[w] \in Tile /\ tileState[wTile[w]] = DENOISE /\ sPc = "render"
    BY Rendering DEF IInv, Exclusive, HoldsItsTile, TaskMatchesState, Held, Holding
  <2>2. n \in Tile
    BY <2>1, TileAssumption
  <2>3. needDenoise
    BY <2>1 DEF IInv, Grid, PlainStates, RENDER, DENOISE, DONE
  <2>4. tileState[n] # RENDER
    BY <2>1, <2>2, <2>3, TileAssumption DEF IInv, Grid, NeighborsKeepUp, DENOISE, RENDER
  <2>5. Started /\ ~StopsOnCancel
    BY <2>1 DEF Started, StopsOnCancel, DInv, Counted
  <2>6. acc[n] = Full
    BY <2>2, <2>4, <2>5 DEF DInv, Samples, Complete
  <2>7. Full = EffectiveSamples
    <3> USE DEF IInv, DInv
    <3>1. Done /\ sample >= RangeStart
      BY <2>3, <2>5 DEF Passes, Started
    <3>2. CASE ~Progressive
      BY <3>1, <3>2, CounterFacts DEF Full
    <3>3. CASE Progressive
      <4>1. passSamples = 1 /\ sample < EndSample /\ sample + passSamples >= EndSample
        BY <3>1, <3>3, CounterFacts DEF Counted, Done
      <4>2. EndSample - RangeStart = EffectiveSamples
        BY CounterAssumption, CounterFacts DEF EndSample, EffectiveSamples
      <4> QED BY <4>1, <4>2, CounterFacts DEF Full
    <3> QED BY <3>2, <3>3
  <2> QED BY <2>6, <2>7
<1> QED BY <1>1, DeliveryInvariance, PTL

(* Nobody receives a tile twice, in release_tile or in                     *)
(* update_progressive_refine.                                              *)
THEOREM DeliveredOnce ==
  ASSUME Progressive => RangeFits
  PROVE  Spec => []WrittenOnce
<1>1. IInv /\ DInv => WrittenOnce
  <2> SUFFICES ASSUME IInv, DInv, NEW t \in Tile PROVE Len(written[t]) <= 1
    BY DEF WrittenOnce
  <2>1. CASE Progressive
    BY <2>1 DEF DInv, DeliveredAtEnd
  <2>2. CASE ~Progressive
    <3>1. CASE written[t] # <<>>
      <4>1. Len(written[t]) = 1
        BY <2>2, <3>1 DEF DInv, DeliveredAtOnce
      <4> QED BY <4>1
    <3>2. CASE written[t] = <<>>
      <4>1. Len(written[t]) = 0
        BY <3>2
      <4> QED BY <4>1
    <3> QED BY <3>1, <3>2
  <2> QED BY <2>1, <2>2
<1> QED BY <1>1, DeliveryInvariance, PTL

(* The number of samples a tile is written with is what its buffers hold,  *)
(* in an uncancelled render.                                               *)
THEOREM SamplesMatch ==
  ASSUME Progressive => RangeFits
  PROVE  Spec => []WrittenSamplesMatch
<1>1. IInv /\ DInv => WrittenSamplesMatch
  <2> SUFFICES ASSUME IInv, DInv, ~cancel, NEW t \in Tile, NEW i \in DOMAIN written[t]
               PROVE  written[t][i] - RangeStart = acc[t]
    BY DEF WrittenSamplesMatch
  <2>1. written[t] \in Seq(Int) /\ i \in 1 .. Len(written[t])
    BY DEF IInv, TypeOK
  <2>2. written[t] # <<>>
    BY <2>1
  <2>3. Len(written[t]) <= 1 /\ written[t][1] - RangeStart = acc[t]
    <3>1. CASE Progressive
      BY <2>2, <3>1 DEF DInv, DeliveredAtEnd
    <3>2. CASE ~Progressive
      <4>1. Len(written[t]) = 1 /\ written[t][1] - RangeStart = acc[t]
        BY <2>2, <3>2 DEF DInv, DeliveredAtOnce
      <4> QED BY <4>1
    <3> QED BY <3>1, <3>2
  <2>4. i = 1
    BY <2>1, <2>3
  <2> QED BY <2>3, <2>4
<1> QED BY <1>1, DeliveryInvariance, PTL

(* ... and in a cancelled one, when no tile is written by another thread   *)
(* than the one that path traced it.                                       *)
THEOREM SamplesMatchOnCancel ==
  ASSUME ~Progressive, ~ScheduleDenoising
  PROVE  Spec => []WrittenSamplesMatchOnCancel
<1>1. IInv /\ DInv => WrittenSamplesMatchOnCancel
  <2> SUFFICES ASSUME IInv, DInv, NEW t \in Tile, NEW i \in DOMAIN written[t]
               PROVE  written[t][i] - RangeStart = acc[t]
    BY DEF WrittenSamplesMatchOnCancel
  <2>1. written[t] \in Seq(Int) /\ i \in 1 .. Len(written[t])
    BY DEF IInv, TypeOK
  <2>2. written[t] # <<>>
    BY <2>1
  <2>3. Len(written[t]) = 1 /\ written[t][1] - RangeStart = acc[t]
    BY <2>2 DEF DInv, DeliveredAtOnce
  <2>4. i = 1
    BY <2>1, <2>3
  <2> QED BY <2>3, <2>4
<1> QED BY <1>1, DeliveryInvariance, PTL

(* The tiles that were written. *)
Delivered == {t \in Tile : written[t] # <<>>}

(* An uncancelled render ends with every tile delivered. *)
LEMMA AllDelivered ==
  ASSUME IInv, DInv, sPc = "end", ~cancel
  PROVE  Delivered = Tile
<1>1. CASE Progressive
  BY <1>1 DEF DInv, DeliveredAtEnd, Delivered
<1>2. CASE ~Progressive
  <2>1. Started
    BY CounterFacts DEF DInv, Counted, Started, IInv
  <2>2. \A t \in Tile : tileState[t] = DONE
    BY DEF DInv, Drained, AllDone, HasTiles
  <2> QED BY <1>2, <2>1, <2>2 DEF DInv, DeliveredAtOnce, Delivered
<1> QED BY <1>1, <1>2

(* A render that ends without a cancel has written every tile, no buffers  *)
(* are deleted before they are written, and none are left when the session *)
(* is freed.                                                               *)
THEOREM NoneLost == Spec => []NothingLost
<1>1. IInv /\ DInv => NothingLost
  <2> SUFFICES ASSUME IInv, DInv
               PROVE  /\ sPc = "end" /\ ~cancel => \A t \in Tile : written[t] # <<>>
                      /\ sPc = "freed" => buffers = {}
                      /\ \A t \in Tile : tileState[t] = DONE /\ sPc \in {"render", "refine"}
                                         /\ t \notin buffers => written[t] # <<>>
    BY DEF NothingLost
  <2>1. sPc = "freed" => buffers = {}
    BY DEF DInv, FreedAll
  <2>2. ASSUME NEW t \in Tile, tileState[t] = DONE, sPc \in {"render", "refine"}, t \notin buffers
        PROVE  written[t] # <<>>
    <3>1. Started
      BY <2>2 DEF Started, DInv, Counted
    <3>2. ~Progressive
      BY <2>2, <3>1 DEF DInv, Samples, Complete, RENDER, DONE
    <3> QED BY <2>2, <3>1, <3>2 DEF DInv, DeliveredAtOnce
  <2>3. sPc = "end" /\ ~cancel => \A t \in Tile : written[t] # <<>>
    BY AllDelivered DEF Delivered
  <2> QED BY <2>1, <2>2, <2>3
<1> QED BY <1>1, DeliveryInvariance, PTL

-----------------------------------------------------------------------------
(* The render keeps the promise of FinalRender                             *)

(* A step that takes nothing back delivers some tiles or none. *)
LEMMA StepDelivers ==
  ASSUME Delivered \subseteq Delivered', sPc # "freed", sPc' # "freed", cancel' = cancel
  PROVE  [Job!JobNext]_Job!jobVars
<1>1. CASE Delivered' = Delivered
  BY <1>1 DEF Job!jobVars, Delivered
<1>2. CASE Delivered' # Delivered
  <2> DEFINE S == Delivered' \ Delivered
  <2>1. /\ S \in SUBSET (Tile \ Delivered) /\ S # {}
        /\ Delivered' = Delivered \cup S
    BY <1>2 DEF Delivered
  <2> HIDE DEF S
  <2>2. Job!Deliver
    BY <2>1 DEF Job!Deliver, Delivered
  <2> QED BY <2>2 DEF Job!JobNext
<1> QED BY <1>1, <1>2

(* No write is ever taken back. *)
LEMMA WritesStay ==
  ASSUME IInv, [Next]_vars
  PROVE  Delivered \subseteq Delivered'
<1> USE DEF IInv, TypeOK
<1>1. ASSUME NEW c, WriteTiles(c)
      PROVE  Delivered \subseteq Delivered'
  <2> SUFFICES ASSUME NEW t \in Tile, written[t] # <<>> PROVE written'[t] # <<>>
    BY DEF Delivered
  <2>1. Append(written[t], sample + 1) # <<>>
    BY OneMore DEF CountersTypeOK
  <2> QED BY <1>1, <2>1 DEF WriteTiles
<1>2. CASE UNCHANGED written
  BY <1>2 DEF Delivered
<1>3. CASE UpdateProgressiveRefine \/ Finish
  BY <1>1, <1>2, <1>3 DEF UpdateProgressiveRefine, Finish
<1>4. ASSUME NEW w \in Worker, ReleaseTile(w)
      PROVE  Delivered \subseteq Delivered'
  <2> SUFFICES ASSUME NEW t \in Tile, written[t] # <<>> PROVE written'[t] # <<>>
    BY DEF Delivered
  <2>1. Append(written[t], wSample[w]) # <<>>
    BY OneMore
  <2> QED BY <1>4, <2>1 DEF ReleaseTile
<1>5. CASE Advance \/ StopLoop \/ AbandonPass \/ Render \/ TaskWait \/ Free \/ SetCancel
           \/ UNCHANGED vars
  BY <1>2, <1>5
     DEF Advance, StopLoop, AbandonPass, Render, TaskWait, Free, SetCancel, vars, history
<1>6. ASSUME NEW w \in Worker, Thread(w), ~ReleaseTile(w)
      PROVE  UNCHANGED written
  BY <1>6
     DEF Thread, AcquireCancelled, Acquire, TakeDenoisingTile, TakeRenderTile, HoldTile,
         NextTileFails, Allocate, TraceSample, TraceEnd, MapNeighborTiles,
         UnmapNeighborTiles, history
<1> QED
  BY <1>2, <1>3, <1>4, <1>5, <1>6 DEF Next, Session, Terminated

(* Whatever the devices and threads, the render is one that FinalRender    *)
(* describes: each write delivers tiles, a cancel is a cancel, and it ends *)
(* only cancelled or complete.                                             *)
THEOREM RendersTheJob == Spec => ImplementsFinalRender
<1>1. Init => Job!JobInit
  BY DEF Init, Job!JobInit
<1>2. IInv /\ DInv /\ [Next]_vars => [Job!JobNext]_Job!jobVars
  <2> SUFFICES ASSUME IInv, DInv, [Next]_vars PROVE [Job!JobNext]_Job!jobVars
    OBVIOUS
  <2>1. CASE SetCancel
    <3>1. Job!Cancel
      BY <2>1 DEF SetCancel, Job!Cancel, sessionVars, history
    <3> QED BY <3>1 DEF Job!JobNext
  <2>2. CASE Free
    <3>1. cancel \/ Delivered = Tile
      BY <2>2, AllDelivered DEF Free
    <3>2. Job!End
      BY <2>2, <3>1 DEF Free, Job!End, history, Delivered
    <3> QED BY <3>2 DEF Job!JobNext
  <2>3. CASE UNCHANGED vars
    BY <2>3 DEF vars, history, sessionVars, Job!jobVars
  <2>4. CASE Advance \/ StopLoop \/ AbandonPass \/ Render \/ TaskWait
             \/ UpdateProgressiveRefine \/ Finish
    <3>1. sPc # "freed" /\ sPc' # "freed" /\ cancel' = cancel
      BY <2>4
         DEF Advance, StopLoop, AbandonPass, Render, TaskWait, UpdateProgressiveRefine, Finish
    <3> QED BY <3>1, WritesStay, StepDelivers
  <2>5. ASSUME NEW w \in Worker, Thread(w)
        PROVE  [Job!JobNext]_Job!jobVars
    <3>1. wPc[w] # "idle" /\ sPc' = sPc /\ cancel' = cancel
      BY <2>5
         DEF Thread, AcquireCancelled, Acquire, TakeDenoisingTile, TakeRenderTile, HoldTile,
             NextTileFails, Allocate, TraceSample, TraceEnd, MapNeighborTiles,
             UnmapNeighborTiles, ReleaseTile, sessionVars
    <3> QED BY <3>1, Rendering, WritesStay, StepDelivers
  <2> QED
    BY <2>1, <2>2, <2>3, <2>4, <2>5 DEF Next, Session, Terminated
<1> QED
  BY <1>1, <1>2, DeliveryInvariance, PTL DEF Spec, ImplementsFinalRender, Job!JobSpec
=============================================================================
