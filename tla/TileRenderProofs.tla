-------------------------- MODULE TileRenderProofs ---------------------------
(***************************************************************************)
(* What TileRender guarantees for every grid of tiles, every number of     *)
(* devices and threads, and every sample count: the tiles a thread works   *)
(* on, and the buffers it reads, are its own or stay put.                  *)
(*                                                                         *)
(* The tile table decides everything, so the inductive invariant ties the  *)
(* threads and the queues to it (Exclusive) and says what the state of a   *)
(* tile implies about its neighbours and its buffers (Grid).  Grid holds   *)
(* across passes because a pass that denoises is the last one (Passes).    *)
(***************************************************************************)
EXTENDS TileRender, TLAPS

(* A thread holds a tile exactly between acquire and release, alone, and   *)
(* does to it what the table says; queued tiles are waiting for just that. *)
HoldsItsTile ==
  \A w \in Worker :
    /\ Held(w) <=> wTile[w] \in Tile
    /\ wPc[w] = "trace" => wTask[w] = "PATH_TRACE"
    /\ wPc[w] \in {"map", "denoise"} => wTask[w] = "DENOISE"

QueuesMatchState == sPc # "freed" =>
  /\ \A t \in renderTiles : tileState[t] = RENDER
  /\ \A t \in denoisingTiles : tileState[t] = DENOISE

Exclusive ==
  /\ HoldsItsTile
  /\ QueuesMatchState
  /\ TileHeldOnce
  /\ TaskMatchesState

(* In a pass that denoises, a tile goes ahead only with its neighbours. *)
NeighborsKeepUp ==
  needDenoise => \A t \in Tile : \A n \in Neighbor[t] :
    /\ tileState[t] \in {DENOISE, DENOISED} => tileState[n] # RENDER
    /\ tileState[t] = DONE => tileState[n] \in {DENOISED, DONE}

(* Without denoising there are two states only. *)
PlainStates ==
  ~ needDenoise => \A t \in Tile : tileState[t] \in {RENDER, DONE}

(* A tile between rendering and DONE owns buffers, and so does one that is *)
(* being worked on once they are allocated.                                *)
BuffersKept ==
  /\ \A t \in Tile : tileState[t] \in {RENDERED, DENOISE, DENOISED} => t \in buffers
  /\ \A w \in Worker : wPc[w] \in Holding \ {"allocate"} => wTile[w] \in buffers

Grid == NeighborsKeepUp /\ PlainStates /\ BuffersKept

(* Only the last pass denoises, and a new pass starts with idle threads. *)
Passes ==
  /\ needDenoise => ScheduleDenoising /\ Done
  /\ sPc # "render" => \A w \in Worker : wPc[w] = "idle"
  /\ sPc = "update" => ~needDenoise /\ \A t \in Tile : tileState[t] = RENDER

IInv == TypeOK /\ Exclusive /\ Grid /\ Passes

-----------------------------------------------------------------------------
(* The counters and the tiles after a new pass was begun. *)
LEMMA AdvanceTypes ==
  ASSUME TypeOK, Advance
  PROVE  CountersTypeOK' /\ TilesTypeOK'
<1>1. sample + 1 \in Nat /\ Finer(divider) \in Nat \ {0} /\ EffectiveSamples \in Nat
  BY CounterAssumption DEF TypeOK, CountersTypeOK, Finer, EffectiveSamples
<1>2. CountersTypeOK'
  <2>1. numSamples' \in Nat
    BY DEF Advance, NextPass, TypeOK, CountersTypeOK
  <2>2. CASE NextPreview
    BY <1>1, <2>1, <2>2 DEF NextPreview, CountersTypeOK
  <2>3. CASE NextSample
    BY <1>1, <2>1, <2>3, CounterAssumption DEF NextSample, CountersTypeOK
  <2> QED BY <2>2, <2>3 DEF Advance, NextPass
<1>3. TilesTypeOK'
  BY DEF Advance, NextTiles, SetTiles, GenRenderTiles, TypeOK, TilesTypeOK,
         RENDER, DONE
<1> QED BY <1>2, <1>3

(* finish_tile keeps the table well-typed. *)
LEMMA FinishTileTypes ==
  ASSUME TypeOK, NEW t \in Tile, FinishTile(t)
  PROVE  TilesTypeOK'
<1> USE DEF TypeOK, TilesTypeOK, RENDER, RENDERED, DENOISE, DENOISED, DONE
<1>1. CASE FinishRendered(t)
  BY <1>1, TileAssumption DEF FinishRendered
<1>2. CASE FinishUndenoised(t)
  BY <1>2 DEF FinishUndenoised
<1>3. CASE FinishDenoised(t)
  BY <1>3 DEF FinishDenoised
<1>4. CASE UNCHANGED tileVars
  BY <1>4 DEF tileVars
<1> QED
  BY <1>1, <1>2, <1>3, <1>4 DEF FinishTile

(* next_tile hands out queued tiles only. *)
LEMMA FrontQueued ==
  ASSUME NEW Q, NEW d
  PROVE  Front(Q, d) \subseteq Q
BY DEF Front

(* Every step keeps the types. *)
LEMMA TypeStep ==
  ASSUME TypeOK, HoldsItsTile, [Next]_vars
  PROVE  TypeOK'
<1> USE DEF TypeOK, SessionPc, WorkerPc
<1>1. CASE Advance
  BY <1>1, AdvanceTypes DEF Advance, workerVars, history
<1>2. CASE StopLoop
  BY <1>2 DEF StopLoop, counters, tileVars, workerVars, history, CountersTypeOK, TilesTypeOK
<1>3. CASE AbandonPass
  BY <1>3 DEF AbandonPass, counters, tileVars, workerVars, history, CountersTypeOK, TilesTypeOK
<1>4. CASE Render
  BY <1>4, RenderAssumption
     DEF Render, DenoiseThisPass, counters, tileVars, history, CountersTypeOK, TilesTypeOK
<1>5. CASE TaskWait
  BY <1>5 DEF TaskWait, counters, tileVars, workerVars, history, CountersTypeOK, TilesTypeOK
<1>6. ASSUME NEW c \in BOOLEAN, WriteTiles(c)
      PROVE  written' \in [Tile -> Seq(Int)]
  BY <1>6 DEF WriteTiles, CountersTypeOK
<1>7. CASE UpdateProgressiveRefine
  <2>1. written' \in [Tile -> Seq(Int)]
    BY <1>6, <1>7 DEF UpdateProgressiveRefine
  <2> QED
    BY <1>7, <2>1
       DEF UpdateProgressiveRefine, RefineWrites, counters, tileVars, workerVars,
           CountersTypeOK, TilesTypeOK
<1>8. CASE Finish
  <2>1. written' \in [Tile -> Seq(Int)]
    BY <1>6, <1>8 DEF Finish
  <2> QED
    BY <1>8, <2>1
       DEF Finish, counters, tileVars, workerVars, CountersTypeOK, TilesTypeOK
<1>9. CASE Free
  BY <1>9
     DEF Free, LeakedByDeviceFree, counters, tileVars, workerVars, history,
         CountersTypeOK, TilesTypeOK, RENDER, DONE
<1>10. CASE SetCancel
  BY <1>10 DEF SetCancel, sessionVars, counters, tileVars, workerVars, history,
               CountersTypeOK, TilesTypeOK
<1>11. ASSUME NEW w \in Worker, Thread(w)
       PROVE  TypeOK'
  <2>1. CASE AcquireCancelled(w) \/ Acquire(w) \/ NextTileFails(w) \/ TraceEnd(w)
             \/ UnmapNeighborTiles(w)
    BY <2>1
       DEF AcquireCancelled, Acquire, NextTileFails, TraceEnd, UnmapNeighborTiles,
           counters, tileVars, sessionVars, history, CountersTypeOK, TilesTypeOK
  <2>2. CASE TakeDenoisingTile(w) \/ TakeRenderTile(w)
    <3>1. PICK t \in Tile : HoldTile(w, t)
      BY <2>2, FrontQueued
         DEF TakeDenoisingTile, TakeRenderTile, DenoiseChoices, RenderChoices, TilesTypeOK
    <3>2. renderTiles' \in SUBSET Tile /\ denoisingTiles' \in SUBSET Tile
      BY <2>2 DEF TakeDenoisingTile, TakeRenderTile, TilesTypeOK
    <3> QED
      BY <3>1, <3>2
         DEF HoldTile, counters, sessionVars, history, CountersTypeOK, TilesTypeOK
  <2>3. CASE Allocate(w)
    <3>1. wTile[w] \in Tile
      BY <2>3 DEF Allocate, HoldsItsTile, Held, Holding
    <3>2. acc' \in [Tile -> Nat] /\ buffers' \in SUBSET Tile
      BY <2>3, <3>1 DEF Allocate, TilesTypeOK
    <3>3. wSample' \in [Worker -> Int]
      BY <2>3 DEF Allocate, CountersTypeOK
    <3>4. wPc' \in [Worker -> WorkerPc]
      BY <2>3 DEF Allocate
    <3> QED
      BY <2>3, <3>2, <3>3, <3>4
         DEF Allocate, counters, sessionVars, CountersTypeOK, TilesTypeOK
  <2>4. CASE TraceSample(w)
    <3>1. wTile[w] \in Tile
      BY <2>4 DEF TraceSample, HoldsItsTile, Held, Holding
    <3> QED
      BY <2>4, <3>1
         DEF TraceSample, counters, tileVars, sessionVars, CountersTypeOK, TilesTypeOK
  <2>5. CASE MapNeighborTiles(w)
    BY <2>5
       DEF MapNeighborTiles, counters, tileVars, sessionVars, history,
           CountersTypeOK, TilesTypeOK
  <2>6. CASE ReleaseTile(w)
    <3>1. wTile[w] \in Tile
      BY <2>6 DEF ReleaseTile, HoldsItsTile, Held, Holding
    <3>2. TilesTypeOK'
      BY <2>6, <3>1, FinishTileTypes DEF ReleaseTile
    <3>3. wPc' \in [Worker -> WorkerPc]
      BY <2>6 DEF ReleaseTile, Woken
    <3>4. written' \in [Tile -> Seq(Int)]
      BY <2>6, <3>1 DEF ReleaseTile
    <3> QED
      BY <2>6, <3>2, <3>3, <3>4
         DEF ReleaseTile, counters, sessionVars, CountersTypeOK
  <2> QED
    BY <1>11, <2>1, <2>2, <2>3, <2>4, <2>5, <2>6 DEF Thread
<1>12. CASE UNCHANGED vars
  BY <1>12 DEF vars, counters, tileVars, sessionVars, workerVars, history,
               CountersTypeOK, TilesTypeOK
<1> QED
  BY <1>1, <1>2, <1>3, <1>4, <1>5, <1>7, <1>8, <1>9, <1>10, <1>11, <1>12
     DEF Next, Session, Terminated
-----------------------------------------------------------------------------
(* A step of the session thread that starts no pass and frees nothing. *)
LEMMA QuietStep ==
  ASSUME IInv, sPc # "freed", sPc' # "update",
         sPc # "render" \/ sPc' = "render" \/ \A w \in Worker : wPc[w] = "idle",
         UNCHANGED <<counters, tileVars, needDenoise, wPc, wTile, wTask>>
  PROVE  Exclusive' /\ Grid' /\ Passes'
<1> USE DEF IInv, counters, tileVars
<1>1. Exclusive'
  BY DEF Exclusive, HoldsItsTile, QueuesMatchState, TileHeldOnce, TaskMatchesState, Held
<1>2. Grid'
  BY DEF Grid, NeighborsKeepUp, PlainStates, BuffersKept
<1>3. Passes'
  BY DEF Passes, Done, EndSample
<1> QED BY <1>1, <1>2, <1>3

(* While the session thread is not waiting for its task, no thread holds a *)
(* tile.                                                                   *)
LEMMA NobodyHolds ==
  ASSUME IInv, sPc # "render", NEW w \in Worker
  PROVE  ~Held(w) /\ wTile[w] \notin Tile
BY DEF IInv, Passes, Exclusive, HoldsItsTile, Held, Holding

(* A new pass: every tile is to be rendered again, none is queued for      *)
(* denoising.                                                              *)
LEMMA AdvanceStep ==
  ASSUME IInv, Advance
  PROVE  Exclusive' /\ Grid' /\ Passes'
<1>1. ~Done /\ ~needDenoise /\ needDenoise' = needDenoise
  BY DEF IInv, Passes, Advance, NextPass
<1>2. /\ \A t \in Tile : tileState'[t] = RENDER
      /\ renderTiles' \in SUBSET Tile
  BY DEF Advance, NextTiles, SetTiles, GenRenderTiles, IInv, TypeOK, TilesTypeOK
<1>3. denoisingTiles = {}
  BY <1>1
     DEF Advance, IInv, TypeOK, TilesTypeOK, Exclusive, QueuesMatchState, Grid,
         PlainStates, RENDER, DENOISE, DONE
<1>4. denoisingTiles' = {}
  BY <1>3 DEF Advance, NextTiles, SetTiles, GenRenderTiles
<1>5. /\ \A w \in Worker : wPc[w] = "idle" /\ ~Held(w) /\ wTile[w] \notin Tile
      /\ UNCHANGED <<wPc, wTile, wTask>>
  BY NobodyHolds DEF Advance, workerVars, IInv, Passes
<1>6. Exclusive'
  BY <1>2, <1>4, <1>5
     DEF Exclusive, HoldsItsTile, QueuesMatchState, TileHeldOnce, TaskMatchesState,
         Held, Holding
<1>7. Grid'
  BY <1>1, <1>2, <1>5
     DEF Grid, NeighborsKeepUp, PlainStates, BuffersKept, RENDER, RENDERED, DENOISE,
         DENOISED, DONE, Holding
<1>8. Passes'
  BY <1>1, <1>2, <1>5 DEF Passes, Advance
<1> QED BY <1>6, <1>7, <1>8

(* The threads are started on tiles that are all to be rendered. *)
LEMMA RenderStep ==
  ASSUME IInv, Render
  PROVE  Exclusive' /\ Grid' /\ Passes'
<1>1. /\ \A w \in Worker : ~Held(w) /\ wTile[w] \notin Tile
      /\ \A w \in Worker : wPc'[w] \in {"idle", "acquire"}
      /\ UNCHANGED <<tileState, buffers, renderTiles, denoisingTiles, wTile, wTask>>
  BY NobodyHolds DEF Render, tileVars
<1>2. \A t \in Tile : tileState[t] = RENDER
  BY DEF IInv, Passes, Render
<1>3. Exclusive'
  BY <1>1, <1>2
     DEF IInv, Exclusive, HoldsItsTile, QueuesMatchState, TileHeldOnce,
         TaskMatchesState, Held, Holding, Render
<1>4. Grid'
  BY <1>1, <1>2, TileAssumption
     DEF Grid, NeighborsKeepUp, PlainStates, BuffersKept, Holding, RENDER,
         RENDERED, DENOISE, DENOISED, DONE
<1>5. Passes'
  BY RenderAssumption
     DEF Render, Passes, DenoiseThisPass, Done, EndSample, counters
<1> QED BY <1>3, <1>4, <1>5

(* The table is cleared. *)
LEMMA FreeStep ==
  ASSUME IInv, Free
  PROVE  Exclusive' /\ Grid' /\ Passes'
<1>1. /\ \A w \in Worker : wPc[w] = "idle" /\ ~Held(w) /\ wTile[w] \notin Tile
      /\ UNCHANGED <<wPc, wTile, wTask>>
  BY NobodyHolds DEF Free, workerVars, IInv, Passes
<1>2. Exclusive'
  BY <1>1
     DEF Exclusive, HoldsItsTile, QueuesMatchState, TileHeldOnce, TaskMatchesState,
         Held, Holding, Free
<1>3. Grid'
  BY <1>1, TileAssumption
     DEF Free, Grid, NeighborsKeepUp, PlainStates, BuffersKept, Holding, RENDER,
         RENDERED, DENOISE, DENOISED, DONE
<1>4. Passes'
  BY <1>1 DEF IInv, Free, Passes, Done, EndSample, counters
<1> QED BY <1>2, <1>3, <1>4
-----------------------------------------------------------------------------
(* A thread that runs was given a task, so the session thread waits for it. *)
LEMMA Rendering ==
  ASSUME IInv, NEW w \in Worker, wPc[w] # "idle"
  PROVE  sPc = "render"
BY DEF IInv, Passes

(* A step of a thread that only moves on, to a place where it holds a tile *)
(* exactly if it did before.                                               *)
LEMMA MoveOnStep ==
  ASSUME IInv, NEW w \in Worker, wPc[w] # "idle", NEW pc \in WorkerPc,
         wPc' = [wPc EXCEPT ![w] = pc],
         pc \in Holding <=> Held(w),
         pc = "trace" => wTask[w] = "PATH_TRACE",
         pc \in {"map", "denoise"} => wTask[w] = "DENOISE",
         pc \in Holding => wTile[w] \in buffers',
         buffers \subseteq buffers',
         UNCHANGED <<counters, tileState, renderTiles, denoisingTiles, sPc,
                     needDenoise, wTile, wTask>>
  PROVE  Exclusive' /\ Grid' /\ Passes'
<1> USE DEF IInv, TypeOK
<1>1. sPc = "render"
  BY Rendering
<1>2. \A v \in Worker : Held(v)' <=> Held(v)
  BY DEF Held
<1>3. HoldsItsTile'
  BY <1>2 DEF Exclusive, HoldsItsTile
<1>4. QueuesMatchState' /\ TileHeldOnce' /\ TaskMatchesState'
  BY <1>2 DEF Exclusive, QueuesMatchState, TileHeldOnce, TaskMatchesState
<1>5. NeighborsKeepUp' /\ PlainStates'
  BY DEF Grid, NeighborsKeepUp, PlainStates
<1>6. BuffersKept'
  BY DEF Grid, BuffersKept
<1>7. Passes'
  BY <1>1 DEF Passes, Done, EndSample, counters
<1> QED BY <1>3, <1>4, <1>5, <1>6, <1>7 DEF Exclusive, Grid

(* next_tile hands the thread a tile that nobody holds and takes it out of *)
(* its queue.                                                              *)
LEMMA TakeStep ==
  ASSUME IInv, NEW w \in Worker, TakeDenoisingTile(w) \/ TakeRenderTile(w)
  PROVE  Exclusive' /\ Grid' /\ Passes'
<1> USE DEF IInv, TypeOK
<1>1. sPc = "render" /\ ~Held(w)
  BY Rendering DEF TakeDenoisingTile, TakeRenderTile, Held, Holding
<1>2. PICK t \in renderTiles \cup denoisingTiles :
        /\ HoldTile(w, t)
        /\ renderTiles' = renderTiles \ {t}
        /\ denoisingTiles' = denoisingTiles \ {t}
  <2>1. CASE TakeDenoisingTile(w)
    <3>1. PICK t \in denoisingTiles :
            HoldTile(w, t) /\ denoisingTiles' = denoisingTiles \ {t} /\ renderTiles' = renderTiles
      BY <2>1, FrontQueued DEF TakeDenoisingTile, DenoiseChoices
    <3>2. t \notin renderTiles
      BY <1>1, <3>1 DEF Exclusive, QueuesMatchState, RENDER, DENOISE
    <3> QED BY <3>1, <3>2
  <2>2. CASE TakeRenderTile(w)
    <3>1. PICK t \in renderTiles :
            HoldTile(w, t) /\ renderTiles' = renderTiles \ {t} /\ denoisingTiles' = denoisingTiles
      BY <2>2, FrontQueued DEF TakeRenderTile, RenderChoices
    <3>2. t \notin denoisingTiles
      BY <1>1, <3>1 DEF Exclusive, QueuesMatchState, RENDER, DENOISE
    <3> QED BY <3>1, <3>2
  <2> QED BY <2>1, <2>2
<1>3. /\ t \in Tile
      /\ tileState[t] \in {RENDER, DENOISE}
      /\ \A v \in Worker : Held(v) => wTile[v] # t
  BY <1>1 DEF TilesTypeOK, Exclusive, QueuesMatchState, TileHeldOnce
<1>4. /\ \A v \in Worker \ {w} : wTile'[v] = wTile[v] /\ wTask'[v] = wTask[v]
                                  /\ wPc'[v] = wPc[v] /\ (Held(v)' <=> Held(v))
      /\ wTile'[w] = t /\ wPc'[w] = "allocate" /\ Held(w)'
      /\ wTask'[w] = IF tileState[t] = DENOISE THEN "DENOISE" ELSE "PATH_TRACE"
      /\ UNCHANGED <<counters, tileState, buffers, sPc, needDenoise>>
  BY <1>2 DEF HoldTile, Held, Holding, sessionVars
<1>5. HoldsItsTile'
  BY <1>3, <1>4 DEF Exclusive, HoldsItsTile
<1>6. QueuesMatchState'
  BY <1>1, <1>2, <1>4 DEF Exclusive, QueuesMatchState
<1>7. TileHeldOnce'
  BY <1>2, <1>3, <1>4 DEF Exclusive, TileHeldOnce
<1>8. TaskMatchesState'
  BY <1>3, <1>4 DEF Exclusive, TaskMatchesState
<1>9. Grid'
  BY <1>4 DEF Grid, NeighborsKeepUp, PlainStates, BuffersKept, Holding
<1>10. Passes'
  BY <1>1, <1>4 DEF Passes, Done, EndSample, counters
<1> QED BY <1>5, <1>6, <1>7, <1>8, <1>9, <1>10 DEF Exclusive
-----------------------------------------------------------------------------
(* What finish_tile does to the rest of the table.  FinishKeeps is what the *)
(* other threads need of it: their tiles stay as they are, unqueued, with  *)
(* their buffers.                                                          *)
FinishKeeps(t) ==
  \A u \in Tile \ {t} : tileState[u] \in {RENDER, DENOISE} =>
    /\ tileState'[u] = tileState[u]
    /\ u \in buffers => u \in buffers'
    /\ u \in renderTiles' => u \in renderTiles
    /\ u \in denoisingTiles' => u \in denoisingTiles

FinishQueues(t) ==
  /\ renderTiles' = renderTiles
  /\ \A u \in denoisingTiles' : u \in denoisingTiles \/ tileState'[u] = DENOISE

StatesKeepBuffers ==
  \A t \in Tile : tileState[t] \in {RENDERED, DENOISE, DENOISED} => t \in buffers

(* finish_tile on a rendered tile, in a pass that denoises: it and the
   neighbours whose neighbourhoods are now rendered move on to be denoised,
   and no other tile moves. *)
LEMMA FinishRenderedStep ==
  ASSUME TilesTypeOK, NeighborsKeepUp, StatesKeepBuffers, needDenoise,
         needDenoise' = needDenoise,
         NEW t \in Tile, tileState[t] = RENDER, t \in buffers, FinishRendered(t)
  PROVE  FinishKeeps(t) /\ FinishQueues(t) /\ NeighborsKeepUp' /\ StatesKeepBuffers'
<1> DEFINE st == [tileState EXCEPT ![t] = RENDERED]
           ready == {n \in Neighbor[t] : NeighborsAtLeast(st, n, RENDERED)}
<1> USE DEF TilesTypeOK, RENDER, RENDERED, DENOISE, DENOISED, DONE
<1>1. /\ \A u \in Tile : tileState'[u] = IF u \in ready THEN DENOISE ELSE st[u]
      /\ denoisingTiles' = denoisingTiles \cup ready
      /\ UNCHANGED <<buffers, renderTiles>>
  BY DEF FinishRendered
<1>2. \A u \in ready : /\ u \in Tile
                       /\ \A n \in Neighbor[u] : n \in Tile /\ st[n] >= RENDERED
                       /\ tileState[u] \in {RENDER, RENDERED}
  <2> SUFFICES ASSUME NEW u \in ready
               PROVE  /\ u \in Tile
                      /\ \A n \in Neighbor[u] : n \in Tile /\ st[n] >= RENDERED
                      /\ tileState[u] \in {RENDER, RENDERED}
    OBVIOUS
  <2>1. u \in Tile /\ t \in Neighbor[u]
    BY TileAssumption
  <2>2. \A n \in Neighbor[u] : n \in Tile /\ st[n] >= RENDERED
    BY <2>1, TileAssumption DEF NeighborsAtLeast
  <2>3. tileState[u] \notin {DENOISE, DENOISED, DONE}
    BY <2>1 DEF NeighborsKeepUp
  <2> QED BY <2>1, <2>2, <2>3
<1>3. \A u \in ready : u = t \/ tileState[u] = RENDERED
  BY <1>2, TileAssumption
<1>0. \A u \in Tile : st[u] = IF u = t THEN RENDERED ELSE tileState[u]
  OBVIOUS
<1> HIDE DEF st, ready
<1>4. FinishKeeps(t) /\ FinishQueues(t)
  <2>1. FinishKeeps(t)
    BY <1>0, <1>1, <1>3 DEF FinishKeeps
  <2>2. FinishQueues(t)
    BY <1>1, <1>2 DEF FinishQueues
  <2> QED BY <2>1, <2>2
<1>5. StatesKeepBuffers'
  BY <1>0, <1>1, <1>3 DEF StatesKeepBuffers
<1>6. NeighborsKeepUp'
  <2> SUFFICES ASSUME NEW a \in Tile, NEW n \in Neighbor[a]
               PROVE  /\ tileState'[a] \in {DENOISE, DENOISED} => tileState'[n] # RENDER
                      /\ tileState'[a] = DONE => tileState'[n] \in {DENOISED, DONE}
    BY DEF NeighborsKeepUp
  <2>1. n \in Tile /\ tileState'[n] = IF n \in ready THEN DENOISE ELSE st[n]
    BY <1>1, TileAssumption
  <2>2. CASE a \in ready
    <3>1. st[n] >= RENDERED
      BY <1>2, <2>2
    <3> QED BY <1>0, <1>1, <2>1, <2>2, <3>1
  <2>3. CASE a \notin ready
    <3>1. tileState'[a] = st[a]
      BY <1>1, <2>3
    <3>2. CASE a = t
      BY <1>0, <3>1, <3>2
    <3>3. CASE a # t
      <4>1. /\ tileState[a] \in {DENOISE, DENOISED} => tileState[n] # RENDER
            /\ tileState[a] = DONE => tileState[n] \in {DENOISED, DONE}
        BY <2>1 DEF NeighborsKeepUp
      <4>2. n \in ready => n = t \/ tileState[n] = RENDERED
        BY <1>3
      <4> QED BY <1>0, <2>1, <3>1, <3>3, <4>1, <4>2
    <3> QED BY <3>2, <3>3
  <2> QED BY <2>2, <2>3
<1> QED BY <1>4, <1>5, <1>6

(* finish_tile on a denoised tile: it and the neighbours whose
   neighbourhoods are now denoised are done, and only those lose their
   buffers. *)
LEMMA FinishDenoisedStep ==
  ASSUME TilesTypeOK, NeighborsKeepUp, StatesKeepBuffers, needDenoise,
         needDenoise' = needDenoise,
         NEW t \in Tile, tileState[t] = DENOISE, FinishDenoised(t)
  PROVE  FinishKeeps(t) /\ FinishQueues(t) /\ NeighborsKeepUp' /\ StatesKeepBuffers'
<1> DEFINE st == [tileState EXCEPT ![t] = DENOISED]
           over == {n \in Neighbor[t] : NeighborsAtLeast(st, n, DENOISED)}
<1> USE DEF TilesTypeOK, RENDER, RENDERED, DENOISE, DENOISED, DONE
<1>1. /\ \A u \in Tile : tileState'[u] = IF u \in over THEN DONE ELSE st[u]
      /\ buffers \ over \subseteq buffers'
      /\ UNCHANGED <<renderTiles, denoisingTiles>>
  BY DEF FinishDenoised
<1>2. \A u \in over : \A n \in Neighbor[u] : n \in Tile /\ st[n] >= DENOISED
  BY TileAssumption DEF NeighborsAtLeast
<1>3. \A u \in over : u \in Tile /\ st[u] >= DENOISED
  BY <1>2, TileAssumption
<1>0. \A u \in Tile : st[u] = IF u = t THEN DENOISED ELSE tileState[u]
  OBVIOUS
<1> HIDE DEF st, over
<1>4. FinishKeeps(t) /\ FinishQueues(t)
  <2>1. FinishKeeps(t)
    BY <1>0, <1>1, <1>3 DEF FinishKeeps
  <2>2. FinishQueues(t)
    BY <1>1 DEF FinishQueues
  <2> QED BY <2>1, <2>2
<1>5. StatesKeepBuffers'
  <2> SUFFICES ASSUME NEW u \in Tile, tileState'[u] \in {RENDERED, DENOISE, DENOISED}
               PROVE  u \in buffers'
    BY DEF StatesKeepBuffers
  <2>1. u \notin over /\ tileState'[u] = st[u]
    BY <1>1
  <2>2. u \in buffers
    BY <1>0, <2>1 DEF StatesKeepBuffers
  <2> QED BY <1>1, <2>1, <2>2
<1>6. NeighborsKeepUp'
  <2> SUFFICES ASSUME NEW a \in Tile, NEW n \in Neighbor[a]
               PROVE  /\ tileState'[a] \in {DENOISE, DENOISED} => tileState'[n] # RENDER
                      /\ tileState'[a] = DONE => tileState'[n] \in {DENOISED, DONE}
    BY DEF NeighborsKeepUp
  <2>1. n \in Tile /\ tileState'[n] = IF n \in over THEN DONE ELSE st[n]
    BY <1>1, TileAssumption
  <2>2. /\ tileState[a] \in {DENOISE, DENOISED} => tileState[n] # RENDER
        /\ tileState[a] = DONE => tileState[n] \in {DENOISED, DONE}
    BY <2>1 DEF NeighborsKeepUp
  <2>3. CASE a \in over
    <3>1. st[n] >= DENOISED
      BY <1>2, <2>3
    <3> QED BY <1>0, <1>1, <2>1, <2>3, <3>1
  <2>4. CASE a \notin over
    <3>1. tileState'[a] = st[a]
      BY <1>1, <2>4
    <3> QED BY <1>0, <2>1, <2>2, <3>1
  <2> QED BY <2>3, <2>4
<1> QED BY <1>4, <1>5, <1>6

(* finish_tile in a pass that does not denoise: only the tile itself is
   done. *)
LEMMA FinishUndenoisedStep ==
  ASSUME TilesTypeOK, PlainStates, ~needDenoise, needDenoise' = needDenoise,
         NEW t \in Tile, tileState[t] = RENDER, FinishUndenoised(t)
  PROVE  FinishKeeps(t) /\ FinishQueues(t) /\ PlainStates' /\ StatesKeepBuffers'
<1> USE DEF TilesTypeOK, RENDER, RENDERED, DENOISE, DENOISED, DONE
<1>1. FinishKeeps(t) /\ FinishQueues(t)
  BY DEF FinishUndenoised, FinishKeeps, FinishQueues
<1>2. PlainStates' /\ StatesKeepBuffers'
  BY DEF FinishUndenoised, PlainStates, StatesKeepBuffers
<1> QED BY <1>1, <1>2

(* release_tile: the thread lets go of its tile; the tiles of the others   *)
(* and their neighbours stay as they need them.                            *)
LEMMA ReleaseStep ==
  ASSUME IInv, NEW w \in Worker, ReleaseTile(w)
  PROVE  Exclusive' /\ Grid' /\ Passes'
<1> DEFINE t == wTile[w]
<1> USE DEF IInv, TypeOK
<1>1. /\ sPc = "render" /\ Held(w) /\ t \in Tile /\ t \in buffers
      /\ tileState[t] \in {RENDER, DENOISE}
      /\ t \notin renderTiles \cup denoisingTiles
  <2>1. sPc = "render" /\ Held(w)
    BY Rendering DEF ReleaseTile, Held, Holding
  <2>2. t \in Tile /\ t \in buffers
    BY <2>1 DEF Exclusive, HoldsItsTile, Grid, BuffersKept, ReleaseTile, Held
  <2>3. tileState[t] \in {RENDER, DENOISE} /\ t \notin renderTiles \cup denoisingTiles
    BY <2>1 DEF Exclusive, TaskMatchesState, TileHeldOnce
  <2> QED BY <2>1, <2>2, <2>3
<1>2. /\ FinishTile(t)
      /\ UNCHANGED <<counters, sPc, needDenoise, wTask>>
  BY DEF ReleaseTile, sessionVars
<1>3. /\ FinishKeeps(t) /\ FinishQueues(t)
      /\ NeighborsKeepUp' /\ PlainStates' /\ StatesKeepBuffers'
  <2>1. CASE tileState[t] = RENDER /\ needDenoise
    <3>1. FinishRendered(t)
      BY <1>2, <2>1
         DEF FinishTile, WriteNow, Passes, FinishUndenoised, RENDER, DENOISE
    <3>2. StatesKeepBuffers /\ NeighborsKeepUp
      BY DEF Grid, BuffersKept, StatesKeepBuffers
    <3>3. PlainStates'
      BY <1>2, <2>1 DEF PlainStates
    <3> QED BY <1>1, <1>2, <2>1, <3>1, <3>2, <3>3, FinishRenderedStep
  <2>2. CASE tileState[t] = RENDER /\ ~needDenoise
    <3>1. FinishUndenoised(t)
      BY <1>2, <2>2 DEF FinishTile, WriteNow, RENDER, DENOISE
    <3>2. PlainStates
      BY DEF Grid
    <3>3. NeighborsKeepUp'
      BY <1>2, <2>2 DEF NeighborsKeepUp
    <3> QED BY <1>1, <1>2, <2>2, <3>1, <3>2, <3>3, FinishUndenoisedStep
  <2>3. CASE tileState[t] = DENOISE
    <3>1. FinishDenoised(t)
      BY <1>2, <2>3 DEF FinishTile, RENDER, DENOISE
    <3>2. needDenoise
      <4>1. tileState[t] \notin {RENDER, DONE}
        BY <2>3 DEF RENDER, DENOISE, DONE
      <4>2. ~needDenoise => tileState[t] \in {RENDER, DONE}
        BY <1>1 DEF Grid, PlainStates
      <4> QED BY <4>1, <4>2, Zenon
    <3>3. StatesKeepBuffers /\ NeighborsKeepUp /\ PlainStates'
      BY <1>2, <3>2 DEF Grid, BuffersKept, StatesKeepBuffers, PlainStates
    <3> QED BY <1>1, <1>2, <2>3, <3>1, <3>2, <3>3, FinishDenoisedStep
  <2> QED BY <1>1, <2>1, <2>2, <2>3
<1>4. /\ wTile' = [wTile EXCEPT ![w] = NoTile]
      /\ \A v \in Worker : Held(v)' <=> v # w /\ Held(v)
      /\ \A v \in Worker \ {w} : wPc'[v] \in Holding => wPc'[v] = wPc[v]
      /\ wPc'[w] = "acquire"
  BY DEF ReleaseTile, Woken, Held, Holding
<1>5. \A v \in Worker \ {w} : Held(v) =>
        /\ wTile[v] \in Tile \ {t}
        /\ wTile'[v] = wTile[v]
        /\ tileState[wTile[v]] \in {RENDER, DENOISE}
  BY <1>1, <1>4 DEF Exclusive, HoldsItsTile, TaskMatchesState, TileHeldOnce
<1>6. HoldsItsTile'
  <2>1. ~Held(w)' /\ wTile'[w] \notin Tile
    BY <1>4, RenderAssumption
  <2>2. \A v \in Worker \ {w} :
          /\ Held(v)' <=> wTile'[v] \in Tile
          /\ wPc'[v] = "trace" => wTask'[v] = "PATH_TRACE"
          /\ wPc'[v] \in {"map", "denoise"} => wTask'[v] = "DENOISE"
    BY <1>2, <1>4 DEF Exclusive, HoldsItsTile, Holding
  <2> QED BY <1>4, <2>1, <2>2 DEF HoldsItsTile
<1>7. QueuesMatchState'
  <2>1. \A u \in renderTiles' : tileState'[u] = RENDER
    <3> SUFFICES ASSUME NEW u \in renderTiles'
                 PROVE  tileState'[u] = RENDER
      OBVIOUS
    <3>1. u \in renderTiles /\ u # t /\ u \in Tile /\ tileState[u] = RENDER
      BY <1>1, <1>3 DEF FinishQueues, Exclusive, QueuesMatchState, TilesTypeOK
    <3> QED BY <1>3, <3>1 DEF FinishKeeps
  <2>2. \A u \in denoisingTiles' : tileState'[u] = DENOISE
    <3> SUFFICES ASSUME NEW u \in denoisingTiles', u \in denoisingTiles
                 PROVE  tileState'[u] = DENOISE
      BY <1>3 DEF FinishQueues
    <3>1. u # t /\ u \in Tile /\ tileState[u] = DENOISE
      BY <1>1 DEF Exclusive, QueuesMatchState, TilesTypeOK
    <3> QED BY <1>3, <3>1 DEF FinishKeeps
  <2> QED BY <2>1, <2>2 DEF QueuesMatchState
<1>8. TileHeldOnce'
  <2> SUFFICES ASSUME NEW v \in Worker, Held(v)'
               PROVE  /\ wTile'[v] \notin renderTiles' \cup denoisingTiles'
                      /\ \A x \in Worker \ {v} : Held(x)' => wTile'[x] # wTile'[v]
    BY DEF TileHeldOnce
  <2>1. v # w /\ Held(v)
    BY <1>4
  <2>2. wTile[v] \notin renderTiles \cup denoisingTiles
    BY <2>1 DEF Exclusive, TileHeldOnce
  <2>3. wTile'[v] \notin renderTiles' \cup denoisingTiles'
    BY <1>3, <1>5, <2>1, <2>2 DEF FinishKeeps
  <2>4. \A x \in Worker \ {v} : Held(x)' => wTile'[x] # wTile'[v]
    BY <1>4, <1>5, <2>1 DEF Exclusive, TileHeldOnce
  <2> QED BY <2>3, <2>4
<1>9. TaskMatchesState'
  <2> SUFFICES ASSUME NEW v \in Worker, Held(v)'
               PROVE  tileState'[wTile'[v]] = IF wTask'[v] = "DENOISE" THEN DENOISE ELSE RENDER
    BY DEF TaskMatchesState
  <2>1. v # w /\ Held(v)
    BY <1>4
  <2>2. tileState[wTile[v]] = IF wTask[v] = "DENOISE" THEN DENOISE ELSE RENDER
    BY <2>1 DEF Exclusive, TaskMatchesState
  <2> QED BY <1>2, <1>3, <1>5, <2>1, <2>2 DEF FinishKeeps
<1>10. BuffersKept'
  <2> SUFFICES ASSUME NEW v \in Worker, wPc'[v] \in Holding \ {"allocate"}
               PROVE  wTile'[v] \in buffers'
    BY <1>3 DEF BuffersKept, StatesKeepBuffers
  <2>1. v # w /\ Held(v) /\ wPc[v] = wPc'[v]
    BY <1>4 DEF Held, Holding
  <2>2. wTile[v] \in buffers
    BY <2>1 DEF Grid, BuffersKept
  <2> QED BY <1>3, <1>5, <2>1, <2>2 DEF FinishKeeps
<1>11. Passes'
  BY <1>1, <1>2 DEF Passes, Done, EndSample, counters
<1> QED
  BY <1>3, <1>6, <1>7, <1>8, <1>9, <1>10, <1>11 DEF Exclusive, Grid

-----------------------------------------------------------------------------

(* What a device thread does keeps every part of the invariant. *)
LEMMA ThreadStep ==
  ASSUME IInv, NEW w \in Worker, Thread(w)
  PROVE  Exclusive' /\ Grid' /\ Passes'
<1> USE DEF Held, Holding, WorkerPc
<1>1. CASE AcquireCancelled(w)
  BY <1>1, MoveOnStep DEF AcquireCancelled, tileVars, sessionVars
<1>2. CASE Acquire(w)
  BY <1>2, MoveOnStep DEF Acquire, tileVars, sessionVars
<1>3. CASE TakeDenoisingTile(w) \/ TakeRenderTile(w)
  BY <1>3, TakeStep
<1>4. CASE NextTileFails(w)
  BY <1>4, MoveOnStep DEF NextTileFails, tileVars, sessionVars
<1>5. CASE Allocate(w)
  <2>1. wTask[w] \in {"PATH_TRACE", "DENOISE"}
    BY DEF IInv, TypeOK
  <2>2. CASE wTask[w] = "DENOISE"
    BY <1>5, <2>2, MoveOnStep DEF Allocate, sessionVars
  <2>3. CASE wTask[w] = "PATH_TRACE"
    BY <1>5, <2>3, MoveOnStep DEF Allocate, sessionVars
  <2> QED BY <2>1, <2>2, <2>3
<1>6. CASE TraceSample(w)
  <2>1. sPc = "render" /\ UNCHANGED <<counters, tileVars, needDenoise, sPc, wPc, wTile, wTask>>
    BY <1>6, Rendering DEF TraceSample, sessionVars
  <2> QED BY <2>1, QuietStep
<1>7. wPc[w] \in Holding \ {"allocate"} => wTile[w] \in buffers
  BY DEF IInv, Grid, BuffersKept
<1>8. CASE TraceEnd(w)
  BY <1>7, <1>8, MoveOnStep DEF TraceEnd, tileVars, sessionVars
<1>9. CASE MapNeighborTiles(w)
  <2>1. wTask[w] = "DENOISE"
    BY <1>9 DEF MapNeighborTiles, IInv, Exclusive, HoldsItsTile
  <2> QED BY <1>7, <1>9, <2>1, MoveOnStep DEF MapNeighborTiles, tileVars, sessionVars
<1>10. CASE UnmapNeighborTiles(w)
  BY <1>7, <1>10, MoveOnStep DEF UnmapNeighborTiles, tileVars, sessionVars
<1>11. CASE ReleaseTile(w)
  BY <1>11, ReleaseStep
<1> QED
  BY <1>1, <1>2, <1>3, <1>4, <1>5, <1>6, <1>8, <1>9, <1>10, <1>11 DEF Thread

(* Before the first pass there are no tiles and no thread works. *)
LEMMA InitIInv == Init => IInv
<1> SUFFICES ASSUME Init PROVE IInv
  OBVIOUS
<1> USE DEF Init, NoTiles, CountersReset
<1>1. TypeOK
  <2>1. CountersTypeOK
    BY CounterAssumption, RenderAssumption DEF CountersTypeOK
  <2>2. TilesTypeOK
    BY DEF TilesTypeOK, RENDER, DONE
  <2>3. written \in [Tile -> Seq(Int)] /\ acc \in [Tile -> Nat]
    OBVIOUS
  <2>4. /\ sPc \in SessionPc /\ wPc \in [Worker -> WorkerPc]
        /\ cancel \in BOOLEAN /\ needDenoise \in BOOLEAN /\ tilesWritten \in BOOLEAN
    BY DEF SessionPc, WorkerPc
  <2>5. /\ wTile \in [Worker -> Tile \cup {NoTile}] /\ wSample \in [Worker -> Int]
        /\ wTask \in [Worker -> {"PATH_TRACE", "DENOISE"}]
    OBVIOUS
  <2> QED BY <2>1, <2>2, <2>3, <2>4, <2>5 DEF TypeOK
<1>2. Exclusive
  BY RenderAssumption
     DEF Exclusive, HoldsItsTile, QueuesMatchState, TileHeldOnce, TaskMatchesState,
         Held, Holding
<1>3. Grid
  BY DEF Grid, NeighborsKeepUp, PlainStates, BuffersKept, Holding, RENDER, RENDERED,
         DENOISE, DENOISED, DONE
<1>4. Passes
  BY DEF Passes
<1> QED BY <1>1, <1>2, <1>3, <1>4 DEF IInv

(* Every step of the session, the device threads and the main thread keeps
   the invariant. *)
LEMMA NextIInv == IInv /\ [Next]_vars => IInv'
<1> SUFFICES ASSUME IInv, [Next]_vars PROVE IInv'
  OBVIOUS
<1>1. TypeOK'
  BY TypeStep DEF IInv, Exclusive
<1>2. Exclusive' /\ Grid' /\ Passes'
  <2>1. CASE Advance
    BY <2>1, AdvanceStep
  <2>2. CASE StopLoop
    BY <2>2, QuietStep DEF StopLoop, tileVars, workerVars
  <2>3. CASE AbandonPass
    BY <2>3, QuietStep DEF AbandonPass, tileVars, workerVars
  <2>4. CASE Render
    BY <2>4, RenderStep
  <2>5. CASE TaskWait
    BY <2>5, QuietStep DEF TaskWait, tileVars, workerVars
  <2>6. CASE UpdateProgressiveRefine
    BY <2>6, QuietStep DEF UpdateProgressiveRefine, tileVars, workerVars
  <2>7. CASE Finish
    BY <2>7, QuietStep DEF Finish, tileVars, workerVars
  <2>8. CASE Free
    BY <2>8, FreeStep
  <2>9. CASE SetCancel \/ UNCHANGED vars
    <3>1. UNCHANGED <<counters, tileVars, needDenoise, sPc, wPc, wTile, wTask>>
      BY <2>9 DEF SetCancel, vars, sessionVars, workerVars
    <3> QED
      BY <3>1
         DEF IInv, Exclusive, HoldsItsTile, QueuesMatchState, TileHeldOnce,
             TaskMatchesState, Held, Grid, NeighborsKeepUp, PlainStates, BuffersKept,
             Passes, Done, EndSample, counters, tileVars
  <2>10. ASSUME NEW w \in Worker, Thread(w)
         PROVE  Exclusive' /\ Grid' /\ Passes'
    BY <2>10, ThreadStep
  <2> QED
    BY <2>1, <2>2, <2>3, <2>4, <2>5, <2>6, <2>7, <2>8, <2>9, <2>10
       DEF Next, Session, Terminated
<1> QED BY <1>1, <1>2 DEF IInv

(* The invariant holds in every reachable state. *)
THEOREM Invariance == Spec => []IInv
BY InitIInv, NextIInv, PTL DEF Spec

(* Every variable keeps its type. *)
THEOREM TypeCorrect == Spec => []TypeOK
BY Invariance, PTL DEF IInv

(* A tile is worked on by one thread at a time and is then in no queue,    *)
(* however many threads call acquire_tile and release_tile.                *)
THEOREM Exclusion == Spec => []TileHeldOnce
<1>1. IInv => TileHeldOnce
  BY DEF IInv, Exclusive
<1> QED BY <1>1, Invariance, PTL

(* finish_tile never meets a tile in another state than the one its task   *)
(* needs: the assertion in its default case holds, and the assertion of    *)
(* map_neighbor_tiles on the centre tile.                                  *)
THEOREM TaskState == Spec => []TaskMatchesState
<1>1. IInv => TaskMatchesState
  BY DEF IInv, Exclusive
<1> QED BY <1>1, Invariance, PTL

(* The buffers of all the neighbours of a tile exist from the moment they  *)
(* are mapped to the end of the denoising that reads them.                 *)
THEOREM MemorySafe == Spec => []NoUseAfterFree
<1>1. IInv => NoUseAfterFree
  <2> SUFFICES ASSUME IInv, NEW w \in Worker
               PROVE  /\ wPc[w] \in {"map", "denoise"} => Neighbor[wTile[w]] \subseteq buffers
                      /\ wPc[w] \in {"trace", "release"} => wTile[w] \in buffers
    BY DEF NoUseAfterFree
  <2>1. wPc[w] \in {"trace", "release"} => wTile[w] \in buffers
    BY DEF IInv, Grid, BuffersKept, Holding
  <2>2. ASSUME wPc[w] \in {"map", "denoise"}, NEW n \in Neighbor[wTile[w]]
        PROVE  n \in buffers
    <3>1. wTile[w] \in Tile /\ tileState[wTile[w]] = DENOISE
      BY <2>2 DEF IInv, Exclusive, HoldsItsTile, TaskMatchesState, Held, Holding
    <3>2. n \in Tile /\ wTile[w] \in Neighbor[n]
      BY <3>1, TileAssumption
    <3>3. needDenoise
      BY <3>1 DEF IInv, Grid, PlainStates, RENDER, DENOISE, DONE
    <3>4. tileState[n] \notin {RENDER, DONE}
      BY <3>1, <3>2, <3>3
         DEF IInv, Grid, NeighborsKeepUp, RENDER, DENOISE, DENOISED, DONE
    <3> QED
      BY <3>2, <3>4
         DEF IInv, TypeOK, TilesTypeOK, Grid, BuffersKept, RENDER, RENDERED, DENOISE,
             DENOISED, DONE
  <2> QED BY <2>1, <2>2
<1> QED BY <1>1, Invariance, PTL

(* Nobody path traces a neighbour of a tile that is being denoised. *)
THEOREM StableInputs == Spec => []DenoiseInputsStable
<1>1. IInv => DenoiseInputsStable
  <2> SUFFICES ASSUME IInv, NEW w \in Worker, wPc[w] \in {"map", "denoise"},
                      NEW n \in Neighbor[wTile[w]]
               PROVE  tileState[n] \in {RENDERED, DENOISE, DENOISED}
    BY DEF DenoiseInputsStable
  <2>1. wTile[w] \in Tile /\ tileState[wTile[w]] = DENOISE
    BY DEF IInv, Exclusive, HoldsItsTile, TaskMatchesState, Held, Holding
  <2>2. n \in Tile /\ wTile[w] \in Neighbor[n]
    BY <2>1, TileAssumption
  <2>3. needDenoise
    BY <2>1 DEF IInv, Grid, PlainStates, RENDER, DENOISE, DONE
  <2> QED
    BY <2>1, <2>2, <2>3
       DEF IInv, TypeOK, TilesTypeOK, Grid, NeighborsKeepUp, RENDER, RENDERED,
           DENOISE, DENOISED, DONE
<1> QED BY <1>1, Invariance, PTL
=============================================================================
