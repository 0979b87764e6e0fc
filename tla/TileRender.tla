----------------------------- MODULE TileRender ------------------------------
(***************************************************************************)
(* A final (background) render that keeps its pixels in per-tile buffers:  *)
(* the session thread of render/session.cpp (run_cpu, with params.background *)
(* set and Session::buffers NULL) and the device threads that acquire,     *)
(* path trace, denoise and release tiles (CPUDevice::thread_render; the    *)
(* GPU devices run the same loop, one thread each).                        *)
(*                                                                         *)
(* One action is one critical section of tile_mutex, one sample of one     *)
(* tile, or one stretch of code between two of those.  A thread blocked on *)
(* denoising_cond is in "waiting"; release_tile wakes all of them.  A tile *)
(* being baked runs the same steps as one being path traced.  The pixels   *)
(* of a tile are the number of samples accumulated in its buffers.         *)
(***************************************************************************)
EXTENDS TileManager, Sequences

CONSTANTS
  Worker,            \* device threads
  WorkerDevice,      \* WorkerDevice[w]: device_number of the thread's device
  RenderWorker,      \* threads whose task has tile type PATH_TRACE
  DenoiseWorker,     \* threads whose task has tile type DENOISE when denoising
  NeedDenoisingTask, \* params.denoising.need_denoising_task()
  ProgressiveRefine, \* params.progressive_refine
  NumSamples,        \* params.samples
  NoTile             \* the tile of a thread that holds none

(* BlenderSync::get_session_params makes a background render progressive   *)
(* exactly when it refines progressively, renders at full resolution from  *)
(* the start, and keeps tiles on their device only then; Session's         *)
(* constructor and set_denoising derive the other flags.  Every logical    *)
(* device has a thread, and MultiDevice gives a thread some task.          *)
ASSUME RenderAssumption ==
  /\ Worker # {}
  /\ IsFiniteSet(Worker)
  /\ RenderWorker \in SUBSET Worker
  /\ DenoiseWorker \in SUBSET Worker
  /\ WorkerDevice \in [Worker -> Nat]
  /\ \A t \in Tile : \E w \in RenderWorker : WorkerDevice[w] = TileDevice[t]
  /\ ProgressiveRefine = Progressive
  /\ PreserveTileDevice = ProgressiveRefine
  /\ StartDivider = PixelSize
  /\ NeedDenoisingTask = ScheduleDenoising
  /\ ScheduleDenoising => DenoiseWorker # {}
  /\ NumSamples \in Nat \ {0}
  /\ NoTile \notin Tile

VARIABLES
  sPc,          \* where the session thread is
  cancel,       \* progress.cancel, set by the user or by an error
  needDenoise,  \* need_denoise bound in the current render task
  tilesWritten, \* run_cpu's tiles_written
  wPc,          \* where each device thread is
  wTile,        \* the tile a thread holds, NoTile when it holds none
  wTask,        \* rtile.task
  wSample,      \* rtile.sample
  acc,          \* history: samples accumulated in a tile's buffers
  written       \* history: rtile.sample of every final write of a tile

sessionVars == <<sPc, needDenoise, tilesWritten>>
workerVars == <<wPc, wTile, wTask, wSample>>
history == <<acc, written>>
vars == <<counters, tileVars, sessionVars, cancel, workerVars, history>>

SessionPc == {"next", "update", "render", "refine", "finish", "end", "freed"}
WorkerPc == {"idle", "acquire", "next_tile", "waiting", "allocate", "trace",
             "map", "denoise", "release"}

(* The places where a thread holds a tile. *)
Holding == {"allocate", "trace", "map", "denoise", "release"}

TypeOK ==
  /\ CountersTypeOK
  /\ TilesTypeOK
  /\ sPc \in SessionPc
  /\ cancel \in BOOLEAN
  /\ needDenoise \in BOOLEAN
  /\ tilesWritten \in BOOLEAN
  /\ wPc \in [Worker -> WorkerPc]
  /\ wTile \in [Worker -> Tile \cup {NoTile}]
  /\ wTask \in [Worker -> {"PATH_TRACE", "DENOISE"}]
  /\ wSample \in [Worker -> Int]
  /\ acc \in [Tile -> Nat]
  /\ written \in [Tile -> Seq(Int)]

(* After reset_ at the head of run_cpu. *)
Init ==
  /\ CountersReset(NumSamples)
  /\ NoTiles
  /\ sPc = "next"
  /\ cancel \in BOOLEAN
  /\ needDenoise = FALSE
  /\ tilesWritten = FALSE
  /\ wPc = [w \in Worker |-> "idle"]
  /\ wTile = [w \in Worker |-> NoTile]
  /\ wTask = [w \in Worker |-> "PATH_TRACE"]
  /\ wSample = [w \in Worker |-> 0]
  /\ acc = [t \in Tile |-> 0]
  /\ written = [t \in Tile |-> <<>>]

-----------------------------------------------------------------------------
(* Session thread: run_cpu                                                 *)

(* while (!progress.get_cancel()) { no_tiles = !tile_manager.next(); } and *)
(* a background render stops when there is no work left.                   *)
Advance ==
  /\ sPc = "next"
  /\ ~cancel
  /\ NextPass
  /\ NextTiles
  /\ sPc' = "update"
  /\ UNCHANGED <<needDenoise, tilesWritten, cancel, workerVars, history>>

StopLoop ==
  /\ sPc = "next"
  /\ cancel \/ Done
  /\ sPc' = "finish"
  /\ UNCHANGED <<counters, tileVars, needDenoise, tilesWritten, cancel,
                 workerVars, history>>

(* A cancel that arrives during update_scene abandons the pass. *)
AbandonPass ==
  /\ sPc = "update"
  /\ cancel
  /\ sPc' = "finish"
  /\ UNCHANGED <<counters, tileVars, needDenoise, tilesWritten, cancel,
                 workerVars, history>>

(* render_need_denoise: only the last pass of a background render. *)
DenoiseThisPass == NeedDenoisingTask /\ Done

(* MultiDevice::task_add gives devices that only denoise no task unless    *)
(* the pass denoises.                                                      *)
HasTask(w) == w \in RenderWorker \/ (w \in DenoiseWorker /\ DenoiseThisPass)

(* render: hand the task to the device threads. *)
Render ==
  /\ sPc = "update"
  /\ ~cancel
  /\ needDenoise' = DenoiseThisPass
  /\ wPc' = [w \in Worker |-> IF HasTask(w) THEN "acquire" ELSE "idle"]
  /\ sPc' = "render"
  /\ UNCHANGED <<counters, tileVars, tilesWritten, cancel, wTile, wTask,
                 wSample, history>>

TaskWait_FirstDevice ==
  /\ sPc = "render"
  /\ \E w \in Worker : wPc[w] = "idle"
  /\ sPc' = "refine"
  /\ UNCHANGED <<counters, tileVars, needDenoise, tilesWritten, cancel,
                 workerVars, history>>

(* device->task_wait() *)
TaskWait ==
  /\ sPc = "render"
  /\ \A w \in Worker : wPc[w] = "idle"
  /\ sPc' = "refine"
  /\ UNCHANGED <<counters, tileVars, needDenoise, tilesWritten, cancel,
                 workerVars, history>>

(* update_progressive_refine(c): whether it writes the tiles (its result:  *)
(* the early return for recent updates is only taken when it does not),    *)
(* and the write of every tile that has buffers.                           *)
RefineWrites(c) == c \/ sample + 1 = numSamples

WriteTiles(c) ==
  written' = IF ProgressiveRefine /\ RefineWrites(c)
             THEN [t \in Tile |-> IF t \in buffers
                                  THEN Append(written[t], sample + 1)
                                  ELSE written[t]]
             ELSE written

UpdateProgressiveRefine ==
  /\ sPc = "refine"
  /\ WriteTiles(cancel)
  /\ tilesWritten' = RefineWrites(cancel)
  /\ sPc' = "next"
  /\ UNCHANGED <<counters, tileVars, needDenoise, cancel, workerVars, acc>>

Finish_Always ==
  /\ sPc = "finish"
  /\ WriteTiles(TRUE)
  /\ sPc' = "end"
  /\ UNCHANGED <<counters, tileVars, needDenoise, tilesWritten, cancel,
                 workerVars, acc>>

(* if (!tiles_written) update_progressive_refine(true) *)
Finish ==
  /\ sPc = "finish"
  /\ IF tilesWritten THEN UNCHANGED written ELSE WriteTiles(TRUE)
  /\ sPc' = "end"
  /\ UNCHANGED <<counters, tileVars, needDenoise, tilesWritten, cancel,
                 workerVars, acc>>

(* ~Session: tile_manager.device_free().  The buffers it leaves are lost   *)
(* with the table.                                                         *)
Free ==
  /\ sPc = "end"
  /\ buffers' = LeakedByDeviceFree
  /\ tileState' = [t \in Tile |-> DONE]
  /\ sPc' = "freed"
  /\ UNCHANGED <<counters, renderTiles, denoisingTiles, needDenoise,
                 tilesWritten, cancel, workerVars, history>>

(* progress.set_cancel or set_error, by another thread, at any moment. *)
SetCancel ==
  /\ sPc \notin {"end", "freed"}
  /\ ~cancel
  /\ cancel' = TRUE
  /\ UNCHANGED <<counters, tileVars, sessionVars, workerVars, history>>

-----------------------------------------------------------------------------
(* Device threads: CPUDevice::thread_render, Session::acquire_tile and     *)
(* release_tile.                                                           *)

MayDenoise(w) == w \in DenoiseWorker /\ needDenoise
MayRender(w) == w \in RenderWorker

(* acquire_tile gives up on a cancel, before it takes tile_mutex, unless   *)
(* the current sample must be finished for all tiles.                      *)
StopsOnCancel == cancel /\ ~ProgressiveRefine

AcquireCancelled(w) ==
  /\ wPc[w] = "acquire"
  /\ StopsOnCancel
  /\ wPc' = [wPc EXCEPT ![w] = "idle"]
  /\ UNCHANGED <<counters, tileVars, sessionVars, cancel, wTile, wTask,
                 wSample, history>>

Acquire(w) ==
  /\ wPc[w] = "acquire"
  /\ ~StopsOnCancel
  /\ wPc' = [wPc EXCEPT ![w] = "next_tile"]
  /\ UNCHANGED <<counters, tileVars, sessionVars, cancel, wTile, wTask,
                 wSample, history>>

(* The tiles next_tile may return to w: denoising ones come first. *)
DenoiseChoices(w) ==
  IF MayDenoise(w) THEN Front(denoisingTiles, WorkerDevice[w]) ELSE {}

RenderChoices(w) ==
  IF MayRender(w) THEN Front(renderTiles, WorkerDevice[w]) ELSE {}

HoldTile_Unrecorded(w, t) ==
  /\ wPc' = [wPc EXCEPT ![w] = "allocate"]
  /\ wTask' = [wTask EXCEPT ![w] =
                 IF tileState[t] = DENOISE THEN "DENOISE" ELSE "PATH_TRACE"]
  /\ UNCHANGED <<counters, tileState, buffers, sessionVars, cancel, wTile,
                 wSample, history>>

HoldTile(w, t) ==
  /\ wPc' = [wPc EXCEPT ![w] = "allocate"]
  /\ wTile' = [wTile EXCEPT ![w] = t]
  /\ wTask' = [wTask EXCEPT ![w] =
                 IF tileState[t] = DENOISE THEN "DENOISE" ELSE "PATH_TRACE"]
  /\ UNCHANGED <<counters, tileState, buffers, sessionVars, cancel, wSample,
                 history>>

TakeDenoisingTile(w) ==
  /\ wPc[w] = "next_tile"
  /\ \E t \in DenoiseChoices(w) :
       /\ HoldTile(w, t)
       /\ denoisingTiles' = denoisingTiles \ {t}
       /\ UNCHANGED renderTiles

TakeRenderTile(w) ==
  /\ wPc[w] = "next_tile"
  /\ DenoiseChoices(w) = {}
  /\ \E t \in RenderChoices(w) :
       /\ HoldTile(w, t)
       /\ renderTiles' = renderTiles \ {t}
       /\ UNCHANGED denoisingTiles

(* next_tile fails: a thread that may denoise waits for denoising tiles to *)
(* become available; any other, and every one after a cancel, stops.       *)
NextTileFails(w) ==
  /\ wPc[w] = "next_tile"
  /\ DenoiseChoices(w) = {}
  /\ RenderChoices(w) = {}
  /\ wPc' = [wPc EXCEPT ![w] =
               IF MayDenoise(w) /\ ~cancel /\ HasTiles THEN "waiting" ELSE "idle"]
  /\ UNCHANGED <<counters, tileVars, sessionVars, cancel, wTile, wTask,
                 wSample, history>>

Allocate_AllSamples(w) ==
  LET t == wTile[w] IN
  /\ wPc[w] = "allocate"
  /\ buffers' = buffers \cup {t}
  /\ acc' = IF t \in buffers THEN acc ELSE [acc EXCEPT ![t] = 0]
  /\ wSample' = [wSample EXCEPT ![w] = sample + passSamples]
  /\ wPc' = [wPc EXCEPT ![w] = IF wTask[w] = "DENOISE" THEN "map" ELSE "trace"]
  /\ UNCHANGED <<counters, tileState, renderTiles, denoisingTiles, sessionVars,
                 cancel, wTile, wTask, written>>

(* The tail of acquire_tile, without tile_mutex: temporary buffers, zeroed *)
(* when they are new.                                                      *)
Allocate(w) ==
  LET t == wTile[w] IN
  /\ wPc[w] = "allocate"
  /\ buffers' = buffers \cup {t}
  /\ acc' = IF t \in buffers THEN acc ELSE [acc EXCEPT ![t] = 0]
  /\ wSample' = [wSample EXCEPT ![w] = sample]
  /\ wPc' = [wPc EXCEPT ![w] = IF wTask[w] = "DENOISE" THEN "map" ELSE "trace"]
  /\ UNCHANGED <<counters, tileState, renderTiles, denoisingTiles, sessionVars,
                 cancel, wTile, wTask, written>>

(* CPUDevice::render: one sample of all the pixels of the tile. *)
MoreSamples(w) == wSample[w] < sample + passSamples /\ ~StopsOnCancel

TraceSample(w) ==
  /\ wPc[w] = "trace"
  /\ MoreSamples(w)
  /\ acc' = [acc EXCEPT ![wTile[w]] = @ + 1]
  /\ wSample' = [wSample EXCEPT ![w] = @ + 1]
  /\ UNCHANGED <<counters, tileVars, sessionVars, cancel, wPc, wTile, wTask,
                 written>>

TraceEnd(w) ==
  /\ wPc[w] = "trace"
  /\ ~MoreSamples(w)
  /\ wPc' = [wPc EXCEPT ![w] = "release"]
  /\ UNCHANGED <<counters, tileVars, sessionVars, cancel, wTile, wTask,
                 wSample, history>>

(* denoise_nlm and denoise_openimagedenoise: the tile counts as having all *)
(* its samples; the neighbours' buffers are mapped, and read while the     *)
(* thread is in "denoise".                                                 *)
MapNeighborTiles(w) ==
  /\ wPc[w] = "map"
  /\ wSample' = [wSample EXCEPT ![w] = sample + passSamples]
  /\ wPc' = [wPc EXCEPT ![w] = "denoise"]
  /\ UNCHANGED <<counters, tileVars, sessionVars, cancel, wTile, wTask, history>>

UnmapNeighborTiles(w) ==
  /\ wPc[w] = "denoise"
  /\ wPc' = [wPc EXCEPT ![w] = "release"]
  /\ UNCHANGED <<counters, tileVars, sessionVars, cancel, wTile, wTask,
                 wSample, history>>

WriteNow_DenoisedOnly(t) == tileState[t] # RENDER

(* finish_tile's result: this tile is to be written now. *)
WriteNow(t) == tileState[t] = RENDER => ~(ScheduleDenoising /\ needDenoise)

FinishTile(t) ==
  CASE tileState[t] = RENDER /\ WriteNow(t) -> FinishUndenoised(t)
    [] tileState[t] = RENDER /\ ~WriteNow(t) -> FinishRendered(t)
    [] tileState[t] = DENOISE -> FinishDenoised(t)
    [] OTHER -> UNCHANGED tileVars

Woken_None(pc) == pc

(* denoising_cond.notify_all() *)
Woken(pc) == [w \in Worker |-> IF pc[w] = "waiting" THEN "next_tile" ELSE pc[w]]

ReleaseTile(w) ==
  LET t == wTile[w] IN
  /\ wPc[w] = "release"
  /\ FinishTile(t)
  /\ written' = IF WriteNow(t) /\ ~ProgressiveRefine
                THEN [written EXCEPT ![t] = Append(@, wSample[w])]
                ELSE written
  /\ wPc' = Woken([wPc EXCEPT ![w] = "acquire"])
  /\ wTile' = [wTile EXCEPT ![w] = NoTile]
  /\ UNCHANGED <<counters, sessionVars, cancel, wTask, wSample, acc>>

-----------------------------------------------------------------------------
Session ==
  \/ Advance \/ StopLoop \/ AbandonPass \/ Render \/ TaskWait
  \/ UpdateProgressiveRefine \/ Finish \/ Free

Thread(w) ==
  \/ AcquireCancelled(w) \/ Acquire(w)
  \/ TakeDenoisingTile(w) \/ TakeRenderTile(w) \/ NextTileFails(w)
  \/ Allocate(w) \/ TraceSample(w) \/ TraceEnd(w)
  \/ MapNeighborTiles(w) \/ UnmapNeighborTiles(w) \/ ReleaseTile(w)

(* The process ends once the session is freed. *)
Terminated == sPc = "freed" /\ UNCHANGED vars

Next == Session \/ SetCancel \/ (\E w \in Worker : Thread(w)) \/ Terminated

Spec == Init /\ [][Next]_vars

(* Every thread that can run does: the operating system schedules them and *)
(* tile_mutex is held for bounded stretches only.                          *)
FairSpec == Spec /\ WF_vars(Session) /\ \A w \in Worker : WF_vars(Thread(w))

-----------------------------------------------------------------------------
(* Properties                                                              *)

Held(w) == wPc[w] \in Holding

(* A tile is worked on by one thread at a time, and a tile being worked on *)
(* is in no queue: next_tile pops it, and finish_tile queues only tiles    *)
(* that nobody holds.                                                      *)
TileHeldOnce ==
  \A w \in Worker : Held(w) =>
    /\ wTile[w] \notin renderTiles \cup denoisingTiles
    /\ \A v \in Worker \ {w} : Held(v) => wTile[v] # wTile[w]

(* finish_tile and map_neighbor_tiles switch on the tile's state without   *)
(* looking at the task: what a thread is doing to a tile must still be what*)
(* the table says of it, whatever its neighbours did meanwhile.            *)
TaskMatchesState ==
  \A w \in Worker : Held(w) =>
    tileState[wTile[w]] = IF wTask[w] = "DENOISE" THEN DENOISE ELSE RENDER

(* map_neighbor_tiles asserts that the buffers it maps exist; they must    *)
(* stay until the denoising that reads them is over, while other threads   *)
(* finish, and free, tiles.                                                *)
NoUseAfterFree ==
  \A w \in Worker :
    /\ wPc[w] \in {"map", "denoise"} => Neighbor[wTile[w]] \subseteq buffers
    /\ wPc[w] \in {"trace", "release"} => wTile[w] \in buffers

(* While a tile is denoised nobody path traces one of its neighbours. *)
DenoiseInputsStable ==
  \A w \in Worker : wPc[w] \in {"map", "denoise"} =>
    \A n \in Neighbor[wTile[w]] : tileState[n] \in {RENDERED, DENOISE, DENOISED}

(* The neighbours a tile is denoised with hold all their samples, unless   *)
(* the render was cancelled.                                               *)
DenoiseInputsComplete ==
  \A w \in Worker : wPc[w] = "denoise" /\ ~cancel =>
    \A n \in Neighbor[wTile[w]] : acc[n] = EffectiveSamples

(* Whoever receives a tile's pixels divides them by the sample count it is *)
(* told: that count is what the buffers hold, in an uncancelled render.    *)
WrittenSamplesMatch ==
  ~cancel => \A t \in Tile : \A i \in DOMAIN written[t] :
               written[t][i] - RangeStart = acc[t]

(* The same with cancels, which holds while a tile is written by the       *)
(* thread that rendered it.                                                *)
WrittenSamplesMatchOnCancel ==
  \A t \in Tile : \A i \in DOMAIN written[t] :
    written[t][i] - RangeStart = acc[t]

(* No tile is written twice, by the loop or by the final write after it. *)
WrittenOnce == \A t \in Tile : Len(written[t]) <= 1

(* A render that ends without a cancel has written every tile; before that *)
(* the buffers of a finished tile are deleted only after it was written;   *)
(* and when the session frees the table none are left.                     *)
NothingLost ==
  /\ sPc = "end" /\ ~cancel => \A t \in Tile : written[t] # <<>>
  /\ sPc = "freed" => buffers = {}
  /\ \A t \in Tile : tileState[t] = DONE /\ sPc \in {"render", "refine"} /\ t \notin buffers
       => written[t] # <<>>

(* gen_render_tiles resets every tile and appends it to its queue, so both *)
(* queues must be empty and no tile under way when the next pass begins.   *)
QueuesDrained ==
  sPc \in {"next", "refine"} /\ ~cancel =>
    /\ renderTiles = {} /\ denoisingTiles = {}
    /\ ~HasTiles

(* Every render ends, cancelled or not. *)
Terminates == <>(sPc = "freed")

(* What the caller sees. *)
Job == INSTANCE FinalRender WITH
         delivered <- {t \in Tile : written[t] # <<>>},
         cancelled <- cancel,
         ended <- sPc = "freed"

ImplementsFinalRender == Job!JobSpec
=============================================================================
