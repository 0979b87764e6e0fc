----------------------------- MODULE ViewportGPU -----------------------------
(***************************************************************************)
(* A viewport session whose device draws into an OpenGL buffer             *)
(* (render/session.cpp, run_gpu): the session thread renders a pass, then  *)
(* waits for the main thread to copy it to the display in draw_gpu.        *)
(* reset_gpu resets at once, from the main thread, under pause_mutex,      *)
(* display_mutex and buffers_mutex.                                        *)
(*                                                                         *)
(* tile_manager.next() runs without any of these mutexes, so it and        *)
(* TileManager::reset race for the counters and the tile table.  Here each *)
(* write of either is an action; what next() has read before it may use    *)
(* again or read anew.  (A reset that clears the vectors while gen_tiles or*)
(* gen_render_tiles fills them may also corrupt memory, which is left out: *)
(* `tiled' says of one pixel whether the table ends up with its tile.)     *)
(* The session thread is in "sleep" or "copyWait" between its check and    *)
(* the wait on the condition variable, which matters for those who notify  *)
(* without the mutex (set_samples, the destructor).                        *)
(* OpenCL's switch from preview to feature kernels is left out: the device *)
(* always uses its feature kernels.                                        *)
(***************************************************************************)
EXTENDS PassCounter

CONSTANTS
  SampleCounts,  \* numbers of samples the user may ask for
  Denoising,     \* params.denoising.need_denoising_task()
  DenoiseStart,  \* params.denoising.start_sample
  DelayFrom,     \* sample from which denoising may be delayed, 20 in the code
  MaxRequests,   \* bound on the resets
  MaxChanges,    \* bound on the changes of the number of samples
  UserActions    \* of "pause", "error" and "destroy", those that happen

ASSUME ViewportAssumption ==
  /\ Progressive
  /\ RangeStart = 0 /\ RangeNum = -1
  /\ SampleCounts \in SUBSET (Nat \ {0}) /\ SampleCounts # {}
  /\ Denoising \in BOOLEAN
  /\ DenoiseStart \in Nat /\ DelayFrom \in Nat
  /\ MaxRequests \in Nat \ {0} /\ MaxChanges \in Nat
  /\ UserActions \in SUBSET {"pause", "error", "destroy"}

VARIABLES
  sPc,           \* where the session thread is
  noTiles,       \* run_gpu's no_tiles
  read,          \* the counters next() has read
  tiled,         \* tile_manager.state.tiles is not empty
  laidOut,       \* tile_manager.state.buffer is not empty
  pause,         \* Session::pause
  needUpdate,    \* gpu_need_display_buffer_update
  drawReady,     \* gpu_draw_ready
  paramsSamples, \* params.samples
  cancel,        \* progress.cancel
  mPc,           \* where the main thread is
  requested,     \* history: resets
  torn,          \* history: the requests whose reset met next() on its way
  changes,       \* history: calls of set_samples
  content,       \* history: what Session::buffers accumulated
  shown          \* history: what the display buffer shows

sessionVars == <<sPc, noTiles, read>>
displayVars == <<needUpdate, drawReady>>
tileVars == <<tiled, laidOut>>
apiVars == <<pause, paramsSamples, requested, changes>>
images == <<content, shown>>
vars == <<counters, sessionVars, tileVars, torn, displayVars, apiVars, cancel, mPc, images>>

(* An image: the request it is of, the passes accumulated in it, and the   *)
(* number of passes it is divided by.                                      *)
Image == [epoch : Nat, passes : Nat, divisor : Nat]
Empty(e) == [epoch |-> e, passes |-> 0, divisor |-> 0]

(* Where next() goes on to count a pass, and TileManager::reset to undo it. *)
Counting == {"next", "previewDivider", "previewPasses", "samplePasses", "sampleDivider",
             "test", "tiles", "buffer"}
Resetting == {"resetSample", "resetPasses", "resetDivider", "resetTiles"}

TypeOK ==
  /\ CountersTypeOK
  /\ sPc \in Counting \cup {"loop", "pause", "sleep", "waiting", "woken", "scene", "lock",
              "render", "copy", "copyWait", "copyWaiting", "copyWoken", "ended"}
  /\ noTiles \in BOOLEAN /\ tiled \in BOOLEAN /\ laidOut \in BOOLEAN /\ pause \in BOOLEAN
  /\ read \in [sample : Nat \cup {-1}, divider : Nat \ {0}]
  /\ needUpdate \in BOOLEAN /\ drawReady \in BOOLEAN /\ cancel \in BOOLEAN
  /\ paramsSamples \in SampleCounts
  /\ torn \subseteq 1 .. MaxRequests
  /\ mPc \in Resetting \cup {"idle", "exiting", "unpause", "joining", "done"}
  /\ requested \in 1 .. MaxRequests
  /\ changes \in 0 .. MaxChanges
  /\ content \in Image /\ shown \in Image

(* The session thread starts after the first reset. *)
Init ==
  /\ paramsSamples \in SampleCounts
  /\ CountersReset(paramsSamples)
  /\ sPc = "loop"
  /\ noTiles = FALSE /\ tiled = FALSE /\ laidOut = FALSE /\ torn = {} /\ cancel = FALSE
  /\ read = [sample |-> -1, divider |-> StartDivider]
  /\ pause \in BOOLEAN /\ (pause => "pause" \in UserActions)
  /\ needUpdate = FALSE /\ drawReady = FALSE
  /\ mPc = "idle"
  /\ requested = 1 /\ changes = 0
  /\ content = Empty(1) /\ shown = Empty(0)

-----------------------------------------------------------------------------
(* The session thread holds pause_mutex, or buffers_mutex. *)
PauseLocked == sPc = "sleep"
BuffersLocked == sPc \in {"render", "copy", "copyWait"}

(* The main thread holds both. *)
ResetLocked == mPc \in Resetting

Go(pc) == sPc' = pc

-----------------------------------------------------------------------------
(* The session thread: run_gpu                                             *)

StopLoop ==
  /\ sPc = "loop"
  /\ cancel
  /\ Go("ended")
  /\ UNCHANGED <<counters, noTiles, read, tileVars, torn, displayVars, apiVars, cancel, mPc,
                 images>>

(* no_tiles = !tile_manager.next(), which looks first whether it is done,  *)
NextBegin ==
  /\ sPc = "loop"
  /\ ~cancel
  /\ noTiles' = Done
  /\ read' = [sample |-> sample, divider |-> divider]
  /\ Go(IF Done THEN "pause" ELSE "next")
  /\ torn' = IF ~Done /\ mPc \in Resetting THEN torn \cup {requested} ELSE torn
  /\ UNCHANGED <<counters, tileVars, displayVars, apiVars, cancel, mPc, images>>

(* counts the sample of a preview or of the image, ... *)
CountSample ==
  /\ sPc = "next"
  /\ \E s \in {read.sample, sample}, d \in {read.divider, divider} :
       IF d > PixelSize
       THEN sample' = 0 /\ Go("previewDivider")
       ELSE sample' = s + 1 /\ Go("samplePasses")
  /\ read' = [read EXCEPT !.sample = sample']
  /\ UNCHANGED <<numSamples, passSamples, divider, noTiles, tileVars, torn, displayVars,
                 apiVars, cancel, mPc, images>>

(* the resolution ...                                                      *)
CountDivider ==
  /\ \/ /\ sPc = "previewDivider"
        /\ divider' \in {Finer(read.divider), Finer(divider)}
        /\ Go("previewPasses")
     \/ /\ sPc = "sampleDivider"
        /\ divider' = PixelSize
        /\ Go("test")
  /\ UNCHANGED <<numSamples, sample, passSamples, noTiles, read, tileVars, torn,
                 displayVars, apiVars, cancel, mPc, images>>

(* and the passes, which for a preview come last; ...                      *)
CountPasses ==
  /\ \/ sPc = "previewPasses" /\ Go("tiles")
     \/ sPc = "samplePasses" /\ Go("sampleDivider")
  /\ passSamples' = 1
  /\ UNCHANGED <<numSamples, sample, divider, noTiles, read, tileVars, torn, displayVars,
                 apiVars, cancel, mPc, images>>

(* lays the tiles out again for the first sample, or queues those there    *)
(* are (gen_render_tiles); ...                                             *)
ChooseTiles ==
  /\ sPc = "test"
  /\ \E first \in {read.sample, sample} : Go(IF first = RangeStart THEN "tiles" ELSE "pause")
  /\ UNCHANGED <<counters, noTiles, read, tileVars, torn, displayVars, apiVars, cancel,
                 mPc, images>>

(* gen_tiles, ... *)
GenTiles ==
  /\ sPc = "tiles"
  /\ tiled' = TRUE
  /\ Go("buffer")
  /\ UNCHANGED <<counters, noTiles, read, laidOut, torn, displayVars, apiVars, cancel, mPc,
                 images>>

(* and last in set_tiles, the size of the image. *)
SetBuffer ==
  /\ sPc = "buffer"
  /\ laidOut' = TRUE
  /\ Go("pause")
  /\ UNCHANGED <<counters, noTiles, read, tiled, torn, displayVars, apiVars, cancel, mPc,
                 images>>

AfterPause == Go(IF cancel THEN "ended" ELSE IF noTiles THEN "loop" ELSE "scene")

(* Under pause_mutex: not paused and not done means that a reset came.     *)
Idle == (pause \/ Done) /\ (pause \/ noTiles)

Awake ==
  /\ sPc = "pause"
  /\ ~ResetLocked
  /\ ~Idle
  /\ AfterPause
  /\ UNCHANGED <<counters, noTiles, read, tileVars, torn, displayVars, apiVars, cancel, mPc,
                 images>>

Sleep ==
  /\ sPc = "pause"
  /\ ~ResetLocked
  /\ Idle
  /\ Go("sleep")
  /\ UNCHANGED <<counters, noTiles, read, tileVars, torn, displayVars, apiVars, cancel, mPc,
                 images>>

(* pause_cond.wait *)
PauseWait ==
  /\ sPc = "sleep"
  /\ Go("waiting")
  /\ UNCHANGED <<counters, noTiles, read, tileVars, torn, displayVars, apiVars, cancel, mPc,
                 images>>

WakeUp ==
  /\ sPc = "woken"
  /\ ~ResetLocked
  /\ IF pause THEN Go("sleep") ELSE AfterPause
  /\ UNCHANGED <<counters, noTiles, read, tileVars, torn, displayVars, apiVars, cancel, mPc,
                 images>>

(* update_scene, and the cancel check after it. *)
UpdateScene ==
  /\ sPc = "scene"
  /\ Go(IF cancel THEN "ended" ELSE "lock")
  /\ UNCHANGED <<counters, noTiles, read, tileVars, torn, displayVars, apiVars, cancel, mPc,
                 images>>

LockBuffers_NoZero ==
  /\ sPc = "lock"
  /\ ~ResetLocked
  /\ Go("render")
  /\ UNCHANGED <<counters, noTiles, read, tileVars, torn, displayVars, apiVars, cancel, mPc,
                 images>>

(* Lock the buffers, and clear them before the first sample. *)
LockBuffers ==
  /\ sPc = "lock"
  /\ ~ResetLocked
  /\ content' = IF sample = RangeStart THEN Empty(requested) ELSE content
  /\ Go("render")
  /\ UNCHANGED <<counters, noTiles, read, tileVars, torn, displayVars, apiVars, cancel, mPc,
                 shown>>

(* render_need_denoise may delay denoising, and the copy with it, when the *)
(* display was updated a short while ago.                                  *)
MayDelay ==
  /\ Denoising
  /\ sample + 1 # DenoiseStart
  /\ sample + 1 # paramsSamples
  /\ sample + 1 >= DenoiseStart
  /\ sample >= DelayFrom

(* render and task_wait: nothing is launched for an empty image, and there *)
(* is nothing to render in an empty table.                                 *)
Render ==
  /\ sPc = "render"
  /\ content' = IF laidOut /\ tiled THEN [content EXCEPT !.passes = @ + 1] ELSE content
  /\ needUpdate' \in {TRUE, ~MayDelay}
  /\ drawReady' = TRUE
  /\ Go("copy")
  /\ UNCHANGED <<counters, noTiles, read, tileVars, torn, apiVars, cancel, mPc, shown>>

AwaitCopy_Never ==
  /\ sPc = "copy"
  /\ Go("loop")
  /\ UNCHANGED <<counters, noTiles, read, tileVars, torn, displayVars, apiVars, cancel, mPc,
                 images>>

(* while (gpu_need_display_buffer_update) { if cancelled, break; wait } *)
AwaitCopy ==
  /\ sPc \in {"copy", "copyWoken"}
  /\ ~ResetLocked
  /\ Go(IF cancel THEN "ended" ELSE IF needUpdate THEN "copyWait" ELSE "loop")
  /\ UNCHANGED <<counters, noTiles, read, tileVars, torn, displayVars, apiVars, cancel, mPc,
                 images>>

(* gpu_need_display_buffer_update_cond.wait *)
CopyWait ==
  /\ sPc = "copyWait"
  /\ Go("copyWaiting")
  /\ UNCHANGED <<counters, noTiles, read, tileVars, torn, displayVars, apiVars, cancel, mPc,
                 images>>

SpuriousWakeUp ==
  /\ \/ sPc = "waiting" /\ Go("woken")
     \/ sPc = "copyWaiting" /\ Go("copyWoken")
  /\ UNCHANGED <<counters, noTiles, read, tileVars, torn, displayVars, apiVars, cancel, mPc,
                 images>>

-----------------------------------------------------------------------------
(* The main thread                                                         *)

PauseNotified == sPc' = IF sPc = "waiting" THEN "woken" ELSE sPc

UpdateNotified_None == UNCHANGED sPc

UpdateNotified == sPc' = IF sPc = "copyWaiting" THEN "copyWoken" ELSE sPc

BothNotified ==
  sPc' = CASE sPc = "waiting" -> "woken"
           [] sPc = "copyWaiting" -> "copyWoken"
           [] OTHER -> sPc

(* reset_: buffers of another size or with other passes are allocated anew,*)
(* and so is the display buffer.                                           *)
ResetImages ==
  \/ UNCHANGED <<content, shown, drawReady>>
  \/ content' = Empty(requested') /\ shown' = Empty(0) /\ drawReady' = FALSE

(* reset_gpu takes the mutexes and resets the size of the image, ...       *)
Reset ==
  /\ mPc = "idle"
  /\ ~PauseLocked /\ ~BuffersLocked
  /\ requested < MaxRequests
  /\ requested' = requested + 1
  /\ torn' = IF sPc \in Counting THEN torn \cup {requested'} ELSE torn
  /\ ResetImages
  /\ SetSamples(paramsSamples)
  /\ laidOut' = FALSE
  /\ mPc' = "resetSample"
  /\ UNCHANGED <<sessionVars, tiled, needUpdate, pause, paramsSamples, changes, cancel>>

(* then the counters one after the other, ...                              *)
ResetCounter ==
  /\ \/ /\ mPc = "resetSample" /\ mPc' = "resetPasses"
        /\ sample' = RangeStart - 1
        /\ UNCHANGED <<passSamples, divider>>
     \/ /\ mPc = "resetPasses" /\ mPc' = "resetDivider"
        /\ passSamples' = 0
        /\ UNCHANGED <<sample, divider>>
     \/ /\ mPc = "resetDivider" /\ mPc' = "resetTiles"
        /\ divider' = StartDivider
        /\ UNCHANGED <<sample, passSamples>>
  /\ UNCHANGED <<numSamples, sessionVars, tileVars, torn, displayVars, apiVars, cancel,
                 images>>

(* and the tile table; and wakes the session thread.                       *)
ResetTiles ==
  /\ mPc = "resetTiles"
  /\ tiled' = FALSE
  /\ needUpdate' = FALSE
  /\ BothNotified
  /\ mPc' = "idle"
  /\ UNCHANGED <<counters, noTiles, read, laidOut, torn, drawReady, apiVars, cancel,
                 images>>

(* draw_gpu, when there is a pass to copy; otherwise it changes nothing.   *)
(* copy_to_display_buffer divides by sample + 1, and copies no empty image.*)
Draw ==
  /\ mPc = "idle"
  /\ drawReady /\ needUpdate
  /\ ~BuffersLocked
  /\ shown' = IF laidOut THEN [content EXCEPT !.divisor = sample + 1] ELSE shown
  /\ needUpdate' = FALSE
  /\ UpdateNotified
  /\ UNCHANGED <<counters, noTiles, read, tileVars, torn, drawReady, apiVars, cancel, mPc,
                 content>>

(* set_samples takes no lock. *)
ChangeSamples(n) ==
  /\ mPc = "idle"
  /\ changes < MaxChanges
  /\ n # paramsSamples
  /\ paramsSamples' = n
  /\ SetSamples(n)
  /\ PauseNotified
  /\ changes' = changes + 1
  /\ UNCHANGED <<noTiles, read, tileVars, torn, displayVars, pause, requested, cancel, mPc,
                 images>>

SetPause ==
  /\ "pause" \in UserActions
  /\ mPc = "idle"
  /\ ~PauseLocked
  /\ pause' = ~pause
  /\ PauseNotified
  /\ UNCHANGED <<counters, noTiles, read, tileVars, torn, displayVars, paramsSamples,
                 requested, changes, cancel, mPc, images>>

(* progress.set_error, by the main thread or by the device. *)
SetError ==
  /\ "error" \in UserActions
  /\ ~cancel
  /\ cancel' = TRUE
  /\ UNCHANGED <<counters, sessionVars, tileVars, torn, displayVars, apiVars, mPc, images>>

(* ~Session: cancel; ... *)
Destroy ==
  /\ "destroy" \in UserActions
  /\ mPc = "idle"
  /\ cancel' = TRUE
  /\ mPc' = "exiting"
  /\ UNCHANGED <<counters, sessionVars, tileVars, torn, displayVars, apiVars, images>>

(* ... stop waiting for the display, without buffers_mutex; ... *)
DestroyUpdate ==
  /\ mPc = "exiting"
  /\ needUpdate' = FALSE
  /\ UpdateNotified
  /\ mPc' = "unpause"
  /\ UNCHANGED <<counters, noTiles, read, tileVars, torn, drawReady, apiVars, cancel, images>>

(* ... unpause; ... *)
DestroyUnpause ==
  /\ mPc = "unpause"
  /\ ~PauseLocked
  /\ pause' = FALSE
  /\ PauseNotified
  /\ mPc' = "joining"
  /\ UNCHANGED <<counters, noTiles, read, tileVars, torn, displayVars, paramsSamples,
                 requested, changes, cancel, images>>

(* ... and join the session thread. *)
Join ==
  /\ mPc = "joining"
  /\ sPc = "ended"
  /\ mPc' = "done"
  /\ UNCHANGED <<counters, sessionVars, tileVars, torn, displayVars, apiVars, cancel, images>>

-----------------------------------------------------------------------------
SessionThread ==
  \/ StopLoop \/ NextBegin \/ CountSample \/ CountDivider \/ CountPasses \/ ChooseTiles
  \/ GenTiles \/ SetBuffer \/ Awake \/ Sleep \/ PauseWait \/ WakeUp
  \/ UpdateScene \/ LockBuffers \/ Render \/ AwaitCopy \/ CopyWait

Request ==
  Reset \/ (\E n \in SampleCounts : ChangeSamples(n)) \/ SetPause \/ SetError \/ Destroy

(* A request once made is carried through. *)
MainThread == ResetCounter \/ ResetTiles \/ DestroyUpdate \/ DestroyUnpause \/ Join

(* Once the session thread has ended only drawing is left. *)
Terminated == sPc = "ended" /\ mPc \in {"idle", "done"} /\ UNCHANGED vars

Next == SessionThread \/ SpuriousWakeUp \/ Draw \/ Request \/ MainThread \/ Terminated

Spec == Init /\ [][Next]_vars

(* The threads are scheduled, a pass takes finite time, and the window is  *)
(* redrawn: progress.set_update after each pass asks for it.  Draw needs   *)
(* strong fairness because spurious wake-ups may take buffers_mutex again  *)
(* and again, and the mutex does not starve the main thread.               *)
FairSpec == Spec /\ WF_vars(SessionThread) /\ WF_vars(MainThread) /\ SF_vars(Draw)

-----------------------------------------------------------------------------
(* Properties                                                              *)

(* The display divides its pixels by sample + 1: it holds that many passes,*)
(* although the main thread reads the counters and resets them.  Excepted  *)
(* are an image divided by zero (see ImplementsViewport) and those of a    *)
(* torn request, which may hold a pass whose tiles the reset has cleared.  *)
PassesMatchDivisor ==
  shown.divisor # 0 /\ shown.epoch \notin torn => shown.passes = shown.divisor

(* While the session thread renders, clears or waits for the lock with the *)
(* tiles of a pass, the previous pass is no longer waiting to be shown.    *)
CopiedBeforeNextPass ==
  sPc \in Counting \cup {"loop", "pause", "scene", "lock", "render"} => ~needUpdate

(* The display shows the newest request with all its samples. *)
FinalShown ==
  /\ shown.epoch = requested
  /\ shown.divisor = paramsSamples

(* The image of the last request is completed and shown, if the user       *)
(* unpauses for good, keeps the number of samples and nothing fails, unless*)
(* its reset met next() on its way: the session thread and the drawing of  *)
(* the window wake each other.                                             *)
CompletesImage ==
  <>[](~pause /\ requested \notin torn) /\ [](~cancel /\ changes = 0) => <>[]FinalShown

(* The same of every request.  The code does not keep it: see the README.  *)
CompletesImageOnReset ==
  <>[](~pause) /\ [](~cancel /\ changes = 0) => <>[]FinalShown

(* What the window sees.  An image that is divided by zero is none: a reset*)
(* that met next() may leave a pass with sample -1, for which the buffers  *)
(* are not cleared; it is shown for a moment, as infinities.               *)
Window == INSTANCE Viewport WITH
            shown <- IF shown.divisor = 0 THEN 0 ELSE shown.epoch,
            open <- sPc # "ended" \/ needUpdate

ImplementsViewport == Window!ViewSpec

(* Nothing of an older request is copied at all.  The code does not keep   *)
(* it: see the README.                                                     *)
CopiedOfNewest == [][shown'.epoch \in {shown.epoch, requested', 0}]_vars
=============================================================================
