----------------------------- MODULE ViewportCPU -----------------------------
(***************************************************************************)
(* A viewport session on a CPU device (render/session.cpp): the session    *)
(* thread in run_cpu, the main thread that resets, pauses, changes the     *)
(* number of samples and finally destroys the session, and the device,     *)
(* which renders one pass at a time into Session::buffers.                 *)
(*                                                                         *)
(* The session thread takes its mutexes for stretches in which it never    *)
(* waits, so each such stretch is one action; reset_cpu waits for the      *)
(* device while it holds pause_mutex and delayed_reset.mutex, so those are *)
(* held between two actions ("cancelling").  A thread in pause_cond.wait   *)
(* is "waiting" until a notification or a spurious wake-up makes it        *)
(* "woken", which must take the mutex again.                               *)
(***************************************************************************)
EXTENDS PassCounter

CONSTANTS
  SampleCounts,  \* numbers of samples the user may ask for
  Denoising,     \* params.denoising.need_denoising_task()
  DenoiseStart,  \* params.denoising.start_sample
  DelayFrom,     \* sample from which denoising may be delayed, 20 in the code
  MaxRequests,   \* bound on the resets
  MaxChanges,    \* bound on the changes of the number of samples
  UserActions,   \* of "pause", "error" and "destroy", those that happen
  OnlyIncrease   \* the user never lowers the number of samples

ASSUME ViewportAssumption ==
  /\ Progressive
  /\ RangeStart = 0 /\ RangeNum = -1
  /\ SampleCounts \in SUBSET (Nat \ {0}) /\ SampleCounts # {}
  /\ Denoising \in BOOLEAN
  /\ DenoiseStart \in Nat /\ DelayFrom \in Nat
  /\ MaxRequests \in Nat \ {0} /\ MaxChanges \in Nat
  /\ UserActions \in SUBSET {"pause", "error", "destroy"}
  /\ OnlyIncrease \in BOOLEAN

VARIABLES
  sPc,           \* where the session thread is
  noTiles,       \* run_cpu's no_tiles
  needCopy,      \* run_cpu's need_copy_to_display_buffer
  laidOut,       \* tile_manager.state.buffer is not empty
  pause,         \* Session::pause
  doReset,       \* delayed_reset.do_reset
  resetSamples,  \* delayed_reset.samples
  paramsSamples, \* params.samples
  cancel,        \* progress.cancel
  device,        \* "idle", "running", or "cut": running, with tasks cancelled
  mPc,           \* where the main thread is
  requested,     \* history: resets requested
  applied,       \* history: the request that was last applied
  changes,       \* history: calls of set_samples
  content,       \* history: what Session::buffers accumulated
  shown          \* history: what the display buffer shows

sessionVars == <<sPc, noTiles, needCopy, laidOut>>
apiVars == <<pause, doReset, resetSamples, paramsSamples, requested, applied,
             changes>>
images == <<content, shown>>
vars == <<counters, sessionVars, apiVars, cancel, device, mPc, images>>

(* An image: the request it is of, the passes accumulated in it, the number*)
(* of passes it is divided by, and whether every pass covered all tiles.   *)
Image == [epoch : Nat, passes : Nat, divisor : Nat, whole : BOOLEAN]
Empty(e) == [epoch |-> e, passes |-> 0, divisor |-> 0, whole |-> TRUE]

TypeOK ==
  /\ CountersTypeOK
  /\ sPc \in {"start", "loop", "pause", "waiting", "woken", "scene", "render",
              "taskWait", "final", "ended"}
  /\ noTiles \in BOOLEAN /\ needCopy \in BOOLEAN /\ laidOut \in BOOLEAN
  /\ pause \in BOOLEAN /\ doReset \in BOOLEAN
  /\ resetSamples \in SampleCounts /\ paramsSamples \in SampleCounts
  /\ cancel \in BOOLEAN
  /\ device \in {"idle", "running", "cut"}
  /\ mPc \in {"idle", "cancelling", "exiting", "joining", "done"}
  /\ requested \in 1 .. MaxRequests /\ applied \in 0 .. requested
  /\ changes \in 0 .. MaxChanges
  /\ content \in Image
  /\ shown \in Image

(* The session thread starts after the first reset was requested. *)
Init ==
  /\ CountersReset(0)
  /\ sPc = "start"
  /\ noTiles = FALSE /\ needCopy = FALSE /\ laidOut = FALSE
  /\ pause \in BOOLEAN /\ (pause => "pause" \in UserActions)
  /\ doReset = TRUE
  /\ paramsSamples \in SampleCounts
  /\ resetSamples = paramsSamples
  /\ cancel = FALSE
  /\ device = "idle"
  /\ mPc = "idle"
  /\ requested = 1 /\ applied = 0 /\ changes = 0
  /\ content = Empty(0) /\ shown = Empty(0)

-----------------------------------------------------------------------------
(* Mutexes                                                                 *)

(* reset_cpu holds pause_mutex and delayed_reset.mutex until the device    *)
(* has stopped.                                                            *)
ResetInProgress == mPc = "cancelling"

Notified == IF sPc = "waiting" THEN "woken" ELSE sPc

-----------------------------------------------------------------------------
(* The session thread                                                      *)

(* reset_ with the delayed parameters; buffers of another size or with     *)
(* other passes are allocated anew, and so is the display buffer.          *)
ApplyReset ==
  /\ ResetCounters(resetSamples)
  /\ laidOut' = FALSE
  /\ doReset' = FALSE
  /\ applied' = requested
  /\ \/ UNCHANGED images
     \/ content' = Empty(requested) /\ shown' = Empty(0)

(* run and the head of run_cpu; nothing is done after an early cancel. *)
Start ==
  /\ sPc = "start"
  /\ ~cancel
  /\ ~ResetInProgress
  /\ ApplyReset
  /\ sPc' = "loop"
  /\ UNCHANGED <<noTiles, needCopy, pause, resetSamples, paramsSamples, requested,
                 changes, cancel, device, mPc>>

StopLoop ==
  /\ sPc \in {"start", "loop"}
  /\ cancel
  /\ sPc' = "ended"
  /\ UNCHANGED <<counters, noTiles, needCopy, laidOut, apiVars, cancel, device, mPc,
                 images>>

(* no_tiles = !tile_manager.next() *)
NextTiles ==
  /\ sPc = "loop"
  /\ ~cancel
  /\ NextPass
  /\ laidOut' = (laidOut \/ LaysOutTiles)
  /\ noTiles' = FALSE
  /\ needCopy' = FALSE
  /\ sPc' = "pause"
  /\ UNCHANGED <<apiVars, cancel, device, mPc, images>>

NoTiles ==
  /\ sPc = "loop"
  /\ ~cancel
  /\ Done
  /\ noTiles' = TRUE
  /\ needCopy' = FALSE
  /\ sPc' = "pause"
  /\ UNCHANGED <<counters, laidOut, apiVars, cancel, device, mPc, images>>

(* The cancel check under pause_mutex, and if (!no_tiles). *)
AfterPause ==
  sPc' = IF cancel THEN "ended" ELSE IF noTiles THEN "taskWait" ELSE "scene"

ResetInPause ==
  /\ sPc = "pause"
  /\ ~ResetInProgress
  /\ ~pause /\ doReset
  /\ ApplyReset
  /\ AfterPause
  /\ UNCHANGED <<noTiles, needCopy, pause, resetSamples, paramsSamples, requested,
                 changes, cancel, device, mPc>>

Sleep_IgnoresReset ==
  /\ sPc = "pause"
  /\ ~ResetInProgress
  /\ pause \/ noTiles
  /\ sPc' = "waiting"
  /\ UNCHANGED <<counters, noTiles, needCopy, laidOut, apiVars, cancel, device, mPc,
                 images>>

Sleep ==
  /\ sPc = "pause"
  /\ ~ResetInProgress
  /\ pause \/ (noTiles /\ ~doReset)
  /\ sPc' = "waiting"
  /\ UNCHANGED <<counters, noTiles, needCopy, laidOut, apiVars, cancel, device, mPc,
                 images>>

Awake ==
  /\ sPc = "pause"
  /\ ~ResetInProgress
  /\ ~pause /\ ~doReset /\ ~noTiles
  /\ AfterPause
  /\ UNCHANGED <<counters, noTiles, needCopy, laidOut, apiVars, cancel, device, mPc,
                 images>>

(* After pause_cond.wait, with the mutex taken again. *)
WakeUp ==
  /\ sPc = "woken"
  /\ ~ResetInProgress
  /\ IF pause THEN sPc' = "waiting" ELSE AfterPause
  /\ UNCHANGED <<counters, noTiles, needCopy, laidOut, apiVars, cancel, device, mPc,
                 images>>

(* update_scene, and the cancel check after it. *)
UpdateScene ==
  /\ sPc = "scene"
  /\ sPc' = IF cancel THEN "ended" ELSE "render"
  /\ UNCHANGED <<counters, noTiles, needCopy, laidOut, apiVars, cancel, device, mPc,
                 images>>

(* render_need_denoise may delay denoising, and the copy with it, when the *)
(* display was updated a short while ago.                                  *)
MayDelay ==
  /\ Denoising
  /\ sample + 1 # DenoiseStart
  /\ sample + 1 # paramsSamples
  /\ sample + 1 >= DenoiseStart
  /\ sample >= DelayFrom

Render_NoZero ==
  /\ sPc = "render"
  /\ UNCHANGED content
  /\ device' = IF laidOut THEN "running" ELSE "idle"
  /\ needCopy' \in {TRUE, ~MayDelay}
  /\ sPc' = "taskWait"
  /\ UNCHANGED <<counters, noTiles, laidOut, apiVars, cancel, mPc, shown>>

(* render: clear the buffers before the first sample, launch the tasks     *)
(* unless the image is empty.  Tasks added while task_cancel is under way  *)
(* may be cancelled too.                                                   *)
Render ==
  /\ sPc = "render"
  /\ content' = IF sample = RangeStart THEN Empty(applied) ELSE content
  /\ device' \in IF ~laidOut THEN {"idle"}
                 ELSE IF ResetInProgress THEN {"running", "cut"} ELSE {"running"}
  /\ needCopy' \in {TRUE, ~MayDelay}
  /\ sPc' = "taskWait"
  /\ UNCHANGED <<counters, noTiles, laidOut, apiVars, cancel, mPc, shown>>

TaskWait_Missing ==
  /\ sPc = "taskWait"
  /\ sPc' = "final"
  /\ UNCHANGED <<counters, noTiles, needCopy, laidOut, apiVars, cancel, device, mPc,
                 images>>

(* device->task_wait() *)
TaskWait ==
  /\ sPc = "taskWait"
  /\ device = "idle"
  /\ sPc' = "final"
  /\ UNCHANGED <<counters, noTiles, needCopy, laidOut, apiVars, cancel, device, mPc,
                 images>>

FinalReset ==
  /\ sPc = "final"
  /\ ~ResetInProgress
  /\ doReset
  /\ ApplyReset
  /\ sPc' = "loop"
  /\ UNCHANGED <<noTiles, needCopy, pause, resetSamples, paramsSamples, requested,
                 changes, cancel, device, mPc>>

CopyToDisplayBuffer_Always ==
  /\ sPc = "final"
  /\ ~ResetInProgress
  /\ shown' = IF needCopy /\ laidOut THEN [content EXCEPT !.divisor = sample + 1] ELSE shown
  /\ sPc' = "loop"
  /\ UNCHANGED <<counters, noTiles, needCopy, laidOut, apiVars, cancel, device, mPc,
                 content>>

(* copy_to_display_buffer divides by sample + 1; an empty image is not     *)
(* copied.                                                                 *)
CopyToDisplayBuffer ==
  /\ sPc = "final"
  /\ ~ResetInProgress
  /\ ~doReset
  /\ shown' = IF needCopy /\ laidOut THEN [content EXCEPT !.divisor = sample + 1] ELSE shown
  /\ sPc' = "loop"
  /\ UNCHANGED <<counters, noTiles, needCopy, laidOut, apiVars, cancel, device, mPc,
                 content>>

SpuriousWakeUp ==
  /\ sPc = "waiting"
  /\ sPc' = "woken"
  /\ UNCHANGED <<counters, noTiles, needCopy, laidOut, apiVars, cancel, device, mPc,
                 images>>

-----------------------------------------------------------------------------
(* The device: one pass over all tiles.  Cancelled tasks and a cancelled   *)
(* session (acquire_tile) may leave tiles out.                             *)
DevicePass ==
  /\ device # "idle"
  /\ \E whole \in {content.whole, content.whole /\ device = "running" /\ ~cancel} :
       content' = [content EXCEPT !.passes = @ + 1, !.whole = whole]
  /\ device' = "idle"
  /\ UNCHANGED <<counters, sessionVars, apiVars, cancel, mPc, shown>>

-----------------------------------------------------------------------------
(* The main thread                                                         *)

(* reset_cpu, up to device->task_cancel(); the caller passes the number of *)
(* samples it last gave to set_samples.                                    *)
Reset ==
  /\ mPc = "idle"
  /\ requested < MaxRequests
  /\ doReset' = TRUE
  /\ resetSamples' = paramsSamples
  /\ requested' = requested + 1
  /\ device' = IF device = "idle" THEN "idle" ELSE "cut"
  /\ mPc' = "cancelling"
  /\ UNCHANGED <<counters, sessionVars, pause, paramsSamples, applied, changes, cancel,
                 images>>

ResetReturn ==
  /\ mPc = "cancelling"
  /\ device = "idle"
  /\ sPc' = Notified
  /\ mPc' = "idle"
  /\ UNCHANGED <<counters, noTiles, needCopy, laidOut, apiVars, cancel, device, images>>

(* set_samples takes no lock. *)
ChangeSamples(n) ==
  /\ mPc = "idle"
  /\ changes < MaxChanges
  /\ n # paramsSamples
  /\ OnlyIncrease => n > paramsSamples
  /\ paramsSamples' = n
  /\ SetSamples(n)
  /\ sPc' = Notified
  /\ changes' = changes + 1
  /\ UNCHANGED <<noTiles, needCopy, laidOut, pause, doReset, resetSamples, requested,
                 applied, cancel, device, mPc, images>>

(* The notification of set_pause follows its critical section, and is      *)
(* merged with it: one that comes later is a spurious wake-up.             *)
SetPause ==
  /\ "pause" \in UserActions
  /\ mPc = "idle"
  /\ pause' = ~pause
  /\ sPc' = Notified
  /\ UNCHANGED <<counters, noTiles, needCopy, laidOut, doReset, resetSamples,
                 paramsSamples, requested, applied, changes, cancel, device, mPc,
                 images>>

(* progress.set_error, by the main thread in set_denoising or by the       *)
(* device.  It notifies nobody.                                            *)
SetError ==
  /\ "error" \in UserActions
  /\ ~cancel
  /\ cancel' = TRUE
  /\ UNCHANGED <<counters, sessionVars, apiVars, device, mPc, images>>

(* ~Session: progress.set_cancel *)
Destroy ==
  /\ "destroy" \in UserActions
  /\ mPc = "idle"
  /\ cancel' = TRUE
  /\ mPc' = "exiting"
  /\ UNCHANGED <<counters, sessionVars, apiVars, device, images>>

(* ~Session: unpause, notify, and join the session thread. *)
DestroyUnpause ==
  /\ mPc = "exiting"
  /\ pause' = FALSE
  /\ sPc' = Notified
  /\ mPc' = "joining"
  /\ UNCHANGED <<counters, noTiles, needCopy, laidOut, doReset, resetSamples,
                 paramsSamples, requested, applied, changes, cancel, device, images>>

Join ==
  /\ mPc = "joining"
  /\ sPc = "ended"
  /\ mPc' = "done"
  /\ UNCHANGED <<counters, sessionVars, apiVars, cancel, device, images>>

-----------------------------------------------------------------------------
SessionThread ==
  \/ Start \/ StopLoop \/ NextTiles \/ NoTiles
  \/ ResetInPause \/ Sleep \/ Awake \/ WakeUp
  \/ UpdateScene \/ Render \/ TaskWait \/ FinalReset \/ CopyToDisplayBuffer

Request ==
  \/ Reset \/ (\E n \in SampleCounts : ChangeSamples(n)) \/ SetPause \/ SetError
  \/ Destroy

(* A request once made is carried through. *)
MainThread == ResetReturn \/ DestroyUnpause \/ Join

(* Once the session thread has ended nothing is left to do. *)
Terminated == sPc = "ended" /\ mPc \in {"idle", "done"} /\ UNCHANGED vars

Next ==
  SessionThread \/ SpuriousWakeUp \/ DevicePass \/ Request \/ MainThread \/ Terminated

Spec == Init /\ [][Next]_vars

(* The operating system schedules every thread, mutexes are not starved,   *)
(* and a pass takes finite time.  Nobody has to make another request, and  *)
(* spurious wake-ups need not happen.                                      *)
FairSpec == Spec /\ WF_vars(SessionThread) /\ WF_vars(DevicePass) /\ WF_vars(MainThread)

-----------------------------------------------------------------------------
(* Properties                                                              *)

(* "We don't want to show the result of an incomplete sample": a pass that *)
(* a reset cut short never reaches the display.  (One that an error cut    *)
(* short does, in the step before the session ends.)                       *)
ShownComplete == ~cancel => shown.whole

(* The display divides its pixels by sample + 1: it holds that many passes,*)
(* whatever resets, previews and pauses came before.                       *)
PassesMatchDivisor == shown.passes = shown.divisor

(* The device threads read the tile table and the counters without the     *)
(* session thread's mutexes: nothing changes them while a pass is rendered.*)
StableWhileRendering ==
  [][device # "idle" => UNCHANGED <<sample, passSamples, divider, laidOut>>]_vars

(* The display shows the newest request with all its samples. *)
FinalShown ==
  /\ ~doReset
  /\ shown.epoch = requested
  /\ shown.divisor = paramsSamples
  /\ shown.whole

(* If the user unpauses the session for good, keeps the number of samples  *)
(* and nothing fails, the image is completed and shown: no reset, pause or *)
(* delayed denoising leaves the session asleep with work to do.            *)
CompletesImage ==
  <>[](~pause) /\ [](~cancel /\ changes = 0) => <>[]FinalShown

(* BlenderSession::synchronize, of set_samples: "increase samples, but     *)
(* never decrease".  The code does not keep it: see the README.            *)
SamplesNeverDecrease == [][numSamples' >= numSamples]_numSamples

(* ~Session: "wait for session thread to end". *)
DestroyEnds == (mPc = "exiting") ~> (mPc = "done")

(* What the window sees. *)
Window == INSTANCE Viewport WITH
            shown <- shown.epoch,
            open <- sPc # "ended"

ImplementsViewport == Window!ViewSpec
=============================================================================
