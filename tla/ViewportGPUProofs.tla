-------------------------- MODULE ViewportGPUProofs --------------------------
(***************************************************************************)
(* What a viewport drawn through OpenGL shows, for every number of resets, *)
(* pauses and changes of the number of samples, every start divider and    *)
(* every denoising setting.                                                *)
(*                                                                         *)
(* reset_gpu runs in the main thread and may come anywhere in run_gpu      *)
(* except under buffers_mutex or pause_mutex, even among the writes of     *)
(* tile_manager.next(); but it takes the size of the image away before it  *)
(* touches a counter, and nothing is rendered or copied without a size.    *)
(* next() gives it back with sample 0, for which the buffers are cleared,  *)
(* or, if the reset has undone that, with sample -1 (Current, Fresh).  What*)
(* holds only of requests whose reset did not meet next() is in Intact and *)
(* Passes.                                                                 *)
(***************************************************************************)
EXTENDS ViewportGPU, TLAPS

(* next() goes on only if it found a pass to render.  The size of the image*)
(* is there while it begins only if no reset came since it read the        *)
(* counters.  It counts sample 0 before it lays tiles out.                 *)
Current ==
  /\ sPc \in Counting => ~noTiles
  /\ sPc \in {"sleep", "render", "copy", "copyWait"} => ~ResetLocked
  /\ sPc \in {"loop", "next"} /\ laidOut => ~ResetLocked
  /\ sPc = "next" /\ laidOut => read.sample = sample /\ read.divider = divider
  /\ sPc \in {"previewDivider", "previewPasses", "tiles", "buffer"} => sample \in {-1, 0}
  /\ sPc \in {"samplePasses", "sampleDivider", "test"} => sample \in {-1, read.sample}

(* A pass waits to be copied only between the end of render and the next   *)
(* round of the loop, or when the session has ended meanwhile.             *)
Pending == needUpdate => sPc \in {"copy", "copyWait", "copyWaiting", "copyWoken", "ended"}

(* A pass was counted that LockBuffers has not prepared the buffers for.   *)
Counted ==
  /\ ~noTiles /\ ~needUpdate
  /\ sPc \in (Counting \ {"next"}) \cup
             {"pause", "sleep", "waiting", "woken", "scene", "lock", "ended"}

(* The buffers accumulate the newest request, or will be cleared for it, or*)
(* a reset has met next() and the sample is -1.                            *)
Fresh == laidOut => content.epoch = requested \/ sample = -1 \/ (sample = 0 /\ Counted)

(* A reset that does not meet next() leaves no counter half written: the   *)
(* image has a size only if it has tiles and a sample.                     *)
Intact == requested \notin torn =>
  /\ sPc \in Counting => ~ResetLocked
  /\ sPc \in Counting \ {"next"} => sample >= 0
  /\ sPc = "buffer" => tiled
  /\ laidOut => tiled /\ sample >= 0 /\ ~ResetLocked

(* The buffers hold the passes up to the present one, or up to the one     *)
(* before.                                                                 *)
Passes == requested \notin torn /\ laidOut =>
  /\ sPc \in {"loop", "next", "copy", "copyWait", "copyWaiting", "copyWoken"}
       => content.passes = sample + 1
  /\ sPc \in Counting \ {"next"} => sample = 0 \/ content.passes = sample
  /\ sPc \in {"pause", "sleep", "waiting", "woken"}
       => IF noTiles THEN content.passes = sample + 1
                     ELSE sample = 0 \/ content.passes = sample
  /\ sPc \in {"scene", "lock"} => sample = 0 \/ content.passes = sample
  /\ sPc = "render" => content.passes = sample
  /\ sPc = "ended" /\ needUpdate => content.passes = sample + 1

IInv == TypeOK /\ Current /\ Pending /\ Fresh /\ Intact /\ Passes /\ PassesMatchDivisor

-----------------------------------------------------------------------------
(* Helpers                                                                 *)

(* The images the histories hold. *)
LEMMA EmptyFacts ==
  ASSUME NEW e \in Nat
  PROVE  /\ Empty(e) \in Image
         /\ Empty(e).epoch = e /\ Empty(e).passes = 0 /\ Empty(e).divisor = 0
BY DEF Image, Empty

(* Dividing an image by its passes changes nothing else of it. *)
LEMMA DividedImage ==
  ASSUME NEW i \in Image, NEW d \in Nat
  PROVE  /\ [i EXCEPT !.divisor = d] \in Image
         /\ [i EXCEPT !.divisor = d].epoch = i.epoch
         /\ [i EXCEPT !.divisor = d].passes = i.passes
         /\ [i EXCEPT !.divisor = d].divisor = d
BY DEF Image

(* A pass adds one to an image and changes nothing else of it. *)
LEMMA AnotherPass ==
  ASSUME NEW i \in Image
  PROVE  /\ [i EXCEPT !.passes = @ + 1] \in Image
         /\ [i EXCEPT !.passes = @ + 1].epoch = i.epoch
         /\ [i EXCEPT !.passes = @ + 1].passes = i.passes + 1
<1>1. i.passes + 1 \in Nat
  BY DEF Image
<1> QED BY <1>1 DEF Image

(* Whichever counters next() works with, it counts sample 0 or, if the     *)
(* image has a size, the one after the present sample.                     *)
LEMMA SampleCounted ==
  ASSUME TypeOK, Current, CountSample
  PROVE  /\ sample' \in Nat /\ read'.sample = sample' /\ read'.divider = read.divider
         /\ read' \in [sample : Nat \cup {-1}, divider : Nat \ {0}]
         /\ sPc = "next" /\ sPc' \in {"previewDivider", "samplePasses"}
         /\ sPc' = "previewDivider" => sample' = 0
         /\ laidOut => sample' \in {0, sample + 1}
<1>1. sPc = "next" /\ read' = [read EXCEPT !.sample = sample']
  BY DEF CountSample
<1>2. PICK s \in {read.sample, sample}, d \in {read.divider, divider} :
        IF d > PixelSize
        THEN sample' = 0 /\ Go("previewDivider")
        ELSE sample' = s + 1 /\ Go("samplePasses")
  BY DEF CountSample
<1>3. s \in Nat \cup {-1} /\ (laidOut => s = sample)
  BY <1>1, <1>2 DEF TypeOK, CountersTypeOK, Current
<1>4. sample' \in Nat /\ (laidOut => sample' \in {0, sample + 1})
  BY <1>2, <1>3
<1>5. sPc' \in {"previewDivider", "samplePasses"} /\ (sPc' = "previewDivider" => sample' = 0)
  BY <1>2 DEF Go
<1>6. /\ read'.sample = sample' /\ read'.divider = read.divider
      /\ read' \in [sample : Nat \cup {-1}, divider : Nat \ {0}]
  BY <1>1, <1>4 DEF TypeOK
<1> QED BY <1>1, <1>4, <1>5, <1>6

(* The resolution is one, whichever divider next() halves. *)
LEMMA DividerCounted ==
  ASSUME TypeOK, CountDivider
  PROVE  divider' \in Nat \ {0}
<1>1. ASSUME NEW d \in Nat \ {0}
      PROVE  Finer(d) \in Nat \ {0}
  BY <1>1, CounterAssumption DEF Finer
<1>2. read.divider \in Nat \ {0} /\ divider \in Nat \ {0}
  BY DEF TypeOK, CountersTypeOK
<1> QED BY <1>1, <1>2, CounterAssumption DEF CountDivider

(* What reset_gpu does first. *)
LEMMA ResetFacts ==
  ASSUME TypeOK, Reset
  PROVE  /\ CountersTypeOK' /\ laidOut' = FALSE /\ mPc' = "resetSample"
         /\ sPc \notin {"sleep", "render", "copy", "copyWait"}
         /\ requested' = requested + 1 /\ requested' \in 1 .. MaxRequests
         /\ torn' \subseteq 1 .. MaxRequests /\ torn \subseteq torn'
         /\ sPc \in Counting => requested' \in torn'
         /\ content' \in Image /\ shown' \in Image /\ drawReady' \in BOOLEAN
         /\ shown' = shown \/ shown' = Empty(0)
<1>1. CountersTypeOK'
  <2>1. SetSamples(paramsSamples) /\ paramsSamples \in Nat
    BY ViewportAssumption DEF Reset, TypeOK
  <2> QED BY <2>1 DEF SetSamples, TypeOK, CountersTypeOK
<1>2. requested' = requested + 1 /\ requested' \in 1 .. MaxRequests
  BY ViewportAssumption DEF Reset, TypeOK
<1>3. content' \in Image /\ shown' \in Image /\ drawReady' \in BOOLEAN
      /\ (shown' = shown \/ shown' = Empty(0))
  <2>1. requested' \in Nat
    BY <1>2
  <2>2. Empty(requested') \in Image /\ Empty(0) \in Image
    BY <2>1, EmptyFacts
  <2> QED BY <2>2 DEF Reset, ResetImages, TypeOK
<1>4. torn' \subseteq 1 .. MaxRequests /\ torn \subseteq torn'
      /\ (sPc \in Counting => requested' \in torn')
  BY <1>2 DEF Reset, TypeOK
<1> QED BY <1>1, <1>2, <1>3, <1>4 DEF Reset, PauseLocked, BuffersLocked

(* What reset_gpu does last: it wakes those who wait. *)
LEMMA Notified ==
  ASSUME ResetTiles
  PROVE  sPc' = sPc \/ (sPc = "waiting" /\ sPc' = "woken")
           \/ (sPc = "copyWaiting" /\ sPc' = "copyWoken")
BY DEF ResetTiles, BothNotified

-----------------------------------------------------------------------------
(* Every action keeps the types, the bounds on the histories included.     *)
LEMMA TypeStep ==
  ASSUME IInv, [Next]_vars
  PROVE  TypeOK'
<1> USE DEF IInv, TypeOK
<1>1. CASE StopLoop \/ Awake \/ Sleep \/ PauseWait \/ WakeUp \/ UpdateScene
           \/ AwaitCopy \/ CopyWait \/ SpuriousWakeUp
  <2>1. CASE StopLoop
    BY <2>1
       DEF StopLoop, Go, counters, tileVars, displayVars, apiVars, images,
           CountersTypeOK
  <2>2. CASE Awake
    BY <2>2
       DEF Awake, AfterPause, Go, counters, tileVars, displayVars, apiVars, images,
           CountersTypeOK
  <2>3. CASE Sleep
    BY <2>3
       DEF Sleep, Go, counters, tileVars, displayVars, apiVars, images, CountersTypeOK
  <2>4. CASE PauseWait
    BY <2>4
       DEF PauseWait, Go, counters, tileVars, displayVars, apiVars, images,
           CountersTypeOK
  <2>5. CASE WakeUp
    BY <2>5
       DEF WakeUp, AfterPause, Go, counters, tileVars, displayVars, apiVars, images,
           CountersTypeOK
  <2>6. CASE UpdateScene
    BY <2>6
       DEF UpdateScene, Go, counters, tileVars, displayVars, apiVars, images,
           CountersTypeOK
  <2>7. CASE AwaitCopy
    BY <2>7
       DEF AwaitCopy, Go, counters, tileVars, displayVars, apiVars, images,
           CountersTypeOK
  <2>8. CASE CopyWait
    BY <2>8
       DEF CopyWait, Go, counters, tileVars, displayVars, apiVars, images,
           CountersTypeOK
  <2>9. CASE SpuriousWakeUp
    BY <2>9
       DEF SpuriousWakeUp, Go, counters, tileVars, displayVars, apiVars, images,
           CountersTypeOK
  <2> QED BY <1>1, <2>1, <2>2, <2>3, <2>4, <2>5, <2>6, <2>7, <2>8, <2>9
<1>2. CASE NextBegin
  <2>1. read' \in [sample : Nat \cup {-1}, divider : Nat \ {0}]
    BY <1>2 DEF NextBegin, CountersTypeOK
  <2>2. noTiles' \in BOOLEAN /\ sPc' \in {"pause", "next"} /\ torn' \subseteq 1 .. MaxRequests
    BY <1>2 DEF NextBegin, Go, Done
  <2> QED
    BY <1>2, <2>1, <2>2
       DEF NextBegin, counters, tileVars, displayVars, apiVars, images, CountersTypeOK,
           Counting
<1>3. CASE CountSample
  BY <1>3, SampleCounted
     DEF CountSample, tileVars, displayVars, apiVars, images, CountersTypeOK, Counting
<1>4. CASE CountDivider
  BY <1>4, DividerCounted
     DEF CountDivider, Go, CountersTypeOK, Counting, tileVars, displayVars, apiVars,
         images
<1>5. CASE CountPasses
  BY <1>5
     DEF CountPasses, Go, CountersTypeOK, Counting, tileVars, displayVars, apiVars,
         images
<1>6. CASE ChooseTiles
  BY <1>6, ViewportAssumption
     DEF ChooseTiles, Go, CountersTypeOK, Counting, counters, tileVars, displayVars,
         apiVars, images
<1>7. CASE GenTiles
  BY <1>7
     DEF GenTiles, Go, CountersTypeOK, Counting, counters, displayVars, apiVars, images
<1>8. CASE SetBuffer
  BY <1>8
     DEF SetBuffer, Go, CountersTypeOK, Counting, counters, displayVars, apiVars, images
<1>9. CASE ResetCounter \/ ResetTiles
  <2>1. CASE ResetCounter
    BY <2>1, CounterAssumption, ViewportAssumption
       DEF ResetCounter, CountersTypeOK, Resetting, sessionVars, tileVars, displayVars,
           apiVars, images
  <2>2. CASE ResetTiles
    <3>1. sPc' \in Counting \cup {"loop", "pause", "sleep", "waiting", "woken", "scene",
              "lock", "render", "copy", "copyWait", "copyWaiting", "copyWoken", "ended"}
      BY <2>2, Notified DEF Counting
    <3> QED BY <2>2, <3>1 DEF ResetTiles, CountersTypeOK, counters, apiVars, images
  <2> QED BY <1>9, <2>1, <2>2
<1>10. CASE LockBuffers
  <2>1. requested \in Nat
    OBVIOUS
  <2>2. content' \in Image
    BY <1>10, <2>1, EmptyFacts DEF LockBuffers
  <2> QED BY <1>10, <2>2
         DEF LockBuffers, Go, counters, tileVars, displayVars, apiVars, CountersTypeOK
<1>11. CASE Render
  <2>1. content' \in Image
    BY <1>11, AnotherPass DEF Render
  <2>2. needUpdate' \in BOOLEAN
    BY <1>11 DEF Render, MayDelay
  <2> QED BY <1>11, <2>1, <2>2
         DEF Render, Go, counters, tileVars, apiVars, CountersTypeOK
<1>12. CASE Reset
  BY <1>12, ResetFacts DEF Reset, sessionVars, Resetting
<1>13. CASE Draw
  <2>1. sample + 1 \in Nat
    BY DEF CountersTypeOK
  <2>2. shown' \in Image
    BY <1>13, <2>1, DividedImage DEF Draw
  <2> QED BY <1>13, <2>2
         DEF Draw, UpdateNotified, counters, tileVars, apiVars, CountersTypeOK
<1>14. ASSUME NEW n \in SampleCounts, ChangeSamples(n)
      PROVE  TypeOK'
  <2>1. changes' \in 0 .. MaxChanges
    BY <1>14, ViewportAssumption DEF ChangeSamples
  <2>2. CountersTypeOK'
    BY <1>14, ViewportAssumption DEF ChangeSamples, SetSamples, CountersTypeOK
  <2> QED BY <1>14, <2>1, <2>2
         DEF ChangeSamples, PauseNotified, tileVars, displayVars, images
<1>15. CASE DestroyUpdate \/ DestroyUnpause \/ Join \/ SetPause \/ SetError \/ Destroy
  <2>1. CASE DestroyUpdate
    BY <2>1
       DEF DestroyUpdate, UpdateNotified, counters, tileVars, sessionVars, displayVars,
           apiVars, images, CountersTypeOK
  <2>2. CASE DestroyUnpause
    BY <2>2
       DEF DestroyUnpause, PauseNotified, counters, tileVars, sessionVars, displayVars,
           apiVars, images, CountersTypeOK
  <2>3. CASE Join
    BY <2>3
       DEF Join, counters, tileVars, sessionVars, displayVars, apiVars, images,
           CountersTypeOK
  <2>4. CASE SetPause
    BY <2>4
       DEF SetPause, PauseNotified, counters, tileVars, sessionVars, displayVars,
           apiVars, images, CountersTypeOK
  <2>5. CASE SetError
    BY <2>5
       DEF SetError, counters, tileVars, sessionVars, displayVars, apiVars, images,
           CountersTypeOK
  <2>6. CASE Destroy
    BY <2>6
       DEF Destroy, counters, tileVars, sessionVars, displayVars, apiVars, images,
           CountersTypeOK
  <2> QED BY <1>15, <2>1, <2>2, <2>3, <2>4, <2>5, <2>6
<1>16. CASE UNCHANGED vars
  BY <1>16
     DEF vars, counters, tileVars, displayVars, apiVars, images, sessionVars,
         CountersTypeOK
<1> QED
  BY <1>1, <1>2, <1>3, <1>4, <1>5, <1>6, <1>7, <1>8, <1>9, <1>10, <1>11, <1>12,
     <1>13, <1>14, <1>15, <1>16
     DEF Next, SessionThread, Request, MainThread, Terminated

(* Where the session thread is, and what it knows.                         *)
LEMMA ControlStep ==
  ASSUME IInv, [Next]_vars
  PROVE  Current' /\ Pending'
<1> USE
       DEF IInv, TypeOK, CountersTypeOK, Current, Pending, Counting, Resetting,
           ResetLocked
<1>1. CASE StopLoop \/ Awake \/ Sleep \/ PauseWait \/ WakeUp \/ UpdateScene
           \/ AwaitCopy \/ CopyWait \/ SpuriousWakeUp
  <2>1. CASE StopLoop
    BY <2>1 DEF StopLoop, Go, counters, tileVars, displayVars, apiVars, images
  <2>2. CASE Awake
    BY <2>2 DEF Awake, AfterPause, Go, counters, tileVars, displayVars, apiVars, images
  <2>3. CASE Sleep
    BY <2>3 DEF Sleep, Go, counters, tileVars, displayVars, apiVars, images
  <2>4. CASE PauseWait
    BY <2>4 DEF PauseWait, Go, counters, tileVars, displayVars, apiVars, images
  <2>5. CASE WakeUp
    BY <2>5 DEF WakeUp, AfterPause, Go, counters, tileVars, displayVars, apiVars, images
  <2>6. CASE UpdateScene
    BY <2>6 DEF UpdateScene, Go, counters, tileVars, displayVars, apiVars, images
  <2>7. CASE AwaitCopy
    BY <2>7 DEF AwaitCopy, Go, counters, tileVars, displayVars, apiVars, images
  <2>8. CASE CopyWait
    BY <2>8 DEF CopyWait, Go, counters, tileVars, displayVars, apiVars, images
  <2>9. CASE SpuriousWakeUp
    BY <2>9 DEF SpuriousWakeUp, Go, counters, tileVars, displayVars, apiVars, images
  <2> QED BY <1>1, <2>1, <2>2, <2>3, <2>4, <2>5, <2>6, <2>7, <2>8, <2>9
<1>2. CASE NextBegin
  BY <1>2 DEF NextBegin, Go, counters, tileVars, displayVars, apiVars, images
<1>3. CASE CountSample
  BY <1>3, SampleCounted DEF CountSample, tileVars, displayVars, apiVars, images
<1>4. CASE CountDivider
  BY <1>4 DEF CountDivider, Go, tileVars, displayVars, apiVars, images
<1>5. CASE CountPasses
  BY <1>5 DEF CountPasses, Go, tileVars, displayVars, apiVars, images
<1>6. CASE ChooseTiles
  BY <1>6, ViewportAssumption
     DEF ChooseTiles, Go, counters, tileVars, displayVars, apiVars, images
<1>7. CASE GenTiles
  BY <1>7 DEF GenTiles, Go, counters, displayVars, apiVars, images
<1>8. CASE SetBuffer
  BY <1>8 DEF SetBuffer, Go, counters, displayVars, apiVars, images
<1>9. CASE ResetCounter \/ ResetTiles
  <2>1. CASE ResetCounter
    BY <2>1, CounterAssumption, ViewportAssumption
       DEF ResetCounter, sessionVars, tileVars, displayVars, apiVars, images
  <2>2. CASE ResetTiles
    BY <2>2, Notified DEF ResetTiles, counters, apiVars, images
  <2> QED BY <1>9, <2>1, <2>2
<1>10. CASE LockBuffers
  BY <1>10 DEF LockBuffers, Go, counters, tileVars, displayVars
<1>11. CASE Render
  BY <1>11 DEF Render, Go, counters, tileVars
<1>12. CASE Reset
  BY <1>12, ResetFacts DEF Reset, SetSamples, sessionVars
<1>13. CASE Draw
  BY <1>13 DEF Draw, UpdateNotified, counters, tileVars
<1>14. ASSUME NEW n \in SampleCounts, ChangeSamples(n)
      PROVE  Current' /\ Pending'
  BY <1>14 DEF ChangeSamples, SetSamples, PauseNotified, tileVars, displayVars, images
<1>15. CASE DestroyUpdate \/ DestroyUnpause \/ Join \/ SetPause \/ SetError \/ Destroy
  <2>1. CASE DestroyUpdate
    BY <2>1
       DEF DestroyUpdate, UpdateNotified, counters, tileVars, sessionVars, displayVars,
           apiVars, images
  <2>2. CASE DestroyUnpause
    BY <2>2
       DEF DestroyUnpause, PauseNotified, counters, tileVars, sessionVars, displayVars,
           apiVars, images
  <2>3. CASE Join
    BY <2>3 DEF Join, counters, tileVars, sessionVars, displayVars, apiVars, images
  <2>4. CASE SetPause
    BY <2>4
       DEF SetPause, PauseNotified, counters, tileVars, sessionVars, displayVars,
           apiVars, images
  <2>5. CASE SetError
    BY <2>5 DEF SetError, counters, tileVars, sessionVars, displayVars, apiVars, images
  <2>6. CASE Destroy
    BY <2>6 DEF Destroy, counters, tileVars, sessionVars, displayVars, apiVars, images
  <2> QED BY <1>15, <2>1, <2>2, <2>3, <2>4, <2>5, <2>6
<1>16. CASE UNCHANGED vars
  BY <1>16 DEF vars, counters, tileVars, displayVars, apiVars, images, sessionVars
<1> QED
  BY <1>1, <1>2, <1>3, <1>4, <1>5, <1>6, <1>7, <1>8, <1>9, <1>10, <1>11, <1>12,
     <1>13, <1>14, <1>15, <1>16
     DEF Next, SessionThread, Request, MainThread, Terminated

(* Tiles laid out anew have sample 0, and LockBuffers clears for it.       *)
LEMMA FreshStep ==
  ASSUME IInv, [Next]_vars
  PROVE  Fresh'
<1> USE DEF IInv, TypeOK, CountersTypeOK, Fresh, Counted, Pending, Current, Counting
<1>1. CASE StopLoop \/ Awake \/ Sleep \/ PauseWait \/ WakeUp \/ UpdateScene
           \/ AwaitCopy \/ CopyWait \/ SpuriousWakeUp
  <2>1. CASE StopLoop
    BY <2>1 DEF StopLoop, Go, counters, tileVars, displayVars, apiVars, images
  <2>2. CASE Awake
    BY <2>2 DEF Awake, AfterPause, Go, counters, tileVars, displayVars, apiVars, images
  <2>3. CASE Sleep
    BY <2>3 DEF Sleep, Go, counters, tileVars, displayVars, apiVars, images
  <2>4. CASE PauseWait
    BY <2>4 DEF PauseWait, Go, counters, tileVars, displayVars, apiVars, images
  <2>5. CASE WakeUp
    BY <2>5 DEF WakeUp, AfterPause, Go, counters, tileVars, displayVars, apiVars, images
  <2>6. CASE UpdateScene
    BY <2>6 DEF UpdateScene, Go, counters, tileVars, displayVars, apiVars, images
  <2>7. CASE AwaitCopy
    BY <2>7 DEF AwaitCopy, Go, counters, tileVars, displayVars, apiVars, images
  <2>8. CASE CopyWait
    BY <2>8 DEF CopyWait, Go, counters, tileVars, displayVars, apiVars, images
  <2>9. CASE SpuriousWakeUp
    BY <2>9 DEF SpuriousWakeUp, Go, counters, tileVars, displayVars, apiVars, images
  <2> QED BY <1>1, <2>1, <2>2, <2>3, <2>4, <2>5, <2>6, <2>7, <2>8, <2>9
<1>2. CASE NextBegin
  BY <1>2 DEF NextBegin, Go, counters, tileVars, displayVars, apiVars, images
<1>3. CASE CountSample
  BY <1>3, SampleCounted DEF CountSample, tileVars, displayVars, apiVars, images
<1>4. CASE CountDivider
  BY <1>4 DEF CountDivider, Go, tileVars, displayVars, apiVars, images
<1>5. CASE CountPasses
  BY <1>5 DEF CountPasses, Go, tileVars, displayVars, apiVars, images
<1>6. CASE ChooseTiles
  BY <1>6, ViewportAssumption
     DEF ChooseTiles, Go, counters, tileVars, displayVars, apiVars, images
<1>7. CASE GenTiles
  BY <1>7 DEF GenTiles, Go, counters, displayVars, apiVars, images
<1>8. CASE SetBuffer
  BY <1>8 DEF SetBuffer, Go, counters, displayVars, apiVars, images
<1>9. CASE ResetCounter \/ ResetTiles
  <2>1. CASE ResetCounter
    BY <2>1, CounterAssumption, ViewportAssumption
       DEF ResetCounter, sessionVars, tileVars, displayVars, apiVars, images
  <2>2. CASE ResetTiles
    BY <2>2, Notified DEF ResetTiles, counters, apiVars, images
  <2> QED BY <1>9, <2>1, <2>2
<1>10. CASE LockBuffers
  <2>1. requested \in Nat
    OBVIOUS
  <2> QED
    BY <1>10, <2>1, EmptyFacts, ViewportAssumption
       DEF LockBuffers, Go, counters, tileVars, displayVars, apiVars
<1>11. CASE Render
  BY <1>11, AnotherPass DEF Render, Go, counters, tileVars, apiVars
<1>12. CASE Reset
  BY <1>12, ResetFacts DEF Reset, SetSamples, sessionVars
<1>13. CASE Draw
  BY <1>13 DEF Draw, UpdateNotified, counters, tileVars, apiVars
<1>14. ASSUME NEW n \in SampleCounts, ChangeSamples(n)
      PROVE  Fresh'
  BY <1>14 DEF ChangeSamples, SetSamples, PauseNotified, tileVars, displayVars, images
<1>15. CASE DestroyUpdate \/ DestroyUnpause \/ Join \/ SetPause \/ SetError \/ Destroy
  <2>1. CASE DestroyUpdate
    BY <2>1
       DEF DestroyUpdate, UpdateNotified, counters, tileVars, sessionVars, displayVars,
           apiVars, images
  <2>2. CASE DestroyUnpause
    BY <2>2
       DEF DestroyUnpause, PauseNotified, counters, tileVars, sessionVars, displayVars,
           apiVars, images
  <2>3. CASE Join
    BY <2>3 DEF Join, counters, tileVars, sessionVars, displayVars, apiVars, images
  <2>4. CASE SetPause
    BY <2>4
       DEF SetPause, PauseNotified, counters, tileVars, sessionVars, displayVars,
           apiVars, images
  <2>5. CASE SetError
    BY <2>5 DEF SetError, counters, tileVars, sessionVars, displayVars, apiVars, images
  <2>6. CASE Destroy
    BY <2>6 DEF Destroy, counters, tileVars, sessionVars, displayVars, apiVars, images
  <2> QED BY <1>15, <2>1, <2>2, <2>3, <2>4, <2>5, <2>6
<1>16. CASE UNCHANGED vars
  BY <1>16 DEF vars, counters, tileVars, displayVars, apiVars, images, sessionVars
<1> QED
  BY <1>1, <1>2, <1>3, <1>4, <1>5, <1>6, <1>7, <1>8, <1>9, <1>10, <1>11, <1>12,
     <1>13, <1>14, <1>15, <1>16
     DEF Next, SessionThread, Request, MainThread, Terminated

(* Passes are added one by one to the cleared buffers.                     *)
LEMMA PassesStep ==
  ASSUME IInv, [Next]_vars
  PROVE  Intact' /\ Passes'
<1> USE
       DEF IInv, TypeOK, CountersTypeOK, Intact, Passes, Pending, Current, Counting,
           Resetting, ResetLocked
<1>1. CASE StopLoop \/ Awake \/ Sleep \/ PauseWait \/ WakeUp \/ UpdateScene
           \/ AwaitCopy \/ CopyWait \/ SpuriousWakeUp
  <2>1. CASE StopLoop
    BY <2>1 DEF StopLoop, Go, counters, tileVars, displayVars, apiVars, images
  <2>2. CASE Awake
    BY <2>2 DEF Awake, AfterPause, Go, counters, tileVars, displayVars, apiVars, images
  <2>3. CASE Sleep
    BY <2>3 DEF Sleep, Go, counters, tileVars, displayVars, apiVars, images
  <2>4. CASE PauseWait
    BY <2>4 DEF PauseWait, Go, counters, tileVars, displayVars, apiVars, images
  <2>5. CASE WakeUp
    BY <2>5 DEF WakeUp, AfterPause, Go, counters, tileVars, displayVars, apiVars, images
  <2>6. CASE UpdateScene
    BY <2>6 DEF UpdateScene, Go, counters, tileVars, displayVars, apiVars, images
  <2>7. CASE AwaitCopy
    BY <2>7 DEF AwaitCopy, Go, counters, tileVars, displayVars, apiVars, images
  <2>8. CASE CopyWait
    BY <2>8 DEF CopyWait, Go, counters, tileVars, displayVars, apiVars, images
  <2>9. CASE SpuriousWakeUp
    BY <2>9 DEF SpuriousWakeUp, Go, counters, tileVars, displayVars, apiVars, images
  <2> QED BY <1>1, <2>1, <2>2, <2>3, <2>4, <2>5, <2>6, <2>7, <2>8, <2>9
<1>2. CASE NextBegin
  BY <1>2 DEF NextBegin, Go, counters, tileVars, displayVars, apiVars, images
<1>3. CASE CountSample
  BY <1>3, SampleCounted DEF CountSample, tileVars, displayVars, apiVars, images
<1>4. CASE CountDivider
  BY <1>4 DEF CountDivider, Go, tileVars, displayVars, apiVars, images
<1>5. CASE CountPasses
  BY <1>5 DEF CountPasses, Go, tileVars, displayVars, apiVars, images
<1>6. CASE ChooseTiles
  BY <1>6, ViewportAssumption
     DEF ChooseTiles, Go, counters, tileVars, displayVars, apiVars, images
<1>7. CASE GenTiles
  BY <1>7 DEF GenTiles, Go, counters, displayVars, apiVars, images
<1>8. CASE SetBuffer
  BY <1>8 DEF SetBuffer, Go, counters, displayVars, apiVars, images
<1>9. CASE ResetCounter \/ ResetTiles
  <2>1. CASE ResetCounter
    BY <2>1, CounterAssumption, ViewportAssumption
       DEF ResetCounter, sessionVars, tileVars, displayVars, apiVars, images
  <2>2. CASE ResetTiles
    BY <2>2, Notified DEF ResetTiles, counters, apiVars, images
  <2> QED BY <1>9, <2>1, <2>2
<1>10. CASE LockBuffers
  <2>1. requested \in Nat
    OBVIOUS
  <2> QED
    BY <1>10, <2>1, EmptyFacts, ViewportAssumption
       DEF LockBuffers, Go, counters, tileVars, displayVars, apiVars
<1>11. CASE Render
  BY <1>11, AnotherPass DEF Render, Go, counters, tileVars, apiVars
<1>12. CASE Reset
  BY <1>12, ResetFacts DEF Reset, SetSamples, sessionVars
<1>13. CASE Draw
  BY <1>13 DEF Draw, UpdateNotified, counters, tileVars, apiVars
<1>14. ASSUME NEW n \in SampleCounts, ChangeSamples(n)
      PROVE  Intact' /\ Passes'
  BY <1>14 DEF ChangeSamples, SetSamples, PauseNotified, tileVars, displayVars, images
<1>15. CASE DestroyUpdate \/ DestroyUnpause \/ Join \/ SetPause \/ SetError \/ Destroy
  <2>1. CASE DestroyUpdate
    BY <2>1
       DEF DestroyUpdate, UpdateNotified, counters, tileVars, sessionVars, displayVars,
           apiVars, images
  <2>2. CASE DestroyUnpause
    BY <2>2
       DEF DestroyUnpause, PauseNotified, counters, tileVars, sessionVars, displayVars,
           apiVars, images
  <2>3. CASE Join
    BY <2>3 DEF Join, counters, tileVars, sessionVars, displayVars, apiVars, images
  <2>4. CASE SetPause
    BY <2>4
       DEF SetPause, PauseNotified, counters, tileVars, sessionVars, displayVars,
           apiVars, images
  <2>5. CASE SetError
    BY <2>5 DEF SetError, counters, tileVars, sessionVars, displayVars, apiVars, images
  <2>6. CASE Destroy
    BY <2>6 DEF Destroy, counters, tileVars, sessionVars, displayVars, apiVars, images
  <2> QED BY <1>15, <2>1, <2>2, <2>3, <2>4, <2>5, <2>6
<1>16. CASE UNCHANGED vars
  BY <1>16 DEF vars, counters, tileVars, displayVars, apiVars, images, sessionVars
<1> QED
  BY <1>1, <1>2, <1>3, <1>4, <1>5, <1>6, <1>7, <1>8, <1>9, <1>10, <1>11, <1>12,
     <1>13, <1>14, <1>15, <1>16
     DEF Next, SessionThread, Request, MainThread, Terminated

(* What changes the display: a copy, and buffers allocated anew.           *)
LEMMA OthersDraw ==
  ASSUME IInv, [Next]_vars
  PROVE  Reset \/ Draw \/ shown' = shown
<1>1. CASE SessionThread
  BY <1>1
     DEF SessionThread, StopLoop, NextBegin, CountSample, CountDivider,
         CountPasses, ChooseTiles, GenTiles, SetBuffer, Awake, Sleep, PauseWait, WakeUp,
         UpdateScene, LockBuffers, Render, AwaitCopy, CopyWait, images
<1>2. CASE SpuriousWakeUp \/ MainThread \/ SetPause \/ SetError \/ Destroy
  BY <1>2
     DEF SpuriousWakeUp, MainThread, ResetCounter, ResetTiles, DestroyUpdate,
         DestroyUnpause, Join, SetPause,
         SetError, Destroy, images
<1>3. ASSUME NEW n \in SampleCounts, ChangeSamples(n)
      PROVE  shown' = shown
  BY <1>3 DEF ChangeSamples, images
<1>4. CASE UNCHANGED vars
  BY <1>4 DEF vars, images
<1> QED BY <1>1, <1>2, <1>3, <1>4 DEF Next, Request, Terminated

(* A copy is of the newest request, or divided by zero; and in a request   *)
(* whose reset did not meet next(), of as many passes as it is divided by. *)
LEMMA DrawFacts ==
  ASSUME IInv, Draw, laidOut
  PROVE  /\ shown'.divisor = sample + 1 /\ shown'.epoch = content.epoch
         /\ sample = -1 \/ content.epoch = requested
         /\ sample # -1 /\ requested \notin torn => shown'.passes = sample + 1
<1>1. needUpdate /\ shown' = [content EXCEPT !.divisor = sample + 1]
  BY DEF Draw
<1>2. sample + 1 \in Nat /\ content \in Image
  BY DEF IInv, TypeOK, CountersTypeOK
<1>3. sample = -1 \/ content.epoch = requested
  BY <1>1 DEF IInv, Fresh, Counted
<1>4. requested \notin torn => content.passes = sample + 1
  BY <1>1 DEF IInv, Passes, Pending
<1> QED BY <1>1, <1>2, <1>3, <1>4, DividedImage

(* No request is taken off the list. *)
LEMMA StaysTorn ==
  ASSUME IInv, [Next]_vars
  PROVE  torn \subseteq torn'
<1>1. CASE SessionThread
  BY <1>1
     DEF SessionThread, StopLoop, NextBegin, CountSample, CountDivider, CountPasses,
         ChooseTiles, GenTiles, SetBuffer, Awake, Sleep, PauseWait, WakeUp, UpdateScene,
         LockBuffers, Render, AwaitCopy, CopyWait
<1>2. CASE SpuriousWakeUp \/ Draw \/ MainThread \/ SetPause \/ SetError \/ Destroy
  BY <1>2
     DEF SpuriousWakeUp, Draw, MainThread, ResetCounter, ResetTiles, DestroyUpdate,
         DestroyUnpause, Join, SetPause, SetError, Destroy
<1>3. ASSUME NEW n \in SampleCounts, ChangeSamples(n)
      PROVE  torn' = torn
  BY <1>3 DEF ChangeSamples
<1>4. CASE Reset
  BY <1>4, ResetFacts DEF IInv
<1>5. CASE UNCHANGED vars
  BY <1>5 DEF vars
<1> QED BY <1>1, <1>2, <1>3, <1>4, <1>5 DEF Next, Request, Terminated

(* The display changes by copies, and by buffers allocated anew.           *)
LEMMA DisplayedStep ==
  ASSUME IInv, [Next]_vars
  PROVE  PassesMatchDivisor'
<1>1. CASE Reset
  BY <1>1, ResetFacts, EmptyFacts DEF IInv, PassesMatchDivisor
<1>2. CASE Draw /\ laidOut
  <2>1. torn' = torn /\ sample \in Nat \cup {-1}
    BY <1>2 DEF Draw, IInv, TypeOK, CountersTypeOK
  <2> QED BY <1>2, <2>1, DrawFacts DEF PassesMatchDivisor
<1>3. CASE Draw /\ ~laidOut
  BY <1>3 DEF Draw, IInv, PassesMatchDivisor
<1>4. CASE shown' = shown
  BY <1>4, StaysTorn DEF IInv, PassesMatchDivisor
<1> QED BY <1>1, <1>2, <1>3, <1>4, OthersDraw

-----------------------------------------------------------------------------
(* Nothing is laid out, and nothing waits to be shown.                     *)
LEMMA InitIInv ==
  ASSUME Init
  PROVE  IInv
<1>1. CountersTypeOK
  <2>1. CountersReset(paramsSamples) /\ paramsSamples \in Nat
    BY ViewportAssumption DEF Init
  <2> QED BY <2>1, CounterAssumption, ViewportAssumption
         DEF CountersReset, CountersTypeOK
<1>2. Empty(0) \in Image /\ Empty(1) \in Image
  BY EmptyFacts
<1>3. pause \in BOOLEAN /\ paramsSamples \in SampleCounts
  BY DEF Init
<1>4. requested \in 1 .. MaxRequests /\ changes \in 0 .. MaxChanges
  BY ViewportAssumption DEF Init
<1>5. read \in [sample : Nat \cup {-1}, divider : Nat \ {0}]
  BY CounterAssumption DEF Init
<1>6. /\ sPc = "loop" /\ noTiles = FALSE /\ cancel = FALSE
      /\ tiled = FALSE /\ laidOut = FALSE /\ torn = {}
      /\ needUpdate = FALSE /\ drawReady = FALSE /\ mPc = "idle"
      /\ content = Empty(1) /\ shown = Empty(0)
  BY DEF Init
<1>7. TypeOK
  BY <1>1, <1>2, <1>3, <1>4, <1>5, <1>6 DEF TypeOK
<1>8. Current /\ Pending /\ Fresh /\ Intact /\ Passes
  BY <1>6 DEF Current, Pending, Fresh, Intact, Passes, Counting, ResetLocked, Resetting
<1>9. PassesMatchDivisor
  BY <1>6, EmptyFacts DEF PassesMatchDivisor
<1> QED BY <1>7, <1>8, <1>9 DEF IInv

(* The invariant is inductive. *)
THEOREM Invariance == Spec => []IInv
<1>1. Init => IInv
  BY InitIInv
<1>2. ASSUME IInv, [Next]_vars
      PROVE  IInv'
  BY <1>2, TypeStep, ControlStep, FreshStep, PassesStep, DisplayedStep DEF IInv
<1> QED BY <1>1, <1>2, PTL DEF Spec

(* run_gpu waits until draw_gpu has copied a pass, or a reset made it void,*)
(* before it starts the next: no pass is overwritten before it was shown,  *)
(* and draw_gpu never copies buffers with a pass half rendered.            *)
THEOREM CopiedFirst == Spec => []CopiedBeforeNextPass
<1>1. IInv => CopiedBeforeNextPass
  BY DEF IInv, Pending, CopiedBeforeNextPass, Counting
<1> QED BY <1>1, Invariance, PTL

(* The display divides its pixels by the number of passes it holds, or by  *)
(* zero, in every request whose reset did not meet tile_manager.next().    *)
THEOREM PassesShown == Spec => []PassesMatchDivisor
<1>1. IInv => PassesMatchDivisor
  BY DEF IInv
<1> QED BY <1>1, Invariance, PTL

-----------------------------------------------------------------------------
(* Nothing more can appear once the session has ended with no pass waiting.*)
LEMMA EndedStays ==
  ASSUME [Next]_vars
  PROVE  Window!MayClose
<1> SUFFICES ASSUME sPc = "ended", ~needUpdate
             PROVE  sPc' = "ended" /\ ~needUpdate'
  BY DEF Window!MayClose
<1>1. CASE SessionThread
  BY <1>1
     DEF SessionThread, StopLoop, NextBegin, CountSample, CountDivider,
         CountPasses, ChooseTiles, GenTiles, SetBuffer, Awake, Sleep, PauseWait, WakeUp,
         UpdateScene, LockBuffers, Render, AwaitCopy, CopyWait
<1>2. CASE SpuriousWakeUp \/ Draw \/ MainThread
  BY <1>2
     DEF SpuriousWakeUp, Draw, MainThread, ResetCounter, ResetTiles, BothNotified,
         DestroyUpdate, DestroyUnpause, Join,
         UpdateNotified, PauseNotified, sessionVars, displayVars
<1>3. CASE Reset \/ SetPause \/ SetError \/ Destroy
  BY <1>3
     DEF Reset, SetPause, SetError, Destroy, BothNotified, PauseNotified, sessionVars,
         displayVars
<1>4. ASSUME NEW n \in SampleCounts, ChangeSamples(n)
      PROVE  sPc' = "ended" /\ ~needUpdate'
  BY <1>4 DEF ChangeSamples, PauseNotified, displayVars
<1>5. CASE UNCHANGED vars
  BY <1>5 DEF vars, sessionVars, displayVars
<1> QED BY <1>1, <1>2, <1>3, <1>4, <1>5 DEF Next, Request, Terminated

(* Only a reset is a new request. *)
LEMMA OthersRequest ==
  ASSUME [Next]_vars
  PROVE  Reset \/ requested' = requested
<1>1. CASE SessionThread
  BY <1>1
     DEF SessionThread, StopLoop, NextBegin, CountSample, CountDivider,
         CountPasses, ChooseTiles, GenTiles, SetBuffer, Awake, Sleep, PauseWait, WakeUp,
         UpdateScene, LockBuffers, Render, AwaitCopy, CopyWait, apiVars
<1>2. CASE SpuriousWakeUp \/ Draw \/ MainThread \/ SetPause \/ SetError \/ Destroy
  BY <1>2
     DEF SpuriousWakeUp, Draw, MainThread, ResetCounter, ResetTiles, BothNotified,
         DestroyUpdate, DestroyUnpause, Join, SetPause,
         SetError, Destroy, apiVars
<1>3. ASSUME NEW n \in SampleCounts, ChangeSamples(n)
      PROVE  requested' = requested
  BY <1>3 DEF ChangeSamples
<1>4. CASE UNCHANGED vars
  BY <1>4 DEF vars, apiVars
<1> QED BY <1>1, <1>2, <1>3, <1>4 DEF Next, Request, Terminated

(* Every step of the session is a step of what the window sees.            *)
LEMMA WindowStep ==
  ASSUME IInv, [Next]_vars
  PROVE  Window!ViewNext
<1> USE EndedStays DEF Window!ViewNext
<1> DEFINE image == IF shown.divisor = 0 THEN 0 ELSE shown.epoch
<1>1. CASE Reset
  <2>1. requested' = requested + 1 /\ image' \in {image, 0}
    BY <1>1, ResetFacts, EmptyFacts DEF IInv
  <2> QED BY <2>1 DEF Window!RequestImage
<1>2. CASE Draw /\ laidOut
  <2>1. needUpdate /\ requested' = requested
    BY <1>2 DEF Draw, apiVars
  <2>2. CASE sample = -1
    <3>1. image' = 0
      BY <1>2, <2>2, DrawFacts
    <3> QED BY <2>1, <3>1 DEF Window!DropImage
  <2>3. CASE sample # -1
    <3>1. sample + 1 # 0
      BY <2>3 DEF IInv, TypeOK, CountersTypeOK
    <3>2. image' = requested
      BY <1>2, <2>3, <3>1, DrawFacts
    <3> QED BY <2>1, <3>2 DEF Window!ShowImage
  <2> QED BY <2>2, <2>3
<1>3. CASE Draw /\ ~laidOut
  BY <1>3 DEF Draw, apiVars, Window!Close
<1>4. CASE requested' = requested /\ shown' = shown
  BY <1>4 DEF Window!Close
<1> QED BY <1>1, <1>2, <1>3, <1>4, OthersDraw, OthersRequest

(* The viewport keeps its promise to the window: an image that appears and *)
(* is not divided by zero is of the newest request, wherever in run_gpu a  *)
(* reset came, among the writes of next() too; and nothing appears once the*)
(* session has ended with no pass waiting to be drawn.                     *)
THEOREM RefinesViewport == Spec => ImplementsViewport
<1>1. Init => Window!ViewInit
  BY EmptyFacts DEF Init, Window!ViewInit
<1> QED
  BY <1>1, WindowStep, Invariance, PTL DEF Spec, ImplementsViewport, Window!ViewSpec
=============================================================================
