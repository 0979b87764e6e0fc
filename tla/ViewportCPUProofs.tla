-------------------------- MODULE ViewportCPUProofs --------------------------
(***************************************************************************)
(* What a viewport on a CPU device shows, for every number of resets,      *)
(* pauses and changes of the number of samples, every start divider and    *)
(* every denoising setting: passes are divided by their number, a pass cut *)
(* short by a reset never appears, and an image is always of the newest    *)
(* request.                                                                *)
(*                                                                         *)
(* A reset is applied by the session thread only, between passes, so it    *)
(* separates two lives of Session::buffers.  The invariant says how many   *)
(* passes they hold at every point of run_cpu since the last one (Passes), *)
(* and that until a new reset is applied doReset warns of everything the   *)
(* reset may have spoilt (ResetPending).                                   *)
(***************************************************************************)
EXTENDS ViewportCPU, TLAPS

(* The device works only while the session thread waits for it. *)
DeviceAwaited ==
  device # "idle" => sPc = "taskWait" /\ ~noTiles /\ laidOut

(* A request not yet applied is announced by doReset; tasks are cancelled  *)
(* for no other reason.                                                    *)
ResetPending ==
  /\ doReset \/ applied = requested
  /\ ResetInProgress => doReset
  /\ device = "cut" => doReset

(* Tiles are laid out by the first pass after a reset, at sample 0. *)
LaidOut ==
  /\ laidOut <=> sample >= 0
  /\ sPc = "start" => ~laidOut

(* The run_cpu locals: a pass to render was found, and nothing is copied   *)
(* before it was rendered.                                                 *)
Locals ==
  /\ sPc \in {"scene", "render"} => ~noTiles
  /\ needCopy => sPc \in {"loop", "ended"} \/ (sPc \in {"taskWait", "final"} /\ ~noTiles)

(* The buffers hold k passes of the request last applied, complete ones    *)
(* unless the render was cancelled or reset.                               *)
Holds(k) ==
  /\ content.passes = k
  /\ content.epoch = applied
  /\ content.whole \/ cancel \/ doReset

(* The passes before the current one, and with it.  Those before the first *)
(* are cleared by render.                                                  *)
Before == sample = 0 \/ Holds(sample)
After == Holds(sample + 1)

Passes == laidOut =>
  /\ sPc \in {"loop", "final"} => After
  /\ sPc \in {"pause", "waiting", "woken"} => IF noTiles THEN After ELSE Before
  /\ sPc \in {"scene", "render"} => Before
  /\ sPc = "taskWait" => IF device = "idle" THEN After ELSE Holds(sample)

(* The same of the display. *)
Displayed ==
  /\ PassesMatchDivisor
  /\ ShownComplete

IInv ==
  /\ TypeOK /\ DeviceAwaited /\ ResetPending /\ LaidOut /\ Locals /\ Passes
  /\ Displayed

-----------------------------------------------------------------------------
(* Helpers                                                                 *)

(* The images the histories hold. *)
LEMMA ImageFacts ==
  /\ \A e \in Nat : Empty(e) \in Image
  /\ \A i \in Image :
       /\ i.epoch \in Nat /\ i.passes \in Nat /\ i.divisor \in Nat /\ i.whole \in BOOLEAN
       /\ \A d \in Nat : [i EXCEPT !.divisor = d] \in Image
       /\ \A b \in BOOLEAN : [i EXCEPT !.passes = @ + 1, !.whole = b] \in Image
<1>1. ASSUME NEW e \in Nat
      PROVE  Empty(e) \in Image
  BY DEF Image, Empty
<1>2. ASSUME NEW i \in Image
      PROVE  i.epoch \in Nat /\ i.passes \in Nat /\ i.divisor \in Nat /\ i.whole \in BOOLEAN
  BY DEF Image
<1>3. ASSUME NEW i \in Image, NEW d \in Nat
      PROVE  [i EXCEPT !.divisor = d] \in Image
  BY DEF Image
<1>4. ASSUME NEW i \in Image, NEW b \in BOOLEAN
      PROVE  [i EXCEPT !.passes = @ + 1, !.whole = b] \in Image
  <2>1. i.passes + 1 \in Nat
    BY <1>2
  <2> QED BY <2>1 DEF Image
<1> QED BY <1>1, <1>2, <1>3, <1>4

(* What an image is that nothing was rendered into. *)
LEMMA EmptyFields ==
  ASSUME NEW e
  PROVE  /\ Empty(e).epoch = e /\ Empty(e).passes = 0 /\ Empty(e).divisor = 0
         /\ Empty(e).whole = TRUE
BY DEF Empty

(* A new pass starts at sample 0 or continues with the next sample, and    *)
(* the first one after a reset lays the tiles out.                         *)
LEMMA NextTilesFacts ==
  ASSUME TypeOK, LaidOut, NextTiles
  PROVE  /\ CountersTypeOK' /\ sample' \in Nat /\ laidOut' = TRUE
         /\ sample' = 0 \/ (laidOut /\ sample' = sample + 1)
<1> USE CounterAssumption, ViewportAssumption DEF TypeOK, CountersTypeOK, NextTiles, NextPass
<1>1. CASE IsPreviewPass
  <2>1. NextPreview /\ LaysOutTiles
    BY <1>1 DEF LaysOutTiles
  <2>2. Finer(divider) \in Nat \ {0}
    BY DEF Finer
  <2> QED BY <2>1, <2>2 DEF NextPreview, LaysOutTiles
<1>2. CASE ~IsPreviewPass
  <2>1. NextSample /\ (LaysOutTiles <=> sample + 1 = 0)
    BY <1>2 DEF LaysOutTiles
  <2>2. sample' = sample + 1 /\ sample' \in Nat /\ passSamples' \in Nat /\ divider' = PixelSize
    BY <2>1 DEF NextSample
  <2>3. laidOut' = (laidOut \/ LaysOutTiles)
    OBVIOUS
  <2>4. laidOut \/ sample + 1 = 0
    BY DEF LaidOut
  <2>5. laidOut' = TRUE
    BY <2>1, <2>3, <2>4
  <2> QED BY <2>1, <2>2, <2>4, <2>5
<1> QED BY <1>1, <1>2

(* What reset_ leaves. *)
LEMMA ApplyResetFacts ==
  ASSUME TypeOK, ApplyReset
  PROVE  /\ CountersTypeOK' /\ sample' = -1 /\ laidOut' = FALSE /\ doReset' = FALSE
         /\ applied' = requested
         /\ content' \in Image /\ shown' \in Image
         /\ shown' = shown \/ shown' = Empty(0)
<1>1. CountersTypeOK' /\ sample' = -1
  BY CounterAssumption, ViewportAssumption
     DEF ApplyReset, ResetCounters, CountersTypeOK, TypeOK
<1>2. content' \in Image /\ shown' \in Image
  <2>1. requested \in Nat /\ 0 \in Nat
    BY DEF TypeOK
  <2>2. Empty(requested) \in Image /\ Empty(0) \in Image
    BY <2>1, ImageFacts
  <2> QED BY <2>2 DEF ApplyReset, TypeOK, images
<1> QED BY <1>1, <1>2 DEF ApplyReset, images

-----------------------------------------------------------------------------
(* Every action keeps the types, the bounds on the histories included.     *)
LEMMA TypeStep ==
  ASSUME IInv, [Next]_vars
  PROVE  TypeOK'
<1> USE DEF IInv, TypeOK
<1>1. CASE Start \/ ResetInPause \/ FinalReset
  <2>1. ApplyReset /\ UNCHANGED <<noTiles, needCopy, pause, resetSamples, paramsSamples,
                                requested, changes, cancel, device, mPc>>
    BY <1>1 DEF Start, ResetInPause, FinalReset
  <2>2. sPc' \in {"loop", "ended", "taskWait", "scene"}
    BY <1>1 DEF Start, ResetInPause, FinalReset, AfterPause
  <2>3. requested \in 0 .. requested
    BY ViewportAssumption
  <2> QED
    BY <2>1, <2>2, <2>3, ApplyResetFacts
<1>2. CASE StopLoop \/ NoTiles \/ Sleep \/ Awake \/ WakeUp \/ UpdateScene \/ TaskWait
           \/ SpuriousWakeUp
  <2>1. CASE StopLoop
    BY <2>1 DEF StopLoop, counters, sessionVars, apiVars, images, CountersTypeOK
  <2>2. CASE NoTiles
    BY <2>2 DEF NoTiles, counters, sessionVars, apiVars, images, CountersTypeOK
  <2>3. CASE Sleep
    BY <2>3 DEF Sleep, counters, sessionVars, apiVars, images, CountersTypeOK
  <2>4. CASE Awake
    BY <2>4 DEF Awake, AfterPause, counters, sessionVars, apiVars, images, CountersTypeOK
  <2>5. CASE WakeUp
    BY <2>5 DEF WakeUp, AfterPause, counters, sessionVars, apiVars, images, CountersTypeOK
  <2>6. CASE UpdateScene
    BY <2>6 DEF UpdateScene, counters, sessionVars, apiVars, images, CountersTypeOK
  <2>7. CASE TaskWait
    BY <2>7 DEF TaskWait, counters, sessionVars, apiVars, images, CountersTypeOK
  <2>8. CASE SpuriousWakeUp
    BY <2>8 DEF SpuriousWakeUp, counters, sessionVars, apiVars, images, CountersTypeOK
  <2> QED BY <1>2, <2>1, <2>2, <2>3, <2>4, <2>5, <2>6, <2>7, <2>8
<1>3. CASE NextTiles
  BY <1>3, NextTilesFacts DEF NextTiles, apiVars, images
<1>4. CASE Render
  <2>1. applied \in Nat
    OBVIOUS
  <2>2. content' \in Image
    BY <1>4, <2>1, ImageFacts DEF Render
  <2> QED BY <1>4, <2>2 DEF Render, counters, apiVars, CountersTypeOK
<1>5. CASE CopyToDisplayBuffer
  <2>1. shown' \in Image
    <3>1. CASE laidOut
      <4>1. sample + 1 \in Nat
        BY <3>1 DEF LaidOut, CountersTypeOK
      <4> QED BY <1>5, <4>1, ImageFacts DEF CopyToDisplayBuffer
    <3>2. CASE ~laidOut
      BY <1>5, <3>2 DEF CopyToDisplayBuffer
    <3> QED BY <3>1, <3>2
  <2> QED BY <1>5, <2>1 DEF CopyToDisplayBuffer, counters, apiVars, CountersTypeOK
<1>6. CASE DevicePass
  <2>1. content' \in Image
    BY <1>6, ImageFacts DEF DevicePass
  <2> QED BY <1>6, <2>1 DEF DevicePass, counters, sessionVars, apiVars, CountersTypeOK
<1>7. CASE Reset
  <2>1. requested' \in 1 .. MaxRequests /\ applied' \in 0 .. requested'
    BY <1>7, ViewportAssumption DEF Reset
  <2> QED BY <1>7, <2>1 DEF Reset, counters, sessionVars, images, CountersTypeOK
<1>8. ASSUME NEW n \in SampleCounts, ChangeSamples(n)
      PROVE  TypeOK'
  <2>1. changes' \in 0 .. MaxChanges
    BY <1>8, ViewportAssumption DEF ChangeSamples
  <2>2. CountersTypeOK'
    BY <1>8, ViewportAssumption DEF ChangeSamples, SetSamples, CountersTypeOK
  <2>3. paramsSamples' \in SampleCounts /\ sPc' \in {sPc, "woken"}
    BY <1>8 DEF ChangeSamples, Notified
  <2>4. UNCHANGED <<noTiles, needCopy, laidOut, pause, doReset, resetSamples, requested,
                    applied, cancel, device, mPc, content, shown>>
    BY <1>8 DEF ChangeSamples, images
  <2> QED BY <2>1, <2>2, <2>3, <2>4
<1>9. CASE SetPause \/ SetError \/ Destroy
  <2>1. CASE SetPause
    BY <2>1 DEF SetPause, Notified, counters, sessionVars, apiVars, images, CountersTypeOK
  <2>2. CASE SetError
    BY <2>2 DEF SetError, counters, sessionVars, apiVars, images, CountersTypeOK
  <2>3. CASE Destroy
    BY <2>3 DEF Destroy, counters, sessionVars, apiVars, images, CountersTypeOK
  <2> QED BY <1>9, <2>1, <2>2, <2>3
<1>10. CASE ResetReturn \/ DestroyUnpause \/ Join
  <2>1. CASE ResetReturn
    BY <2>1 DEF ResetReturn, Notified, counters, sessionVars, apiVars, images, CountersTypeOK
  <2>2. CASE DestroyUnpause
    BY <2>2 DEF DestroyUnpause, Notified, counters, sessionVars, apiVars, images, CountersTypeOK
  <2>3. CASE Join
    BY <2>3 DEF Join, counters, sessionVars, apiVars, images, CountersTypeOK
  <2> QED BY <1>10, <2>1, <2>2, <2>3
<1>11. CASE UNCHANGED vars
  BY <1>11 DEF vars, counters, sessionVars, apiVars, images, CountersTypeOK
<1> QED
  BY <1>1, <1>2, <1>3, <1>4, <1>5, <1>6, <1>7, <1>8, <1>9, <1>10, <1>11
     DEF Next, SessionThread, Request, MainThread, Terminated

Control == DeviceAwaited /\ ResetPending /\ LaidOut /\ Locals

(* Where the threads are, and what they have agreed on. *)
LEMMA ControlStep ==
  ASSUME IInv, [Next]_vars
  PROVE  Control'
<1> USE DEF IInv, TypeOK, Control, DeviceAwaited, ResetPending, LaidOut, Locals,
            ResetInProgress
<1>1. CASE Start \/ ResetInPause \/ FinalReset
  <2>1. ApplyReset /\ UNCHANGED <<noTiles, needCopy, requested, device, mPc>>
    BY <1>1 DEF Start, ResetInPause, FinalReset
  <2>2. ~ResetInProgress /\ sPc \in {"start", "pause", "final"}
    BY <1>1 DEF Start, ResetInPause, FinalReset
  <2>3. device = "idle"
    BY <2>2
  <2>4. sPc' \in {"loop", "ended", "taskWait", "scene"}
        /\ (sPc' = "scene" => ~noTiles)
        /\ (needCopy => sPc' \in {"loop", "ended"})
    BY <1>1 DEF Start, ResetInPause, FinalReset, AfterPause
  <2>5. sample' = -1 /\ laidOut' = FALSE /\ doReset' = FALSE /\ applied' = requested
    BY <2>1, ApplyResetFacts
  <2> QED
    BY <2>1, <2>2, <2>3, <2>4, <2>5
<1>2. CASE StopLoop \/ NoTiles \/ Sleep \/ Awake \/ WakeUp \/ UpdateScene \/ TaskWait
           \/ SpuriousWakeUp
  <2>1. CASE StopLoop
    BY <2>1 DEF StopLoop, counters, sessionVars, apiVars, images
  <2>2. CASE NoTiles
    BY <2>2 DEF NoTiles, counters, sessionVars, apiVars, images
  <2>3. CASE Sleep
    BY <2>3 DEF Sleep, counters, sessionVars, apiVars, images
  <2>4. CASE Awake
    BY <2>4 DEF Awake, AfterPause, counters, sessionVars, apiVars, images
  <2>5. CASE WakeUp
    BY <2>5 DEF WakeUp, AfterPause, counters, sessionVars, apiVars, images
  <2>6. CASE UpdateScene
    BY <2>6 DEF UpdateScene, counters, sessionVars, apiVars, images
  <2>7. CASE TaskWait
    BY <2>7 DEF TaskWait, counters, sessionVars, apiVars, images
  <2>8. CASE SpuriousWakeUp
    BY <2>8 DEF SpuriousWakeUp, counters, sessionVars, apiVars, images
  <2> QED BY <1>2, <2>1, <2>2, <2>3, <2>4, <2>5, <2>6, <2>7, <2>8
<1>3. CASE NextTiles
  <2>1. laidOut' = TRUE /\ sample' \in Nat
    BY <1>3, NextTilesFacts
  <2>2. sPc = "loop" /\ sPc' = "pause" /\ noTiles' = FALSE /\ needCopy' = FALSE
        /\ UNCHANGED <<doReset, applied, requested, device, mPc>>
    BY <1>3 DEF NextTiles, apiVars
  <2> QED BY <2>1, <2>2
<1>4. CASE Render
  BY <1>4 DEF Render, counters, apiVars
<1>5. CASE CopyToDisplayBuffer
  BY <1>5 DEF CopyToDisplayBuffer, counters, apiVars
<1>6. CASE DevicePass
  BY <1>6 DEF DevicePass, counters, sessionVars, apiVars
<1>7. CASE Reset
  BY <1>7 DEF Reset, counters, sessionVars
<1>8. ASSUME NEW n \in SampleCounts, ChangeSamples(n)
      PROVE  Control'
  BY <1>8 DEF ChangeSamples, SetSamples, Notified
<1>9. CASE SetPause \/ SetError \/ Destroy
  <2>1. CASE SetPause
    BY <2>1 DEF SetPause, Notified, counters, sessionVars, apiVars, images
  <2>2. CASE SetError
    BY <2>2 DEF SetError, counters, sessionVars, apiVars, images
  <2>3. CASE Destroy
    BY <2>3 DEF Destroy, counters, sessionVars, apiVars, images
  <2> QED BY <1>9, <2>1, <2>2, <2>3
<1>10. CASE ResetReturn \/ DestroyUnpause \/ Join
  <2>1. CASE ResetReturn
    BY <2>1 DEF ResetReturn, Notified, counters, sessionVars, apiVars, images
  <2>2. CASE DestroyUnpause
    BY <2>2 DEF DestroyUnpause, Notified, counters, sessionVars, apiVars, images
  <2>3. CASE Join
    BY <2>3 DEF Join, counters, sessionVars, apiVars, images
  <2> QED BY <1>10, <2>1, <2>2, <2>3
<1>11. CASE UNCHANGED vars
  BY <1>11 DEF vars, counters, sessionVars, apiVars
<1> QED
  BY <1>1, <1>2, <1>3, <1>4, <1>5, <1>6, <1>7, <1>8, <1>9, <1>10, <1>11
     DEF Next, SessionThread, Request, MainThread, Terminated

(* Passes are added one by one to what the last reset left. *)
LEMMA PassesStep ==
  ASSUME IInv, [Next]_vars
  PROVE  Passes'
<1> USE DEF IInv, TypeOK, Passes, Before, After, Holds
<1>1. CASE Start \/ ResetInPause \/ FinalReset
  <2>1. ApplyReset
    BY <1>1 DEF Start, ResetInPause, FinalReset
  <2> QED BY <2>1, ApplyResetFacts
<1>2. CASE StopLoop \/ NoTiles \/ Sleep \/ Awake \/ WakeUp \/ UpdateScene \/ TaskWait
           \/ SpuriousWakeUp
  <2>1. CASE StopLoop
    BY <2>1 DEF StopLoop, counters, sessionVars, apiVars, images, DeviceAwaited
  <2>2. CASE NoTiles
    BY <2>2 DEF NoTiles, counters, sessionVars, apiVars, images, DeviceAwaited
  <2>3. CASE Sleep
    BY <2>3 DEF Sleep, counters, sessionVars, apiVars, images, DeviceAwaited
  <2>4. CASE Awake
    BY <2>4 DEF Awake, AfterPause, counters, sessionVars, apiVars, images, DeviceAwaited
  <2>5. CASE WakeUp
    BY <2>5 DEF WakeUp, AfterPause, counters, sessionVars, apiVars, images, DeviceAwaited
  <2>6. CASE UpdateScene
    BY <2>6 DEF UpdateScene, counters, sessionVars, apiVars, images, DeviceAwaited
  <2>7. CASE TaskWait
    BY <2>7 DEF TaskWait, counters, sessionVars, apiVars, images, DeviceAwaited
  <2>8. CASE SpuriousWakeUp
    BY <2>8 DEF SpuriousWakeUp, counters, sessionVars, apiVars, images, DeviceAwaited
  <2> QED BY <1>2, <2>1, <2>2, <2>3, <2>4, <2>5, <2>6, <2>7, <2>8
<1>3. CASE NextTiles
  BY <1>3, NextTilesFacts DEF NextTiles, apiVars, images
<1>4. CASE Render
  BY <1>4, EmptyFields, ViewportAssumption DEF Render, counters, apiVars
<1>5. CASE CopyToDisplayBuffer
  BY <1>5 DEF CopyToDisplayBuffer, counters, apiVars
<1>6. CASE DevicePass
  BY <1>6 DEF DevicePass, counters, sessionVars, apiVars, DeviceAwaited, ResetPending, Image
<1>7. CASE Reset
  BY <1>7 DEF Reset, counters, sessionVars, images
<1>8. ASSUME NEW n \in SampleCounts, ChangeSamples(n)
      PROVE  Passes'
  BY <1>8 DEF ChangeSamples, SetSamples, Notified, images
<1>9. CASE SetPause \/ SetError \/ Destroy
  <2>1. CASE SetPause
    BY <2>1 DEF SetPause, Notified, counters, sessionVars, apiVars, images, DeviceAwaited
  <2>2. CASE SetError
    BY <2>2 DEF SetError, counters, sessionVars, apiVars, images, DeviceAwaited
  <2>3. CASE Destroy
    BY <2>3 DEF Destroy, counters, sessionVars, apiVars, images, DeviceAwaited
  <2> QED BY <1>9, <2>1, <2>2, <2>3
<1>10. CASE ResetReturn \/ DestroyUnpause \/ Join
  <2>1. CASE ResetReturn
    BY <2>1 DEF ResetReturn, Notified, counters, sessionVars, apiVars, images, DeviceAwaited
  <2>2. CASE DestroyUnpause
    BY <2>2 DEF DestroyUnpause, Notified, counters, sessionVars, apiVars, images, DeviceAwaited
  <2>3. CASE Join
    BY <2>3 DEF Join, counters, sessionVars, apiVars, images, DeviceAwaited
  <2> QED BY <1>10, <2>1, <2>2, <2>3
<1>11. CASE UNCHANGED vars
  BY <1>11 DEF vars, counters, sessionVars, apiVars, images
<1> QED
  BY <1>1, <1>2, <1>3, <1>4, <1>5, <1>6, <1>7, <1>8, <1>9, <1>10, <1>11
     DEF Next, SessionThread, Request, MainThread, Terminated

-----------------------------------------------------------------------------
(* A copy is made with no reset pending, of as many passes as it divides   *)
(* by; buffers allocated anew show nothing.                                *)
LEMMA DisplayedStep ==
  ASSUME IInv, [Next]_vars
  PROVE  Displayed'
<1> USE DEF IInv, TypeOK, Displayed, PassesMatchDivisor, ShownComplete
<1>1. CASE Start \/ ResetInPause \/ FinalReset
  <2>1. ApplyReset /\ cancel' = cancel
    BY <1>1 DEF Start, ResetInPause, FinalReset
  <2> QED BY <2>1, ApplyResetFacts, EmptyFields
<1>2. CASE CopyToDisplayBuffer
  <2>1. cancel' = cancel /\ ~doReset /\ sPc = "final"
    BY <1>2 DEF CopyToDisplayBuffer
  <2>2. CASE needCopy /\ laidOut
    <3>1. shown' = [content EXCEPT !.divisor = sample + 1]
      BY <1>2, <2>2 DEF CopyToDisplayBuffer
    <3>2. shown'.passes = content.passes /\ shown'.divisor = sample + 1
          /\ shown'.whole = content.whole
      BY <3>1 DEF Image
    <3>3. content.passes = sample + 1 /\ (content.whole \/ cancel)
      BY <2>1, <2>2 DEF Passes, After, Holds
    <3> QED BY <2>1, <3>2, <3>3
  <2>3. CASE ~(needCopy /\ laidOut)
    BY <1>2, <2>3 DEF CopyToDisplayBuffer
  <2> QED BY <2>2, <2>3
<1>3. CASE SetError \/ Destroy
  BY <1>3 DEF SetError, Destroy, images
<1>4. ASSUME NEW n \in SampleCounts, ChangeSamples(n)
      PROVE  Displayed'
  BY <1>4 DEF ChangeSamples, images
<1>5. CASE UNCHANGED <<shown, cancel>>
  BY <1>5
<1>6. CASE StopLoop \/ NextTiles \/ NoTiles \/ Sleep \/ Awake \/ WakeUp \/ UpdateScene
           \/ Render \/ TaskWait
  BY <1>6, <1>5
     DEF StopLoop, NextTiles, NoTiles, Sleep, Awake, WakeUp, UpdateScene, Render, TaskWait,
         images
<1>7. CASE SpuriousWakeUp \/ DevicePass \/ Reset \/ SetPause \/ ResetReturn
           \/ DestroyUnpause \/ Join \/ UNCHANGED vars
  BY <1>7, <1>5
     DEF SpuriousWakeUp, DevicePass, Reset, SetPause, ResetReturn, DestroyUnpause, Join,
         images, vars
<1> QED
  BY <1>1, <1>2, <1>3, <1>4, <1>6, <1>7
     DEF Next, SessionThread, Request, MainThread, Terminated

-----------------------------------------------------------------------------
(* Nothing was rendered before the first reset, which is pending.          *)
LEMMA InitIInv ==
  ASSUME Init
  PROVE  IInv
<1>1. CountersTypeOK /\ sample = -1
  <2>1. CountersReset(0)
    BY DEF Init
  <2> QED BY <2>1, CounterAssumption, ViewportAssumption DEF CountersReset, CountersTypeOK
<1>2. Empty(0) \in Image
  BY ImageFacts
<1>3. pause \in BOOLEAN
  BY DEF Init
<1>4. requested \in 1 .. MaxRequests /\ applied \in 0 .. requested /\ changes \in 0 .. MaxChanges
  BY ViewportAssumption DEF Init
<1>5. resetSamples \in SampleCounts /\ paramsSamples \in SampleCounts
  BY DEF Init
<1>6. /\ sPc = "start" /\ noTiles = FALSE /\ needCopy = FALSE /\ laidOut = FALSE
      /\ doReset = TRUE /\ cancel = FALSE /\ device = "idle" /\ mPc = "idle"
      /\ content = Empty(0) /\ shown = Empty(0)
  BY DEF Init
<1>7. TypeOK
  BY <1>1, <1>2, <1>3, <1>4, <1>5, <1>6 DEF TypeOK
<1>8. DeviceAwaited /\ ResetPending /\ LaidOut /\ Locals /\ Passes
  BY <1>1, <1>6 DEF DeviceAwaited, ResetPending, ResetInProgress, LaidOut, Locals, Passes
<1>9. Displayed
  BY <1>6, EmptyFields DEF Displayed, PassesMatchDivisor, ShownComplete
<1> QED BY <1>7, <1>8, <1>9 DEF IInv

(* The invariant is inductive. *)
THEOREM Invariance == Spec => []IInv
<1>1. Init => IInv
  BY InitIInv
<1>2. ASSUME IInv, [Next]_vars
      PROVE  IInv'
  BY <1>2, TypeStep, ControlStep, PassesStep, DisplayedStep DEF IInv, Control
<1> QED BY <1>1, <1>2, PTL DEF Spec

(* The display divides its pixels by the number of passes it holds.        *)
(* copy_to_display_buffer divides by tile_manager.state.sample + 1, which  *)
(* is the number of passes accumulated since render last cleared the       *)
(* buffers.                                                                *)
THEOREM PassesShown == Spec => []PassesMatchDivisor
<1>1. IInv => PassesMatchDivisor
  BY DEF IInv, Displayed
<1> QED BY <1>1, Invariance, PTL

(* "We don't want to show the result of an incomplete sample": task_cancel *)
(* of reset_cpu may leave tiles of a pass out, and run_cpu copies nothing  *)
(* while the reset waits to be applied.                                    *)
THEOREM CompleteShown == Spec => []ShownComplete
<1>1. IInv => ShownComplete
  BY DEF IInv, Displayed
<1> QED BY <1>1, Invariance, PTL

(* The device threads read the tile table and the counters while           *)
(* path_trace runs, and only the session thread writes them: it is then in *)
(* device->task_wait().                                                    *)
THEOREM StableCounters == Spec => StableWhileRendering
<1>1. ASSUME IInv, [Next]_vars
      PROVE  [device # "idle" => UNCHANGED <<sample, passSamples, divider, laidOut>>]_vars
  <2> SUFFICES ASSUME device # "idle"
               PROVE  UNCHANGED <<sample, passSamples, divider, laidOut>>
    OBVIOUS
  <2>1. sPc = "taskWait"
    BY <1>1 DEF IInv, DeviceAwaited
  <2>2. CASE SessionThread
    BY <2>1, <2>2
       DEF SessionThread, Start, StopLoop, NextTiles, NoTiles, ResetInPause, Sleep, Awake,
           WakeUp, UpdateScene, Render, TaskWait, FinalReset, CopyToDisplayBuffer
  <2>3. CASE SpuriousWakeUp \/ DevicePass \/ Request \/ MainThread
    BY <2>3
       DEF SpuriousWakeUp, DevicePass, Request, Reset, ChangeSamples, SetSamples, SetPause,
           SetError, Destroy, MainThread, ResetReturn, DestroyUnpause, Join, counters,
           sessionVars
  <2>4. CASE UNCHANGED vars
    BY <2>4 DEF vars, counters, sessionVars
  <2> QED BY <1>1, <2>2, <2>3, <2>4 DEF Next, Terminated
<1> QED BY <1>1, Invariance, PTL DEF Spec, StableWhileRendering

-----------------------------------------------------------------------------
(* A copy shows an image of the request that was last applied, which is    *)
(* the newest one since no reset is pending.                               *)
LEMMA CopyShowsNewest ==
  ASSUME IInv, CopyToDisplayBuffer
  PROVE  Window!ShowImage \/ Window!Close
<1>1. sPc = "final" /\ sPc' = "loop" /\ ~doReset /\ requested' = requested
  BY DEF CopyToDisplayBuffer, apiVars
<1>2. CASE needCopy /\ laidOut
  <2>1. content.epoch = requested
    BY <1>1, <1>2 DEF IInv, Passes, After, Holds, ResetPending
  <2>2. shown' = [content EXCEPT !.divisor = sample + 1] /\ content \in Image
    BY <1>2 DEF CopyToDisplayBuffer, IInv, TypeOK
  <2>3. shown'.epoch = content.epoch
    BY <2>2 DEF Image
  <2> QED BY <1>1, <2>1, <2>3 DEF Window!ShowImage, Window!MayClose
<1>3. CASE ~(needCopy /\ laidOut)
  BY <1>1, <1>3 DEF CopyToDisplayBuffer, Window!Close, Window!MayClose
<1> QED BY <1>2, <1>3

(* No step reopens an ended session.                                       *)
LEMMA EndedStays ==
  ASSUME [Next]_vars
  PROVE  Window!MayClose
<1> SUFFICES ASSUME sPc = "ended"
             PROVE  sPc' = "ended"
  BY DEF Window!MayClose
<1>1. CASE SessionThread
  BY <1>1
     DEF SessionThread, Start, StopLoop, NextTiles, NoTiles, ResetInPause, Sleep, Awake,
         WakeUp, UpdateScene, Render, TaskWait, FinalReset, CopyToDisplayBuffer
<1>2. CASE SpuriousWakeUp \/ DevicePass \/ Request \/ MainThread
  BY <1>2
     DEF SpuriousWakeUp, DevicePass, Request, Reset, ChangeSamples, SetPause, SetError,
         Destroy, MainThread, ResetReturn, DestroyUnpause, Join, Notified, sessionVars
<1>3. CASE UNCHANGED vars
  BY <1>3 DEF vars, sessionVars
<1> QED BY <1>1, <1>2, <1>3 DEF Next, Terminated

(* Every step of the session is a step of what the window sees.            *)
LEMMA WindowStep ==
  ASSUME IInv, [Next]_vars
  PROVE  [Window!ViewNext]_(Window!viewVars)
<1> USE EndedStays DEF Window!ViewNext
<1>1. CASE Start \/ ResetInPause \/ FinalReset
  <2>1. ApplyReset /\ requested' = requested
    BY <1>1 DEF Start, ResetInPause, FinalReset
  <2>2. shown'.epoch \in {shown.epoch, 0}
    BY <2>1, ApplyResetFacts, EmptyFields DEF IInv
  <2> QED BY <2>1, <2>2 DEF Window!DropImage, Window!Close
<1>2. CASE CopyToDisplayBuffer
  BY <1>2, CopyShowsNewest
<1>3. CASE Reset
  BY <1>3 DEF Reset, images, Window!RequestImage
<1>4. CASE UNCHANGED <<requested, shown>>
  BY <1>4 DEF Window!Close
<1>5. CASE StopLoop \/ NextTiles \/ NoTiles \/ Sleep \/ Awake \/ WakeUp \/ UpdateScene
           \/ Render \/ TaskWait
  <2>1. UNCHANGED <<requested, shown>>
    BY <1>5
       DEF StopLoop, NextTiles, NoTiles, Sleep, Awake, WakeUp, UpdateScene, Render,
           TaskWait, apiVars, images
  <2> QED BY <1>4, <2>1
<1>6. CASE SpuriousWakeUp \/ DevicePass \/ MainThread \/ UNCHANGED vars
  <2>1. UNCHANGED <<requested, shown>>
    BY <1>6
       DEF SpuriousWakeUp, DevicePass, MainThread, ResetReturn, DestroyUnpause, Join,
           apiVars, images, vars
  <2> QED BY <1>4, <2>1
<1>7. ASSUME NEW n \in SampleCounts, ChangeSamples(n) \/ SetPause \/ SetError \/ Destroy
      PROVE  [Window!ViewNext]_(Window!viewVars)
  <2>1. UNCHANGED <<requested, shown>>
    BY <1>7 DEF ChangeSamples, SetPause, SetError, Destroy, apiVars, images
  <2> QED BY <1>4, <2>1
<1>8. SampleCounts # {}
  BY ViewportAssumption
<1> QED
  BY <1>1, <1>2, <1>3, <1>5, <1>6, <1>7, <1>8
     DEF Next, SessionThread, Request, Terminated

(* The viewport keeps its promise to the window: an image that appears is  *)
(* of the newest request, however resets, pauses, cancelled tasks and      *)
(* delayed denoising interleave with run_cpu, and nothing appears after    *)
(* the session has ended.                                                  *)
THEOREM RefinesViewport == Spec => ImplementsViewport
<1>1. Init => Window!ViewInit
  BY EmptyFields DEF Init, Window!ViewInit
<1> QED
  BY <1>1, WindowStep, Invariance, PTL DEF Spec, ImplementsViewport, Window!ViewSpec
=============================================================================
