------------------------------- MODULE Viewport -------------------------------
(***************************************************************************)
(* What a viewport session promises the window that shows it: an image     *)
(* appears only if it is of the newest request, never of an older one, and *)
(* nothing appears after the session has ended.                            *)
(***************************************************************************)
EXTENDS Naturals

VARIABLES
  requested, \* number of resets requested so far
  shown,     \* the request whose image the window shows, 0 for none
  open       \* the session may still show something

viewVars == <<requested, shown, open>>

ViewInit ==
  /\ requested = 1
  /\ shown = 0
  /\ open = TRUE

(* A session closes for good, in a step of its own or in its last one. *)
MayClose == (open' = TRUE) => open

(* The view changed: the old image may stay until a new one is there. *)
RequestImage ==
  /\ MayClose
  /\ requested' = requested + 1
  /\ shown' \in {shown, 0}

(* A coarse, partial or complete image of the newest request. *)
ShowImage ==
  /\ open /\ MayClose
  /\ shown' = requested
  /\ UNCHANGED requested

(* The window was resized: the old image is gone. *)
DropImage ==
  /\ MayClose
  /\ shown' = 0
  /\ UNCHANGED requested

Close ==
  /\ MayClose
  /\ UNCHANGED <<requested, shown>>

ViewNext == RequestImage \/ ShowImage \/ DropImage \/ Close

ViewSpec == ViewInit /\ [][ViewNext]_viewVars
=============================================================================
