----------------------------- MODULE FinalRender -----------------------------
(***************************************************************************)
(* What a final render promises its caller, whatever the number of devices *)
(* and threads: a tile's pixels are delivered at most once, and a render   *)
(* that was not cancelled ends only when every tile has been delivered.    *)
(***************************************************************************)
CONSTANTS Tile

VARIABLES
  delivered,  \* tiles whose final pixels the caller received
  cancelled,  \* the caller asked to stop, or an error occurred
  ended       \* the render returned

jobVars == <<delivered, cancelled, ended>>

JobInit ==
  /\ delivered = {}
  /\ cancelled \in BOOLEAN
  /\ ended = FALSE

(* One tile at a time, or the whole image (progressive refine). *)
Deliver ==
  \E S \in SUBSET (Tile \ delivered) :
    /\ ~ended
    /\ S # {}
    /\ delivered' = delivered \cup S
    /\ UNCHANGED <<cancelled, ended>>

Cancel ==
  /\ ~cancelled
  /\ cancelled' = TRUE
  /\ UNCHANGED <<delivered, ended>>

End ==
  /\ ~ended
  /\ cancelled \/ delivered = Tile
  /\ ended' = TRUE
  /\ UNCHANGED <<delivered, cancelled>>

JobNext == Deliver \/ Cancel \/ End

JobSpec == JobInit /\ [][JobNext]_jobVars
=============================================================================
