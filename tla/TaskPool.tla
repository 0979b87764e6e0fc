------------------------------- MODULE TaskPool -------------------------------
(***************************************************************************)
(* What a device's task pool promises the session (Device::task_add,       *)
(* task_wait and task_cancel): every task ends once, task_wait returns     *)
(* when no task is left, task_cancel returns when the tasks that were      *)
(* there before it have ended, and only a cancel keeps a task from running *)
(* to its end.                                                             *)
(***************************************************************************)
CONSTANTS Task

VARIABLES
  pushed,     \* tasks handed to the pool
  ended,      \* tasks that are over
  cut,        \* tasks that were dropped, or told to stop early
  cancelling, \* a cancel is under way
  old,        \* the tasks that were there when it began
  waiting     \* a caller is in task_wait

poolVars == <<pushed, ended, cut, cancelling, old, waiting>>

PoolInit ==
  /\ pushed = {} /\ ended = {} /\ cut = {}
  /\ cancelling = FALSE /\ old = {}
  /\ waiting = FALSE

PoolPush ==
  /\ \E t \in Task \ pushed : pushed' = pushed \cup {t}
  /\ UNCHANGED <<ended, cut, cancelling, old, waiting>>

PoolEnd ==
  /\ \E t \in pushed \ ended : ended' = ended \cup {t}
  /\ UNCHANGED <<pushed, cut, cancelling, old, waiting>>

(* A running task is told to stop. *)
PoolStop ==
  /\ cancelling
  /\ \E t \in pushed \ ended : cut' = cut \cup {t}
  /\ UNCHANGED <<pushed, ended, cancelling, old, waiting>>

(* Tasks that have not begun are dropped. *)
PoolDrop ==
  /\ cancelling
  /\ \E S \in SUBSET (pushed \ ended) :
       /\ ended' = ended \cup S
       /\ cut' = cut \cup S
  /\ UNCHANGED <<pushed, cancelling, old, waiting>>

PoolCancel ==
  /\ ~cancelling
  /\ cancelling' = TRUE
  /\ old' = pushed
  /\ UNCHANGED <<pushed, ended, cut, waiting>>

PoolCancelled ==
  /\ cancelling
  /\ old \subseteq ended
  /\ cancelling' = FALSE
  /\ old' = {}
  /\ UNCHANGED <<pushed, ended, cut, waiting>>

PoolWait ==
  /\ ~waiting
  /\ waiting' = TRUE
  /\ UNCHANGED <<pushed, ended, cut, cancelling, old>>

PoolWaited ==
  /\ waiting
  /\ pushed = ended
  /\ waiting' = FALSE
  /\ UNCHANGED <<pushed, ended, cut, cancelling, old>>

PoolNext ==
  \/ PoolPush \/ PoolEnd \/ PoolStop \/ PoolDrop
  \/ PoolCancel \/ PoolCancelled \/ PoolWait \/ PoolWaited

PoolSpec == PoolInit /\ [][PoolNext]_poolVars
=============================================================================
