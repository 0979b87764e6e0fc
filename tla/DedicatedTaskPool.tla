-------------------------- MODULE DedicatedTaskPool ---------------------------
(***************************************************************************)
(* The task pool of a GPU device (util/util_task.cpp): one worker thread,  *)
(* a queue, and the number `num' of tasks that are not over.  The session  *)
(* thread pushes tasks and waits for them; the main thread cancels them    *)
(* (Session::reset_cpu), and destroys the pool when the session thread has *)
(* ended (CUDADevice's destructor).                                        *)
(*                                                                         *)
(* queue_mutex and num_mutex are held for one action at a time, except     *)
(* that the worker, in "sleep", holds queue_mutex between its look at the  *)
(* queue and the wait on queue_cond: the destructor sets do_exit without   *)
(* that mutex.  A wait on num_cond is a guard: its condition is checked,   *)
(* and changed, under num_mutex only.  No caller pushes to the front.      *)
(***************************************************************************)
EXTENDS Integers, FiniteSets, SequencesExt

CONSTANTS
  Task,        \* the tasks pushed
  MaxCancels,  \* bound on the cancels before the destructor's
  NoTask

ASSUME TaskAssumption ==
  /\ IsFiniteSet(Task)
  /\ MaxCancels \in Nat
  /\ NoTask \notin Task

VARIABLES
  queue,     \* queue
  num,       \* num
  doCancel,  \* do_cancel
  doExit,    \* do_exit
  wPc,       \* where the worker thread is
  task,      \* the task it runs
  pPc,       \* where the session thread is
  pushing,   \* the task it pushes
  mPc,       \* where the main thread is
  cleared,   \* clear()'s `done'
  cancels,   \* history: cancels begun
  pushed,    \* history: tasks counted by push
  ended,     \* history: tasks that are over
  cut,       \* history: those a cancel dropped, or that saw canceled()
  old        \* history: the tasks there when the cancel began

workerVars == <<wPc, task>>
sessionVars == <<pPc, pushing>>
mainVars == <<mPc, cleared, doCancel, cancels, old>>
history == <<pushed, ended, cut>>
vars == <<queue, num, doExit, workerVars, sessionVars, mainVars, history>>

(* In particular num is never negative, which num_decrease asserts. *)
TypeOK ==
  /\ queue \in Seq(Task)
  /\ num \in Nat
  /\ doCancel \in BOOLEAN /\ doExit \in BOOLEAN
  /\ wPc \in {"pop", "sleep", "waiting", "run", "done", "ended"}
  /\ task \in Task \cup {NoTask}
  /\ pPc \in {"idle", "push", "wait", "ended"}
  /\ pushing \in Task \cup {NoTask}
  /\ mPc \in {"idle", "clear", "decrease", "wait", "exit", "notify", "join", "deleted"}
  /\ cleared \in Nat
  /\ cancels \in Nat
  /\ pushed \in SUBSET Task /\ ended \in SUBSET Task
  /\ cut \in SUBSET Task /\ old \in SUBSET Task

Init ==
  /\ queue = <<>> /\ num = 0 /\ doCancel = FALSE /\ doExit = FALSE
  /\ wPc = "pop" /\ task = NoTask
  /\ pPc = "idle" /\ pushing = NoTask
  /\ mPc = "idle" /\ cleared = 0 /\ cancels = 0 /\ old = {}
  /\ pushed = {} /\ ended = {} /\ cut = {}

-----------------------------------------------------------------------------
QueueLocked == wPc = "sleep"

Queued == ToSet(queue)

(* The worker is notified. *)
Awake == IF wPc = "waiting" THEN "pop" ELSE wPc

AllDone_QueueEmpty == queue = <<>>

(* wait() returns. *)
AllDone == num = 0

-----------------------------------------------------------------------------
(* The worker: thread_run                                                  *)

(* thread_wait_pop *)
Pop ==
  /\ wPc = "pop"
  /\ queue # <<>>
  /\ task' = Head(queue)
  /\ queue' = Tail(queue)
  /\ wPc' = "run"
  /\ UNCHANGED <<num, doExit, sessionVars, mainVars, history>>

NothingToPop ==
  /\ wPc = "pop"
  /\ queue = <<>>
  /\ wPc' = IF doExit THEN "ended" ELSE "sleep"
  /\ UNCHANGED <<queue, num, doExit, task, sessionVars, mainVars, history>>

(* queue_cond.wait *)
QueueWait ==
  /\ wPc = "sleep"
  /\ wPc' = "waiting"
  /\ UNCHANGED <<queue, num, doExit, task, sessionVars, mainVars, history>>

SpuriousWakeUp ==
  /\ wPc = "waiting"
  /\ wPc' = "pop"
  /\ UNCHANGED <<queue, num, doExit, task, sessionVars, mainVars, history>>

(* The task.  The pool lets it ask canceled() and stop early. *)
Run ==
  /\ wPc = "run"
  /\ cut' \in {cut} \cup (IF doCancel THEN {cut \cup {task}} ELSE {})
  /\ wPc' = "done"
  /\ UNCHANGED <<queue, num, doExit, task, sessionVars, mainVars, pushed, ended>>

(* num_decrease(1) *)
TaskDone ==
  /\ wPc = "done"
  /\ num' = num - 1
  /\ ended' = ended \cup {task}
  /\ task' = NoTask
  /\ wPc' = "pop"
  /\ UNCHANGED <<queue, doExit, sessionVars, mainVars, pushed, cut>>

-----------------------------------------------------------------------------
(* The session thread: task_add and task_wait                              *)

(* push: num_increase ... *)
PushCount(t) ==
  /\ pPc = "idle"
  /\ t \notin pushed
  /\ num' = num + 1
  /\ pushing' = t
  /\ pushed' = pushed \cup {t}
  /\ pPc' = "push"
  /\ UNCHANGED <<queue, doExit, workerVars, mainVars, ended, cut>>

(* ... and then the queue. *)
PushQueue ==
  /\ pPc = "push"
  /\ ~QueueLocked
  /\ queue' = Append(queue, pushing)
  /\ wPc' = Awake
  /\ pushing' = NoTask
  /\ pPc' = "idle"
  /\ UNCHANGED <<num, doExit, task, mainVars, history>>

Wait ==
  /\ pPc = "idle"
  /\ pPc' = "wait"
  /\ UNCHANGED <<queue, num, doExit, workerVars, pushing, mainVars, history>>

WaitReturn ==
  /\ pPc = "wait"
  /\ AllDone
  /\ pPc' = "idle"
  /\ UNCHANGED <<queue, num, doExit, workerVars, pushing, mainVars, history>>

(* The session thread ends; it has waited for its tasks, or not. *)
SessionEnd ==
  /\ pPc = "idle"
  /\ pPc' = "ended"
  /\ UNCHANGED <<queue, num, doExit, workerVars, pushing, mainVars, history>>

-----------------------------------------------------------------------------
(* The main thread: task_cancel, and the destructors, which cancel too.    *)

(* cancel: do_cancel, ... *)
Cancel ==
  /\ mPc = "idle"
  /\ pPc = "ended" \/ cancels < MaxCancels
  /\ doCancel' = TRUE
  /\ old' = pushed
  /\ cancels' = cancels + 1
  /\ mPc' = "clear"
  /\ UNCHANGED <<queue, num, doExit, workerVars, sessionVars, cleared, history>>

(* ... clear: first the queue, ... *)
ClearQueue ==
  /\ mPc = "clear"
  /\ ~QueueLocked
  /\ cleared' = Len(queue)
  /\ queue' = <<>>
  /\ ended' = ended \cup Queued
  /\ cut' = cut \cup Queued
  /\ mPc' = "decrease"
  /\ UNCHANGED <<num, doExit, workerVars, sessionVars, doCancel, cancels, old, pushed>>

ClearCount_None ==
  /\ mPc = "decrease"
  /\ cleared' = 0
  /\ mPc' = "wait"
  /\ UNCHANGED <<queue, num, doExit, workerVars, sessionVars, doCancel, cancels, old,
                 history>>

(* ... then num_decrease(done), ... *)
ClearCount ==
  /\ mPc = "decrease"
  /\ num' = num - cleared
  /\ cleared' = 0
  /\ mPc' = "wait"
  /\ UNCHANGED <<queue, doExit, workerVars, sessionVars, doCancel, cancels, old,
                 history>>

(* ... and wait for a running task, and those pushed meanwhile. *)
CancelReturn ==
  /\ mPc = "wait"
  /\ AllDone
  /\ doCancel' = FALSE
  /\ old' = {}
  /\ mPc' = IF pPc = "ended" THEN "exit" ELSE "idle"
  /\ UNCHANGED <<queue, num, doExit, workerVars, sessionVars, cleared, cancels, history>>

(* ~DedicatedTaskPool: wait, do_exit = true, notify, join. *)
Exit ==
  /\ mPc = "exit"
  /\ AllDone
  /\ doExit' = TRUE
  /\ mPc' = "notify"
  /\ UNCHANGED <<queue, num, workerVars, sessionVars, cleared, doCancel, cancels, old,
                 history>>

ExitNotify ==
  /\ mPc = "notify"
  /\ wPc' = Awake
  /\ mPc' = "join"
  /\ UNCHANGED <<queue, num, doExit, task, sessionVars, cleared, doCancel, cancels, old,
                 history>>

Join ==
  /\ mPc = "join"
  /\ wPc = "ended"
  /\ mPc' = "deleted"
  /\ UNCHANGED <<queue, num, doExit, workerVars, sessionVars, cleared, doCancel, cancels,
                 old, history>>

-----------------------------------------------------------------------------
Worker == Pop \/ NothingToPop \/ QueueWait \/ Run \/ TaskDone

SessionThread ==
  (\E t \in Task : PushCount(t)) \/ PushQueue \/ Wait \/ WaitReturn \/ SessionEnd

(* A cancel once begun is carried through; so is the destructor. *)
MainThread ==
  \/ Cancel /\ pPc = "ended"
  \/ ClearQueue \/ ClearCount \/ CancelReturn \/ Exit \/ ExitNotify \/ Join

Deleted == mPc = "deleted" /\ UNCHANGED vars

Next == Worker \/ SpuriousWakeUp \/ SessionThread \/ Cancel \/ MainThread \/ Deleted

Spec == Init /\ [][Next]_vars

(* Threads are scheduled, no thread that asks for queue_mutex again and    *)
(* again is passed over forever (SF: the worker may wake up spuriously any *)
(* number of times), and a task takes finite time.  The session need not   *)
(* push or end, but finishes a push and a wait it began.                   *)
FairSpec ==
  /\ Spec
  /\ WF_vars(Worker) /\ WF_vars(MainThread)
  /\ SF_vars(PushQueue) /\ SF_vars(ClearQueue)
  /\ WF_vars(WaitReturn)

-----------------------------------------------------------------------------
(* Properties                                                              *)

(* num counts the tasks that are not over, wherever they are: on their way *)
(* to the queue, in it, with the worker, or dropped and not yet taken off. *)
(* So wait() returns neither too early nor never.                          *)
CountMatches == num = Cardinality(pushed \ ended) + cleared

(* Every task pushed is over some day, and waits and cancels return. *)
TasksEnd ==
  /\ \A t \in Task : t \in pushed ~> t \in ended
  /\ pPc = "wait" ~> pPc # "wait"
  /\ mPc = "clear" ~> mPc \in {"idle", "exit"}

(* ~DedicatedTaskPool joins the worker, which thread_wait_pop lets go when *)
(* it sees do_exit.  The code does not keep it: see the README.            *)
DestructorEnds == mPc = "exit" ~> mPc = "deleted"

(* What the session sees. *)
Pool == INSTANCE TaskPool WITH
          cancelling <- mPc \in {"clear", "decrease", "wait"},
          waiting <- pPc = "wait"

ImplementsTaskPool == Pool!PoolSpec
=============================================================================
