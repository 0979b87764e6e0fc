----------------------- MODULE DedicatedTaskPoolProofs ------------------------
(***************************************************************************)
(* The device task pool for any finite set of tasks and any number of      *)
(* cancels: its count of unfinished tasks is exact, and it keeps the       *)
(* promise of TaskPool.                                                    *)
(*                                                                         *)
(* The count is exact because every open task is in one place only: with   *)
(* the thread that pushes it, in the queue, or with the worker.  IInv says *)
(* so; the rest follows from the step that moves a task.                   *)
(***************************************************************************)
EXTENDS DedicatedTaskPool, FiniteSetTheorems, FunctionTheorems, TLAPS

Open == pushed \ ended

(* An open task is in the queue once, with the worker, or being pushed. *)
OnePlace ==
  /\ IsInjective(queue)
  /\ Queued \subseteq Open
  /\ IF wPc \in {"run", "done"} THEN task \in Open \ Queued ELSE task = NoTask
  /\ IF pPc = "push" THEN pushing \in Open \ (Queued \cup {task}) ELSE pushing = NoTask

(* clear() owes num what it dropped, between its two critical sections. *)
CancelState ==
  /\ doCancel <=> mPc \in {"clear", "decrease", "wait"}
  /\ mPc # "decrease" => cleared = 0
  /\ ended \subseteq pushed
  /\ old \subseteq pushed

IInv == TypeOK /\ OnePlace /\ CancelState /\ CountMatches

-----------------------------------------------------------------------------
(* Sequences without repetition *)

(* Such a sequence is as long as its set of elements is large. *)
LEMMA DistinctCount ==
  ASSUME NEW s \in Seq(Task), IsInjective(s)
  PROVE  Cardinality(ToSet(s)) = Len(s)
<1>1. s \in [1..Len(s) -> ToSet(s)]
  BY DEF ToSet
<1>2. s \in Bijection(1..Len(s), ToSet(s))
  BY <1>1, Fun_IsBij DEF IsInjective, ToSet
<1>3. ExistsBijection(1..Len(s), ToSet(s))
  BY <1>2 DEF ExistsBijection
<1> QED BY <1>3, FS_CountingElements

(* A task that is appended to a queue it is not in adds itself and no
   second copy. *)
LEMMA AppendDistinct ==
  ASSUME NEW s \in Seq(Task), NEW t \in Task, IsInjective(s), t \notin ToSet(s)
  PROVE  /\ IsInjective(Append(s, t))
         /\ ToSet(Append(s, t)) = ToSet(s) \cup {t}
<1> DEFINE a == Append(s, t)
<1>1. /\ a \in Seq(Task) /\ Len(a) = Len(s) + 1
      /\ DOMAIN a = 1..(Len(s) + 1) /\ DOMAIN s = 1..Len(s)
      /\ \A i \in 1..Len(s) : a[i] = s[i]
      /\ a[Len(s) + 1] = t
  OBVIOUS
<1>2. IsInjective(a)
  BY <1>1 DEF IsInjective, ToSet
<1>3. ToSet(a) = ToSet(s) \cup {t}
  BY <1>1 DEF ToSet
<1> QED BY <1>2, <1>3

(* A task that is taken off the queue leaves the others there. *)
LEMMA TailDistinct ==
  ASSUME NEW s \in Seq(Task), s # <<>>, IsInjective(s)
  PROVE  /\ Head(s) \in ToSet(s)
         /\ IsInjective(Tail(s))
         /\ ToSet(Tail(s)) = ToSet(s) \ {Head(s)}
<1> DEFINE r == Tail(s)
<1>1. /\ Len(s) \in Nat \ {0} /\ DOMAIN s = 1..Len(s) /\ Head(s) = s[1]
      /\ Len(r) = Len(s) - 1 /\ DOMAIN r = 1..(Len(s) - 1)
      /\ \A i \in 1..(Len(s) - 1) : r[i] = s[i + 1]
  OBVIOUS
<1>2. Head(s) \in ToSet(s)
  BY <1>1 DEF ToSet
<1>3. IsInjective(r)
  BY <1>1 DEF IsInjective
<1>4. ToSet(r) = ToSet(s) \ {Head(s)}
  <2>1. ASSUME NEW i \in 1..(Len(s) - 1)
        PROVE  r[i] \in ToSet(s) \ {Head(s)}
    BY <1>1, <2>1 DEF IsInjective, ToSet
  <2>2. ASSUME NEW i \in DOMAIN s, s[i] # Head(s)
        PROVE  s[i] \in ToSet(r)
    <3>1. i - 1 \in 1..(Len(s) - 1) /\ s[i] = r[i - 1]
      BY <1>1, <2>2
    <3> QED BY <1>1, <3>1 DEF ToSet
  <2> QED BY <1>1, <2>1, <2>2 DEF ToSet
<1> QED BY <1>2, <1>3, <1>4

-----------------------------------------------------------------------------
(* The inductive invariant *)

(* The tasks that are not over can be counted. *)
LEMMA OpenFinite ==
  ASSUME TypeOK
  PROVE  IsFiniteSet(Open) /\ Cardinality(Open) \in Nat
<1>1. IsFiniteSet(Open)
  BY TaskAssumption, FS_Subset DEF TypeOK, Open
<1> QED BY <1>1, FS_CardinalityType

(* The invariant holds of a new pool. *)
LEMMA Start == Init => IInv
<1> SUFFICES ASSUME Init PROVE IInv
  OBVIOUS
<1>1. Queued = {} /\ IsInjective(queue)
  BY DEF Init, Queued, ToSet, IsInjective
<1>2. CountMatches
  BY FS_EmptySet DEF Init, CountMatches
<1>3. TypeOK
  <2>1. <<>> \in Seq(Task)
    OBVIOUS
  <2> QED BY <2>1 DEF Init, TypeOK
<1>4. OnePlace
  BY <1>1 DEF Init, OnePlace
<1>5. CancelState
  BY DEF Init, CancelState
<1> QED BY <1>2, <1>3, <1>4, <1>5 DEF IInv

(* Steps that move no task. *)
LEMMA OthersPreserve ==
  ASSUME IInv,
         \/ NothingToPop \/ QueueWait \/ SpuriousWakeUp \/ Run \/ Wait \/ WaitReturn
         \/ SessionEnd \/ Cancel \/ CancelReturn \/ Exit \/ ExitNotify \/ Join
         \/ UNCHANGED vars
  PROVE  IInv'
<1>1. UNCHANGED <<queue, num, task, pushing, pushed, ended, cleared>>
  BY DEF NothingToPop, QueueWait, SpuriousWakeUp, Run, Wait, WaitReturn, SessionEnd,
         Cancel, CancelReturn, Exit, ExitNotify, Join, vars, workerVars, sessionVars,
         mainVars, history
<1>2. TypeOK'
  <2>1. CASE Run
    <3>1. task \in Task
      BY <2>1 DEF IInv, TypeOK, OnePlace, Open, Run
    <3> QED BY <2>1, <3>1 DEF IInv, TypeOK, Run, sessionVars, mainVars
  <2>2. CASE NothingToPop \/ QueueWait \/ SpuriousWakeUp \/ Wait \/ WaitReturn \/ SessionEnd
    BY <2>2 DEF IInv, TypeOK, NothingToPop, QueueWait, SpuriousWakeUp, Wait, WaitReturn,
                SessionEnd, workerVars, sessionVars, mainVars, history
  <2>3. CASE Cancel
    BY <2>3 DEF IInv, TypeOK, Cancel, workerVars, sessionVars, history
  <2>4. CASE CancelReturn
    <3>1. mPc' \in {"idle", "exit"} /\ old' = {}
      BY <2>4 DEF CancelReturn
    <3> QED BY <2>4, <3>1 DEF IInv, TypeOK, CancelReturn, workerVars, sessionVars, history
  <2>5. CASE Exit \/ Join
    BY <2>5 DEF IInv, TypeOK, Exit, Join, workerVars, sessionVars, history
  <2>6. CASE ExitNotify
    <3>1. wPc' \in {wPc, "pop"}
      BY <2>6 DEF ExitNotify, Awake
    <3> QED BY <2>6, <3>1 DEF IInv, TypeOK, ExitNotify, sessionVars, history
  <2>7. CASE UNCHANGED vars
    BY <2>7 DEF IInv, TypeOK, vars, workerVars, sessionVars, mainVars, history
  <2> QED BY <2>1, <2>2, <2>3, <2>4, <2>5, <2>6, <2>7
<1>3. OnePlace'
  <2>1. /\ wPc' \in {"run", "done"} <=> wPc \in {"run", "done"}
        /\ pPc' = "push" <=> pPc = "push"
    BY DEF NothingToPop, QueueWait, SpuriousWakeUp, Run, Wait, WaitReturn, SessionEnd,
           Cancel, CancelReturn, Exit, ExitNotify, Join, Awake, vars, workerVars,
           sessionVars, mainVars, history
  <2> QED BY <1>1, <2>1 DEF IInv, OnePlace, Open, Queued
<1>4. CancelState'
  BY <1>1 DEF IInv, TypeOK, CancelState, NothingToPop, QueueWait, SpuriousWakeUp, Run, Wait,
         WaitReturn, SessionEnd, Cancel, CancelReturn, Exit, ExitNotify, Join, vars,
         workerVars, sessionVars, mainVars, history
<1>5. CountMatches'
  BY <1>1 DEF IInv, CountMatches
<1> QED BY <1>2, <1>3, <1>4, <1>5 DEF IInv

(* The worker takes a task from the queue to itself, which stays open. *)
LEMMA PopPreserves ==
  ASSUME IInv, Pop
  PROVE  IInv'
<1> USE DEF workerVars, sessionVars, mainVars, history
<1>1. /\ queue \in Seq(Task) /\ queue # <<>>
      /\ task' = Head(queue) /\ queue' = Tail(queue) /\ queue' \in Seq(Task)
  BY DEF IInv, TypeOK, Pop
<1>2. /\ task' \in Queued /\ IsInjective(queue') /\ Queued' = Queued \ {task'}
  BY <1>1, TailDistinct DEF IInv, OnePlace, Queued
<1>3. TypeOK'
  BY <1>1, <1>2 DEF IInv, TypeOK, OnePlace, Open, Pop
<1>4. OnePlace'
  BY <1>1, <1>2 DEF IInv, OnePlace, Open, Pop
<1>5. CancelState' /\ CountMatches'
  BY DEF IInv, CancelState, CountMatches, Pop
<1> QED BY <1>3, <1>4, <1>5 DEF IInv

(* The end of a task closes it and takes one from the count. *)
LEMMA TaskDonePreserves ==
  ASSUME IInv, TaskDone
  PROVE  IInv'
<1> USE DEF workerVars, sessionVars, mainVars, history
<1>1. /\ task \in Open /\ Open' = Open \ {task} /\ Open \subseteq Task
      /\ task' = NoTask /\ Queued' = Queued
  BY DEF IInv, TypeOK, OnePlace, TaskDone, Open, Queued
<1>2. /\ Cardinality(Open') = Cardinality(Open) - 1
      /\ Cardinality(Open) \in Nat /\ Cardinality(Open') \in Nat
  <2>1. IsFiniteSet(Open) /\ Cardinality(Open) \in Nat
    BY OpenFinite DEF IInv
  <2>2. /\ IsFiniteSet(Open \ {task})
        /\ Cardinality(Open \ {task}) = Cardinality(Open) - 1
    BY <1>1, <2>1, FS_RemoveElement
  <2> QED BY <1>1, <2>1, <2>2, FS_CardinalityType
<1>3. CountMatches' /\ num' \in Nat
  <2>1. num = Cardinality(Open) + cleared /\ cleared \in Nat /\ num \in Nat
    BY DEF IInv, TypeOK, CountMatches, Open
  <2>2. num' = num - 1 /\ cleared' = cleared
    BY DEF TaskDone
  <2>3. num' = Cardinality(Open') + cleared' /\ num' \in Nat
    BY <1>2, <2>1, <2>2
  <2> QED BY <2>3 DEF CountMatches, Open
<1>4. TypeOK'
  BY <1>1, <1>3 DEF IInv, TypeOK, TaskDone, Open
<1>5. OnePlace'
  BY <1>1, TaskAssumption DEF IInv, OnePlace, TaskDone
<1>6. CancelState'
  BY <1>1 DEF IInv, CancelState, TaskDone, Open
<1> QED BY <1>3, <1>4, <1>5, <1>6 DEF IInv

(* push counts a task before it is in the queue. *)
LEMMA PushCountPreserves ==
  ASSUME IInv, NEW t \in Task, PushCount(t)
  PROVE  IInv'
<1> USE DEF workerVars, sessionVars, mainVars, history
<1>1. t \notin Open /\ Open' = Open \cup {t} /\ Queued' = Queued /\ pushing' = t
  BY DEF IInv, CancelState, PushCount, Open, Queued
<1>2. Cardinality(Open') = Cardinality(Open) + 1
  BY <1>1, OpenFinite, FS_AddElement DEF IInv
<1>3. CountMatches' /\ num' \in Nat
  BY <1>2, OpenFinite DEF IInv, TypeOK, CountMatches, Open, PushCount
<1>4. TypeOK'
  BY <1>3 DEF IInv, TypeOK, PushCount
<1>5. OnePlace'
  BY <1>1, TaskAssumption DEF IInv, OnePlace, PushCount
<1>6. CancelState'
  BY DEF IInv, CancelState, PushCount
<1> QED BY <1>3, <1>4, <1>5, <1>6 DEF IInv

(* push then puts it in the queue and wakes the worker. *)
LEMMA PushQueuePreserves ==
  ASSUME IInv, PushQueue
  PROVE  IInv'
<1> USE DEF workerVars, sessionVars, mainVars, history
<1>1. /\ pushing \in Open \ (Queued \cup {task}) /\ pushing \in Task
      /\ queue' = Append(queue, pushing) /\ queue \in Seq(Task) /\ Open' = Open
  BY DEF IInv, TypeOK, OnePlace, PushQueue, Open
<1>2. IsInjective(queue') /\ Queued' = Queued \cup {pushing} /\ queue' \in Seq(Task)
  BY <1>1, AppendDistinct DEF IInv, OnePlace, Queued
<1>3. wPc' \in {"run", "done"} <=> wPc \in {"run", "done"}
  BY DEF PushQueue, Awake
<1>4. TypeOK'
  BY <1>2 DEF IInv, TypeOK, PushQueue, Awake
<1>5. OnePlace'
  BY <1>1, <1>2, <1>3 DEF IInv, OnePlace, PushQueue
<1>6. CancelState' /\ CountMatches'
  BY DEF IInv, CancelState, CountMatches, PushQueue
<1> QED BY <1>4, <1>5, <1>6 DEF IInv

(* clear() drops the queue and keeps in mind how many tasks it dropped. *)
LEMMA ClearQueuePreserves ==
  ASSUME IInv, ClearQueue
  PROVE  IInv'
<1> USE DEF workerVars, sessionVars, mainVars, history
<1>1. /\ Queued \subseteq Open /\ Open' = Open \ Queued /\ queue' = <<>>
      /\ cleared = 0 /\ cleared' = Len(queue)
  BY DEF IInv, OnePlace, CancelState, ClearQueue, Open
<1>2. Queued' = {} /\ IsInjective(queue')
  BY <1>1 DEF Queued, ToSet, IsInjective
<1>3. Cardinality(Open') = Cardinality(Open) - Len(queue)
  <2>1. Cardinality(Queued) = Len(queue)
    BY DistinctCount DEF IInv, TypeOK, OnePlace, Queued
  <2>2. Open \cap Queued = Queued
    BY <1>1
  <2>3. IsFiniteSet(Open)
    BY OpenFinite DEF IInv
  <2>4. Cardinality(Open \ Queued) = Cardinality(Open) - Cardinality(Open \cap Queued)
    BY <2>3, FS_Difference
  <2> QED BY <1>1, <2>1, <2>2, <2>4
<1>4. CountMatches'
  BY <1>1, <1>3, OpenFinite DEF IInv, TypeOK, CountMatches, Open, ClearQueue
<1>5. TypeOK'
  BY <1>1 DEF IInv, TypeOK, ClearQueue, Open
<1>6. OnePlace'
  BY <1>1, <1>2 DEF IInv, OnePlace, ClearQueue
<1>7. CancelState'
  BY <1>1 DEF IInv, CancelState, ClearQueue, Open
<1> QED BY <1>4, <1>5, <1>6, <1>7 DEF IInv

(* clear() then takes them off the count. *)
LEMMA ClearCountPreserves ==
  ASSUME IInv, ClearCount
  PROVE  IInv'
<1> USE DEF workerVars, sessionVars, mainVars, history
<1>1. CountMatches' /\ num' \in Nat
  BY OpenFinite DEF IInv, TypeOK, CountMatches, Open, ClearCount
<1>2. TypeOK'
  BY <1>1 DEF IInv, TypeOK, ClearCount
<1>3. OnePlace' /\ CancelState'
  BY DEF IInv, OnePlace, CancelState, ClearCount, Open, Queued
<1> QED BY <1>1, <1>2, <1>3 DEF IInv

(* Every step of the worker and its callers keeps the invariant. *)
LEMMA Inductive == IInv /\ [Next]_vars => IInv'
<1> SUFFICES ASSUME IInv, [Next]_vars PROVE IInv'
  OBVIOUS
<1>1. CASE Pop
  BY <1>1, PopPreserves
<1>2. CASE TaskDone
  BY <1>2, TaskDonePreserves
<1>3. ASSUME NEW t \in Task, PushCount(t) PROVE IInv'
  BY <1>3, PushCountPreserves
<1>4. CASE PushQueue
  BY <1>4, PushQueuePreserves
<1>5. CASE ClearQueue
  BY <1>5, ClearQueuePreserves
<1>6. CASE ClearCount
  BY <1>6, ClearCountPreserves
<1>7. CASE \/ NothingToPop \/ QueueWait \/ SpuriousWakeUp \/ Run \/ Wait \/ WaitReturn
           \/ SessionEnd \/ Cancel \/ CancelReturn \/ Exit \/ ExitNotify \/ Join
           \/ UNCHANGED vars
  BY <1>7, OthersPreserve
<1> QED
  BY <1>1, <1>2, <1>3, <1>4, <1>5, <1>6, <1>7
     DEF Next, Worker, SessionThread, MainThread, Deleted

(* Every open task is in one place, and counted. *)
THEOREM Invariance == Spec => []IInv
BY Start, Inductive, PTL DEF Spec

(* num is, between any two steps, the number of tasks that push counted    *)
(* and that are not over, and those clear() has still to take off.         *)
THEOREM ExactCount == Spec => []CountMatches
<1>1. IInv => CountMatches
  BY DEF IInv
<1> QED BY <1>1, Invariance, PTL

(* Every variable keeps its type; num is never negative, which             *)
(* num_decrease asserts.                                                   *)
THEOREM TypeCorrect == Spec => []TypeOK
<1>1. IInv => TypeOK
  BY DEF IInv
<1> QED BY <1>1, Invariance, PTL

-----------------------------------------------------------------------------
(* The pool implements TaskPool *)

(* wait() returns when every task is over. *)
LEMMA WaitWaits ==
  ASSUME IInv, AllDone
  PROVE  pushed = ended
<1>1. Cardinality(Open) = 0 /\ IsFiniteSet(Open)
  BY OpenFinite DEF IInv, TypeOK, CountMatches, AllDone, Open
<1>2. Open = {}
  BY <1>1, FS_EmptySet
<1> QED BY <1>2 DEF IInv, CancelState, Open

(* A new pool is a new abstract pool. *)
LEMMA StartRefines == Init => Pool!PoolInit
BY DEF Init, Pool!PoolInit

(* The session thread's steps. *)
LEMMA SessionRefines ==
  ASSUME IInv, SessionThread
  PROVE  [Pool!PoolNext]_Pool!poolVars
<1> USE DEF workerVars, sessionVars, mainVars, history, Pool!poolVars, Pool!PoolNext
<1>1. ASSUME NEW t \in Task, PushCount(t)
      PROVE  Pool!PoolPush
  BY <1>1 DEF PushCount, Pool!PoolPush
<1>2. CASE PushQueue
  BY <1>2 DEF PushQueue
<1>3. CASE Wait
  BY <1>3 DEF Wait, Pool!PoolWait
<1>4. CASE WaitReturn
  BY <1>4, WaitWaits DEF WaitReturn, Pool!PoolWaited
<1>5. CASE SessionEnd
  BY <1>5 DEF SessionEnd
<1> QED BY <1>1, <1>2, <1>3, <1>4, <1>5 DEF SessionThread

(* The worker's: only Run and TaskDone are seen. *)
LEMMA WorkerRefines ==
  ASSUME IInv, Worker \/ SpuriousWakeUp
  PROVE  [Pool!PoolNext]_Pool!poolVars
<1> USE DEF workerVars, sessionVars, mainVars, history, Pool!poolVars, Pool!PoolNext
<1>1. CASE Pop \/ NothingToPop \/ QueueWait \/ SpuriousWakeUp
  BY <1>1 DEF Pop, NothingToPop, QueueWait, SpuriousWakeUp
<1>2. CASE Run
  <2>1. task \in pushed \ ended /\ (doCancel <=> mPc \in {"clear", "decrease", "wait"})
    BY <1>2 DEF IInv, OnePlace, CancelState, Run, Open
  <2> QED BY <1>2, <2>1 DEF Run, Pool!PoolStop
<1>3. CASE TaskDone
  <2>1. task \in pushed \ ended
    BY <1>3 DEF IInv, OnePlace, TaskDone, Open
  <2> QED BY <1>3, <2>1 DEF TaskDone, Pool!PoolEnd
<1> QED BY <1>1, <1>2, <1>3 DEF Worker

(* The main thread's. *)
LEMMA MainRefines ==
  ASSUME IInv, Cancel \/ MainThread
  PROVE  [Pool!PoolNext]_Pool!poolVars
<1> USE DEF workerVars, sessionVars, mainVars, history, Pool!poolVars, Pool!PoolNext
<1>1. CASE Cancel
  BY <1>1 DEF Cancel, Pool!PoolCancel
<1>2. CASE ClearQueue
  <2>1. Queued \subseteq pushed \ ended
    BY DEF IInv, OnePlace, Open
  <2> QED BY <1>2, <2>1 DEF ClearQueue, Pool!PoolDrop
<1>3. CASE ClearCount \/ Exit \/ ExitNotify \/ Join
  BY <1>3 DEF ClearCount, Exit, ExitNotify, Join
<1>4. CASE CancelReturn
  <2>1. old \subseteq ended
    BY <1>4, WaitWaits DEF IInv, CancelState, CancelReturn
  <2> QED BY <1>4, <2>1 DEF CancelReturn, Pool!PoolCancelled
<1> QED BY <1>1, <1>2, <1>3, <1>4 DEF MainThread

(* Callers of the pool see what TaskPool says: wait() returns when every   *)
(* task is over, cancel() when those pushed before it are, and a task is   *)
(* cut short only by a cancel that is under way.                           *)
THEOREM Implements == Spec => ImplementsTaskPool
<1>1. IInv /\ [Next]_vars => [Pool!PoolNext]_Pool!poolVars
  <2> SUFFICES ASSUME IInv, [Next]_vars PROVE [Pool!PoolNext]_Pool!poolVars
    OBVIOUS
  <2>1. CASE UNCHANGED vars
    BY <2>1 DEF vars, workerVars, sessionVars, mainVars, history, Pool!poolVars
  <2> QED BY <2>1, SessionRefines, WorkerRefines, MainRefines DEF Next, Deleted
<1> QED BY <1>1, StartRefines, Invariance, PTL DEF Spec, ImplementsTaskPool, Pool!PoolSpec
=============================================================================
