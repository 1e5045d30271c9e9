---------------------- MODULE BackgroundWorker_proofs ----------------------
(***************************************************************************)
(* Theorems about BackgroundWorker, for every number of tasks: the worker  *)
(* sleeps through no wakeup, the destructor drains the queue, and every    *)
(* step of the two threads is a step of TaskExecutor or none.              *)
(***************************************************************************)
EXTENDS BackgroundWorker, SequenceTheorems, TLAPS

Closing == {"notifyAll", "join", "done"}

\* What was queued has run, runs or waits, each task once and in the order of
\* the queue, which numbers them.
Held == IF task = NoTask THEN 0 ELSE 1
Conserved ==
    /\ Len(submitted) = Len(executed) + Held + Len(tasks)
    /\ \A i \in 1..Len(submitted) : submitted[i] = i
    /\ \A i \in 1..Len(executed) : executed[i] = i
    /\ \A i \in 1..Len(tasks) : tasks[i] = Len(executed) + Held + i
    /\ task # NoTask => task = Len(executed) + 1

\* run() holds a task from the moment it takes one until its result is pushed.
TaskHeld == task # NoTask <=> worker \in {"run", "push"}

\* stop_ is set by the destructor and never cleared; the result queue dies first.
StopOrder ==
    /\ stop <=> ui \in Closing
    /\ resultsAlive <=> ui \in {"loop", "notify"}
    /\ crashed => ~resultsAlive

\* The mutex is held between the check that finds nothing to do and the wait.
BlockInv == worker = "block" => ~MayProceed

\* The thread is gone only when it was told to stop and nothing was queued.
ExitInv ==
    /\ worker = "exited" => stop /\ tasks = <<>>
    /\ ui = "done" => worker = "exited"

WorkerInv ==
    /\ TypeOK /\ Conserved /\ TaskHeld /\ StopOrder
    /\ BlockInv /\ NoLostWakeup /\ ExitInv
----------------------------------------------------------------------------

\* The types, the tasks apart from the control state.
QueuesOK ==
    /\ tasks \in Seq(TaskIds) /\ submitted \in Seq(TaskIds) /\ executed \in Seq(TaskIds)
    /\ task \in TaskIds \cup {NoTask}

PlacesOK ==
    /\ mutex = IF worker \in {"check", "block"} THEN "worker" ELSE "free"
    /\ wakeable \in BOOLEAN /\ (wakeable <=> worker = "waiting")
    /\ worker \in {"acquire", "check", "block", "waiting", "run", "push", "exited"}
    /\ ui \in {"loop", "notify", "destroyWorker", "notifyAll", "join", "done"}
    /\ stop \in BOOLEAN /\ resultsAlive \in BOOLEAN /\ crashed \in BOOLEAN

LEMMA TypeParts == TypeOK <=> QueuesOK /\ PlacesOK
BY DEF TypeOK, QueuesOK, PlacesOK

LEMMA WorkerInvInit == Init => WorkerInv
<1> SUFFICES ASSUME Init PROVE WorkerInv
  OBVIOUS
<1> USE DEF Init
<1>1. TypeOK
  <2>1. QueuesOK
    BY DEF QueuesOK
  <2>2. PlacesOK
    BY DEF PlacesOK
  <2> QED
    BY <2>1, <2>2, TypeParts
<1>2. Conserved
  BY DEF Conserved, Held
<1>3. TaskHeld /\ StopOrder /\ BlockInv /\ NoLostWakeup /\ ExitInv
  BY DEF TaskHeld, StopOrder, Closing, BlockInv, NoLostWakeup, ExitInv
<1> QED
  BY <1>1, <1>2, <1>3 DEF WorkerInv

\* A step that moves no task keeps the order.
LEMMA ConservedStutter ==
    ASSUME Conserved, UNCHANGED <<submitted, executed, task, tasks>> PROVE Conserved'
BY DEF Conserved, Held

LEMMA WorkerInvEnqueue == ASSUME WorkerInv, Enqueue PROVE WorkerInv'
<1> USE DEF WorkerInv, Enqueue, UiAt
<1>1. Len(submitted) + 1 \in TaskIds
  BY WorkerAssumption DEF TypeOK, TaskIds
<1>2. TypeOK'
  BY <1>1, AppendProperties DEF TypeOK
<1>3. Conserved'
  <2> DEFINE n == Len(submitted) + 1
  <2>1. /\ Len(tasks') = Len(tasks) + 1 /\ tasks'[Len(tasks) + 1] = n
        /\ \A i \in 1..Len(tasks) : tasks'[i] = tasks[i]
        /\ Len(submitted') = n /\ submitted'[n] = n
        /\ \A i \in 1..Len(submitted) : submitted'[i] = submitted[i]
    BY <1>1, AppendProperties DEF TypeOK
  <2>2. Len(tasks) \in Nat /\ Len(submitted) \in Nat /\ Len(executed) \in Nat
    BY LenProperties DEF TypeOK
  <2>3. Held' = Held /\ Held \in 0..1
    BY DEF Held
  <2> HIDE DEF Held
  <2> QED
    BY <2>1, <2>2, <2>3 DEF Conserved
<1>4. TaskHeld' /\ StopOrder' /\ BlockInv' /\ NoLostWakeup' /\ ExitInv'
  BY DEF TypeOK, TaskHeld, StopOrder, Closing, BlockInv, NoLostWakeup, ExitInv, MayProceed
<1> QED
  BY <1>2, <1>3, <1>4

\* The other steps of the UI thread: they move no task.
LEMMA WorkerInvUi ==
    ASSUME WorkerInv, DestroyResults \/ UiFair PROVE WorkerInv'
<1> USE DEF WorkerInv, UiAt, shared, Wake
<1>1. TypeOK'
  <2>1. QueuesOK'
    BY DEF TypeOK, QueuesOK, DestroyResults, UiFair, NotifyOne, SetStop, NotifyAll, Join
  <2>2. PlacesOK'
    <3> USE DEF TypeOK, PlacesOK
    <3>1. CASE DestroyResults
      BY <3>1 DEF DestroyResults
    <3>2. CASE NotifyOne
      BY <3>2 DEF NotifyOne
    <3>3. CASE SetStop
      BY <3>3 DEF SetStop
    <3>4. CASE NotifyAll
      BY <3>4 DEF NotifyAll
    <3>5. CASE Join
      BY <3>5 DEF Join
    <3> QED
      BY <3>1, <3>2, <3>3, <3>4, <3>5 DEF UiFair
  <2> QED
    BY <2>1, <2>2 DEF TypeOK, QueuesOK, PlacesOK
<1>2. Conserved'
  BY ConservedStutter DEF DestroyResults, UiFair, NotifyOne, SetStop, NotifyAll, Join
<1>3. TaskHeld' /\ StopOrder' /\ BlockInv' /\ NoLostWakeup' /\ ExitInv'
  BY DEF TypeOK, TaskHeld, StopOrder, Closing, BlockInv, NoLostWakeup, ExitInv, MayProceed,
         DestroyResults, UiFair, NotifyOne, SetStop, NotifyAll, Join
<1> QED
  BY <1>1, <1>2, <1>3

\* The steps of the worker that move no task.
LEMMA WorkerInvRun ==
    ASSUME WorkerInv, Acquire \/ NotReady \/ Block \/ SpuriousWakeup \/ Exit \/ RunTask
    PROVE  WorkerInv'
<1> USE DEF WorkerInv, At, shared, Wake
<1>1. TypeOK'
  <2>1. QueuesOK'
    BY DEF TypeOK, QueuesOK, Acquire, NotReady, Block, SpuriousWakeup, Exit, RunTask
  <2>2. PlacesOK'
    <3> USE DEF TypeOK, PlacesOK
    <3>1. CASE Acquire
      BY <3>1 DEF Acquire
    <3>2. CASE NotReady
      BY <3>2 DEF NotReady
    <3>3. CASE Block
      BY <3>3 DEF Block
    <3>4. CASE SpuriousWakeup
      BY <3>4 DEF SpuriousWakeup
    <3>5. CASE Exit
      BY <3>5 DEF Exit
    <3>6. CASE RunTask
      BY <3>6 DEF RunTask
    <3> QED
      BY <3>1, <3>2, <3>3, <3>4, <3>5, <3>6
  <2> QED
    BY <2>1, <2>2 DEF TypeOK, QueuesOK, PlacesOK
<1>2. Conserved'
  BY ConservedStutter DEF Acquire, NotReady, Block, SpuriousWakeup, Exit, RunTask
<1>3. TaskHeld' /\ StopOrder' /\ BlockInv' /\ NoLostWakeup' /\ ExitInv'
  BY DEF TypeOK, TaskHeld, StopOrder, Closing, BlockInv, NoLostWakeup, ExitInv, MayProceed,
         MayExit, Acquire, NotReady, Block, SpuriousWakeup, Exit, RunTask
<1> QED
  BY <1>1, <1>2, <1>3

LEMMA WorkerInvTake == ASSUME WorkerInv, Take PROVE WorkerInv'
<1> USE DEF WorkerInv, Take, At
<1>1. tasks # <<>>
  BY DEF MayProceed, MayExit
<1>2. /\ Head(tasks) = tasks[1] /\ Head(tasks) \in TaskIds
      /\ Tail(tasks) \in Seq(TaskIds) /\ Len(Tail(tasks)) = Len(tasks) - 1
      /\ \A i \in 1..Len(Tail(tasks)) : Tail(tasks)[i] = tasks[i + 1]
  BY <1>1, HeadTailProperties DEF TypeOK
<1>3. task = NoTask /\ task' # NoTask
  BY <1>2, WorkerAssumption DEF TaskHeld, TaskIds
<1>4. TypeOK'
  BY <1>2 DEF TypeOK
<1>5. Conserved'
  <2>1. Len(tasks) \in Nat /\ Len(submitted) \in Nat /\ Len(executed) \in Nat /\ Len(tasks) # 0
    BY <1>1, LenProperties, EmptySeq DEF TypeOK
  <2>2. Held = 0 /\ Held' = 1
    BY <1>3 DEF Held
  <2>9. /\ task' = Head(tasks) /\ tasks' = Tail(tasks)
        /\ UNCHANGED <<submitted, executed>>
        /\ Conserved
    OBVIOUS
  <2> HIDE DEF WorkerInv, Take, At
  <2>3. task' = Len(executed') + 1
    BY <1>2, <2>9, <2>1, <2>2 DEF Conserved
  <2>4. ASSUME NEW i \in 1..Len(tasks') PROVE tasks'[i] = Len(executed') + Held' + i
    <3>1. i \in 1..Len(Tail(tasks)) /\ i + 1 \in 1..Len(tasks)
      BY <1>2, <2>1, <2>9
    <3>2. tasks'[i] = tasks[i + 1]
      BY <1>2, <2>9, <3>1
    <3>3. tasks[i + 1] = Len(executed) + Held + (i + 1)
      BY <2>9, <3>1 DEF Conserved
    <3> QED
      BY <2>1, <2>2, <2>9, <3>1, <3>2, <3>3
  <2>5. /\ Len(submitted') = Len(executed') + Held' + Len(tasks')
        /\ \A i \in 1..Len(submitted') : submitted'[i] = i
        /\ \A i \in 1..Len(executed') : executed'[i] = i
    BY <1>2, <2>1, <2>2, <2>9 DEF Conserved
  <2> QED
    BY <2>3, <2>4, <2>5 DEF Conserved
<1>6. TaskHeld' /\ StopOrder' /\ BlockInv' /\ NoLostWakeup' /\ ExitInv'
  BY <1>3 DEF TypeOK, TaskHeld, StopOrder, Closing, BlockInv, NoLostWakeup, ExitInv
<1> QED
  BY <1>4, <1>5, <1>6

LEMMA WorkerInvPush == ASSUME WorkerInv, PushResult \/ PushDestroyed PROVE WorkerInv'
<1> USE DEF WorkerInv, PushResult, PushDestroyed, At, shared
<1>1. CASE TaskOver /\ UNCHANGED <<shared, ui, resultsAlive, crashed, submitted>>
  <2> USE <1>1 DEF TaskOver
  <2>1. task \in TaskIds /\ task # NoTask
    BY DEF TypeOK, TaskHeld
  <2>2. TypeOK'
    BY <2>1, AppendProperties DEF TypeOK
  <2>3. Conserved'
    <3>1. /\ Len(executed') = Len(executed) + 1 /\ executed'[Len(executed) + 1] = task
          /\ \A i \in 1..Len(executed) : executed'[i] = executed[i]
      BY <2>1, AppendProperties DEF TypeOK
    <3>2. Len(tasks) \in Nat /\ Len(submitted) \in Nat /\ Len(executed) \in Nat
      BY LenProperties DEF TypeOK
    <3>3. Held = 1 /\ Held' = 0 /\ task' = NoTask
      BY <2>1 DEF Held
    <3>4. UNCHANGED <<tasks, submitted>>
      OBVIOUS
    <3>5. \A i \in 1..Len(executed') : executed'[i] = i
      BY <2>1, <3>1, <3>2 DEF Conserved
    <3>6. \A i \in 1..Len(tasks') : tasks'[i] = Len(executed') + Held' + i
      BY <3>1, <3>2, <3>3, <3>4 DEF Conserved
    <3>7. /\ Len(submitted') = Len(executed') + Held' + Len(tasks')
          /\ \A i \in 1..Len(submitted') : submitted'[i] = i
      BY <3>1, <3>2, <3>3, <3>4 DEF Conserved
    <3> QED
      BY <3>3, <3>5, <3>6, <3>7 DEF Conserved
  <2>4. TaskHeld' /\ StopOrder' /\ BlockInv' /\ NoLostWakeup' /\ ExitInv'
    BY DEF TypeOK, TaskHeld, StopOrder, Closing, BlockInv, NoLostWakeup, ExitInv
  <2> QED
    BY <2>2, <2>3, <2>4
<1>2. CASE /\ crashed' = TRUE /\ ~resultsAlive
           /\ UNCHANGED <<shared, task, worker, ui, resultsAlive, executed, submitted>>
  <2>1. TypeOK'
    BY <1>2 DEF TypeOK
  <2>2. Conserved'
    BY <1>2, ConservedStutter
  <2>3. TaskHeld' /\ StopOrder' /\ BlockInv' /\ NoLostWakeup' /\ ExitInv'
    BY <1>2 DEF TaskHeld, StopOrder, BlockInv, NoLostWakeup, ExitInv, MayProceed
  <2> QED
    BY <2>1, <2>2, <2>3
<1> QED
  BY <1>1, <1>2

LEMMA WorkerInvNext == WorkerInv /\ [Next]_vars => WorkerInv'
<1> SUFFICES ASSUME WorkerInv, [Next]_vars PROVE WorkerInv'
  OBVIOUS
<1>1. CASE UNCHANGED vars
  BY <1>1 DEF vars, shared, WorkerInv, TypeOK, Conserved, Held, TaskHeld, StopOrder, BlockInv,
              NoLostWakeup, ExitInv, MayProceed
<1> QED
  BY <1>1, WorkerInvEnqueue, WorkerInvUi, WorkerInvRun, WorkerInvTake, WorkerInvPush
     DEF Next, WorkerFair, Terminated
----------------------------------------------------------------------------
(* The theorems. *)

LEMMA WorkerInvAlways == Spec => []WorkerInv
BY WorkerInvInit, WorkerInvNext, PTL DEF Spec

\* Both threads keep the types of BackgroundWorker's members, and mutex_ is held
\* by the worker exactly between the check of the queue and what follows it.
THEOREM WorkerTypes == Spec => []TypeOK
<1>1. WorkerInv => TypeOK
  BY DEF WorkerInv
<1> QED
  BY <1>1, WorkerInvAlways, PTL

\* However the threads interleave, and with spurious wakeups, run() never sleeps
\* in cv_.wait on a queued task or on stop_ without a notification to come.
THEOREM WakeupNotLost == Spec => []NoLostWakeup
<1>1. WorkerInv => NoLostWakeup
  BY DEF WorkerInv
<1> QED
  BY <1>1, WorkerInvAlways, PTL

\* When ~BackgroundWorker has joined the thread, every task that was queued has
\* run, once, in the order it was queued.
THEOREM ClosingDrains == Spec => []JoinDrains
<1>1. WorkerInv => JoinDrains
  <2> SUFFICES ASSUME WorkerInv, ui = "done" PROVE executed = submitted
    BY DEF JoinDrains
  <2>1. tasks = <<>> /\ task = NoTask
    BY DEF WorkerInv, ExitInv, TaskHeld
  <2> QED
    BY <2>1, SeqEqual DEF WorkerInv, TypeOK, Conserved, Held
<1> QED
  BY <1>1, WorkerInvAlways, PTL

----------------------------------------------------------------------------
(* The refinement of TaskExecutor, without its fairness.                   *)

LEMMA ExecutorStateValue ==
    ASSUME WorkerInv
    PROVE  /\ crashed => ExecutorState = "aborted"
           /\ ~crashed /\ worker = "exited" => ExecutorState = "closed"
           /\ ~crashed /\ worker # "exited" /\ resultsAlive => ExecutorState = "open"
           /\ ~crashed /\ worker # "exited" /\ ~resultsAlive => ExecutorState = "closing"
BY DEF WorkerInv, TypeOK, ExecutorState

LEMMA ExecutorInit == Init => Executor!Init
BY DEF Init, Executor!Init, ExecutorState

\* Every step of the two threads maps to a step of the executor or to none.
LEMMA ExecutorStep ==
    ASSUME WorkerInv, [Next]_vars PROVE [Executor!Next]_(Executor!execVars)
<1> USE DEF Executor!execVars
<1>1. WorkerInv'
  BY WorkerInvNext
<1>2. /\ crashed' => ExecutorState' = "aborted"
      /\ ~crashed' /\ worker' = "exited" => ExecutorState' = "closed"
      /\ ~crashed' /\ worker' # "exited" /\ resultsAlive' => ExecutorState' = "open"
      /\ ~crashed' /\ worker' # "exited" /\ ~resultsAlive' => ExecutorState' = "closing"
  BY <1>1 DEF WorkerInv, TypeOK, ExecutorState
<1> DEFINE kept == UNCHANGED <<tasks, task, executed, ExecutorState>>
<1>4. ASSUME Enqueue PROVE Executor!Submit
  <2>1. worker # "exited" /\ resultsAlive /\ ~crashed /\ UNCHANGED <<worker, resultsAlive, crashed>>
    BY <1>4 DEF Enqueue, UiAt, WorkerInv, ExitInv, StopOrder, Closing
  <2>2. ExecutorState = "open" /\ ExecutorState' = "open"
    BY <1>2, <2>1, ExecutorStateValue
  <2>3. Executor!Submitted = Len(submitted)
    <3>1. Len(tasks) \in Nat /\ Len(executed) \in Nat /\ Held \in 0..1
      BY LenProperties DEF WorkerInv, TypeOK, Held
    <3>2. Executor!Submitted = Len(tasks) + Len(executed) + Held
      BY DEF Executor!Submitted, Held
    <3> QED
      BY <3>1, <3>2 DEF WorkerInv, Conserved
  <2> QED
    BY <1>4, <2>2, <2>3 DEF Enqueue, Executor!Submit
<1>5. ASSUME DestroyResults PROVE Executor!BeginClose
  <2>1. /\ worker # "exited" /\ ~crashed /\ resultsAlive
        /\ ~resultsAlive' /\ UNCHANGED <<worker, crashed, tasks, task, executed>>
    BY <1>5 DEF DestroyResults, UiAt, WorkerInv, ExitInv, StopOrder, Closing, shared
  <2>2. ExecutorState = "open" /\ ExecutorState' = "closing"
    BY <1>2, <2>1, ExecutorStateValue
  <2> QED
    BY <2>1, <2>2 DEF Executor!BeginClose
<1>6. ASSUME \/ NotifyOne \/ SetStop \/ NotifyAll \/ Join \/ Acquire \/ NotReady \/ Block
             \/ SpuriousWakeup \/ RunTask \/ Terminated
      PROVE  kept
  <2>1. /\ UNCHANGED <<tasks, task, executed, crashed, resultsAlive>>
        /\ worker' = "exited" <=> worker = "exited"
    BY <1>6 DEF NotifyOne, SetStop, NotifyAll, Join, Acquire, NotReady, Block, SpuriousWakeup,
                RunTask, Terminated, Wake, UiAt, At, shared, vars, WorkerInv, TypeOK
  <2> QED
    BY <1>2, <2>1, ExecutorStateValue
<1>7. ASSUME Exit PROVE Executor!Close
  <2>1. /\ tasks = <<>> /\ task = NoTask /\ UNCHANGED <<tasks, task, executed>>
        /\ worker # "exited" /\ ~crashed /\ ~resultsAlive
        /\ worker' = "exited" /\ ~crashed'
    BY <1>7 DEF Exit, At, MayExit, WorkerInv, TaskHeld, StopOrder, Closing
  <2>2. ExecutorState = "closing" /\ ExecutorState' = "closed"
    BY <1>2, <2>1, ExecutorStateValue
  <2> QED
    BY <2>1, <2>2 DEF Executor!Close
<1>8. ASSUME Take PROVE Executor!Begin
  <2>1. /\ tasks # <<>> /\ task = NoTask /\ worker # "exited" /\ worker' # "exited" /\ ~crashed
        /\ UNCHANGED <<executed, crashed, resultsAlive>>
        /\ task' = Head(tasks) /\ tasks' = Tail(tasks)
    BY <1>8 DEF Take, At, MayProceed, MayExit, WorkerInv, TaskHeld
  <2>2. ExecutorState \in {"open", "closing"} /\ ExecutorState' = ExecutorState
    BY <1>2, <2>1, ExecutorStateValue
  <2> QED
    BY <2>1, <2>2 DEF Executor!Begin
<1>9. ASSUME PushResult \/ PushDestroyed PROVE Executor!Complete \/ Executor!Abort
  <2>1. /\ task # NoTask /\ worker # "exited" /\ ~crashed
        /\ UNCHANGED <<tasks, resultsAlive>>
    BY <1>9 DEF PushResult, PushDestroyed, At, shared, WorkerInv, TaskHeld
  <2>2. CASE TaskOver /\ UNCHANGED crashed
    <3>1. worker' # "exited"
      BY <2>2 DEF TaskOver
    <3>2. ExecutorState \in {"open", "closing"} /\ ExecutorState' = ExecutorState
      BY <1>2, <2>1, <2>2, <3>1, ExecutorStateValue
    <3> QED
      BY <2>1, <2>2, <3>2 DEF TaskOver, Executor!Complete
  <2>3. CASE ~resultsAlive /\ crashed' = TRUE /\ UNCHANGED <<executed, task, worker>>
    <3>1. ExecutorState = "closing" /\ ExecutorState' = "aborted"
      BY <1>2, <2>1, <2>3, ExecutorStateValue
    <3> QED
      BY <2>1, <2>3, <3>1 DEF Executor!Abort
  <2> QED
    BY <1>9, <2>2, <2>3 DEF PushResult, PushDestroyed
<1>10. CASE UNCHANGED vars
  BY <1>10 DEF vars, shared, ExecutorState
<1> QED
  BY <1>4, <1>5, <1>6, <1>7, <1>8, <1>9, <1>10 DEF Next, UiFair, WorkerFair, Executor!Next

\* The two threads implement TaskExecutor: tasks run one at a time, in the order
\* they were queued, and the worker is gone only when all of them have run, or
\* when a push to the destroyed result queue ended the process.
THEOREM WorkerImplementsExecutor ==
    Spec => Executor!Init /\ [][Executor!Next]_(Executor!execVars)
BY ExecutorInit, ExecutorStep, WorkerInvAlways, PTL DEF Spec
=============================================================================
