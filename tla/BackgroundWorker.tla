-------------------------- MODULE BackgroundWorker --------------------------
(***************************************************************************)
(* BackgroundWorker and TaskResultQueue (src/include/UI.h): the UI thread  *)
(* queues tasks under a mutex and wakes the worker through a condition     *)
(* variable; each task ends by pushing its result.  When the UI goes, its  *)
(* members are destroyed in the reverse order of their declaration: the    *)
(* result queue first, then the worker, whose destructor sets stop_,       *)
(* notifies, and joins a thread that still runs what is queued.            *)
(***************************************************************************)
EXTENDS Naturals, Sequences

CONSTANTS
    MaxTasks,           \* bound: tasks the UI thread queues
    NoTask

ASSUME WorkerAssumption == MaxTasks \in Nat /\ NoTask \notin Nat

VARIABLES
    tasks, stop,        \* tasks_, stop_
    mutex,              \* holder of mutex_: "free" or "worker" (the UI thread's
                        \* sections under it are single steps)
    wakeable,           \* the worker is in the wait set of cv_
    task,               \* the local variable of run()
    worker, ui,         \* program counters
    resultsAlive,       \* result_queue_ exists
    crashed,            \* a push to the destroyed queue ended the process
    submitted, executed \* history: tasks queued and tasks run, in order

shared == <<tasks, stop, mutex, wakeable>>
vars == <<shared, task, worker, ui, resultsAlive, crashed, submitted, executed>>

TaskIds == 1..MaxTasks

TypeOK ==
    /\ tasks \in Seq(TaskIds) /\ submitted \in Seq(TaskIds) /\ executed \in Seq(TaskIds)
    /\ task \in TaskIds \cup {NoTask}
    /\ mutex = IF worker \in {"check", "block"} THEN "worker" ELSE "free"
    /\ wakeable \in BOOLEAN /\ (wakeable <=> worker = "waiting")
    /\ worker \in {"acquire", "check", "block", "waiting", "run", "push", "exited"}
    /\ ui \in {"loop", "notify", "destroyWorker", "notifyAll", "join", "done"}
    /\ stop \in BOOLEAN /\ resultsAlive \in BOOLEAN /\ crashed \in BOOLEAN

Init ==
    /\ tasks = <<>> /\ stop = FALSE /\ mutex = "free" /\ wakeable = FALSE
    /\ task = NoTask /\ worker = "acquire" /\ ui = "loop"
    /\ resultsAlive = TRUE /\ crashed = FALSE
    /\ submitted = <<>> /\ executed = <<>>

----------------------------------------------------------------------------
(* The UI thread. *)

UiAt(place, next) == ~crashed /\ ui = place /\ ui' = next

\* enqueue: the push under the mutex, then notify_one.
Enqueue ==
    /\ UiAt("loop", "notify") /\ mutex = "free" /\ Len(submitted) < MaxTasks
    /\ tasks' = Append(tasks, Len(submitted) + 1)
    /\ submitted' = Append(submitted, Len(submitted) + 1)
    /\ UNCHANGED <<stop, mutex, wakeable, task, worker, resultsAlive, crashed, executed>>

\* A thread that is woken competes for the mutex again.
Wake ==
    /\ wakeable' = FALSE
    /\ worker' = IF wakeable THEN "acquire" ELSE worker

NotifyOne ==
    /\ UiAt("notify", "loop") /\ Wake
    /\ UNCHANGED <<tasks, stop, mutex, task, resultsAlive, crashed, submitted, executed>>

\* ~UI, first the result queue.
DestroyResults ==
    /\ UiAt("loop", "destroyWorker")
    /\ resultsAlive' = FALSE
    /\ UNCHANGED <<shared, task, worker, crashed, submitted, executed>>

\* Mutant: stop_ is set without the mutex.
SetStopUnlocked ==
    /\ UiAt("destroyWorker", "notifyAll")
    /\ stop' = TRUE
    /\ UNCHANGED <<tasks, mutex, wakeable, task, worker, resultsAlive, crashed,
                   submitted, executed>>

\* ~BackgroundWorker.
SetStop ==
    /\ UiAt("destroyWorker", "notifyAll") /\ mutex = "free"
    /\ stop' = TRUE
    /\ UNCHANGED <<tasks, mutex, wakeable, task, worker, resultsAlive, crashed,
                   submitted, executed>>

NotifyAll ==
    /\ UiAt("notifyAll", "join") /\ Wake
    /\ UNCHANGED <<tasks, stop, mutex, task, resultsAlive, crashed, submitted, executed>>

Join ==
    /\ UiAt("join", "done") /\ worker = "exited"
    /\ UNCHANGED <<shared, task, worker, resultsAlive, crashed, submitted, executed>>

----------------------------------------------------------------------------
(* The worker thread: run(). *)

At(place) == ~crashed /\ worker = place

Acquire ==
    /\ At("acquire") /\ mutex = "free"
    /\ mutex' = "worker" /\ worker' = "check"
    /\ UNCHANGED <<tasks, stop, wakeable, task, ui, resultsAlive, crashed,
                   submitted, executed>>

MayProceed == stop \/ tasks # <<>>
MayExitAtOnce == stop                  \* mutant: what is queued is dropped
MayExit == stop /\ tasks = <<>>

NotReady ==
    /\ At("check") /\ ~MayProceed
    /\ worker' = "block"
    /\ UNCHANGED <<shared, task, ui, resultsAlive, crashed, submitted, executed>>

\* cv_.wait releases the mutex and joins the wait set in one step.
Block ==
    /\ At("block")
    /\ mutex' = "free" /\ wakeable' = TRUE /\ worker' = "waiting"
    /\ UNCHANGED <<tasks, stop, task, ui, resultsAlive, crashed, submitted, executed>>

SpuriousWakeup ==
    /\ At("waiting") /\ Wake
    /\ UNCHANGED <<tasks, stop, mutex, task, ui, resultsAlive, crashed,
                   submitted, executed>>

\* Mutant: the thread returns with the mutex held.
ExitLocked ==
    /\ At("check") /\ MayExit
    /\ worker' = "exited"
    /\ UNCHANGED <<shared, task, ui, resultsAlive, crashed, submitted, executed>>

Exit ==
    /\ At("check") /\ MayExit
    /\ mutex' = "free" /\ worker' = "exited"
    /\ UNCHANGED <<tasks, stop, wakeable, task, ui, resultsAlive, crashed,
                   submitted, executed>>

\* Mutant: the newest task is taken first.
TakeNewest ==
    /\ At("check") /\ MayProceed /\ ~MayExit
    /\ task' = tasks[Len(tasks)] /\ tasks' = SubSeq(tasks, 1, Len(tasks) - 1)
    /\ mutex' = "free" /\ worker' = "run"
    /\ UNCHANGED <<stop, wakeable, ui, resultsAlive, crashed, submitted, executed>>

Take ==
    /\ At("check") /\ MayProceed /\ ~MayExit
    /\ task' = Head(tasks) /\ tasks' = Tail(tasks)
    /\ mutex' = "free" /\ worker' = "run"
    /\ UNCHANGED <<stop, wakeable, ui, resultsAlive, crashed, submitted, executed>>

\* The task calls the manager; its last statement pushes the result.
RunTask ==
    /\ At("run") /\ worker' = "push"
    /\ UNCHANGED <<shared, task, ui, resultsAlive, crashed, submitted, executed>>

TaskOver ==
    /\ executed' = Append(executed, task) /\ task' = NoTask
    /\ worker' = "acquire"

PushResult ==
    /\ At("push") /\ resultsAlive /\ TaskOver
    /\ UNCHANGED <<shared, ui, resultsAlive, crashed, submitted>>

\* Undefined behaviour: the process dies, or the push goes unnoticed.
PushDestroyed ==
    /\ At("push") /\ ~resultsAlive
    /\ \/ TaskOver /\ UNCHANGED crashed
       \/ crashed' = TRUE /\ UNCHANGED <<executed, task, worker>>
    /\ UNCHANGED <<shared, ui, resultsAlive, submitted>>

----------------------------------------------------------------------------
UiFair == NotifyOne \/ SetStop \/ NotifyAll \/ Join
WorkerFair == Acquire \/ NotReady \/ Block \/ Exit \/ Take \/ RunTask \/ PushResult \/ PushDestroyed

Terminated == (crashed \/ ui = "done") /\ UNCHANGED vars

Next == Enqueue \/ DestroyResults \/ UiFair \/ WorkerFair \/ SpuriousWakeup \/ Terminated

Spec == Init /\ [][Next]_vars

\* Each thread runs on; queueing, quitting and spurious wakeups are not owed.
\* The mutex is held only for bounded sections, so it is granted in the end.
FairSpec == Spec /\ WF_vars(UiFair) /\ SF_vars(SetStop) /\ WF_vars(WorkerFair) /\ SF_vars(Acquire)

----------------------------------------------------------------------------
(* Properties. *)

\* A worker asleep with work to do, or told to stop, is about to be woken: no
\* wakeup is lost between the check of the queue and the wait.
NoLostWakeup ==
    worker = "waiting" /\ MayProceed => ui \in {"notify", "notifyAll"}

\* When the destructor has joined, every queued task has run: closing drains.
JoinDrains == ui = "done" => executed = submitted

\* The worker is the executor it stands for: order, one at a time, draining,
\* and every task run in the end.
ExecutorState ==
    CASE crashed -> "aborted"
      [] ~crashed /\ worker = "exited" -> "closed"
      [] ~crashed /\ worker # "exited" /\ resultsAlive -> "open"
      [] ~crashed /\ worker # "exited" /\ ~resultsAlive -> "closing"

Executor == INSTANCE TaskExecutor WITH
    pending <- tasks, current <- task, done <- executed, state <- ExecutorState

ImplementsExecutor == Executor!Spec
=============================================================================
