---------------------------- MODULE TaskExecutor ----------------------------
(***************************************************************************)
(* What BackgroundWorker (src/include/UI.h) promises: tasks are run one at *)
(* a time in the order they were submitted, closing waits until all of     *)
(* them have run, and every submitted task is run.  Only a process that    *)
(* is closing may die instead.                                             *)
(***************************************************************************)
EXTENDS Naturals, Sequences

CONSTANTS MaxTasks, NoTask

VARIABLES
    pending,    \* submitted tasks that have not begun
    current,    \* the task that runs, or NoTask
    done,       \* tasks that have run, in order
    state       \* "open", "closing", "closed" or "aborted"

execVars == <<pending, current, done, state>>

Init == pending = <<>> /\ current = NoTask /\ done = <<>> /\ state = "open"

Submitted == Len(pending) + Len(done) + (IF current = NoTask THEN 0 ELSE 1)

Submit ==
    /\ state = "open" /\ Submitted < MaxTasks
    /\ pending' = Append(pending, Submitted + 1)
    /\ UNCHANGED <<current, done, state>>

Begin ==
    /\ state \in {"open", "closing"} /\ current = NoTask /\ pending # <<>>
    /\ current' = Head(pending) /\ pending' = Tail(pending)
    /\ UNCHANGED <<done, state>>

Complete ==
    /\ state \in {"open", "closing"} /\ current # NoTask
    /\ done' = Append(done, current) /\ current' = NoTask
    /\ UNCHANGED <<pending, state>>

BeginClose == state = "open" /\ state' = "closing" /\ UNCHANGED <<pending, current, done>>

Close ==
    /\ state = "closing" /\ pending = <<>> /\ current = NoTask
    /\ state' = "closed" /\ UNCHANGED <<pending, current, done>>

Abort == state = "closing" /\ state' = "aborted" /\ UNCHANGED <<pending, current, done>>

Next == Submit \/ Begin \/ Complete \/ BeginClose \/ Close \/ Abort

Spec == /\ Init /\ [][Next]_execVars
        /\ WF_execVars(Begin) /\ WF_execVars(Complete) /\ WF_execVars(Close)
=============================================================================
