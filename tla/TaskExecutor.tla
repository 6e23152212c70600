---------------------------- MODULE TaskExecutor ----------------------------
(***************************************************************************)
(* What the background scheduler of core/posix/background_sched.c promises *)
(* its callers, without mutex, condition variable, counters or worker      *)
(* thread: tasks are run one at a time, in the order they were accepted,   *)
(* each at most once; a task accepted while the executor is open is run    *)
(* before the executor finishes closing; only a task accepted after the    *)
(* close began may be discarded.                                           *)
(***************************************************************************)
EXTENDS Naturals, Sequences, Functions

CONSTANTS Tasks,    \* the tasks callers may hand over, each at most once
          NoTask    \* "no task is being run"

VARIABLES todo,       \* accepted and not begun, oldest first
          busy,       \* the task being run, or NoTask
          done,       \* the tasks whose run has ended, in that order
          discarded,  \* accepted but given up when the executor closed
          phase,      \* "open", "closing" or "closed"
          owed        \* how many tasks had ended, run or waited when the close began

execVars == <<todo, busy, done, discarded, phase, owed>>

Known == Range(todo) \cup Range(done) \cup Range(discarded) \cup {busy}

ExecInit == /\ todo = <<>>
            /\ busy = NoTask
            /\ done = <<>>
            /\ discarded = <<>>
            /\ phase = "open"
            /\ owed = 0

Accept(t) == /\ phase # "closed"
             /\ t \notin Known
             /\ todo' = Append(todo, t)
             /\ owed' = IF phase = "open" THEN owed + 1 ELSE owed
             /\ UNCHANGED <<busy, done, discarded, phase>>

Begin == /\ busy = NoTask
         /\ phase # "closed"
         /\ todo # <<>>
         /\ busy' = Head(todo)
         /\ todo' = Tail(todo)
         /\ UNCHANGED <<done, discarded, phase, owed>>

End == /\ busy # NoTask
       /\ done' = Append(done, busy)
       /\ busy' = NoTask
       /\ UNCHANGED <<todo, discarded, phase, owed>>

Close == /\ phase = "open"
         /\ phase' = "closing"
         /\ UNCHANGED <<todo, busy, done, discarded, owed>>

Finish == /\ phase = "closing"
          /\ busy = NoTask
          /\ owed <= Len(done)
          /\ phase' = "closed"
          /\ discarded' = todo
          /\ todo' = <<>>
          /\ UNCHANGED <<busy, done, owed>>

ExecNext == \/ \E t \in Tasks : Accept(t)
            \/ Begin \/ End \/ Close \/ Finish

ExecSpec == ExecInit /\ [][ExecNext]_execVars

\* With a scheduler that lets the executor make progress.
ExecFairSpec == /\ ExecSpec
                /\ WF_execVars(Begin) /\ WF_execVars(End) /\ WF_execVars(Finish)
=============================================================================
