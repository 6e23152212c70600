------------------------------ MODULE BgSched ------------------------------
(***************************************************************************)
(* core/posix/background_sched.c: one worker thread that runs callbacks    *)
(* posted to a linked list, guarded by one mutex and one condition         *)
(* variable.                                                               *)
(*                                                                         *)
(* Every access to the list, to running, pending and active is inside a    *)
(* critical section of s->mutex, so each critical section is one action;   *)
(* what happens outside the mutex (the callback, the join, the final free) *)
(* is an action of its own.  pthread_cond_wait releases the mutex, so the  *)
(* worker's wait is a state.  Each member of Tasks stands for one call of  *)
(* bg_sched_post.                                                          *)
(***************************************************************************)
EXTENDS Naturals, Sequences, Functions

CONSTANTS Tasks,    \* calls of bg_sched_post
          NoTask    \* no task node (NULL)

ASSUME NoTaskAssumption == NoTask \notin Tasks

VARIABLES queue,     \* queue_head ... queue_tail
          running,   \* s->running
          pending,   \* s->pending
          active,    \* s->active
          wpc,       \* where the worker thread is
          task,      \* worker_main's local task
          dpc,       \* where bg_sched_destroy is
          posted,    \* history: every task bg_sched_post linked, in order
          owed,      \* history: how many of them were linked while running
          done,      \* history: callbacks that returned, in order
          discarded  \* history: nodes freed by bg_sched_destroy without being run

schedVars == <<queue, running, pending, active, wpc, task, dpc,
               posted, owed, done, discarded>>

WorkerPC == {"loop",    \* about to lock the mutex at the top of the loop
             "wait",    \* in pthread_cond_wait
             "call",    \* in task->callback(task->arg)
             "after",   \* callback returned, about to lock to decrement active
             "exited"}

DestroyPC == {"none",   \* bg_sched_destroy not called
              "join",   \* in pthread_join
              "drain",  \* joined, about to lock and free the remaining nodes
              "free",   \* about to destroy the mutex and free the struct
              "freed"}

\* bg_sched_create, up to its successful return.
SchedInit == /\ queue = <<>>
             /\ running = TRUE
             /\ pending = 0
             /\ active = 0
             /\ wpc = "loop"
             /\ task = NoTask
             /\ dpc = "none"
             /\ posted = <<>>
             /\ owed = 0
             /\ done = <<>>
             /\ discarded = <<>>

\* pthread_cond_signal or pthread_cond_broadcast on s->cond: the worker is the
\* only thread that ever waits on it.
Wake == wpc' = IF wpc = "wait" THEN "loop" ELSE wpc

-----------------------------------------------------------------------------
\* Faulty variants, for the runs that show the properties can fail: the node is
\* pushed at the head, the condition is not signalled.
bg_sched_post_lifo(t) ==
    /\ dpc \notin {"free", "freed"}
    /\ t \notin Range(posted)
    /\ queue' = <<t>> \o queue
    /\ pending' = pending + 1
    /\ Wake
    /\ posted' = Append(posted, t)
    /\ owed' = IF running THEN owed + 1 ELSE owed
    /\ UNCHANGED <<running, active, task, dpc, done, discarded>>

bg_sched_post_no_signal(t) ==
    /\ dpc \notin {"free", "freed"}
    /\ t \notin Range(posted)
    /\ queue' = Append(queue, t)
    /\ pending' = pending + 1
    /\ posted' = Append(posted, t)
    /\ owed' = IF running THEN owed + 1 ELSE owed
    /\ UNCHANGED <<running, active, wpc, task, dpc, done, discarded>>

\* bg_sched_post, from the lock to the unlock.  A failed malloc returns -1 and
\* changes nothing.  Posting to a scheduler whose list was already released is
\* outside the function's contract; the callers that can do it are modelled in
\* MlinkServer.
bg_sched_post(t) ==
    /\ dpc \notin {"free", "freed"}
    /\ t \notin Range(posted)
    /\ queue' = Append(queue, t)
    /\ pending' = pending + 1
    /\ Wake
    /\ posted' = Append(posted, t)
    /\ owed' = IF running THEN owed + 1 ELSE owed
    /\ UNCHANGED <<running, active, task, dpc, done, discarded>>

-----------------------------------------------------------------------------
\* worker_main: the list is empty and the scheduler runs, so wait.
worker_wait ==
    /\ wpc = "loop"
    /\ queue = <<>> /\ running
    /\ wpc' = "wait"
    /\ UNCHANGED <<queue, running, pending, active, task, dpc,
                   posted, owed, done, discarded>>

\* pthread_cond_wait may return without a signal; the while loop tests again.
worker_spurious_wakeup ==
    /\ wpc = "wait"
    /\ wpc' = "loop"
    /\ UNCHANGED <<queue, running, pending, active, task, dpc,
                   posted, owed, done, discarded>>

\* Faulty variant: leave as soon as running is cleared.
worker_exit_eager ==
    /\ wpc = "loop"
    /\ ~running
    /\ wpc' = "exited"
    /\ UNCHANGED <<queue, running, pending, active, task, dpc,
                   posted, owed, done, discarded>>

\* worker_main: stopped and nothing left, leave the loop.
worker_exit ==
    /\ wpc = "loop"
    /\ ~running /\ queue = <<>>
    /\ wpc' = "exited"
    /\ UNCHANGED <<queue, running, pending, active, task, dpc,
                   posted, owed, done, discarded>>

\* worker_main: unlink the head of the list.
worker_take ==
    /\ wpc = "loop"
    /\ queue # <<>>
    /\ task' = Head(queue)
    /\ queue' = Tail(queue)
    /\ pending' = pending - 1
    /\ active' = active + 1
    /\ wpc' = "call"
    /\ UNCHANGED <<running, dpc, posted, owed, done, discarded>>

\* worker_main: the callback returns and the node is freed, outside the mutex.
worker_call ==
    /\ wpc = "call"
    /\ done' = Append(done, task)
    /\ task' = NoTask
    /\ wpc' = "after"
    /\ UNCHANGED <<queue, running, pending, active, dpc,
                   posted, owed, discarded>>

\* worker_main: the second critical section of an iteration.
worker_after ==
    /\ wpc = "after"
    /\ active' = active - 1
    /\ wpc' = "loop"
    /\ UNCHANGED <<queue, running, pending, task, dpc,
                   posted, owed, done, discarded>>

-----------------------------------------------------------------------------
\* Faulty variant: the worker is not told.
destroy_stop_no_broadcast ==
    /\ dpc = "none"
    /\ running' = FALSE
    /\ dpc' = "join"
    /\ UNCHANGED <<queue, pending, active, wpc, task, posted, owed, done, discarded>>

\* bg_sched_destroy: clear running and wake the worker.
destroy_stop ==
    /\ dpc = "none"
    /\ running' = FALSE
    /\ Wake
    /\ dpc' = "join"
    /\ UNCHANGED <<queue, pending, active, task, posted, owed, done, discarded>>

\* bg_sched_destroy: pthread_join returns once the worker has left worker_main.
destroy_join ==
    /\ dpc = "join"
    /\ wpc = "exited"
    /\ dpc' = "drain"
    /\ UNCHANGED <<queue, running, pending, active, wpc, task,
                   posted, owed, done, discarded>>

\* bg_sched_destroy: free what was linked after the worker left.  pending is
\* not reset, and the mutex is released with queue_head still pointing to the
\* freed nodes: from here on nobody may touch the list.
destroy_drain ==
    /\ dpc = "drain"
    /\ discarded' = queue
    /\ queue' = <<>>
    /\ dpc' = "free"
    /\ UNCHANGED <<running, pending, active, wpc, task, posted, owed, done>>

\* bg_sched_destroy: destroy mutex and condition variable, free the struct.
destroy_free ==
    /\ dpc = "free"
    /\ dpc' = "freed"
    /\ UNCHANGED <<queue, running, pending, active, wpc, task,
                   posted, owed, done, discarded>>

-----------------------------------------------------------------------------
Worker == worker_wait \/ worker_exit \/ worker_take \/ worker_call \/ worker_after

Destroy == destroy_stop \/ destroy_join \/ destroy_drain \/ destroy_free

SchedNext == \/ \E t \in Tasks : bg_sched_post(t)
             \/ Worker
             \/ worker_spurious_wakeup
             \/ Destroy

SchedSpec == SchedInit /\ [][SchedNext]_schedVars

\* The worker is a thread the kernel schedules and callbacks return, so it is
\* not stopped forever at an enabled step; the same holds for the thread inside
\* bg_sched_destroy.  Nobody has to post, to call bg_sched_destroy, or to be
\* woken spuriously.
SchedFairSpec == /\ SchedSpec
                 /\ WF_schedVars(Worker)
                 /\ WF_schedVars(destroy_join \/ destroy_drain \/ destroy_free)
-----------------------------------------------------------------------------
SchedTypeOK == /\ queue \in Seq(Tasks)
               /\ running \in BOOLEAN
               /\ pending \in Nat
               /\ active \in Nat
               /\ wpc \in WorkerPC
               /\ task \in Tasks \cup {NoTask}
               /\ dpc \in DestroyPC
               /\ posted \in Seq(Tasks)
               /\ owed \in Nat
               /\ done \in Seq(Tasks)
               /\ discarded \in Seq(Tasks)

\* bg_sched_destroy is past its pthread_join.
Joined == dpc \in {"drain", "free", "freed"}

\* The task in flight, as a sequence.
InFlight == IF wpc = "call" THEN <<task>> ELSE <<>>

\* Tasks are run in the order bg_sched_post linked them, none is lost and none
\* is run twice: what was posted is what was run, then the task in flight, then
\* the list, then what bg_sched_destroy freed.
FifoExactlyOnce == posted = ((done \o InFlight) \o queue) \o discarded

\* No lost wakeup: a worker blocked in pthread_cond_wait has nothing to do, the
\* list is empty and nobody asked it to stop.
NoLostWakeup == wpc = "wait" => queue = <<>> /\ running

\* A graceful stop: when bg_sched_destroy has joined the worker, every callback
\* posted before it cleared running has been run to its end.
GracefulStop == Joined => owed <= Len(done)

\* The counters agree with the list and with the worker's position in every
\* state the mutex is free in; bg_sched_destroy leaves pending at the number of
\* nodes it freed.
CountersExact == /\ pending = Len(queue) + Len(discarded)
                 /\ active = IF wpc \in {"call", "after"} THEN 1 ELSE 0

\* Once bg_sched_destroy has joined the worker no callback begins or ends any
\* more, whatever is still posted.
QuietAfterJoin == [][Joined => UNCHANGED <<done, task>>]_schedVars

-----------------------------------------------------------------------------
\* The scheduler implements the executor its callers rely on.
ExecPhase == CASE dpc = "none" -> "open"
               [] dpc \in {"join", "drain"} -> "closing"
               [] OTHER -> "closed"

Exec == INSTANCE TaskExecutor WITH todo <- queue, busy <- task, phase <- ExecPhase

ImplementsExecutor == Exec!ExecSpec
ImplementsFairExecutor == Exec!ExecFairSpec
=============================================================================
