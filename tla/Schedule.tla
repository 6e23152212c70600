------------------------------ MODULE Schedule ------------------------------
(***************************************************************************)
(* The cooperative scheduler of core/posix/schedule.c: schedule_run takes  *)
(* tasks from a list until it is empty.  Its loop tests the list without   *)
(* the lock and dereferences it under the lock; schedule_destroy frees the *)
(* nodes and the struct and leaves the pointer to them.  A step is the     *)
(* test, a critical section, a callback or the final free.                 *)
(***************************************************************************)
EXTENDS Naturals, Sequences, Functions

CONSTANTS Jobs,     \* what may be posted, each at most once
          Runners,  \* threads that call schedule_run
          Posters,  \* threads, or callbacks, that call schedule_post
          NoJob

ASSUME ScheduleAssumption == NoJob \notin Jobs /\ Runners \cap Posters = {}

VARIABLES task_queue, \* the list, which outlives its nodes when they are freed
          sched,      \* "up", "stopped" (running = 0, nodes freed) or "freed"
          at,         \* thread -> "idle", "test", "lock" or "callback"
          new_task,   \* poster -> what it posts
          due,        \* history: runner -> jobs posted when it was called
          accepted,   \* history: jobs, as they were linked
          run,        \* history: jobs, as they were taken
          shared,     \* history: "runners" were in schedule_run together, or a
                      \*   "destroy" overlapped another call
          broken      \* a "null" or a "freed" pointer was dereferenced

scheduleVars == <<task_queue, sched, at, new_task, due, accepted, run, shared, broken>>

ScheduleInit == /\ task_queue = <<>>
                /\ sched = "up"
                /\ at = [t \in Runners \cup Posters |-> "idle"]
                /\ new_task = [p \in Posters |-> NoJob]
                /\ due = [r \in Runners |-> 0]
                /\ accepted = <<>> /\ run = <<>>
                /\ shared = {}
                /\ broken = "no"

Busy(threads) == {t \in threads : at[t] # "idle"}
Overlaps == IF sched = "stopped" THEN {"destroy"} ELSE {}

-----------------------------------------------------------------------------
\* schedule_post is called and has its node.
schedule_post(p, j) ==
    /\ at[p] = "idle" /\ sched # "freed"
    /\ j \notin Range(accepted) \cup Range(new_task)
    /\ at' = [at EXCEPT ![p] = "lock"]
    /\ new_task' = [new_task EXCEPT ![p] = j]
    /\ shared' = shared \cup Overlaps
    /\ UNCHANGED <<task_queue, sched, due, accepted, run, broken>>

\* The node is linked behind the last one, to find which all of them are read.
Link(p, list) ==
    /\ at[p] = "lock"
    /\ IF sched = "freed" \/ (sched = "stopped" /\ task_queue # <<>>)
       THEN /\ broken' = "freed"
            /\ UNCHANGED <<task_queue, at, new_task, accepted>>
       ELSE /\ task_queue' = list
            /\ accepted' = Append(accepted, new_task[p])
            /\ at' = [at EXCEPT ![p] = "idle"]
            /\ new_task' = [new_task EXCEPT ![p] = NoJob]
            /\ UNCHANGED broken
    /\ UNCHANGED <<sched, due, run, shared>>

\* Faulty variant: the node becomes the first one.
post_links_first(p) == Link(p, <<new_task[p]>> \o task_queue)

post_links(p) == Link(p, Append(task_queue, new_task[p]))

-----------------------------------------------------------------------------
schedule_run(r) ==
    /\ at[r] = "idle" /\ sched # "freed"
    /\ at' = [at EXCEPT ![r] = "test"]
    /\ due' = [due EXCEPT ![r] = Len(accepted)]
    /\ shared' = shared \cup Overlaps \cup (IF Busy(Runners) # {} THEN {"runners"} ELSE {})
    /\ UNCHANGED <<task_queue, sched, new_task, accepted, run, broken>>

\* Faulty variant: the loop tests running only.
run_tests_running(r) ==
    /\ at[r] = "test"
    /\ IF sched = "freed" THEN broken' = "freed" /\ UNCHANGED at
       ELSE /\ at' = [at EXCEPT ![r] = IF sched = "up" THEN "lock" ELSE "idle"]
            /\ UNCHANGED broken
    /\ UNCHANGED <<task_queue, sched, new_task, due, accepted, run, shared>>

\* The condition of the loop, without the lock.
run_tests(r) ==
    /\ at[r] = "test"
    /\ IF sched = "freed" THEN broken' = "freed" /\ UNCHANGED at
       ELSE /\ at' = [at EXCEPT ![r] = IF sched = "up" /\ task_queue # <<>>
                                       THEN "lock" ELSE "idle"]
            /\ UNCHANGED broken
    /\ UNCHANGED <<task_queue, sched, new_task, due, accepted, run, shared>>

\* The critical section: running is tested again, the list is not.
run_takes(r) ==
    /\ at[r] = "lock"
    /\ CASE sched = "freed" -> broken' = "freed" /\ UNCHANGED <<task_queue, at, run>>
         [] sched = "stopped" ->
               at' = [at EXCEPT ![r] = "idle"] /\ UNCHANGED <<task_queue, run, broken>>
         [] sched = "up" /\ task_queue = <<>> ->
               broken' = "null" /\ UNCHANGED <<task_queue, at, run>>
         [] OTHER -> /\ task_queue' = Tail(task_queue)
                     /\ run' = Append(run, Head(task_queue))
                     /\ at' = [at EXCEPT ![r] = "callback"]
                     /\ UNCHANGED broken
    /\ UNCHANGED <<sched, new_task, due, accepted, shared>>

\* The callback returns and the node is freed.
run_called(r) ==
    /\ at[r] = "callback"
    /\ at' = [at EXCEPT ![r] = "test"]
    /\ UNCHANGED <<task_queue, sched, new_task, due, accepted, run, shared, broken>>

-----------------------------------------------------------------------------
\* schedule_destroy: running = 0 and the nodes are freed, under the lock.
schedule_destroy ==
    /\ sched = "up"
    /\ sched' = "stopped"
    /\ shared' = shared \cup (IF Busy(Runners \cup Posters) # {} THEN {"destroy"} ELSE {})
    /\ UNCHANGED <<task_queue, at, new_task, due, accepted, run, broken>>

\* The mutex and the struct follow.
destroy_frees ==
    /\ sched = "stopped"
    /\ sched' = "freed"
    /\ UNCHANGED <<task_queue, at, new_task, due, accepted, run, shared, broken>>

ScheduleNext ==
    /\ broken = "no"
    /\ \/ \E p \in Posters : post_links(p) \/ \E j \in Jobs : schedule_post(p, j)
       \/ \E r \in Runners : schedule_run(r) \/ run_tests(r) \/ run_takes(r) \/ run_called(r)
       \/ schedule_destroy \/ destroy_frees

ScheduleSpec == ScheduleInit /\ [][ScheduleNext]_scheduleVars
-----------------------------------------------------------------------------
\* The unlocked test is enough for one runner beside any posters: NULL is
\* dereferenced only when two threads run the scheduler at the same time, and
\* freed memory only when schedule_destroy overlaps another call.
BrokenOnlyIfShared == /\ broken = "null" => "runners" \in shared
                      /\ broken = "freed" => "destroy" \in shared

\* A schedule_run that returns before any schedule_destroy leaves nothing behind of
\* what was posted when it was called, and jobs are taken in the order of the posts.
RunDrains == [][\A r \in Runners :
                  at[r] = "test" /\ at'[r] = "idle" /\ sched = "up"
                    => /\ due[r] <= Len(run)
                       /\ SubSeq(run, 1, due[r]) = SubSeq(accepted, 1, due[r])]_scheduleVars
=============================================================================
