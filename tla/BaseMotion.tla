----------------------------- MODULE BaseMotion -----------------------------
(***************************************************************************)
(* The motion thread of the example device (example/mlink_device_test.c)   *)
(* and its shutdown.  Tool callbacks start and stop one motion thread      *)
(* under g_base_mutex, which they keep while they join it.  The callbacks  *)
(* run on the scheduler's worker and, when a message cannot be posted, on  *)
(* the receiver thread; main stops the motion once more when it is told to *)
(* exit, then destroys the server and the mutex.                           *)
(***************************************************************************)
EXTENDS Naturals, FiniteSets

CONSTANTS Callers,      \* "main", "worker", "receiver"
          Duration,     \* ticks of a motion, duration_ms / tick_ms
          MaxMotions,   \* bound: motion threads created
          MaxCommands   \* bound: commands a caller runs

ASSUME MotionAssumption == /\ Callers = {"main", "worker", "receiver"}
                           /\ Duration \in Nat \ {0}
                           /\ MaxMotions \in Nat /\ MaxCommands \in Nat

Nobody == "nobody"
Ids == 1..MaxMotions

VARIABLES pc,         \* caller -> where it is in start_ or request_stop_base_motion
          command,    \* caller -> "start" or "stop"
          commands,   \* caller -> how many it has begun
          holder,     \* who holds g_base_mutex
          g_stop_requested, g_base_running, g_base_thread_valid,
          g_base_thread, \* id of the last motion thread created
          motion,     \* id -> "none", "running", "leaving" or "ended"
          elapsed,    \* id -> ticks it has slept
          broken,     \* history: motions that left their loop early
          server,     \* main: "up", "stopping", "worker_joined", "cancelled", "destroyed"
          mutex       \* g_base_mutex is "usable", or "destroyed" at the very end

callerVars == <<pc, command, commands>>
flagVars == <<g_stop_requested, g_base_running, g_base_thread_valid, g_base_thread>>
threadVars == <<motion, elapsed, broken>>
vars == <<callerVars, holder, flagVars, threadVars, server, mutex>>

Init == /\ pc = [c \in Callers |-> "idle"]
        /\ command = [c \in Callers |-> "stop"]
        /\ commands = [c \in Callers |-> 0]
        /\ holder = Nobody
        /\ g_stop_requested = FALSE
        /\ g_base_running = FALSE
        /\ g_base_thread_valid = FALSE
        /\ g_base_thread = 0
        /\ motion = [i \in Ids |-> "none"]
        /\ elapsed = [i \in Ids |-> 0]
        /\ broken = {}
        /\ server = "up"
        /\ mutex = "usable"

-----------------------------------------------------------------------------
(* The callbacks: move_*, turn_*, dance start a motion, stop_motion stops it. *)

\* Who may begin a command: the worker until it is joined, the receiver until it
\* is cancelled.
MayBegin(c) == \/ c = "worker" /\ server \in {"up", "stopping"}
               \/ c = "receiver" /\ server \in {"up", "stopping", "worker_joined"}

callback(c, what) ==
    /\ pc[c] = "idle" /\ MayBegin(c) /\ commands[c] < MaxCommands
    /\ pc' = [pc EXCEPT ![c] = "lock"]
    /\ command' = [command EXCEPT ![c] = what]
    /\ commands' = [commands EXCEPT ![c] = @ + 1]
    /\ UNCHANGED <<holder, flagVars, threadVars, server, mutex>>

\* Faulty variant: the request is made before the mutex is taken.
lock_and_request_early(c) ==
    \/ /\ pc[c] = "lock"
       /\ g_stop_requested' = TRUE
       /\ pc' = [pc EXCEPT ![c] = "locking"]
       /\ UNCHANGED <<command, commands, holder, g_base_running, g_base_thread_valid,
                      g_base_thread, threadVars, server, mutex>>
    \/ /\ pc[c] = "locking" /\ holder = Nobody
       /\ holder' = c
       /\ pc' = [pc EXCEPT ![c] = "join"]
       /\ UNCHANGED <<command, commands, flagVars, threadVars, server, mutex>>

\* pthread_mutex_lock, then g_stop_requested = 1.
lock_and_request(c) ==
    /\ pc[c] = "lock" /\ holder = Nobody
    /\ holder' = c
    /\ g_stop_requested' = TRUE
    /\ pc' = [pc EXCEPT ![c] = "join"]
    /\ UNCHANGED <<command, commands, g_base_running, g_base_thread_valid, g_base_thread,
                   threadVars, server, mutex>>

\* Faulty variant: the previous motion is told to stop and not waited for.
join_base_thread_locked_detached(c) ==
    /\ pc[c] = "join"
    /\ g_base_thread_valid' = FALSE
    /\ g_base_running' = FALSE
    /\ g_stop_requested' = FALSE
    /\ pc' = [pc EXCEPT ![c] = IF command[c] = "start" THEN "create" ELSE "unlock"]
    /\ UNCHANGED <<command, commands, holder, g_base_thread, threadVars, server, mutex>>

\* join_base_thread_locked: the mutex is kept until the thread has ended.
join_base_thread_locked(c) ==
    /\ pc[c] = "join"
    /\ g_base_thread_valid => motion[g_base_thread] = "ended"
    /\ g_base_thread_valid' = FALSE
    /\ g_base_running' = FALSE
    /\ g_stop_requested' = FALSE
    /\ pc' = [pc EXCEPT ![c] = IF command[c] = "start" THEN "create" ELSE "unlock"]
    /\ UNCHANGED <<command, commands, holder, g_base_thread, threadVars, server, mutex>>

\* Faulty variant: returns without unlocking.
start_base_motion_no_memory_locked(c) ==
    /\ pc[c] = "create"
    /\ pc' = [pc EXCEPT ![c] = "idle"]
    /\ UNCHANGED <<command, commands, holder, flagVars, threadVars, server, mutex>>

\* start_base_motion: malloc fails, before the flags are set.
start_base_motion_no_memory(c) ==
    /\ pc[c] = "create"
    /\ pc' = [pc EXCEPT ![c] = "unlock"]
    /\ UNCHANGED <<command, commands, holder, flagVars, threadVars, server, mutex>>

\* start_base_motion: the flags are set, before there is a thread.
start_base_motion(c) ==
    /\ pc[c] = "create"
    /\ g_stop_requested' = FALSE
    /\ g_base_running' = TRUE
    /\ pc' = [pc EXCEPT ![c] = "spawn"]
    /\ UNCHANGED <<command, commands, holder, g_base_thread_valid, g_base_thread,
                   threadVars, server, mutex>>

\* pthread_create fails: the flag is taken down, and a line printed under the mutex.
start_base_motion_no_thread(c) ==
    /\ pc[c] = "spawn"
    /\ g_base_running' = FALSE
    /\ pc' = [pc EXCEPT ![c] = "print"]
    /\ UNCHANGED <<command, commands, holder, g_stop_requested, g_base_thread_valid,
                   g_base_thread, threadVars, server, mutex>>

\* pthread_create succeeds, and the thread runs.
start_base_motion_thread(c) ==
    /\ pc[c] = "spawn" /\ g_base_thread < MaxMotions
    /\ g_base_thread' = g_base_thread + 1
    /\ motion' = [motion EXCEPT ![g_base_thread + 1] = "running"]
    /\ pc' = [pc EXCEPT ![c] = "valid"]
    /\ UNCHANGED <<command, commands, holder, g_stop_requested, g_base_running,
                   g_base_thread_valid, elapsed, broken, server, mutex>>

\* The new thread may be joined by the next command, and may have ended by now.
start_base_motion_valid(c) ==
    /\ pc[c] = "valid"
    /\ g_base_thread_valid' = TRUE
    /\ pc' = [pc EXCEPT ![c] = "unlock"]
    /\ UNCHANGED <<command, commands, holder, g_stop_requested, g_base_running,
                   g_base_thread, threadVars, server, mutex>>

\* pthread_mutex_unlock, and the callback or main's call returns.
unlock(c) ==
    /\ pc[c] \in {"unlock", "print"}
    /\ holder' = Nobody
    /\ pc' = [pc EXCEPT ![c] = "idle"]
    /\ UNCHANGED <<command, commands, flagVars, threadVars, server, mutex>>

-----------------------------------------------------------------------------
(* base_motion_thread *)

\* One turn of the loop, until it is asked to stop or its time is over.
tick(i) ==
    /\ motion[i] = "running" /\ elapsed[i] < Duration /\ ~g_stop_requested
    /\ elapsed' = [elapsed EXCEPT ![i] = @ + 1]
    /\ UNCHANGED <<callerVars, holder, flagVars, motion, broken, server, mutex>>

break_off(i) ==
    /\ motion[i] = "running" /\ elapsed[i] < Duration /\ g_stop_requested
    /\ motion' = [motion EXCEPT ![i] = "leaving"]
    /\ broken' = broken \cup {i}
    /\ UNCHANGED <<callerVars, holder, flagVars, elapsed, server, mutex>>

time_over(i) ==
    /\ motion[i] = "running" /\ elapsed[i] = Duration
    /\ motion' = [motion EXCEPT ![i] = "leaving"]
    /\ UNCHANGED <<callerVars, holder, flagVars, elapsed, broken, server, mutex>>

\* Faulty variant: the flag is left to the next command.
async_done_flag_left(i) ==
    /\ motion[i] = "leaving"
    /\ motion' = [motion EXCEPT ![i] = "ended"]
    /\ UNCHANGED <<callerVars, holder, flagVars, elapsed, broken, server, mutex>>

\* g_base_running = 0, written without the mutex, and the thread ends.
async_done(i) ==
    /\ motion[i] = "leaving"
    /\ g_base_running' = FALSE
    /\ motion' = [motion EXCEPT ![i] = "ended"]
    /\ UNCHANGED <<callerVars, holder, g_stop_requested, g_base_thread_valid, g_base_thread,
                   elapsed, broken, server, mutex>>

-----------------------------------------------------------------------------
(* run_device_server, from g_exit_requested to its return *)

\* main leaves its loop and calls request_stop_base_motion.
exit_requested ==
    /\ server = "up"
    /\ server' = "stopping"
    /\ pc' = [pc EXCEPT !["main"] = "lock"]
    /\ UNCHANGED <<command, commands, holder, flagVars, threadVars, mutex>>

\* Faulty variant: bg_sched_destroy does not wait for the worker.
server_destroy_worker_unjoined ==
    /\ server = "stopping" /\ pc["main"] = "idle"
    /\ server' = "worker_joined"
    /\ UNCHANGED <<callerVars, holder, flagVars, threadVars, mutex>>

\* mlink_server_destroy: bg_sched_destroy returns once the worker is joined.
server_destroy_worker ==
    /\ server = "stopping" /\ pc["main"] = "idle" /\ pc["worker"] = "idle"
    /\ server' = "worker_joined"
    /\ UNCHANGED <<callerVars, holder, flagVars, threadVars, mutex>>

\* transport_destroy: the receiver is cancelled.
server_destroy_cancel ==
    /\ server = "worker_joined"
    /\ server' = "cancelled"
    /\ UNCHANGED <<callerVars, holder, flagVars, threadVars, mutex>>

\* The cancelled receiver, in thread_stop, ends at its next cancellation point: in recv, in a
\* printf, or in pthread_join, the last two perhaps with the mutex in its hands.
receiver_cancelled ==
    /\ server = "cancelled" /\ pc["receiver"] \in {"idle", "lock", "join", "print"}
    /\ pc' = [pc EXCEPT !["receiver"] = "gone"]
    /\ UNCHANGED <<command, commands, holder, flagVars, threadVars, server, mutex>>

\* transport_destroy returns once the receiver is joined.
server_destroyed ==
    /\ server = "cancelled" /\ pc["receiver"] = "gone"
    /\ server' = "destroyed"
    /\ UNCHANGED <<callerVars, holder, flagVars, threadVars, mutex>>

\* pthread_mutex_destroy, and main returns.
mutex_destroy ==
    /\ server = "destroyed" /\ mutex = "usable"
    /\ mutex' = "destroyed"
    /\ UNCHANGED <<callerVars, holder, flagVars, threadVars, server>>

CallerStep(c) == \/ lock_and_request(c)
                 \/ join_base_thread_locked(c)
                 \/ start_base_motion_no_memory(c)
                 \/ start_base_motion(c)
                 \/ start_base_motion_no_thread(c)
                 \/ start_base_motion_thread(c)
                 \/ start_base_motion_valid(c)
                 \/ unlock(c)
MotionStep(i) == tick(i) \/ break_off(i) \/ time_over(i) \/ async_done(i)
ShutdownStep == \/ server_destroy_worker \/ server_destroy_cancel \/ receiver_cancelled
                \/ server_destroyed \/ mutex_destroy

Next == \/ \E c \in Callers : CallerStep(c)
        \/ \E c \in Callers, what \in {"start", "stop"} : callback(c, what)
        \/ \E i \in Ids : MotionStep(i)
        \/ exit_requested
        \/ ShutdownStep

Spec == Init /\ [][Next]_vars

\* Threads that can run do.  A free mutex need not be got while others compete for
\* it, but they are two, with a bounded number of commands.
FairSpec == Spec /\ \A c \in Callers : WF_vars(CallerStep(c))
                 /\ \A i \in Ids : WF_vars(MotionStep(i))
                 /\ WF_vars(ShutdownStep)
-----------------------------------------------------------------------------
Alive(i) == motion[i] \in {"running", "leaving"}

\* However commands of the worker, the receiver and main interleave, at most one
\* motion thread drives the base, and the next command can join it: the handle is
\* marked valid by the time the command that created the thread gives up the mutex.
OneMotion == \A i \in Ids : Alive(i) =>
                /\ i = g_base_thread
                /\ \/ g_base_thread_valid
                   \/ \E c \in Callers : holder = c /\ pc[c] = "valid"

\* A motion is cut short only by a command that came after it and now waits for it
\* (or was cancelled while it waited): the request meant for the motion before never
\* stops it.
StoppedByLaterCommand ==
    \A i \in broken : Alive(i) => \E c \in Callers : holder = c /\ pc[c] \in {"join", "gone"}

\* g_base_running, which the ending thread writes without the mutex, tells whether a
\* motion thread is yet to write it, except to the command that has raised it and not
\* created its thread: no late write of an old thread takes down the flag of a new one.
RunningFlagExact ==
    /\ (\E i \in Ids : Alive(i)) => g_base_running
    /\ g_base_running => \/ \E i \in Ids : Alive(i)
                         \/ \E c \in Callers : holder = c /\ pc[c] = "spawn"

\* The mutex is destroyed with nobody inside, unless the receiver was cancelled
\* in a callback that it ran itself.
DestroyedUnlocked == mutex = "destroyed" => holder \in {Nobody, "receiver"}

\* Every exit request is carried out: main's own stop gets the mutex, the worker's
\* callback returns, and the receiver is gone before the mutex is destroyed.
ExitCompletes == (server = "stopping") ~> (mutex = "destroyed")
=============================================================================
