-------------------------- MODULE BaseMotionProofs --------------------------
(***************************************************************************)
(* Proofs about BaseMotion, for motions of any length and any number of    *)
(* motions and commands: one motion at a time, an exact flag, no stale     *)
(* stop, and a mutex that is quiet when it is destroyed.                   *)
(***************************************************************************)
EXTENDS BaseMotion, TLAPS

CallerPC == {"idle", "lock", "join", "create", "spawn", "valid", "print", "unlock", "gone"}
\* Between lock and unlock.
Inside == {"join", "create", "spawn", "valid", "print", "unlock"}
ServerState == {"up", "stopping", "worker_joined", "cancelled", "destroyed"}

MotionTypeOK ==
    /\ pc \in [Callers -> CallerPC]
    /\ command \in [Callers -> {"start", "stop"}]
    /\ commands \in [Callers -> Nat]
    /\ holder \in Callers \cup {Nobody}
    /\ g_stop_requested \in BOOLEAN /\ g_base_running \in BOOLEAN
    /\ g_base_thread_valid \in BOOLEAN
    /\ g_base_thread \in 0..MaxMotions
    /\ motion \in [Ids -> {"none", "running", "leaving", "ended"}]
    /\ elapsed \in [Ids -> 0..Duration]
    /\ broken \subseteq Ids
    /\ server \in ServerState
    /\ mutex \in {"usable", "destroyed"}

\* Who is between lock and unlock holds the mutex; only the receiver can end there.
Locked ==
    /\ \A c \in Callers : pc[c] \in Inside => holder = c
    /\ \A c \in Callers : holder = c => \/ pc[c] \in Inside
                                        \/ c = "receiver" /\ pc[c] = "gone"
    /\ \A c \in Callers : pc[c] = "gone" => c = "receiver"

\* The handle of a motion thread that was created and not joined is the last one, and
\* between the join and the end of the creation of the next thread there is none.
Handle ==
    /\ g_base_thread_valid => g_base_thread \in Ids
    /\ \A c \in Callers : pc[c] \in {"create", "spawn", "valid"} => ~g_base_thread_valid
    /\ \A c \in Callers : pc[c] = "valid" => g_base_thread \in Ids
    /\ broken \subseteq 1..g_base_thread

\* The flag is up when a command has raised it and not yet created its thread.
FlagRaised == \A c \in Callers : pc[c] = "spawn" => g_base_running

\* A request to stop is up only while the command that made it waits for the thread,
\* or was cancelled there.
RequestIsOwned ==
    g_stop_requested => \E c \in Callers : holder = c /\ pc[c] \in {"join", "gone"}

\* How far main has come.
ShutdownOrder ==
    /\ server = "up" => pc["main"] = "idle"
    /\ server \in {"worker_joined", "cancelled", "destroyed"} =>
          pc["main"] = "idle" /\ pc["worker"] = "idle"
    /\ server = "destroyed" => pc["receiver"] = "gone"
    /\ mutex = "destroyed" => server = "destroyed"

\* The inductive invariant.
MotionInv == /\ MotionTypeOK /\ Locked /\ Handle /\ FlagRaised /\ RequestIsOwned
             /\ ShutdownOrder /\ OneMotion /\ RunningFlagExact /\ StoppedByLaterCommand

-----------------------------------------------------------------------------
\* The only thread that can be alive is the last one.
LEMMA AliveIsLast ==
  ASSUME OneMotion, NEW i \in Ids, Alive(i)
  PROVE  i = g_base_thread /\ i \in 1..g_base_thread
  BY MotionAssumption DEF OneMotion, Ids

\* The next thread has a number, which no thread before has.
LEMMA NextThread ==
  ASSUME g_base_thread \in 0..MaxMotions, g_base_thread < MaxMotions
  PROVE  /\ g_base_thread + 1 \in Ids /\ g_base_thread + 1 \in 0..MaxMotions
         /\ g_base_thread + 1 \notin 1..g_base_thread
         /\ 1..g_base_thread \subseteq 1..(g_base_thread + 1)
  BY MotionAssumption DEF Ids

\* Nobody drives the base when the device starts.
LEMMA MotionInitInv == Init => MotionInv
<1> SUFFICES ASSUME Init PROVE MotionInv
  OBVIOUS
<1> USE MotionAssumption DEF Init
<1>1. MotionTypeOK
  <2>1. elapsed \in [Ids -> 0..Duration] /\ commands \in [Callers -> Nat]
    OBVIOUS
  <2>2. /\ pc \in [Callers -> CallerPC] /\ command \in [Callers -> {"start", "stop"}]
        /\ motion \in [Ids -> {"none", "running", "leaving", "ended"}]
    BY DEF CallerPC
  <2>3. /\ holder \in Callers \cup {Nobody} /\ g_base_thread \in 0..MaxMotions
        /\ server \in ServerState /\ broken \subseteq Ids
    BY DEF ServerState
  <2> QED
    BY <2>1, <2>2, <2>3 DEF MotionTypeOK
<1>2. Locked /\ Handle /\ FlagRaised /\ RequestIsOwned /\ ShutdownOrder
  BY DEF Locked, Handle, Inside, FlagRaised, RequestIsOwned, ShutdownOrder, Nobody, Ids
<1>3. OneMotion /\ RunningFlagExact /\ StoppedByLaterCommand
  BY DEF OneMotion, RunningFlagExact, StoppedByLaterCommand, Alive
<1> QED
  BY <1>1, <1>2, <1>3 DEF MotionInv

\* Every step keeps the types.
LEMMA MotionTypes == MotionInv /\ [Next]_vars => MotionTypeOK'
<1> SUFFICES ASSUME MotionTypeOK, Handle, [Next]_vars PROVE MotionTypeOK'
  BY DEF MotionInv
<1> USE MotionAssumption DEF MotionTypeOK, callerVars, flagVars, threadVars, CallerPC, ServerState
<1>1. ASSUME NEW c \in Callers, NEW what \in {"start", "stop"}, callback(c, what)
      PROVE  MotionTypeOK'
  BY <1>1 DEF callback
<1>2. ASSUME NEW c \in Callers, lock_and_request(c) PROVE MotionTypeOK'
  BY <1>2 DEF lock_and_request
<1>3. ASSUME NEW c \in Callers, join_base_thread_locked(c) PROVE MotionTypeOK'
  BY <1>3 DEF join_base_thread_locked
<1>4. ASSUME NEW c \in Callers,
             \/ start_base_motion_no_memory(c) \/ start_base_motion(c)
             \/ start_base_motion_no_thread(c) \/ start_base_motion_valid(c)
      PROVE  MotionTypeOK'
  BY <1>4 DEF start_base_motion_no_memory, start_base_motion, start_base_motion_no_thread,
     start_base_motion_valid
<1>5. ASSUME NEW c \in Callers, start_base_motion_thread(c) PROVE MotionTypeOK'
  <2>1. g_base_thread + 1 \in Ids /\ g_base_thread + 1 \in 0..MaxMotions
    BY <1>5, NextThread DEF start_base_motion_thread
  <2> QED
    BY <1>5, <2>1 DEF start_base_motion_thread
<1>6. ASSUME NEW c \in Callers, unlock(c) PROVE MotionTypeOK'
  BY <1>6 DEF unlock
<1>7. ASSUME NEW i \in Ids, MotionStep(i) PROVE MotionTypeOK'
  <2>1. CASE tick(i)
    BY <2>1 DEF tick
  <2>2. CASE break_off(i) \/ time_over(i) \/ async_done(i)
    BY <2>2 DEF break_off, time_over, async_done
  <2> QED
    BY <1>7, <2>1, <2>2 DEF MotionStep
<1>8. CASE exit_requested \/ ShutdownStep
  BY <1>8 DEF exit_requested, ShutdownStep, server_destroy_worker, server_destroy_cancel,
     receiver_cancelled, server_destroyed, mutex_destroy
<1>9. CASE UNCHANGED vars
  BY <1>9 DEF vars
<1> QED
  BY <1>1, <1>2, <1>3, <1>4, <1>5, <1>6, <1>7, <1>8, <1>9 DEF Next, CallerStep

\* Every step keeps the mutex with whoever took it, and the order of the shutdown.
LEMMA MotionLocks == MotionInv /\ [Next]_vars => Locked' /\ ShutdownOrder'
<1> SUFFICES ASSUME MotionTypeOK, Locked, ShutdownOrder, [Next]_vars
             PROVE  Locked' /\ ShutdownOrder'
  BY DEF MotionInv
<1> USE MotionAssumption DEF MotionTypeOK, Locked, ShutdownOrder, callerVars, flagVars,
        threadVars, CallerPC, Inside, ServerState, Nobody
<1>1. ASSUME NEW c \in Callers, NEW what \in {"start", "stop"}, callback(c, what)
      PROVE  Locked' /\ ShutdownOrder'
  BY <1>1 DEF callback, MayBegin
<1>2. ASSUME NEW c \in Callers, CallerStep(c) PROVE Locked' /\ ShutdownOrder'
  <2>1. CASE lock_and_request(c)
    BY <2>1 DEF lock_and_request
  <2>2. CASE join_base_thread_locked(c)
    BY <2>2 DEF join_base_thread_locked
  <2>3. CASE start_base_motion_no_memory(c) \/ start_base_motion(c)
    BY <2>3 DEF start_base_motion_no_memory, start_base_motion
  <2>4. CASE \/ start_base_motion_no_thread(c) \/ start_base_motion_thread(c)
             \/ start_base_motion_valid(c)
    BY <2>4 DEF start_base_motion_no_thread, start_base_motion_thread, start_base_motion_valid
  <2>5. CASE unlock(c)
    BY <2>5 DEF unlock
  <2> QED
    BY <1>2, <2>1, <2>2, <2>3, <2>4, <2>5 DEF CallerStep
<1>3. ASSUME NEW i \in Ids, MotionStep(i) PROVE Locked' /\ ShutdownOrder'
  BY <1>3 DEF MotionStep, tick, break_off, time_over, async_done
<1>4. CASE exit_requested
  BY <1>4 DEF exit_requested
<1>5. CASE ShutdownStep
  BY <1>5 DEF ShutdownStep, server_destroy_worker, server_destroy_cancel,
     receiver_cancelled, server_destroyed, mutex_destroy
<1>6. CASE UNCHANGED vars
  BY <1>6 DEF vars
<1> QED
  BY <1>1, <1>2, <1>3, <1>4, <1>5, <1>6 DEF Next

\* Every step keeps the handle with the last thread.
LEMMA MotionHandle == MotionInv /\ [Next]_vars => Handle'
<1> SUFFICES ASSUME MotionTypeOK, Locked, Handle, OneMotion, [Next]_vars PROVE Handle'
  BY DEF MotionInv
<1> USE MotionAssumption DEF MotionTypeOK, Locked, Handle, callerVars, flagVars,
        threadVars, CallerPC, Inside, Nobody
<1>1. ASSUME NEW c \in Callers, NEW what \in {"start", "stop"}, callback(c, what) PROVE Handle'
  BY <1>1 DEF callback, MayBegin
<1>2. ASSUME NEW c \in Callers, CallerStep(c) PROVE Handle'
  <2>1. CASE lock_and_request(c)
    BY <2>1 DEF lock_and_request
  <2>2. CASE join_base_thread_locked(c)
    BY <2>2 DEF join_base_thread_locked
  <2>3. CASE start_base_motion_no_memory(c)
    BY <2>3 DEF start_base_motion_no_memory
  <2>4. CASE start_base_motion(c) \/ start_base_motion_no_thread(c)
    <3>1. /\ UNCHANGED <<g_base_thread, g_base_thread_valid, broken>>
          /\ pc[c] \in {"create", "spawn"} /\ pc' = [pc EXCEPT ![c] = pc'[c]]
          /\ pc'[c] # "valid"
      BY <2>4 DEF start_base_motion, start_base_motion_no_thread
    <3>2. \A d \in Callers : pc'[d] = pc[d] \/ d = c
      BY <3>1
    <3> QED
      BY <3>1, <3>2
  <2>5. CASE start_base_motion_thread(c)
    <3>1. g_base_thread + 1 \in Ids /\ 1..g_base_thread \subseteq 1..(g_base_thread + 1)
      BY <2>5, NextThread DEF start_base_motion_thread
    <3> QED
      BY <2>5, <3>1 DEF start_base_motion_thread
  <2>6. CASE start_base_motion_valid(c)
    <3>1. holder = c /\ \A d \in Callers : pc'[d] \in Inside => d = c
      BY <2>6 DEF start_base_motion_valid
    <3> QED
      BY <2>6, <3>1 DEF start_base_motion_valid
  <2>7. CASE unlock(c)
    BY <2>7 DEF unlock
  <2> QED
    BY <1>2, <2>1, <2>2, <2>3, <2>4, <2>5, <2>6, <2>7 DEF CallerStep
<1>3. ASSUME NEW i \in Ids, MotionStep(i) PROVE Handle'
  <2>1. UNCHANGED <<pc, g_base_thread, g_base_thread_valid>>
    BY <1>3 DEF MotionStep, tick, break_off, time_over, async_done
  <2>2. broken' = broken \/ break_off(i)
    BY <1>3 DEF MotionStep, tick, time_over, async_done
  <2>3. ASSUME break_off(i) PROVE broken' = broken \cup {i} /\ i \in 1..g_base_thread
    BY <2>3, AliveIsLast DEF break_off, Alive
  <2>4. broken \subseteq 1..g_base_thread
    OBVIOUS
  <2>5. broken' \subseteq 1..g_base_thread
    BY ONLY <2>2, <2>3, <2>4
  <2> QED
    BY <2>1, <2>5
<1>4. CASE exit_requested \/ ShutdownStep
  <2>1. UNCHANGED <<g_base_thread, g_base_thread_valid, broken>>
    BY <1>4 DEF exit_requested, ShutdownStep, server_destroy_worker, server_destroy_cancel,
       receiver_cancelled, server_destroyed, mutex_destroy
  <2>2. \A c \in Callers : pc'[c] \in {"create", "spawn", "valid"} => pc'[c] = pc[c]
    BY <1>4 DEF exit_requested, ShutdownStep, server_destroy_worker, server_destroy_cancel,
       receiver_cancelled, server_destroyed, mutex_destroy
  <2> QED
    BY <2>1, <2>2
<1>5. CASE UNCHANGED vars
  BY <1>5 DEF vars
<1> QED
  BY <1>1, <1>2, <1>3, <1>4, <1>5 DEF Next

\* Every step keeps a request with the command that made it.
LEMMA MotionRequest == MotionInv /\ [Next]_vars => RequestIsOwned'
<1> SUFFICES ASSUME MotionTypeOK, Locked, ShutdownOrder, RequestIsOwned, [Next]_vars
             PROVE  RequestIsOwned'
  BY DEF MotionInv
<1> USE MotionAssumption DEF MotionTypeOK, Locked, RequestIsOwned, callerVars, flagVars,
        threadVars, CallerPC, Inside, Nobody
<1>1. ASSUME NEW c \in Callers, NEW what \in {"start", "stop"}, callback(c, what)
      PROVE  RequestIsOwned'
  BY <1>1 DEF callback, MayBegin
<1>2. ASSUME NEW c \in Callers, CallerStep(c) PROVE RequestIsOwned'
  <2>1. CASE lock_and_request(c)
    BY <2>1 DEF lock_and_request
  <2>2. CASE join_base_thread_locked(c)
    BY <2>2 DEF join_base_thread_locked
  <2>3. CASE start_base_motion_no_memory(c)
    BY <2>3 DEF start_base_motion_no_memory
  <2>4. CASE \/ start_base_motion(c) \/ start_base_motion_no_thread(c)
             \/ start_base_motion_thread(c) \/ start_base_motion_valid(c)
    BY <2>4 DEF start_base_motion, start_base_motion_no_thread, start_base_motion_thread,
       start_base_motion_valid
  <2>5. CASE unlock(c)
    BY <2>5 DEF unlock
  <2> QED
    BY <1>2, <2>1, <2>2, <2>3, <2>4, <2>5 DEF CallerStep
<1>3. ASSUME NEW i \in Ids, MotionStep(i) PROVE RequestIsOwned'
  <2>1. UNCHANGED <<pc, holder, g_stop_requested>>
    BY <1>3 DEF MotionStep, tick, break_off, time_over, async_done
  <2> QED
    BY <2>1
<1>4. CASE exit_requested
  BY <1>4 DEF exit_requested, ShutdownOrder
<1>5. CASE ShutdownStep
  <2>1. UNCHANGED <<holder, g_stop_requested>>
    BY <1>5 DEF ShutdownStep, server_destroy_worker, server_destroy_cancel,
       receiver_cancelled, server_destroyed, mutex_destroy
  <2>2. \A c \in Callers : pc'[c] = pc[c] \/ pc'[c] = "gone"
    BY <1>5 DEF ShutdownStep, server_destroy_worker, server_destroy_cancel,
       receiver_cancelled, server_destroyed, mutex_destroy
  <2> QED
    BY <2>1, <2>2
<1>6. CASE UNCHANGED vars
  BY <1>6 DEF vars
<1> QED
  BY <1>1, <1>2, <1>3, <1>4, <1>5, <1>6 DEF Next
-----------------------------------------------------------------------------
\* No motion thread is alive while a new one may be created: whoever created the last
\* one joined it, and nobody else gets past the mutex.
LEMMA NobodyAlive ==
  ASSUME MotionInv, NEW c \in Callers,
         \/ pc[c] \in {"create", "spawn"}
         \/ pc[c] = "join" /\ (g_base_thread_valid => motion[g_base_thread] = "ended")
  PROVE  \A i \in Ids : ~Alive(i)
<1>1. ASSUME NEW d \in Callers, holder = d PROVE pc[d] # "valid"
  <2>1. d = c
    BY <1>1 DEF MotionInv, Locked, Inside
  <2> QED
    BY <2>1
<1> QED
  BY <1>1 DEF MotionInv, Handle, OneMotion, Alive

\* Every step leaves the flag up that a command has raised before it creates the thread.
LEMMA MotionRaised == MotionInv /\ [Next]_vars => FlagRaised'
<1> SUFFICES ASSUME MotionInv, [Next]_vars, NEW d \in Callers, pc'[d] = "spawn"
             PROVE  g_base_running'
  BY DEF FlagRaised
<1>0. MotionTypeOK /\ Locked /\ FlagRaised
  BY DEF MotionInv
<1>1. ASSUME pc[d] = "spawn", UNCHANGED g_base_running PROVE g_base_running'
  BY <1>0, <1>1 DEF FlagRaised
<1>2. ASSUME NEW c \in Callers, CallerStep(c) PROVE g_base_running'
  <2>1. CASE c = d
    BY <1>0, <1>2, <2>1 DEF CallerStep, lock_and_request, join_base_thread_locked,
       start_base_motion_no_memory, start_base_motion, start_base_motion_no_thread,
       start_base_motion_thread, start_base_motion_valid, unlock, MotionTypeOK
  <2>2. CASE c # d
    <3>1. pc[d] = "spawn"
      BY <1>0, <1>2, <2>2 DEF CallerStep, lock_and_request, join_base_thread_locked,
         start_base_motion_no_memory, start_base_motion, start_base_motion_no_thread,
         start_base_motion_thread, start_base_motion_valid, unlock, MotionTypeOK
    <3>2. pc[c] \notin Inside
      BY <1>0, <2>2, <3>1 DEF Locked, Inside
    <3> QED
      BY <1>0, <1>1, <1>2, <3>1, <3>2 DEF CallerStep, lock_and_request, join_base_thread_locked,
         start_base_motion_no_memory, start_base_motion, start_base_motion_no_thread,
         start_base_motion_thread, start_base_motion_valid, unlock, Inside
  <2> QED
    BY <2>1, <2>2
<1>3. ASSUME NEW c \in Callers, NEW what, callback(c, what) PROVE g_base_running'
  BY <1>0, <1>1, <1>3 DEF callback, flagVars, MotionTypeOK
<1>4. ASSUME NEW i \in Ids, MotionStep(i) PROVE g_base_running'
  <2>1. pc[d] = "spawn"
    BY <1>4 DEF MotionStep, tick, break_off, time_over, async_done, callerVars
  <2>2. ~async_done(i)
    BY <2>1, NobodyAlive DEF async_done, Alive
  <2> QED
    BY <1>1, <1>4, <2>1, <2>2 DEF MotionStep, tick, break_off, time_over, flagVars
<1>5. CASE exit_requested \/ ShutdownStep \/ UNCHANGED vars
  <2>1. UNCHANGED g_base_running
    BY <1>5 DEF exit_requested, ShutdownStep, server_destroy_worker, vars, flagVars,
       server_destroy_cancel, receiver_cancelled, server_destroyed, mutex_destroy
  <2>2. pc[d] = "spawn"
    BY <1>0, <1>5 DEF MotionTypeOK, callerVars,
       exit_requested, ShutdownStep, server_destroy_worker, vars,
       server_destroy_cancel, receiver_cancelled, server_destroyed, mutex_destroy
  <2> QED
    BY <1>1, <2>1, <2>2
<1> QED
  BY <1>2, <1>3, <1>4, <1>5 DEF Next

\* Every step keeps the motion that is alive the last one, and the flag exact.
LEMMA MotionAlive == MotionInv /\ [Next]_vars => OneMotion' /\ RunningFlagExact'
<1> SUFFICES ASSUME MotionInv, [Next]_vars PROVE OneMotion' /\ RunningFlagExact'
  OBVIOUS
<1>0. MotionTypeOK /\ Locked /\ OneMotion /\ RunningFlagExact
  BY DEF MotionInv
<1>a. ASSUME UNCHANGED <<motion, g_base_running, g_base_thread, g_base_thread_valid>>,
             \A c \in Callers : holder = c /\ pc[c] \in {"spawn", "valid"} =>
                                    holder' = c /\ pc'[c] = pc[c]
      PROVE  OneMotion' /\ RunningFlagExact'
  BY <1>0, <1>a DEF OneMotion, RunningFlagExact, Alive
<1>1. ASSUME NEW c \in Callers, \/ join_base_thread_locked(c)
                                \/ start_base_motion_no_thread(c)
      PROVE  OneMotion' /\ RunningFlagExact'
  <2>1. \A i \in Ids : ~Alive(i)'
    BY <1>1, NobodyAlive
       DEF join_base_thread_locked, start_base_motion_no_thread, Alive, threadVars
  <2> QED
    BY <1>1, <2>1
       DEF OneMotion, RunningFlagExact, join_base_thread_locked, start_base_motion_no_thread
<1>2. ASSUME NEW c \in Callers, start_base_motion(c)
      PROVE  OneMotion' /\ RunningFlagExact'
  <2>1. \A i \in Ids : ~Alive(i)'
    BY <1>2, NobodyAlive DEF start_base_motion, Alive, threadVars
  <2>2. holder' = c /\ pc'[c] = "spawn"
    BY <1>0, <1>2 DEF start_base_motion, Locked, Inside, MotionTypeOK
  <2> QED
    BY <2>1, <2>2 DEF OneMotion, RunningFlagExact
<1>3. ASSUME NEW c \in Callers, start_base_motion_thread(c)
      PROVE  OneMotion' /\ RunningFlagExact'
  <2>1. /\ \A i \in Ids : ~Alive(i)
        /\ holder = c
    BY <1>0, <1>3, NobodyAlive DEF start_base_motion_thread, Locked, Inside
  <2>2. g_base_thread' \in Ids /\ motion' = [motion EXCEPT ![g_base_thread'] = "running"]
    BY <1>0, <1>3, NextThread DEF start_base_motion_thread, MotionTypeOK
  <2>3. \A i \in Ids : Alive(i)' <=> i = g_base_thread'
    BY <1>0, <2>1, <2>2 DEF Alive, MotionTypeOK
  <2>4. holder' = c /\ pc'[c] = "valid"
    BY <1>0, <1>3, <2>1 DEF start_base_motion_thread, MotionTypeOK
  <2>5. g_base_running'
    BY <1>3 DEF start_base_motion_thread, MotionInv, FlagRaised
  <2> QED
    BY <2>2, <2>3, <2>4, <2>5 DEF OneMotion, RunningFlagExact
<1>4. ASSUME NEW c \in Callers, start_base_motion_valid(c)
      PROVE  OneMotion' /\ RunningFlagExact'
  <2>1. \A i \in Ids : Alive(i)' <=> Alive(i)
    BY <1>4 DEF start_base_motion_valid, Alive, threadVars
  <2>2. \A d \in Callers : ~(holder = d /\ pc[d] = "spawn")
    BY <1>0, <1>4 DEF start_base_motion_valid, Locked, Inside
  <2> QED
    BY <1>0, <1>4, <2>1, <2>2 DEF start_base_motion_valid, OneMotion, RunningFlagExact
<1>5. ASSUME NEW i \in Ids, tick(i) \/ break_off(i) \/ time_over(i)
      PROVE  OneMotion' /\ RunningFlagExact'
  <2>1. \A j \in Ids : Alive(j)' <=> Alive(j)
    BY <1>0, <1>5 DEF tick, break_off, time_over, Alive, MotionTypeOK
  <2>2. UNCHANGED <<flagVars, pc, holder>>
    BY <1>5 DEF tick, break_off, time_over, callerVars
  <2> QED
    BY <1>0, <2>1, <2>2 DEF OneMotion, RunningFlagExact, flagVars
<1>6. ASSUME NEW i \in Ids, async_done(i) PROVE OneMotion' /\ RunningFlagExact'
  <2>1. \A j \in Ids : Alive(j)' <=> Alive(j) /\ j # i
    BY <1>0, <1>6 DEF async_done, Alive, MotionTypeOK
  <2>2. i = g_base_thread
    BY <1>0, <1>6 DEF async_done, OneMotion, Alive
  <2> QED
    BY <1>0, <1>6, <2>1, <2>2 DEF async_done, OneMotion, RunningFlagExact
<1>7. ASSUME NEW c \in Callers, lock_and_request(c) \/ start_base_motion_no_memory(c)
      PROVE  OneMotion' /\ RunningFlagExact'
  <2>1. \A d \in Callers : ~(holder = d /\ pc[d] \in {"spawn", "valid"})
    BY <1>0, <1>7, MotionAssumption
       DEF lock_and_request, start_base_motion_no_memory, Locked, Inside, Nobody
  <2> QED
    BY <1>7, <1>a, <2>1 DEF lock_and_request, start_base_motion_no_memory, flagVars, threadVars
<1>8. ASSUME NEW c \in Callers, unlock(c) PROVE OneMotion' /\ RunningFlagExact'
  <2>1. \A d \in Callers : ~(holder = d /\ pc[d] \in {"spawn", "valid"})
    BY <1>0, <1>8 DEF unlock, Locked, Inside
  <2> QED
    BY <1>8, <1>a, <2>1 DEF unlock, flagVars, threadVars
<1>9. ASSUME NEW c \in Callers, NEW what, callback(c, what)
      PROVE  OneMotion' /\ RunningFlagExact'
  BY <1>0, <1>9, <1>a DEF callback, flagVars, threadVars, MotionTypeOK
<1>10. CASE exit_requested \/ ShutdownStep \/ UNCHANGED vars
  <2>1. UNCHANGED <<holder, flagVars, threadVars>>
    BY <1>10 DEF exit_requested, ShutdownStep, server_destroy_worker, vars,
       server_destroy_cancel, receiver_cancelled, server_destroyed, mutex_destroy
  <2>2. \A c \in Callers : pc[c] \in {"spawn", "valid"} => pc'[c] = pc[c]
    BY <1>0, <1>10, MotionAssumption DEF MotionInv, MotionTypeOK, ShutdownOrder, callerVars,
       exit_requested, ShutdownStep, server_destroy_worker, vars,
       server_destroy_cancel, receiver_cancelled, server_destroyed, mutex_destroy
  <2> QED
    BY <2>1, <2>2, <1>a DEF flagVars, threadVars
<1> QED
  BY <1>1, <1>2, <1>3, <1>4, <1>5, <1>6, <1>7, <1>8, <1>9, <1>10
     DEF Next, CallerStep, MotionStep

\* Every step that cuts a motion short, or lets a command go on, is that of a command
\* that came later than the motion.
LEMMA MotionStops == MotionInv /\ [Next]_vars => StoppedByLaterCommand'
<1> DEFINE Stopping == \E c \in Callers : holder = c /\ pc[c] \in {"join", "gone"}
<1> SUFFICES ASSUME MotionInv, [Next]_vars, NEW i \in broken', Alive(i)' PROVE Stopping'
  BY DEF StoppedByLaterCommand
<1>0. MotionTypeOK /\ Locked /\ Handle /\ RequestIsOwned /\ ShutdownOrder /\ StoppedByLaterCommand
  BY DEF MotionInv
<1>a. ASSUME Stopping,
             \A c \in Callers : holder = c /\ pc[c] \in {"join", "gone"} =>
                                    holder' = c /\ pc'[c] \in {"join", "gone"}
      PROVE  Stopping'
  BY <1>a
<1>b. i \in Ids
  BY MotionTypes DEF MotionTypeOK
<1>c. i \in broken /\ Alive(i) => Stopping
  BY <1>0 DEF StoppedByLaterCommand
<1>1. ASSUME NEW c \in Callers, lock_and_request(c) PROVE Stopping'
  BY <1>0, <1>1 DEF lock_and_request, MotionTypeOK
<1>2. ASSUME NEW c \in Callers, \/ join_base_thread_locked(c) \/ start_base_motion_no_memory(c)
                                \/ start_base_motion(c) \/ start_base_motion_no_thread(c)
      PROVE  FALSE
  <2>1. ~Alive(i)
    BY <1>2, <1>b, NobodyAlive DEF join_base_thread_locked, start_base_motion_no_memory,
       start_base_motion, start_base_motion_no_thread
  <2> QED
    BY <1>2, <2>1 DEF join_base_thread_locked, start_base_motion_no_memory, start_base_motion,
       start_base_motion_no_thread, Alive, threadVars
<1>3. ASSUME NEW c \in Callers, start_base_motion_thread(c) PROVE FALSE
  <2>1. ~Alive(i)
    BY <1>3, <1>b, NobodyAlive DEF start_base_motion_thread
  <2>2. i # g_base_thread + 1
    BY <1>0, <1>3, NextThread DEF start_base_motion_thread, Handle, MotionTypeOK
  <2> QED
    BY <1>0, <1>3, <1>b, <2>1, <2>2 DEF start_base_motion_thread, Alive, MotionTypeOK
<1>4. ASSUME NEW c \in Callers, start_base_motion_valid(c) \/ unlock(c) PROVE FALSE
  <2>1. Stopping
    BY <1>4, <1>c DEF start_base_motion_valid, unlock, Alive, threadVars
  <2>2. \A d \in Callers : holder = d => d = c
    BY <1>0, <1>4 DEF start_base_motion_valid, unlock, Locked, Inside
  <2> QED
    BY <1>4, <2>1, <2>2 DEF start_base_motion_valid, unlock
<1>5. ASSUME NEW c \in Callers, NEW what, callback(c, what) PROVE Stopping'
  <2>1. Stopping
    BY <1>5, <1>c DEF callback, Alive, threadVars
  <2> QED
    BY <1>0, <1>5, <1>a, <2>1 DEF callback, MotionTypeOK
<1>6. ASSUME NEW j \in Ids, MotionStep(j) PROVE Stopping'
  <2>1. UNCHANGED <<pc, holder>>
    BY <1>6 DEF MotionStep, tick, break_off, time_over, async_done, callerVars
  <2>2. CASE i \in broken
    <3>1. Alive(i)
      BY <1>0, <1>6, <1>b DEF MotionStep, tick, break_off, time_over, async_done, Alive, MotionTypeOK
    <3> QED
      BY <1>a, <1>c, <2>1, <2>2, <3>1
  <2>3. CASE i \notin broken
    <3>1. g_stop_requested
      BY <1>6, <2>3 DEF MotionStep, tick, break_off, time_over, async_done
    <3> QED
      BY <1>0, <1>a, <2>1, <3>1 DEF RequestIsOwned
  <2> QED
    BY <2>2, <2>3
<1>7. CASE exit_requested \/ ShutdownStep \/ UNCHANGED vars
  <2>1. UNCHANGED <<motion, broken, holder>>
    BY <1>7 DEF exit_requested, ShutdownStep, server_destroy_worker, server_destroy_cancel,
       receiver_cancelled, server_destroyed, mutex_destroy, vars, threadVars
  <2>2. \A c \in Callers : pc[c] \in {"join", "gone"} => pc'[c] \in {"join", "gone"}
    BY <1>0, <1>7, MotionAssumption DEF MotionTypeOK, ShutdownOrder, callerVars, vars,
       exit_requested, ShutdownStep, server_destroy_worker, server_destroy_cancel,
       receiver_cancelled, server_destroyed, mutex_destroy
  <2> QED
    BY <1>a, <1>c, <2>1, <2>2 DEF Alive
<1> QED
  BY <1>1, <1>2, <1>3, <1>4, <1>5, <1>6, <1>7 DEF Next, CallerStep

-----------------------------------------------------------------------------
\* The inductive invariant holds in every state of the device.
THEOREM MotionInvariant == Spec => []MotionInv
<1>1. MotionInv /\ [Next]_vars => MotionInv'
  BY MotionTypes, MotionLocks, MotionHandle, MotionRaised, MotionRequest, MotionAlive, MotionStops
     DEF MotionInv
<1> QED
  BY <1>1, MotionInitInv, PTL DEF Spec

\* At most one motion thread drives the base, and a later command can join it.
THEOREM MotionOne == Spec => []OneMotion
<1>1. MotionInv => OneMotion
  BY DEF MotionInv
<1> QED
  BY <1>1, MotionInvariant, PTL

\* g_base_running is up exactly while a motion thread is yet to take it down, outside
\* the command that has raised it and not created its thread.
THEOREM MotionFlagExact == Spec => []RunningFlagExact
<1>1. MotionInv => RunningFlagExact
  BY DEF MotionInv
<1> QED
  BY <1>1, MotionInvariant, PTL

\* A motion is cut short only by a command that came after it.
THEOREM MotionNoStaleStop == Spec => []StoppedByLaterCommand
<1>1. MotionInv => StoppedByLaterCommand
  BY DEF MotionInv
<1> QED
  BY <1>1, MotionInvariant, PTL

\* The mutex is destroyed with nobody inside, or with the cancelled receiver.
THEOREM MotionDestroyed == Spec => []DestroyedUnlocked
<1>1. MotionInv => DestroyedUnlocked
  BY MotionAssumption
     DEF MotionInv, MotionTypeOK, Locked, ShutdownOrder, DestroyedUnlocked, Inside
<1> QED
  BY <1>1, MotionInvariant, PTL
=============================================================================
