------------------------------- MODULE Queue -------------------------------
(***************************************************************************)
(* The blocking queue of core/posix/queue.c: a ring buffer under one mutex *)
(* and two condition variables.  A step is a critical section, up to the   *)
(* unlock or to the wait that releases the mutex.  A woken thread has to   *)
(* get the mutex again and may find that another one was faster.           *)
(*                                                                         *)
(* Time is what a receiver's deadline makes of it: calc_timeout computes   *)
(* it once, it passes at some moment, and from then on a wait times out.   *)
(***************************************************************************)
EXTENDS Naturals, Sequences, FiniteSets

CONSTANTS Items,      \* what senders send
          Senders,    \* threads that call queue_send
          Receivers,  \* threads that call queue_recv
          QueueSize,  \* queue_size
          Zero        \* an item of zero bytes

ASSUME QueueAssumption == /\ QueueSize \in Nat \ {0}
                          /\ IsFiniteSet(Senders) /\ IsFiniteSet(Receivers)
                          /\ Senders \cap Receivers = {}
                          /\ Zero \notin Items

VARIABLES buffer,   \* slot -> item
          head, tail, count,
          pc,       \* thread -> "idle", "lock" (about to lock, or woken and
                    \*   about to lock again), "wait" or "timed_out"
          item,     \* sender -> what it sends
          timeout,  \* receiver -> timeout_ms: "none" (0), "timed" or "forever" (< 0)
          late,     \* receiver -> its deadline has passed
          got,      \* receiver -> what it received last
          deleted   \* queue_delete was called

ringVars == <<buffer, head, tail, count>>
callVars == <<item, timeout, late>>
queueVars == <<ringVars, pc, callVars, got, deleted>>

Threads == Senders \cup Receivers
Slots == 0..QueueSize - 1

\* queue_create.
QueueInit == /\ buffer = [s \in Slots |-> Zero]
             /\ head = 0 /\ tail = 0 /\ count = 0
             /\ pc = [t \in Threads |-> "idle"]
             /\ item = [s \in Senders |-> Zero]
             /\ timeout = [r \in Receivers |-> "none"]
             /\ late = [r \in Receivers |-> FALSE]
             /\ got = [r \in Receivers |-> Zero]
             /\ deleted = FALSE

-----------------------------------------------------------------------------
\* The threads blocked in cond_not_full and in cond_not_empty.
WaitingSenders == {s \in Senders : pc[s] = "wait"}
WaitingReceivers == {r \in Receivers : pc[r] = "wait"}

\* The threads that will look at the queue when they get the mutex.
ComingSenders == {s \in Senders : pc[s] = "lock"}
ComingReceivers == {r \in Receivers : pc[r] \in {"lock", "timed_out"}}

\* pthread_cond_signal wakes one of the waiting threads, when there is one.
SignalAfter(t, place, waiting) ==
    LET moved == [pc EXCEPT ![t] = place]
    IN  IF waiting = {} THEN pc' = moved
        ELSE \E w \in waiting : pc' = [moved EXCEPT ![w] = "lock"]

\* queue_send is called.
queue_send(s, x) ==
    /\ pc[s] = "idle" /\ ~deleted
    /\ pc' = [pc EXCEPT ![s] = "lock"]
    /\ item' = [item EXCEPT ![s] = x]
    /\ UNCHANGED <<ringVars, timeout, late, got, deleted>>

\* The queue is full.
send_wait(s) ==
    /\ pc[s] = "lock" /\ count = QueueSize
    /\ pc' = [pc EXCEPT ![s] = "wait"]
    /\ UNCHANGED <<ringVars, callVars, got, deleted>>

\* Faulty variant: an item is announced only when the queue was empty.
send_put_signal_first(s) ==
    /\ pc[s] = "lock" /\ count < QueueSize
    /\ buffer' = [buffer EXCEPT ![tail] = item[s]]
    /\ tail' = (tail + 1) % QueueSize
    /\ count' = count + 1
    /\ item' = [item EXCEPT ![s] = Zero]
    /\ SignalAfter(s, "idle", IF count = 0 THEN WaitingReceivers ELSE {})
    /\ UNCHANGED <<head, timeout, late, got, deleted>>

\* There is room: the item is copied to the tail and one receiver is woken.
send_put(s) ==
    /\ pc[s] = "lock" /\ count < QueueSize
    /\ buffer' = [buffer EXCEPT ![tail] = item[s]]
    /\ tail' = (tail + 1) % QueueSize
    /\ count' = count + 1
    /\ item' = [item EXCEPT ![s] = Zero]
    /\ SignalAfter(s, "idle", WaitingReceivers)
    /\ UNCHANGED <<head, timeout, late, got, deleted>>

-----------------------------------------------------------------------------
\* queue_recv is called.
queue_recv(r, timeout_ms) ==
    /\ pc[r] = "idle" /\ ~deleted
    /\ pc' = [pc EXCEPT ![r] = "lock"]
    /\ timeout' = [timeout EXCEPT ![r] = timeout_ms]
    /\ UNCHANGED <<ringVars, item, late, got, deleted>>

\* Faulty variant: the deadline is computed anew for every wait.
recv_wait_anew(r) ==
    /\ pc[r] = "lock" /\ count = 0 /\ timeout[r] # "none"
    /\ pc' = [pc EXCEPT ![r] = "wait"]
    /\ late' = [late EXCEPT ![r] = FALSE]
    /\ UNCHANGED <<ringVars, item, timeout, got, deleted>>

\* The queue is empty and the receiver may wait; a wait that begins after the
\* deadline times out at once.
recv_wait(r) ==
    /\ pc[r] = "lock" /\ count = 0 /\ timeout[r] # "none"
    /\ pc' = [pc EXCEPT ![r] = IF late[r] THEN "timed_out" ELSE "wait"]
    /\ UNCHANGED <<ringVars, callVars, got, deleted>>

\* The deadline passes, whatever the receiver is doing.
deadline(r) ==
    /\ pc[r] # "idle" /\ timeout[r] = "timed" /\ ~late[r]
    /\ late' = [late EXCEPT ![r] = TRUE]
    /\ UNCHANGED <<ringVars, pc, item, timeout, got, deleted>>

\* pthread_cond_timedwait returns ETIMEDOUT, before it has the mutex again.
recv_timed_out(r) ==
    /\ pc[r] = "wait" /\ late[r]
    /\ pc' = [pc EXCEPT ![r] = "timed_out"]
    /\ UNCHANGED <<ringVars, callVars, got, deleted>>

\* What a call that ends leaves of its arguments.
RecvReturns(r) == /\ timeout' = [timeout EXCEPT ![r] = "none"]
                  /\ late' = [late EXCEPT ![r] = FALSE]

\* -1: the queue is empty without a timeout, or still empty after it.
recv_fails(r) ==
    /\ count = 0
    /\ pc[r] = "timed_out" \/ (pc[r] = "lock" /\ timeout[r] = "none")
    /\ pc' = [pc EXCEPT ![r] = "idle"]
    /\ RecvReturns(r)
    /\ UNCHANGED <<ringVars, item, got, deleted>>

\* There is an item, perhaps one that came with the timeout: it is copied from
\* the head and one sender is woken.
recv_take(r) ==
    /\ count > 0 /\ pc[r] \in {"lock", "timed_out"}
    /\ got' = [got EXCEPT ![r] = buffer[head]]
    /\ head' = (head + 1) % QueueSize
    /\ count' = count - 1
    /\ RecvReturns(r)
    /\ SignalAfter(r, "idle", WaitingSenders)
    /\ UNCHANGED <<buffer, tail, item, deleted>>

-----------------------------------------------------------------------------
\* Faulty variant: the position of the oldest item is kept.
queue_reset_keeps_head ==
    /\ ~deleted
    /\ tail' = 0 /\ count' = 0
    /\ buffer' = [s \in Slots |-> Zero]
    /\ pc' = [t \in Threads |-> IF pc[t] = "wait" THEN "lock" ELSE pc[t]]
    /\ UNCHANGED <<head, callVars, got, deleted>>

\* queue_reset: everything is dropped and everybody is woken.
queue_reset ==
    /\ ~deleted
    /\ head' = 0 /\ tail' = 0 /\ count' = 0
    /\ buffer' = [s \in Slots |-> Zero]
    /\ pc' = [t \in Threads |-> IF pc[t] = "wait" THEN "lock" ELSE pc[t]]
    /\ UNCHANGED <<callVars, got, deleted>>

\* queue_delete, which its caller may call when nobody uses the queue.
queue_delete ==
    /\ ~deleted /\ \A t \in Threads : pc[t] = "idle"
    /\ deleted' = TRUE
    /\ UNCHANGED <<ringVars, pc, callVars, got>>

\* A wait may return without a signal.
spurious_wakeup(t) ==
    /\ pc[t] = "wait"
    /\ pc' = [pc EXCEPT ![t] = "lock"]
    /\ UNCHANGED <<ringVars, callVars, got, deleted>>

-----------------------------------------------------------------------------
SendStep(s) == send_wait(s) \/ send_put(s)
RecvStep(r) == recv_wait(r) \/ recv_timed_out(r) \/ recv_fails(r) \/ recv_take(r)

QueueNext == \/ \E s \in Senders : SendStep(s) \/ \E x \in Items : queue_send(s, x)
             \/ \E r \in Receivers : \/ RecvStep(r) \/ deadline(r)
                                     \/ \E ms \in {"none", "timed", "forever"} :
                                            queue_recv(r, ms)
             \/ \E t \in Threads : spurious_wakeup(t)
             \/ queue_reset
             \/ queue_delete

QueueSpec == QueueInit /\ [][QueueNext]_queueVars

-----------------------------------------------------------------------------
\* The indices stay in the ring and head, tail and count agree.
QueueTypeOK ==
    /\ buffer \in [Slots -> Items \cup {Zero}]
    /\ head \in Slots /\ tail \in Slots /\ count \in 0..QueueSize
    /\ tail = (head + count) % QueueSize
    /\ pc \in [Threads -> {"idle", "lock", "wait", "timed_out"}]
    /\ item \in [Senders -> Items \cup {Zero}]
    /\ timeout \in [Receivers -> {"none", "timed", "forever"}]
    /\ late \in [Receivers -> BOOLEAN]
    /\ got \in [Receivers -> Items \cup {Zero}]
    /\ deleted \in BOOLEAN

\* Nobody is forgotten: while a receiver waits, every item in the queue has a
\* receiver on its way to the mutex, and while a sender waits, every free slot
\* has a sender on its way, although others may be faster, time out, or reset.
NobodyForgotten ==
    /\ WaitingReceivers # {} => count <= Cardinality(ComingReceivers)
    /\ WaitingSenders # {} => QueueSize - count <= Cardinality(ComingSenders)

\* A receive that was given a time to wait returns, even when other receivers
\* take every item.
TimedReceiveReturns ==
    \A r \in Receivers : timeout[r] = "timed" ~> pc[r] = "idle"

-----------------------------------------------------------------------------
\* The queue implements a bounded FIFO, over every wrap of its ring and reset.
Contents == [i \in 1..count |-> buffer[(head + i - 1) % QueueSize]]

Fifo == INSTANCE BoundedFifo WITH items <- Contents

ImplementsFifo == Fifo!FifoSpec
=============================================================================
