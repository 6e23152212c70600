----------------------------- MODULE EventGroup -----------------------------
(***************************************************************************)
(* The event group of core/posix/event_group.c: bits that threads set,     *)
(* clear and wait for, any or all of them, under one mutex and one         *)
(* condition variable.  A step is a critical section, up to the unlock or  *)
(* to the wait.  A deadline is computed once and passes at some moment.    *)
(***************************************************************************)
CONSTANTS Bits,     \* the bits of a group
          Waiters,  \* threads that call event_group_wait
          Calls     \* the arguments they call it with

Modes == {"any", "all"}   \* wait_all
AnyCall == [wait : SUBSET Bits, clear : SUBSET Bits, mode : Modes, timed : BOOLEAN]

ASSUME EventAssumption == Calls \subseteq AnyCall

VARIABLES bits,     \* eg->bits
          place,    \* waiter -> "idle", "lock" (about to lock, or woken and about
                    \*   to lock again), "wait" or "timed_out"
          call,     \* waiter -> the arguments of its call
          passed,   \* waiter -> its deadline has passed
          taker     \* history: bit -> the waiters that were given it and cleared it
                    \*   since it was last set

eventVars == <<bits, place, call, passed, taker>>

NoCall == [wait |-> {}, clear |-> {}, mode |-> "any", timed |-> FALSE]

EventInit == /\ bits = {}
             /\ place = [t \in Waiters |-> "idle"]
             /\ call = [t \in Waiters |-> NoCall]
             /\ passed = [t \in Waiters |-> FALSE]
             /\ taker = [b \in Bits |-> {}]

ConditionMet(t) == LET matched == bits \cap call[t].wait
                   IN  IF call[t].mode = "all" THEN matched = call[t].wait ELSE matched # {}

-----------------------------------------------------------------------------
\* Faulty variant: one of the waiting threads is woken.
event_group_set_bit_one(mask) ==
    /\ bits' = bits \cup mask
    /\ \/ \E t \in Waiters : place[t] = "wait" /\ place' = [place EXCEPT ![t] = "lock"]
       \/ (\A t \in Waiters : place[t] # "wait") /\ UNCHANGED place
    /\ taker' = [b \in Bits |-> IF b \in mask THEN {} ELSE taker[b]]
    /\ UNCHANGED <<call, passed>>

\* The bits of a mask are set and everybody who waits is woken.
event_group_set_bit(mask) ==
    /\ bits' = bits \cup mask
    /\ place' = [t \in Waiters |-> IF place[t] = "wait" THEN "lock" ELSE place[t]]
    /\ taker' = [b \in Bits |-> IF b \in mask THEN {} ELSE taker[b]]
    /\ UNCHANGED <<call, passed>>

event_group_clear_bit(mask) ==
    /\ bits' = bits \ mask
    /\ UNCHANGED <<place, call, passed, taker>>

\* event_group_wait is called.
event_group_wait(t, arguments) ==
    /\ place[t] = "idle"
    /\ place' = [place EXCEPT ![t] = "lock"]
    /\ call' = [call EXCEPT ![t] = arguments]
    /\ UNCHANGED <<bits, passed, taker>>

\* A call ends.
WaitReturns(t) == /\ place' = [place EXCEPT ![t] = "idle"]
                  /\ call' = [call EXCEPT ![t] = NoCall]
                  /\ passed' = [passed EXCEPT ![t] = FALSE]

\* Faulty variant: the bits are cleared in a critical section of their own, which
\* is still to come when another waiter sees them.
wait_met_unclear(t) ==
    /\ place[t] = "lock" /\ ConditionMet(t)
    /\ taker' = [b \in Bits |-> IF b \in bits \cap call[t].wait \cap call[t].clear
                                THEN taker[b] \cup {t} ELSE taker[b]]
    /\ WaitReturns(t)
    /\ UNCHANGED bits

\* The condition is met: the bits to clear are cleared before anybody else looks.
wait_met(t) ==
    /\ place[t] = "lock" /\ ConditionMet(t)
    /\ bits' = bits \ call[t].clear
    /\ taker' = [b \in Bits |-> IF b \in bits \cap call[t].wait \cap call[t].clear
                                THEN taker[b] \cup {t} ELSE taker[b]]
    /\ WaitReturns(t)

\* timeout_ms is 0: the call returns what is set, and clears nothing.
wait_not_met(t) ==
    /\ place[t] = "lock" /\ ~ConditionMet(t) /\ ~call[t].timed
    /\ WaitReturns(t)
    /\ UNCHANGED <<bits, taker>>

\* Faulty variant: the deadline is computed anew for every wait.
wait_blocks_anew(t) ==
    /\ place[t] = "lock" /\ ~ConditionMet(t) /\ call[t].timed
    /\ place' = [place EXCEPT ![t] = "wait"]
    /\ passed' = [passed EXCEPT ![t] = FALSE]
    /\ UNCHANGED <<bits, call, taker>>

\* pthread_cond_timedwait releases the mutex, or times out at once.
wait_blocks(t) ==
    /\ place[t] = "lock" /\ ~ConditionMet(t) /\ call[t].timed
    /\ place' = [place EXCEPT ![t] = IF passed[t] THEN "timed_out" ELSE "wait"]
    /\ UNCHANGED <<bits, call, passed, taker>>

wait_deadline(t) ==
    /\ call[t].timed /\ ~passed[t]
    /\ passed' = [passed EXCEPT ![t] = TRUE]
    /\ UNCHANGED <<bits, place, call, taker>>

\* pthread_cond_timedwait gives up, before it has the mutex again.
wait_times_out(t) ==
    /\ place[t] = "wait" /\ passed[t]
    /\ place' = [place EXCEPT ![t] = "timed_out"]
    /\ UNCHANGED <<bits, call, passed, taker>>

\* ETIMEDOUT: the call returns those of its bits that are set by now, and clears
\* none, even if its condition has just been met.
wait_timed_out(t) ==
    /\ place[t] = "timed_out"
    /\ WaitReturns(t)
    /\ UNCHANGED <<bits, taker>>

wait_spurious_wakeup(t) ==
    /\ place[t] = "wait"
    /\ place' = [place EXCEPT ![t] = "lock"]
    /\ UNCHANGED <<bits, call, passed, taker>>

-----------------------------------------------------------------------------
WaitStep(t) == \/ wait_met(t) \/ wait_not_met(t) \/ wait_blocks(t)
               \/ wait_times_out(t) \/ wait_timed_out(t)

EventNext == \/ \E mask \in SUBSET Bits : event_group_set_bit(mask) \/ event_group_clear_bit(mask)
             \/ \E t \in Waiters :
                   \/ WaitStep(t) \/ wait_deadline(t) \/ wait_spurious_wakeup(t)
                   \/ \E arguments \in Calls : event_group_wait(t, arguments)

EventSpec == EventInit /\ [][EventNext]_eventVars
-----------------------------------------------------------------------------
\* Nobody sleeps through an event: when the condition of a waiter is met it is not
\* blocked, whichever thread set the last bit and whoever was woken before.
NoMissedEvent == \A t \in Waiters : place[t] = "wait" => ~ConditionMet(t)

\* A bit that was set once is taken by at most one of the waiters that clear it on
\* exit, although a set wakes all of them.
TakenOnce == \A b \in Bits : \A t, u \in taker[b] : t = u

\* Every wait returns, whatever others set and take meanwhile.
EveryWaitReturns == \A t \in Waiters : place[t] # "idle" ~> place[t] = "idle"
=============================================================================
