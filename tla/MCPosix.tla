------------------------------ MODULE MCPosix ------------------------------
(***************************************************************************)
(* Model-checking instance of the primitives of core/posix that have no    *)
(* caller in the server: each behaviour exercises one of them.             *)
(***************************************************************************)
EXTENDS Queue, EventGroup, Schedule

CONSTANTS b1, b2   \* the bits of the event group

\* Up to the names of the bits, every call that can be told apart: the two modes do
\* not differ for one bit; of no bits, "any" never is met and "all" at once.
MCCalls ==
    [wait : {{b1}, {b2}}, clear : SUBSET Bits, mode : {"any"}, timed : BOOLEAN]
    \cup [wait : {Bits}, clear : {{}, {b1}, Bits}, mode : Modes, timed : BOOLEAN]
    \cup [wait : {{}}, clear : {{}}, mode : {"any"}, timed : {TRUE}]
    \cup [wait : {{}}, clear : {Bits}, mode : {"all"}, timed : {FALSE}]

VARIABLE which   \* the primitive that is exercised

benchVars == <<queueVars, eventVars, scheduleVars, which>>

BenchInit == /\ QueueInit /\ EventInit /\ ScheduleInit
             /\ which \in {"queue", "event group", "schedule"}

OnQueue(step) == which = "queue" /\ step /\ UNCHANGED <<eventVars, scheduleVars, which>>
OnEvents(step) == which = "event group" /\ step /\ UNCHANGED <<queueVars, scheduleVars, which>>
OnSchedule(step) == which = "schedule" /\ step /\ UNCHANGED <<queueVars, eventVars, which>>

BenchNext == OnQueue(QueueNext) \/ OnEvents(EventNext) \/ OnSchedule(ScheduleNext)

\* A receiver, or a waiter, that can take the mutex does, and deadlines pass.
BenchSpec ==
    /\ BenchInit /\ [][BenchNext]_benchVars
    /\ \A r \in Receivers : /\ WF_benchVars(OnQueue(RecvStep(r)))
                            /\ WF_benchVars(OnQueue(deadline(r)))
    /\ \A t \in Waiters : /\ WF_benchVars(OnEvents(WaitStep(t)))
                          /\ WF_benchVars(OnEvents(wait_deadline(t)))
=============================================================================
