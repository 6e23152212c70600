--------------------------- MODULE BgSchedProofs ---------------------------
(***************************************************************************)
(* Proofs about BgSched, for any set of tasks: the list is a FIFO that     *)
(* loses and repeats nothing, no wakeup is lost, bg_sched_destroy is       *)
(* graceful, and the scheduler implements TaskExecutor.                    *)
(***************************************************************************)
EXTENDS BgSched, SequenceTheorems, TLAPS

\* How the stop advances: running is cleared once, the worker leaves only
\* after that, the join waits for it, and nodes are freed only after the join.
StopOrder == /\ running <=> dpc = "none"
             /\ wpc = "exited" => ~running
             /\ Joined => wpc = "exited"
             /\ dpc \notin {"free", "freed"} => discarded = <<>>

\* worker_main holds a node exactly while it is in the callback.
TaskHeld == task # NoTask <=> wpc = "call"

\* The tasks posted while running are the oldest ones, and the worker leaves
\* only when all of them have been run.
OwedOldest == /\ owed <= Len(posted)
              /\ wpc = "exited" => owed <= Len(done)

\* The inductive invariant.
SchedInv == /\ SchedTypeOK
            /\ FifoExactlyOnce
            /\ NoLostWakeup
            /\ CountersExact
            /\ StopOrder
            /\ TaskHeld
            /\ OwedOldest

-----------------------------------------------------------------------------
\* A nonempty sequence, as the list is taken apart by worker_main, is its head
\* followed by its tail.
LEMMA HeadThenTail ==
  ASSUME NEW S, NEW s \in Seq(S), s # <<>>
  PROVE  s = <<Head(s)>> \o Tail(s)
<1>1. Len(s) \in Nat \ {0}
  BY EmptySeq
<1>2. SubSeq(s, 1, Len(s)) = <<s[1]>> \o SubSeq(s, 2, Len(s))
  BY <1>1, SubSeqRecursiveFirst
<1>3. SubSeq(s, 1, Len(s)) = s
  BY SubSeqFull
<1>4. Tail(s) = SubSeq(s, 2, Len(s))
  BY TailIsSubSeq
<1>5. Head(s) = s[1]
  BY <1>1
<1> QED
  BY <1>2, <1>3, <1>4, <1>5

\* Linking a node at the tail of the last of two lists put together.
LEMMA ConcatLast ==
  ASSUME NEW S, NEW a \in Seq(S), NEW b \in Seq(S), NEW e \in S
  PROVE  (a \o b) \o <<e>> = a \o (b \o <<e>>)
<1>1. <<e>> \in Seq(S)
  OBVIOUS
<1> QED
  BY <1>1, ConcatAssociative

\* The task in flight is a sequence of at most one task.
LEMMA InFlightType ==
  ASSUME SchedTypeOK, TaskHeld
  PROVE  /\ InFlight \in Seq(Tasks)
         /\ Len(InFlight) = IF wpc = "call" THEN 1 ELSE 0
  BY DEF SchedTypeOK, TaskHeld, InFlight

\* bg_sched_create returns a scheduler that satisfies the invariant.
LEMMA InitEstablishesInv == SchedInit => SchedInv
<1> SUFFICES ASSUME SchedInit PROVE SchedInv
  OBVIOUS
<1>1. SchedTypeOK
  BY DEF SchedInit, SchedTypeOK, WorkerPC, DestroyPC
<1>2. FifoExactlyOnce
  BY DEF SchedInit, FifoExactlyOnce, InFlight
<1>3. NoLostWakeup /\ CountersExact /\ StopOrder /\ TaskHeld /\ OwedOldest
  BY DEF SchedInit, NoLostWakeup, CountersExact, StopOrder, TaskHeld, OwedOldest, Joined
<1> QED
  BY <1>1, <1>2, <1>3 DEF SchedInv

\* Every step of a poster, of the worker and of bg_sched_destroy keeps the
\* types.
LEMMA StepKeepsTypes == SchedInv /\ [SchedNext]_schedVars => SchedTypeOK'
<1> SUFFICES ASSUME SchedInv, [SchedNext]_schedVars PROVE SchedTypeOK'
  OBVIOUS
<1> USE DEF SchedInv, SchedTypeOK
<1>1. ASSUME NEW t \in Tasks, bg_sched_post(t) PROVE SchedTypeOK'
  BY <1>1 DEF bg_sched_post, Wake, WorkerPC
<1>2. CASE worker_wait
  BY <1>2 DEF worker_wait, WorkerPC
<1>3. CASE worker_spurious_wakeup
  BY <1>3 DEF worker_spurious_wakeup, WorkerPC
<1>4. CASE worker_exit
  BY <1>4 DEF worker_exit, WorkerPC
<1>5. CASE worker_take
  <2>1. /\ Head(queue) \in Tasks
        /\ Tail(queue) \in Seq(Tasks)
        /\ Len(queue) \in Nat \ {0}
    BY <1>5, HeadTailProperties, EmptySeq DEF worker_take
  <2>2. pending - 1 \in Nat
    BY <2>1, EmptySeq, LenProperties DEF CountersExact
  <2> QED
    BY <1>5, <2>1, <2>2 DEF worker_take, WorkerPC
<1>6. CASE worker_call
  BY <1>6, AppendProperties DEF worker_call, WorkerPC, TaskHeld
<1>7. CASE worker_after
  BY <1>7 DEF worker_after, WorkerPC, CountersExact
<1>8. CASE destroy_stop
  BY <1>8 DEF destroy_stop, Wake, WorkerPC, DestroyPC
<1>9. CASE destroy_join
  BY <1>9 DEF destroy_join, DestroyPC
<1>10. CASE destroy_drain
  BY <1>10 DEF destroy_drain, DestroyPC
<1>11. CASE destroy_free
  BY <1>11 DEF destroy_free, DestroyPC
<1>12. CASE UNCHANGED schedVars
  BY <1>12 DEF schedVars
<1> QED
  BY <1>1, <1>2, <1>3, <1>4, <1>5, <1>6, <1>7, <1>8, <1>9, <1>10, <1>11, <1>12
     DEF SchedNext, Worker, Destroy

-----------------------------------------------------------------------------
\* Linking a node, unlinking it, running it and freeing it move a task along
\* posted = done, in flight, queue, discarded without losing its place.
LEMMA StepKeepsFifo == SchedInv /\ [SchedNext]_schedVars => FifoExactlyOnce'
<1> SUFFICES ASSUME SchedInv, [SchedNext]_schedVars PROVE FifoExactlyOnce'
  OBVIOUS
<1>0. /\ queue \in Seq(Tasks) /\ done \in Seq(Tasks)
      /\ posted \in Seq(Tasks) /\ discarded \in Seq(Tasks)
      /\ <<>> \in Seq(Tasks)
  BY DEF SchedInv, SchedTypeOK
<1>a. /\ InFlight \in Seq(Tasks)
      /\ done \o InFlight \in Seq(Tasks)
      /\ (done \o InFlight) \o queue \in Seq(Tasks)
  BY <1>0, InFlightType, ConcatProperties DEF SchedInv
<1>b. posted = ((done \o InFlight) \o queue) \o discarded
  BY DEF SchedInv, FifoExactlyOnce
<1>1. ASSUME NEW t \in Tasks, bg_sched_post(t) PROVE FifoExactlyOnce'
  <2>1. discarded = <<>> /\ discarded' = <<>>
    BY <1>1 DEF SchedInv, StopOrder, bg_sched_post
  <2>2. done' \o InFlight' = done \o InFlight
    BY <1>1 DEF bg_sched_post, Wake, InFlight
  <2>3. queue' = queue \o <<t>> /\ posted' = posted \o <<t>>
    BY <1>0, <1>1, AppendIsConcat DEF bg_sched_post
  <2>4. <<t>> \in Seq(Tasks)
    OBVIOUS
  <2>5. posted = (done \o InFlight) \o queue
    BY <1>a, <1>b, <2>1, ConcatEmptySeq
  <2>a. ((done \o InFlight) \o queue) \o <<t>> = (done \o InFlight) \o (queue \o <<t>>)
    <3>1. \A a, b \in Seq(Tasks) : (a \o b) \o <<t>> = a \o (b \o <<t>>)
      BY ConcatLast
    <3>2. done \o InFlight \in Seq(Tasks) /\ queue \in Seq(Tasks)
      BY <1>0, <1>a
    <3> QED
      BY <3>1, <3>2, Zenon
  <2>6. posted' = (done \o InFlight) \o queue'
    BY <2>3, <2>5, <2>a
  <2>7. queue' \in Seq(Tasks) /\ (done \o InFlight) \o queue' \in Seq(Tasks)
    BY <1>0, <1>a, <2>3, <2>4, ConcatProperties
  <2> QED
    BY <2>1, <2>2, <2>6, <2>7, ConcatEmptySeq DEF FifoExactlyOnce
<1>2. CASE worker_take
  <2>1. /\ queue = <<Head(queue)>> \o Tail(queue)
        /\ <<Head(queue)>> \in Seq(Tasks)
        /\ Tail(queue) \in Seq(Tasks)
    BY <1>0, <1>2, HeadThenTail, HeadTailProperties DEF worker_take
  <2>2. InFlight = <<>> /\ InFlight' = <<Head(queue)>> /\ queue' = Tail(queue)
    BY <1>2 DEF worker_take, InFlight
  <2>3. done \o InFlight = done
    BY <1>0, <2>2, ConcatEmptySeq
  <2>4. done \o queue = (done \o <<Head(queue)>>) \o Tail(queue)
    BY <1>0, <2>1, ConcatAssociative
  <2> QED
    BY <1>2, <1>b, <2>2, <2>3, <2>4 DEF worker_take, FifoExactlyOnce
<1>3. CASE worker_call
  <2>1. task \in Tasks /\ InFlight = <<task>> /\ InFlight' = <<>>
    BY <1>3 DEF worker_call, InFlight, SchedInv, SchedTypeOK, TaskHeld
  <2>2. done' = done \o <<task>>
    BY <1>0, <1>3, <2>1, AppendIsConcat DEF worker_call
  <2>3. done' \o InFlight' = done \o InFlight
    BY <1>a, <2>1, <2>2, ConcatEmptySeq
  <2> QED
    BY <1>3, <1>b, <2>3 DEF worker_call, FifoExactlyOnce
<1>4. CASE destroy_drain
  <2>1. discarded = <<>>
    BY <1>4 DEF SchedInv, StopOrder, destroy_drain
  <2>2. InFlight' = InFlight
    BY <1>4 DEF destroy_drain, InFlight
  <2>3. posted = (done \o InFlight) \o queue
    BY <1>a, <1>b, <2>1, ConcatEmptySeq
  <2>4. (done \o InFlight) \o <<>> = done \o InFlight
    BY <1>a, ConcatEmptySeq
  <2> QED
    BY <1>4, <2>2, <2>3, <2>4 DEF destroy_drain, FifoExactlyOnce
<1>5. CASE \/ worker_wait \/ worker_spurious_wakeup \/ worker_exit \/ worker_after
           \/ destroy_stop \/ destroy_join \/ destroy_free \/ UNCHANGED schedVars
  BY <1>5, <1>b DEF FifoExactlyOnce, InFlight, worker_wait, worker_spurious_wakeup,
     worker_exit, worker_after, destroy_stop, destroy_join, destroy_free, schedVars, Wake
<1> QED
  BY <1>1, <1>2, <1>3, <1>4, <1>5 DEF SchedNext, Worker, Destroy

\* The lengths of the parts of posted add up.
LEMMA FifoLengths ==
  ASSUME SchedTypeOK, TaskHeld, FifoExactlyOnce
  PROVE  Len(posted) = Len(done) + Len(InFlight) + Len(queue) + Len(discarded)
<1>1. InFlight \in Seq(Tasks)
  BY InFlightType
<1>2. done \o InFlight \in Seq(Tasks) /\ Len(done \o InFlight) = Len(done) + Len(InFlight)
  BY <1>1, ConcatProperties DEF SchedTypeOK
<1>3. /\ (done \o InFlight) \o queue \in Seq(Tasks)
      /\ Len((done \o InFlight) \o queue) = Len(done) + Len(InFlight) + Len(queue)
  BY <1>2, ConcatProperties DEF SchedTypeOK
<1> QED
  BY <1>3, ConcatProperties DEF SchedTypeOK, FifoExactlyOnce

\* The worker blocks only when there is nothing to do, and whoever gives it
\* something to do wakes it; the counters follow the list and the worker.
LEMMA StepKeepsWakeupAndCounters ==
  SchedInv /\ [SchedNext]_schedVars => NoLostWakeup' /\ CountersExact'
<1> SUFFICES ASSUME SchedInv, [SchedNext]_schedVars
             PROVE  NoLostWakeup' /\ CountersExact'
  OBVIOUS
<1>0. /\ queue \in Seq(Tasks) /\ discarded \in Seq(Tasks)
      /\ Len(queue) \in Nat /\ Len(discarded) \in Nat
      /\ pending = Len(queue) + Len(discarded)
  BY LenProperties DEF SchedInv, SchedTypeOK, CountersExact
<1>1. ASSUME NEW t \in Tasks, bg_sched_post(t) PROVE NoLostWakeup' /\ CountersExact'
  <2>1. Len(queue') = Len(queue) + 1
    BY <1>0, <1>1, AppendProperties DEF bg_sched_post
  <2> QED
    BY <1>0, <1>1, <2>1
       DEF bg_sched_post, Wake, NoLostWakeup, CountersExact, SchedInv
<1>2. CASE worker_take
  <2>1. Len(queue') = Len(queue) - 1
    BY <1>0, <1>2, HeadTailProperties DEF worker_take
  <2> QED
    BY <1>0, <1>2, <2>1 DEF worker_take, NoLostWakeup, CountersExact, SchedInv
<1>3. CASE destroy_drain
  <2>1. wpc = "exited" /\ discarded = <<>> /\ Len(<<>>) = 0
    BY <1>3 DEF destroy_drain, SchedInv, StopOrder, Joined
  <2> QED
    BY <1>0, <1>3, <2>1 DEF destroy_drain, NoLostWakeup, CountersExact, SchedInv
<1>4. CASE \/ worker_wait \/ worker_spurious_wakeup \/ worker_exit \/ worker_call
           \/ worker_after \/ destroy_stop \/ destroy_join \/ destroy_free
           \/ UNCHANGED schedVars
  BY <1>0, <1>4 DEF NoLostWakeup, CountersExact, SchedInv, worker_wait,
     worker_spurious_wakeup, worker_exit, worker_call, worker_after, destroy_stop,
     destroy_join, destroy_free, schedVars, Wake
<1> QED
  BY <1>1, <1>2, <1>3, <1>4 DEF SchedNext, Worker, Destroy

\* The stop goes forward only, and a node is held exactly during its callback.
LEMMA StepKeepsStopOrder == SchedInv /\ [SchedNext]_schedVars => StopOrder' /\ TaskHeld'
<1> SUFFICES ASSUME SchedInv, [SchedNext]_schedVars PROVE StopOrder' /\ TaskHeld'
  OBVIOUS
<1>1. CASE worker_take
  BY <1>1, HeadTailProperties, NoTaskAssumption
     DEF worker_take, SchedInv, SchedTypeOK, StopOrder, TaskHeld, Joined
<1>2. ASSUME NEW t \in Tasks, bg_sched_post(t) PROVE StopOrder' /\ TaskHeld'
  BY <1>2 DEF bg_sched_post, Wake, SchedInv, StopOrder, TaskHeld, Joined
<1>3. CASE \/ worker_wait \/ worker_spurious_wakeup \/ worker_exit \/ worker_call
           \/ worker_after \/ UNCHANGED schedVars
  BY <1>3 DEF SchedInv, StopOrder, TaskHeld, Joined, worker_wait,
     worker_spurious_wakeup, worker_exit, worker_call, worker_after, schedVars
<1>4. CASE destroy_stop \/ destroy_join \/ destroy_drain \/ destroy_free
  BY <1>4 DEF SchedInv, StopOrder, TaskHeld, Joined, Wake,
     destroy_stop, destroy_join, destroy_drain, destroy_free
<1> QED
  BY <1>1, <1>2, <1>3, <1>4 DEF SchedNext, Worker, Destroy

\* The worker leaves only after it has run all that was posted while running.
LEMMA StepKeepsOwed == SchedInv /\ [SchedNext]_schedVars => OwedOldest'
<1> SUFFICES ASSUME SchedInv, [SchedNext]_schedVars PROVE OwedOldest'
  OBVIOUS
<1>0. /\ owed \in Nat /\ Len(posted) \in Nat /\ Len(done) \in Nat
      /\ posted \in Seq(Tasks) /\ done \in Seq(Tasks)
  BY LenProperties DEF SchedInv, SchedTypeOK
<1>1. ASSUME NEW t \in Tasks, bg_sched_post(t) PROVE OwedOldest'
  <2>1. Len(posted') = Len(posted) + 1
    BY <1>0, <1>1, AppendProperties DEF bg_sched_post
  <2> QED
    BY <1>0, <1>1, <2>1 DEF bg_sched_post, Wake, OwedOldest, SchedInv, StopOrder
<1>2. CASE worker_exit
  <2>1. Len(queue) = 0 /\ Len(discarded) = 0 /\ Len(InFlight) = 0
    BY <1>2 DEF worker_exit, SchedInv, StopOrder, Joined, InFlight
  <2>2. Len(posted) = Len(done)
    BY <1>0, <2>1, FifoLengths DEF SchedInv
  <2> QED
    BY <1>2, <2>2 DEF worker_exit, OwedOldest, SchedInv
<1>3. CASE worker_call
  BY <1>0, <1>3 DEF worker_call, OwedOldest, SchedInv
<1>4. CASE \/ worker_wait \/ worker_spurious_wakeup \/ worker_take \/ worker_after
           \/ destroy_stop \/ destroy_join \/ destroy_drain \/ destroy_free
           \/ UNCHANGED schedVars
  BY <1>4 DEF OwedOldest, SchedInv, worker_wait, worker_spurious_wakeup, worker_take,
     worker_after, destroy_stop, destroy_join, destroy_drain, destroy_free,
     schedVars, Wake
<1> QED
  BY <1>1, <1>2, <1>3, <1>4 DEF SchedNext, Worker, Destroy

-----------------------------------------------------------------------------
\* The inductive step.
LEMMA StepKeepsInv == SchedInv /\ [SchedNext]_schedVars => SchedInv'
  BY StepKeepsTypes, StepKeepsFifo, StepKeepsWakeupAndCounters, StepKeepsStopOrder,
     StepKeepsOwed DEF SchedInv

\* The inductive invariant holds in every state of the scheduler.
THEOREM SchedInvariant == SchedSpec => []SchedInv
  BY InitEstablishesInv, StepKeepsInv, PTL DEF SchedSpec

\* The fields of struct sched and the threads' positions always have their types;
\* in particular the size_t counters pending and active never wrap below zero.
THEOREM SchedTypeCorrect == SchedSpec => []SchedTypeOK
<1>1. SchedInv => SchedTypeOK
  BY DEF SchedInv
<1> QED
  BY <1>1, SchedInvariant, PTL

\* The worker runs the callbacks in the order bg_sched_post linked them; none is
\* lost and none is run twice.
THEOREM SchedFifo == SchedSpec => []FifoExactlyOnce
<1>1. SchedInv => FifoExactlyOnce
  BY DEF SchedInv
<1> QED
  BY <1>1, SchedInvariant, PTL

\* A worker in pthread_cond_wait has nothing to do: neither the signal of
\* bg_sched_post nor the broadcast of bg_sched_destroy is lost.
THEOREM SchedNoLostWakeup == SchedSpec => []NoLostWakeup
<1>1. SchedInv => NoLostWakeup
  BY DEF SchedInv
<1> QED
  BY <1>1, SchedInvariant, PTL

\* pending and active agree with the list and the worker.
THEOREM SchedCounters == SchedSpec => []CountersExact
<1>1. SchedInv => CountersExact
  BY DEF SchedInv
<1> QED
  BY <1>1, SchedInvariant, PTL

\* Once bg_sched_destroy has joined the worker, all that was posted before it
\* cleared running has been run.
THEOREM SchedGraceful == SchedSpec => []GracefulStop
<1>1. SchedInv => GracefulStop
  BY DEF SchedInv, GracefulStop, StopOrder, OwedOldest
<1> QED
  BY <1>1, SchedInvariant, PTL

\* No callback begins or ends after bg_sched_destroy has joined the worker.
THEOREM SchedQuiet == SchedSpec => QuietAfterJoin
<1>1. SchedInv /\ [SchedNext]_schedVars => [Joined => UNCHANGED <<done, task>>]_schedVars
  <2> SUFFICES ASSUME SchedInv, SchedNext, Joined PROVE UNCHANGED <<done, task>>
    OBVIOUS
  <2>1. wpc = "exited"
    BY DEF SchedInv, StopOrder
  <2> QED
    BY <2>1 DEF SchedNext, Worker, Destroy, bg_sched_post, worker_wait,
       worker_spurious_wakeup, worker_exit, worker_take, worker_call, worker_after,
       destroy_stop, destroy_join, destroy_drain, destroy_free
<1> QED
  BY <1>1, SchedInvariant, PTL DEF SchedSpec, QuietAfterJoin

-----------------------------------------------------------------------------
\* A task that was never posted is none of those the executor knows.
LEMMA UnpostedIsUnknown ==
  ASSUME SchedInv, NEW t \in Tasks, t \notin Range(posted)
  PROVE  t \notin Exec!Known
<1>0. /\ queue \in Seq(Tasks) /\ done \in Seq(Tasks) /\ discarded \in Seq(Tasks)
      /\ InFlight \in Seq(Tasks)
  BY InFlightType DEF SchedInv, SchedTypeOK
<1>1. done \o InFlight \in Seq(Tasks) /\ (done \o InFlight) \o queue \in Seq(Tasks)
  BY <1>0, ConcatProperties
<1>2. Range(posted) = ((Range(done) \cup Range(InFlight)) \cup Range(queue)) \cup Range(discarded)
  <2> DEFINE begun == done \o InFlight
             linked == begun \o queue
  <2>1. Range(begun) = Range(done) \cup Range(InFlight)
    BY <1>0, RangeConcatenation
  <2>2. begun \in Seq(Tasks) /\ linked \in Seq(Tasks) /\ posted = linked \o discarded
    BY <1>1 DEF SchedInv, FifoExactlyOnce
  <2> HIDE DEF begun
  <2>3. Range(linked) = Range(begun) \cup Range(queue)
    BY <1>0, <2>2, RangeConcatenation
  <2> HIDE DEF linked
  <2>4. Range(posted) = Range(linked) \cup Range(discarded)
    BY <1>0, <2>2, RangeConcatenation
  <2> QED
    BY <2>1, <2>3, <2>4
<1>3. t # task
  <2>1. CASE wpc = "call"
    <3>1. InFlight = <<task>>
      BY <2>1 DEF InFlight
    <3>2. task \in Range(InFlight)
      BY <3>1 DEF Range
    <3> QED
      BY <1>2, <3>2
  <2>2. CASE wpc # "call"
    BY <2>2, NoTaskAssumption DEF SchedInv, TaskHeld
  <2> QED
    BY <2>1, <2>2
<1> QED
  BY <1>2, <1>3 DEF Exec!Known, Exec!Range, Range

\* The scheduler implements the executor its callers rely on: what a thread does
\* inside bg_sched_post, worker_main and bg_sched_destroy is either one step of
\* the executor or invisible to it.
THEOREM SchedImplementsExecutor == SchedSpec => ImplementsExecutor
<1>1. SchedInit => Exec!ExecInit
  BY DEF SchedInit, Exec!ExecInit, ExecPhase
<1>2. SchedInv /\ [SchedNext]_schedVars => [Exec!ExecNext]_(Exec!execVars)
  <2> SUFFICES ASSUME SchedInv, [SchedNext]_schedVars
               PROVE  Exec!ExecNext \/ UNCHANGED Exec!execVars
    OBVIOUS
  <2>1. ASSUME NEW t \in Tasks, bg_sched_post(t) PROVE Exec!Accept(t)
    <3>1. t \notin Exec!Known
      BY <2>1, UnpostedIsUnknown DEF bg_sched_post
    <3> QED
      BY <2>1, <3>1 DEF bg_sched_post, Exec!Accept, ExecPhase, SchedInv, SchedTypeOK,
         StopOrder, DestroyPC
  <2>2. CASE worker_take
    BY <2>2 DEF worker_take, Exec!ExecNext, Exec!Begin, ExecPhase, SchedInv, StopOrder,
       TaskHeld, Joined, SchedTypeOK, DestroyPC
  <2>3. CASE worker_call
    BY <2>3 DEF worker_call, Exec!ExecNext, Exec!End, ExecPhase, SchedInv, TaskHeld
  <2>4. CASE destroy_stop
    BY <2>4 DEF destroy_stop, Exec!ExecNext, Exec!Close, ExecPhase
  <2>5. CASE destroy_drain
    BY <2>5 DEF destroy_drain, Exec!ExecNext, Exec!Finish, ExecPhase, SchedInv, StopOrder,
       TaskHeld, OwedOldest, Joined
  <2>6. CASE \/ worker_wait \/ worker_spurious_wakeup \/ worker_exit \/ worker_after
             \/ destroy_join \/ destroy_free \/ UNCHANGED schedVars
    BY <2>6 DEF worker_wait, worker_spurious_wakeup, worker_exit, worker_after,
       destroy_join, destroy_free, schedVars, Exec!execVars, ExecPhase
  <2> QED
    BY <2>1, <2>2, <2>3, <2>4, <2>5, <2>6 DEF SchedNext, Worker, Destroy, Exec!ExecNext
<1> QED
  BY <1>1, <1>2, SchedInvariant, PTL DEF SchedSpec, ImplementsExecutor, Exec!ExecSpec
=============================================================================
