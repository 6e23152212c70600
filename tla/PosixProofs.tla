---------------------------- MODULE PosixProofs ----------------------------
(***************************************************************************)
(* Proofs about the primitives of core/posix that have no caller in the    *)
(* server.                                                                 *)
(*                                                                         *)
(* Queue, for any threads, items and size: the indices of the ring agree,  *)
(* nobody who waits is forgotten, and the queue is a bounded FIFO.         *)
(* EventGroup, for any bits and any waiting threads: nobody sleeps through *)
(* an event, and a bit is taken once.                                      *)
(* Schedule, for any jobs and threads: the unlocked test of schedule_run   *)
(* is harmless as long as one thread at a time runs the scheduler and      *)
(* nobody uses it during schedule_destroy, and a run drains the list in    *)
(* the order of the posts.                                                 *)
(***************************************************************************)
EXTENDS Queue, EventGroup, Schedule, FiniteSetTheorems, SequenceTheorems, TLAPS

-----------------------------------------------------------------------------
\* The blocking queue.

\* A sender inside queue_send has an item.
SenderHasItem == \A s \in Senders : pc[s] # "idle" => item[s] \in Items

\* The inductive invariant.
QueueInv == QueueTypeOK /\ SenderHasItem /\ NobodyForgotten

-----------------------------------------------------------------------------
\* An index that ran past the end of the ring comes back by one length.
LEMMA WrapOnce ==
  ASSUME NEW n \in Nat \ {0}, NEW a \in 0..(2 * n - 1)
  PROVE  a % n = IF a < n THEN a ELSE a - n
  OBVIOUS

\* The same for the indices of this ring.
LEMMA WrapIndex ==
  \A a \in Nat : a < QueueSize + QueueSize =>
      a % QueueSize = IF a < QueueSize THEN a ELSE a - QueueSize
<1> SUFFICES ASSUME NEW a \in Nat, a < QueueSize + QueueSize
             PROVE  a % QueueSize = IF a < QueueSize THEN a ELSE a - QueueSize
  OBVIOUS
<1>1. QueueSize \in Nat \ {0} /\ a \in 0..(2 * QueueSize - 1)
  BY QueueAssumption
<1> QED
  BY <1>1, WrapOnce

\* What a signal does to the threads' places.
LEMMA SignalEffect ==
  ASSUME QueueTypeOK, NEW t \in Threads, NEW waiting \in SUBSET Threads,
         NEW spot \in {"idle", "lock", "wait", "timed_out"},
         SignalAfter(t, spot, waiting), t \notin waiting
  PROVE  /\ pc' \in [Threads -> {"idle", "lock", "wait", "timed_out"}]
         /\ waiting = {} => pc' = [pc EXCEPT ![t] = spot]
         /\ waiting # {} => \E w \in waiting :
              pc' = [u \in Threads |-> IF u = w THEN "lock" ELSE IF u = t THEN spot ELSE pc[u]]
<1>1. pc \in [Threads -> {"idle", "lock", "wait", "timed_out"}]
  BY DEF QueueTypeOK
<1>2. CASE waiting = {}
  BY <1>1, <1>2 DEF SignalAfter
<1>3. CASE waiting # {}
  <2>1. PICK w \in waiting : pc' = [[pc EXCEPT ![t] = spot] EXCEPT ![w] = "lock"]
    BY <1>3 DEF SignalAfter
  <2>2. pc' = [u \in Threads |-> IF u = w THEN "lock" ELSE IF u = t THEN spot ELSE pc[u]]
    BY <1>1, <2>1
  <2>3. pc' \in [Threads -> {"idle", "lock", "wait", "timed_out"}]
    BY <1>1, <2>2
  <2>4. \E w1 \in waiting :
           pc' = [u \in Threads |-> IF u = w1 THEN "lock" ELSE IF u = t THEN spot ELSE pc[u]]
    BY <2>2
  <2> QED
    BY <1>3, <2>3, <2>4
<1> QED
  BY <1>2, <1>3

\* queue_create returns a queue that satisfies the invariant.
LEMMA QueueInitEstablishesInv == QueueInit => QueueInv
<1> SUFFICES ASSUME QueueInit PROVE QueueInv
  OBVIOUS
<1>1. 0 % QueueSize = 0
  BY WrapOnce, QueueAssumption
<1>2. /\ head = 0 /\ tail = 0 /\ count = 0 /\ head + count = 0
      /\ 0 \in Slots /\ 0 \in 0..QueueSize
  BY QueueAssumption DEF QueueInit, Slots
<1>3. QueueTypeOK
  BY <1>1, <1>2 DEF QueueInit, QueueTypeOK
<1>4. SenderHasItem
  BY DEF QueueInit, SenderHasItem, Threads
<1>5. WaitingReceivers = {} /\ WaitingSenders = {}
  BY DEF QueueInit, WaitingReceivers, WaitingSenders, Threads
<1> QED
  BY <1>3, <1>4, <1>5 DEF QueueInv, NobodyForgotten

-----------------------------------------------------------------------------
\* head, tail and count agree after every step.
LEMMA StepKeepsQueueTypes == QueueTypeOK /\ [QueueNext]_queueVars => QueueTypeOK'
<1> SUFFICES ASSUME QueueTypeOK, [QueueNext]_queueVars PROVE QueueTypeOK'
  OBVIOUS
<1> USE DEF QueueTypeOK
<1>0. QueueSize \in Nat \ {0} /\ Senders \subseteq Threads /\ Receivers \subseteq Threads
  BY QueueAssumption DEF Threads
<1>1. ASSUME NEW s \in Senders, NEW x \in Items, queue_send(s, x) PROVE QueueTypeOK'
  BY <1>0, <1>1 DEF queue_send, ringVars
<1>2. ASSUME NEW s \in Senders, send_wait(s) PROVE QueueTypeOK'
  BY <1>0, <1>2 DEF send_wait, ringVars, callVars
<1>3. ASSUME NEW s \in Senders, send_put(s) PROVE QueueTypeOK'
  <2>1. SignalAfter(s, "idle", WaitingReceivers) /\ s \notin WaitingReceivers
    BY <1>3 DEF send_put, WaitingReceivers
  <2>2. pc' \in [Threads -> {"idle", "lock", "wait", "timed_out"}]
    BY <2>1, <1>0, SignalEffect DEF WaitingReceivers
  <2>3. tail' \in Slots /\ tail' = (head' + count') % QueueSize
    <3>1. /\ tail' = (tail + 1) % QueueSize /\ head' = head /\ count' = count + 1
          /\ head \in Nat /\ head < QueueSize /\ count \in Nat /\ count < QueueSize
          /\ tail \in Nat /\ tail < QueueSize
      BY <1>0, <1>3 DEF send_put, Slots
    <3>2. tail = IF head + count < QueueSize THEN head + count ELSE head + count - QueueSize
      BY <3>1, <1>0, WrapIndex
    <3>3. (tail + 1) % QueueSize = IF tail + 1 < QueueSize THEN tail + 1 ELSE 0
      BY <3>1, <1>0, WrapIndex
    <3>4. (head + (count + 1)) % QueueSize =
             IF head + (count + 1) < QueueSize THEN head + (count + 1)
             ELSE head + (count + 1) - QueueSize
      BY <3>1, <1>0, WrapIndex
    <3>5. tail' = (head' + count') % QueueSize
      BY <3>1, <3>2, <3>3, <3>4, <1>0
    <3>6. tail' \in Slots
      BY <3>1, <3>3, <1>0 DEF Slots
    <3> QED
      BY <3>5, <3>6
  <2> QED
    BY <2>2, <2>3, <1>0, <1>3 DEF send_put
<1>4. ASSUME NEW r \in Receivers, NEW ms \in {"none", "timed", "forever"}, queue_recv(r, ms)
      PROVE  QueueTypeOK'
  BY <1>0, <1>4 DEF queue_recv, ringVars
<1>5. ASSUME NEW r \in Receivers, recv_wait(r) PROVE QueueTypeOK'
  BY <1>0, <1>5 DEF recv_wait, ringVars, callVars
<1>6. ASSUME NEW r \in Receivers, deadline(r) PROVE QueueTypeOK'
  BY <1>0, <1>6 DEF deadline, ringVars
<1>7. ASSUME NEW r \in Receivers, recv_timed_out(r) PROVE QueueTypeOK'
  BY <1>0, <1>7 DEF recv_timed_out, ringVars, callVars
<1>8. ASSUME NEW r \in Receivers, recv_fails(r) PROVE QueueTypeOK'
  BY <1>0, <1>8 DEF recv_fails, RecvReturns, ringVars
<1>9. ASSUME NEW r \in Receivers, recv_take(r) PROVE QueueTypeOK'
  <2>1. SignalAfter(r, "idle", WaitingSenders) /\ r \notin WaitingSenders
    BY <1>9 DEF recv_take, WaitingSenders
  <2>2. pc' \in [Threads -> {"idle", "lock", "wait", "timed_out"}]
    BY <2>1, <1>0, SignalEffect DEF WaitingSenders
  <2>3. head' \in Slots /\ tail' = (head' + count') % QueueSize
    <3>1. /\ head' = (head + 1) % QueueSize /\ count' = count - 1 /\ tail' = tail
          /\ head \in Nat /\ head < QueueSize
          /\ count \in Nat /\ 0 < count /\ count <= QueueSize
      BY <1>0, <1>9 DEF recv_take, Slots
    <3>2. tail = IF head + count < QueueSize THEN head + count ELSE head + count - QueueSize
      BY <3>1, <1>0, WrapIndex
    <3>3. (head + 1) % QueueSize = IF head + 1 < QueueSize THEN head + 1 ELSE 0
      BY <3>1, <1>0, WrapIndex
    <3>4. head' \in Slots
      BY <3>1, <3>3, <1>0 DEF Slots
    <3>5. \A h \in Nat, c \in Nat : h < QueueSize /\ c < QueueSize =>
             (h + c) % QueueSize = IF h + c < QueueSize THEN h + c ELSE h + c - QueueSize
      BY <1>0, WrapIndex
    <3>6. /\ head' \in Nat /\ head' < QueueSize
          /\ count' \in Nat /\ count' < QueueSize
      BY <3>1, <3>3, <1>0
    <3>7. (head' + count') % QueueSize =
             IF head' + count' < QueueSize THEN head' + count' ELSE head' + count' - QueueSize
      BY <3>5, <3>6
    <3>8. tail' = (head' + count') % QueueSize
      BY <3>1, <3>2, <3>3, <3>6, <3>7, <1>0
    <3> QED
      BY <3>4, <3>8
  <2> QED
    BY <2>2, <2>3, <1>0, <1>9 DEF recv_take, RecvReturns
<1>10. ASSUME NEW t \in Threads, spurious_wakeup(t) PROVE QueueTypeOK'
  BY <1>10 DEF spurious_wakeup, ringVars, callVars
<1>11. CASE queue_reset
  BY <1>0, <1>11, WrapOnce DEF queue_reset, callVars, Slots
<1>12. CASE queue_delete
  BY <1>12 DEF queue_delete, ringVars, callVars
<1>13. CASE UNCHANGED queueVars
  BY <1>13 DEF queueVars, ringVars, callVars
<1> QED
  BY <1>1, <1>2, <1>3, <1>4, <1>5, <1>6, <1>7, <1>8, <1>9, <1>10, <1>11, <1>12, <1>13
     DEF QueueNext, SendStep, RecvStep
-----------------------------------------------------------------------------
\* A sender keeps its item until it has put it.
LEMMA StepKeepsItems ==
  QueueTypeOK /\ SenderHasItem /\ [QueueNext]_queueVars => SenderHasItem'
<1> SUFFICES ASSUME QueueTypeOK, SenderHasItem, [QueueNext]_queueVars,
                    NEW u \in Senders, pc'[u] # "idle"
             PROVE  item'[u] \in Items
  BY DEF SenderHasItem
<1>0. /\ pc \in [Threads -> {"idle", "lock", "wait", "timed_out"}]
      /\ item \in [Senders -> Items \cup {Zero}]
      /\ u \in Threads /\ pc[u] # "idle" => item[u] \in Items
      /\ Senders \subseteq Threads /\ Receivers \subseteq Threads
      /\ Senders \cap Receivers = {}
  BY QueueAssumption DEF QueueTypeOK, SenderHasItem, Threads
<1>1. ASSUME NEW s \in Senders, NEW x \in Items, queue_send(s, x) PROVE item'[u] \in Items
  BY <1>0, <1>1 DEF queue_send
<1>2. ASSUME NEW s \in Senders, send_wait(s) PROVE item'[u] \in Items
  BY <1>0, <1>2 DEF send_wait, callVars
<1>3. ASSUME NEW s \in Senders, send_put(s) PROVE item'[u] \in Items
  <2>1. SignalAfter(s, "idle", WaitingReceivers) /\ s \notin WaitingReceivers
    BY <1>3 DEF send_put, WaitingReceivers
  <2>2. pc'[u] = IF u = s THEN "idle" ELSE pc[u]
    BY <1>0, <2>1, SignalEffect DEF WaitingReceivers
  <2> QED
    BY <1>0, <1>3, <2>2 DEF send_put
<1>4. ASSUME NEW r \in Receivers, NEW ms \in {"none", "timed", "forever"}, queue_recv(r, ms)
      PROVE  item'[u] \in Items
  BY <1>0, <1>4 DEF queue_recv
<1>5. ASSUME NEW r \in Receivers, recv_wait(r) PROVE item'[u] \in Items
  BY <1>0, <1>5 DEF recv_wait, callVars
<1>6. ASSUME NEW r \in Receivers, deadline(r) PROVE item'[u] \in Items
  BY <1>0, <1>6 DEF deadline
<1>7. ASSUME NEW r \in Receivers, recv_timed_out(r) PROVE item'[u] \in Items
  BY <1>0, <1>7 DEF recv_timed_out, callVars
<1>8. ASSUME NEW r \in Receivers, recv_fails(r) PROVE item'[u] \in Items
  BY <1>0, <1>8 DEF recv_fails
<1>9. ASSUME NEW r \in Receivers, recv_take(r) PROVE item'[u] \in Items
  <2>1. SignalAfter(r, "idle", WaitingSenders) /\ r \notin WaitingSenders
    BY <1>0, <1>9 DEF recv_take, WaitingSenders
  <2>2. pc[u] # "idle"
    BY <1>0, <2>1, SignalEffect DEF WaitingSenders
  <2> QED
    BY <1>0, <1>9, <2>2 DEF recv_take
<1>10. ASSUME NEW t \in Threads, spurious_wakeup(t) PROVE item'[u] \in Items
  BY <1>0, <1>10 DEF spurious_wakeup, callVars
<1>11. CASE queue_reset
  BY <1>0, <1>11 DEF queue_reset, callVars
<1>12. CASE queue_delete
  BY <1>0, <1>12 DEF queue_delete, callVars
<1>13. CASE UNCHANGED queueVars
  BY <1>0, <1>13 DEF queueVars, callVars
<1> QED
  BY <1>1, <1>2, <1>3, <1>4, <1>5, <1>6, <1>7, <1>8, <1>9, <1>10, <1>11, <1>12, <1>13
     DEF QueueNext, SendStep, RecvStep

-----------------------------------------------------------------------------
\* The threads on their way to the mutex are finitely many; one more, one less
\* and a larger set of them in numbers.
LEMMA ComingFinite ==
  ASSUME NEW T, IsFiniteSet(T), NEW C \in SUBSET T
  PROVE  /\ IsFiniteSet(C) /\ Cardinality(C) \in Nat
         /\ \A x \in C : Cardinality(C \ {x}) = Cardinality(C) - 1
         /\ \A D \in SUBSET T : C \subseteq D => Cardinality(C) <= Cardinality(D)
         /\ \A D \in SUBSET T : /\ Cardinality(D) \in Nat
                                /\ \A x \in D \ C : C \subseteq D =>
                                     Cardinality(C) + 1 <= Cardinality(D)
<1>1. IsFiniteSet(C) /\ Cardinality(C) \in Nat
  BY FS_Subset, FS_CardinalityType
<1>2. ASSUME NEW x \in C PROVE Cardinality(C \ {x}) = Cardinality(C) - 1
  BY <1>1, FS_RemoveElement
<1>3. ASSUME NEW D \in SUBSET T PROVE IsFiniteSet(D) /\ Cardinality(D) \in Nat
  BY FS_Subset, FS_CardinalityType
<1>4. ASSUME NEW D \in SUBSET T, C \subseteq D PROVE Cardinality(C) <= Cardinality(D)
  BY <1>3, <1>4, FS_Subset
<1>5. ASSUME NEW D \in SUBSET T, NEW x \in D \ C, C \subseteq D
      PROVE  Cardinality(C) + 1 <= Cardinality(D)
  <2>1. Cardinality(C \cup {x}) = Cardinality(C) + 1
    BY <1>1, <1>5, FS_AddElement
  <2>2. Cardinality(C \cup {x}) <= Cardinality(D)
    <3>1. C \cup {x} \in SUBSET D
      BY <1>5
    <3> QED
      BY <1>3, <3>1, FS_Subset
  <2> QED
    BY <2>1, <2>2
<1> QED
  BY <1>1, <1>2, <1>3, <1>4, <1>5

-----------------------------------------------------------------------------
\* The two halves of NobodyForgotten.
ReceiversServed == WaitingReceivers # {} => count <= Cardinality(ComingReceivers)
SendersServed == WaitingSenders # {} => QueueSize - count <= Cardinality(ComingSenders)

\* A step that adds no item, blocks no receiver and takes none off its way.
LEMMA ReceiversUndisturbed ==
  ASSUME ReceiversServed, count \in Nat, count' = count,
         ComingReceivers \subseteq ComingReceivers', WaitingReceivers' \subseteq WaitingReceivers
  PROVE  ReceiversServed'
<1>1. /\ IsFiniteSet(Receivers)
      /\ ComingReceivers \in SUBSET Receivers /\ ComingReceivers' \in SUBSET Receivers
  BY QueueAssumption DEF ComingReceivers
<1>2. /\ Cardinality(ComingReceivers) \in Nat /\ Cardinality(ComingReceivers') \in Nat
      /\ Cardinality(ComingReceivers) <= Cardinality(ComingReceivers')
  BY <1>1, ComingFinite
<1> QED
  BY <1>2 DEF ReceiversServed

\* The same for the senders.
LEMMA SendersUndisturbed ==
  ASSUME SendersServed, count \in Nat, count' = count,
         ComingSenders \subseteq ComingSenders', WaitingSenders' \subseteq WaitingSenders
  PROVE  SendersServed'
<1>1. /\ IsFiniteSet(Senders) /\ QueueSize \in Nat
      /\ ComingSenders \in SUBSET Senders /\ ComingSenders' \in SUBSET Senders
  BY QueueAssumption DEF ComingSenders
<1>2. /\ Cardinality(ComingSenders) \in Nat /\ Cardinality(ComingSenders') \in Nat
      /\ Cardinality(ComingSenders) <= Cardinality(ComingSenders')
  BY <1>1, ComingFinite
<1> QED
  BY <1>1, <1>2 DEF SendersServed

\* An item that is put has a receiver woken for it.
LEMMA PutServesReceivers ==
  ASSUME QueueTypeOK, ReceiversServed, NEW s \in Senders, send_put(s)
  PROVE  ReceiversServed'
<1>0. /\ pc \in [Threads -> {"idle", "lock", "wait", "timed_out"}]
      /\ count \in Nat /\ count' = count + 1
      /\ Senders \subseteq Threads /\ Receivers \subseteq Threads /\ s \notin Receivers
      /\ SignalAfter(s, "idle", WaitingReceivers) /\ s \notin WaitingReceivers
      /\ WaitingReceivers \in SUBSET Threads
  BY QueueAssumption DEF QueueTypeOK, send_put, Threads, WaitingReceivers
<1>1. CASE WaitingReceivers = {}
  <2>1. pc' = [pc EXCEPT ![s] = "idle"]
    BY <1>0, <1>1, SignalEffect
  <2>2. WaitingReceivers' = {}
    BY <1>0, <1>1, <2>1 DEF WaitingReceivers
  <2> QED
    BY <2>2 DEF ReceiversServed
<1>2. CASE WaitingReceivers # {}
  <2>1. PICK w \in WaitingReceivers :
           pc' = [u \in Threads |-> IF u = w THEN "lock" ELSE IF u = s THEN "idle" ELSE pc[u]]
    BY <1>0, <1>2, SignalEffect
  <2>2. /\ w \in ComingReceivers' \ ComingReceivers /\ ComingReceivers \subseteq ComingReceivers'
        /\ ComingReceivers \in SUBSET Receivers /\ ComingReceivers' \in SUBSET Receivers
    BY <1>0, <2>1 DEF WaitingReceivers, ComingReceivers
  <2>3. /\ Cardinality(ComingReceivers) \in Nat /\ Cardinality(ComingReceivers') \in Nat
        /\ Cardinality(ComingReceivers) + 1 <= Cardinality(ComingReceivers')
    BY <2>2, ComingFinite, QueueAssumption
  <2> QED
    BY <1>0, <1>2, <2>3 DEF ReceiversServed
<1> QED
  BY <1>1, <1>2

\* The sender that puts was one of those on their way.
LEMMA PutServesSenders ==
  ASSUME QueueTypeOK, SendersServed, NEW s \in Senders, send_put(s)
  PROVE  SendersServed'
<1>0. /\ pc \in [Threads -> {"idle", "lock", "wait", "timed_out"}]
      /\ count \in Nat /\ count' = count + 1 /\ QueueSize \in Nat /\ pc[s] = "lock"
      /\ Senders \subseteq Threads /\ Senders \cap Receivers = {}
      /\ SignalAfter(s, "idle", WaitingReceivers) /\ s \notin WaitingReceivers
      /\ WaitingReceivers \in SUBSET Threads
  BY QueueAssumption DEF QueueTypeOK, send_put, Threads, WaitingReceivers
<1>1. \A u \in Senders : pc'[u] = IF u = s THEN "idle" ELSE pc[u]
  BY <1>0, SignalEffect DEF WaitingReceivers
<1>2. /\ WaitingSenders' = WaitingSenders
      /\ ComingSenders' = ComingSenders \ {s} /\ s \in ComingSenders
      /\ ComingSenders \in SUBSET Senders
  BY <1>0, <1>1 DEF WaitingSenders, ComingSenders
<1>3. Cardinality(ComingSenders) \in Nat
      /\ Cardinality(ComingSenders') = Cardinality(ComingSenders) - 1
  BY <1>2, ComingFinite, QueueAssumption
<1> QED
  BY <1>0, <1>2, <1>3 DEF SendersServed

\* The same for a receiver that takes an item.
LEMMA TakeServesReceivers ==
  ASSUME QueueTypeOK, ReceiversServed, NEW r \in Receivers, recv_take(r)
  PROVE  ReceiversServed'
<1>0. /\ pc \in [Threads -> {"idle", "lock", "wait", "timed_out"}]
      /\ count \in Nat /\ count' = count - 1 /\ pc[r] \in {"lock", "timed_out"}
      /\ Receivers \subseteq Threads /\ Senders \cap Receivers = {}
      /\ SignalAfter(r, "idle", WaitingSenders) /\ r \notin WaitingSenders
      /\ WaitingSenders \in SUBSET Threads
  BY QueueAssumption DEF QueueTypeOK, recv_take, Threads, WaitingSenders
<1>1. \A u \in Receivers : pc'[u] = IF u = r THEN "idle" ELSE pc[u]
  BY <1>0, SignalEffect DEF WaitingSenders
<1>2. /\ WaitingReceivers' = WaitingReceivers
      /\ ComingReceivers' = ComingReceivers \ {r} /\ r \in ComingReceivers
      /\ ComingReceivers \in SUBSET Receivers
  BY <1>0, <1>1 DEF WaitingReceivers, ComingReceivers
<1>3. Cardinality(ComingReceivers) \in Nat
      /\ Cardinality(ComingReceivers') = Cardinality(ComingReceivers) - 1
  BY <1>2, ComingFinite, QueueAssumption
<1> QED
  BY <1>0, <1>2, <1>3 DEF ReceiversServed

\* A slot that is freed has a sender woken for it.
LEMMA TakeServesSenders ==
  ASSUME QueueTypeOK, SendersServed, NEW r \in Receivers, recv_take(r)
  PROVE  SendersServed'
<1>0. /\ pc \in [Threads -> {"idle", "lock", "wait", "timed_out"}]
      /\ count \in Nat /\ count' = count - 1 /\ QueueSize \in Nat
      /\ Senders \subseteq Threads /\ Receivers \subseteq Threads /\ r \notin Senders
      /\ SignalAfter(r, "idle", WaitingSenders) /\ r \notin WaitingSenders
      /\ WaitingSenders \in SUBSET Threads
  BY QueueAssumption DEF QueueTypeOK, recv_take, Threads, WaitingSenders
<1>1. CASE WaitingSenders = {}
  <2>1. pc' = [pc EXCEPT ![r] = "idle"]
    BY <1>0, <1>1, SignalEffect
  <2>2. WaitingSenders' = {}
    BY <1>0, <1>1, <2>1 DEF WaitingSenders
  <2> QED
    BY <2>2 DEF SendersServed
<1>2. CASE WaitingSenders # {}
  <2>1. PICK w \in WaitingSenders :
           pc' = [u \in Threads |-> IF u = w THEN "lock" ELSE IF u = r THEN "idle" ELSE pc[u]]
    BY <1>0, <1>2, SignalEffect
  <2>2. /\ w \in ComingSenders' \ ComingSenders /\ ComingSenders \subseteq ComingSenders'
        /\ ComingSenders \in SUBSET Senders /\ ComingSenders' \in SUBSET Senders
    BY <1>0, <2>1 DEF WaitingSenders, ComingSenders
  <2>3. /\ Cardinality(ComingSenders) \in Nat /\ Cardinality(ComingSenders') \in Nat
        /\ Cardinality(ComingSenders) + 1 <= Cardinality(ComingSenders')
    BY <2>2, ComingFinite, QueueAssumption
  <2> QED
    BY <1>0, <1>2, <2>3 DEF SendersServed
<1> QED
  BY <1>1, <1>2

\* Every step serves both sides.
LEMMA StepServes ==
  QueueInv /\ [QueueNext]_queueVars => NobodyForgotten'
<1> SUFFICES ASSUME QueueInv, [QueueNext]_queueVars PROVE ReceiversServed' /\ SendersServed'
  BY DEF NobodyForgotten, ReceiversServed, SendersServed
<1>0. /\ pc \in [Threads -> {"idle", "lock", "wait", "timed_out"}] /\ count \in Nat
      /\ QueueTypeOK /\ ReceiversServed /\ SendersServed
      /\ Senders \subseteq Threads /\ Receivers \subseteq Threads /\ Senders \cap Receivers = {}
      /\ QueueSize \in Nat
  BY QueueAssumption
     DEF QueueInv, QueueTypeOK, NobodyForgotten, ReceiversServed, SendersServed, Threads
<1> DEFINE Moved == /\ count' = count
                    /\ ComingReceivers \subseteq ComingReceivers'
                    /\ WaitingReceivers' \subseteq WaitingReceivers
                    /\ ComingSenders \subseteq ComingSenders'
                    /\ WaitingSenders' \subseteq WaitingSenders
<1> USE DEF WaitingReceivers, WaitingSenders, ComingReceivers, ComingSenders
<1>1. ASSUME NEW s \in Senders, NEW x \in Items, queue_send(s, x) PROVE Moved
  BY <1>0, <1>1 DEF queue_send, ringVars
<1>2. ASSUME NEW s \in Senders, send_wait(s) PROVE ReceiversServed' /\ SendersServed'
  <2>1. /\ count' = count /\ count = QueueSize /\ WaitingReceivers' = WaitingReceivers
        /\ ComingReceivers' = ComingReceivers
    BY <1>0, <1>2 DEF send_wait, ringVars
  <2>2. ComingSenders' \in SUBSET Senders
    OBVIOUS
  <2>3. Cardinality(ComingSenders') \in Nat
    BY <2>2, ComingFinite, QueueAssumption
  <2> QED
    BY <1>0, <2>1, <2>3 DEF ReceiversServed, SendersServed
<1>3. ASSUME NEW s \in Senders, send_put(s) PROVE ReceiversServed' /\ SendersServed'
  BY <1>0, <1>3, PutServesReceivers, PutServesSenders
<1>4. ASSUME NEW r \in Receivers, NEW ms \in {"none", "timed", "forever"}, queue_recv(r, ms)
      PROVE  Moved
  BY <1>0, <1>4 DEF queue_recv, ringVars
<1>5. ASSUME NEW r \in Receivers, recv_wait(r) PROVE ReceiversServed' /\ SendersServed'
  <2>1. /\ count' = count /\ count = 0 /\ WaitingSenders' = WaitingSenders
        /\ ComingSenders' = ComingSenders
    BY <1>0, <1>5 DEF recv_wait, ringVars
  <2>2. ComingReceivers' \in SUBSET Receivers
    OBVIOUS
  <2>3. Cardinality(ComingReceivers') \in Nat
    BY <2>2, ComingFinite, QueueAssumption
  <2> QED
    BY <1>0, <2>1, <2>3 DEF ReceiversServed, SendersServed
<1>6. ASSUME NEW r \in Receivers, deadline(r) PROVE Moved
  BY <1>0, <1>6 DEF deadline, ringVars
<1>7. ASSUME NEW r \in Receivers, recv_timed_out(r) PROVE Moved
  BY <1>0, <1>7 DEF recv_timed_out, ringVars
<1>8. ASSUME NEW r \in Receivers, recv_fails(r) PROVE ReceiversServed' /\ SendersServed'
  <2>1. /\ count' = count /\ count = 0 /\ WaitingSenders' = WaitingSenders
        /\ ComingSenders' = ComingSenders
    BY <1>0, <1>8 DEF recv_fails, ringVars
  <2>2. ComingReceivers' \in SUBSET Receivers
    OBVIOUS
  <2>3. Cardinality(ComingReceivers') \in Nat
    BY <2>2, ComingFinite, QueueAssumption
  <2> QED
    BY <1>0, <2>1, <2>3 DEF ReceiversServed, SendersServed
<1>9. ASSUME NEW r \in Receivers, recv_take(r) PROVE ReceiversServed' /\ SendersServed'
  BY <1>0, <1>9, TakeServesReceivers, TakeServesSenders
<1>10. ASSUME NEW t \in Threads, spurious_wakeup(t) PROVE Moved
  BY <1>0, <1>10 DEF spurious_wakeup, ringVars
<1>11. CASE queue_reset
  <2>1. WaitingReceivers' = {} /\ WaitingSenders' = {}
    BY <1>0, <1>11 DEF queue_reset
  <2> QED
    BY <2>1 DEF ReceiversServed, SendersServed
<1>12. CASE queue_delete
  <2>1. Moved
    BY <1>12 DEF queue_delete, ringVars
  <2> QED
    BY <1>0, <2>1, ReceiversUndisturbed, SendersUndisturbed
<1>13. CASE UNCHANGED queueVars
  <2>1. Moved
    BY <1>13 DEF queueVars, ringVars
  <2> QED
    BY <1>0, <2>1, ReceiversUndisturbed, SendersUndisturbed
<1>14. Moved => ReceiversServed' /\ SendersServed'
  BY <1>0, ReceiversUndisturbed, SendersUndisturbed
<1> HIDE DEF Moved
<1> QED
  BY <1>1, <1>2, <1>3, <1>4, <1>5, <1>6, <1>7, <1>8, <1>9, <1>10, <1>11, <1>12, <1>13, <1>14
     DEF QueueNext, SendStep, RecvStep

\* The inductive invariant holds in every state of the queue.
THEOREM QueueInvariant == QueueSpec => []QueueInv
<1>1. QueueInv /\ [QueueNext]_queueVars => QueueInv'
  BY StepKeepsQueueTypes, StepKeepsItems, StepServes DEF QueueInv
<1> QED
  BY <1>1, QueueInitEstablishesInv, PTL DEF QueueSpec

\* head, tail and count stay in the ring and agree, over any number of wraps.
THEOREM QueueTypeCorrect == QueueSpec => []QueueTypeOK
<1>1. QueueInv => QueueTypeOK
  BY DEF QueueInv
<1> QED
  BY <1>1, QueueInvariant, PTL

\* One signal for each item and each free slot is enough for any number of
\* senders and receivers.
THEOREM QueueNobodyForgotten == QueueSpec => []NobodyForgotten
<1>1. QueueInv => NobodyForgotten
  BY DEF QueueInv
<1> QED
  BY <1>1, QueueInvariant, PTL

-----------------------------------------------------------------------------
\* A ring b with c items from h on, read from the oldest item.
ReadFrom(b, h, c) == [i \in 1..c |-> b[(h + i - 1) % QueueSize]]

\* It is a sequence of c items, and reading wraps at most once.
LEMMA ReadingIsSeq ==
  ASSUME NEW b \in [Slots -> Items \cup {Zero}], NEW h \in Slots, NEW c \in 0..QueueSize
  PROVE  /\ ReadFrom(b, h, c) \in Seq(Items \cup {Zero}) /\ Len(ReadFrom(b, h, c)) = c
         /\ \A i \in 1..c :
              /\ ReadFrom(b, h, c)[i] = b[(h + i - 1) % QueueSize]
              /\ (h + i - 1) % QueueSize = IF h + i - 1 < QueueSize THEN h + i - 1
                                           ELSE h + i - 1 - QueueSize
<1>1. /\ c \in Nat /\ c <= QueueSize /\ h \in Nat /\ h < QueueSize /\ QueueSize \in Nat \ {0}
  BY QueueAssumption DEF Slots
<1>2. ASSUME NEW i \in 1..c
      PROVE  /\ (h + i - 1) % QueueSize = IF h + i - 1 < QueueSize THEN h + i - 1
                                          ELSE h + i - 1 - QueueSize
             /\ (h + i - 1) % QueueSize \in Slots
  <2> DEFINE a == h + i - 1
             k == a % QueueSize
  <2>1. a \in Nat /\ a < QueueSize + QueueSize
    BY <1>1
  <2> HIDE DEF a
  <2>2. k = IF a < QueueSize THEN a ELSE a - QueueSize
    BY <2>1, WrapIndex
  <2>3. k \in Slots
    BY <1>1, <2>1, <2>2 DEF Slots
  <2> HIDE DEF k
  <2>4. k = (h + i - 1) % QueueSize /\ a = h + i - 1
    BY DEF a, k
  <2>5. (h + i - 1) % QueueSize = IF h + i - 1 < QueueSize THEN h + i - 1
                                  ELSE h + i - 1 - QueueSize
    BY <1>1, <2>1, <2>2, <2>4
  <2>6. (h + i - 1) % QueueSize \in Slots
    BY ONLY <2>3, <2>4
  <2> QED
    BY ONLY <2>5, <2>6
<1>3. ReadFrom(b, h, c) \in [1..c -> Items \cup {Zero}]
  BY <1>1, <1>2 DEF ReadFrom
<1>4. ReadFrom(b, h, c) \in Seq(Items \cup {Zero})
  BY <1>1, <1>3
<1>5. Len(ReadFrom(b, h, c)) = c
  <2>1. /\ DOMAIN ReadFrom(b, h, c) = 1..c
        /\ Len(ReadFrom(b, h, c)) \in Nat
        /\ DOMAIN ReadFrom(b, h, c) = 1..Len(ReadFrom(b, h, c))
    BY <1>3, <1>4, LenProperties
  <2> QED
    BY <1>1, <2>1
<1> QED
  BY <1>2, <1>4, <1>5 DEF ReadFrom

\* Writing at the tail appends: no other item is in that slot.
LEMMA PuttingAppends ==
  ASSUME NEW b \in [Slots -> Items \cup {Zero}], NEW h \in Slots,
         NEW c \in 0..QueueSize, c < QueueSize, NEW x \in Items
  PROVE  ReadFrom([b EXCEPT ![(h + c) % QueueSize] = x], h, c + 1) = Append(ReadFrom(b, h, c), x)
<1> DEFINE t == (h + c) % QueueSize
           b1 == [b EXCEPT ![t] = x]
           old == ReadFrom(b, h, c)
           new == ReadFrom(b1, h, c + 1)
<1>1. /\ c \in Nat /\ h \in Nat /\ h < QueueSize /\ QueueSize \in Nat \ {0}
      /\ c + 1 \in 0..QueueSize /\ h + c \in Nat /\ h + c < QueueSize + QueueSize
  BY QueueAssumption DEF Slots
<1>2. /\ t = IF h + c < QueueSize THEN h + c ELSE h + c - QueueSize
      /\ t \in Slots
  <2>1. t = IF h + c < QueueSize THEN h + c ELSE h + c - QueueSize
    BY <1>1, WrapIndex
  <2> QED
    BY <1>1, <2>1 DEF Slots
<1>3. b1 \in [Slots -> Items \cup {Zero}] /\ b1[t] = x
      /\ \A k \in Slots : k # t => b1[k] = b[k]
  BY <1>2
<1> HIDE DEF t, b1
<1>4. /\ old \in Seq(Items \cup {Zero}) /\ Len(old) = c
      /\ \A i \in 1..c : old[i] = b[(h + i - 1) % QueueSize]
  BY ReadingIsSeq
<1>5. /\ new \in Seq(Items \cup {Zero}) /\ Len(new) = c + 1
      /\ \A i \in 1..(c + 1) : /\ new[i] = b1[(h + i - 1) % QueueSize]
                               /\ (h + i - 1) % QueueSize =
                                     IF h + i - 1 < QueueSize THEN h + i - 1
                                     ELSE h + i - 1 - QueueSize
  BY <1>1, <1>3, ReadingIsSeq
<1> HIDE DEF old, new
<1>6. /\ Append(old, x) \in Seq(Items \cup {Zero}) /\ Len(Append(old, x)) = c + 1
      /\ \A i \in 1..c : Append(old, x)[i] = old[i]
      /\ Append(old, x)[c + 1] = x
  BY <1>4, AppendProperties
<1>7. ASSUME NEW i \in 1..(c + 1) PROVE new[i] = Append(old, x)[i]
  <2>1. CASE i = c + 1
    <3>1. h + i - 1 = h + c
      BY <1>1, <2>1
    <3> QED
      BY <1>3, <1>5, <1>6, <2>1, <3>1 DEF t
  <2>2. CASE i # c + 1
    <3>1. i \in 1..c /\ i \in Nat
      BY <1>1, <2>2
    <3> DEFINE k == (h + i - 1) % QueueSize
    <3>2. k = IF h + i - 1 < QueueSize THEN h + i - 1 ELSE h + i - 1 - QueueSize
      BY <1>5
    <3>3. k # t /\ k \in Slots
      BY <1>1, <1>2, <3>1, <3>2 DEF Slots
    <3>4. new[i] = b1[k] /\ old[i] = b[k]
      BY <1>4, <1>5, <3>1
    <3> QED
      BY <1>3, <1>6, <3>1, <3>3, <3>4
  <2> QED
    BY <2>1, <2>2
<1>8. new = Append(old, x)
  BY <1>5, <1>6, <1>7, SeqEqual
<1> QED
  BY <1>8 DEF new, old, b1, t

\* Moving the head by one drops the oldest item.
LEMMA TakingDropsHead ==
  ASSUME NEW b \in [Slots -> Items \cup {Zero}], NEW h \in Slots, NEW c \in 0..QueueSize, c > 0
  PROVE  /\ ReadFrom(b, h, c) # <<>> /\ Head(ReadFrom(b, h, c)) = b[h]
         /\ ReadFrom(b, (h + 1) % QueueSize, c - 1) = Tail(ReadFrom(b, h, c))
<1> DEFINE n == (h + 1) % QueueSize
           old == ReadFrom(b, h, c)
           new == ReadFrom(b, n, c - 1)
<1>1. /\ c \in Nat /\ h \in Nat /\ h < QueueSize /\ QueueSize \in Nat \ {0}
      /\ c - 1 \in 0..QueueSize /\ 1 \in 1..c
  BY QueueAssumption DEF Slots
<1>2. n = (IF h + 1 < QueueSize THEN h + 1 ELSE h + 1 - QueueSize) /\ n \in Slots
  <2>1. n = IF h + 1 < QueueSize THEN h + 1 ELSE h + 1 - QueueSize
    BY <1>1, WrapIndex
  <2> QED
    BY <1>1, <2>1 DEF Slots
<1> HIDE DEF n
<1>3. /\ old \in Seq(Items \cup {Zero}) /\ Len(old) = c
      /\ \A i \in 1..c : /\ old[i] = b[(h + i - 1) % QueueSize]
                         /\ (h + i - 1) % QueueSize = IF h + i - 1 < QueueSize THEN h + i - 1
                                                      ELSE h + i - 1 - QueueSize
  BY ReadingIsSeq
<1>4. /\ new \in Seq(Items \cup {Zero}) /\ Len(new) = c - 1
      /\ \A i \in 1..(c - 1) : /\ new[i] = b[(n + i - 1) % QueueSize]
                               /\ (n + i - 1) % QueueSize = IF n + i - 1 < QueueSize THEN n + i - 1
                                                            ELSE n + i - 1 - QueueSize
  BY <1>1, <1>2, ReadingIsSeq
<1> HIDE DEF old, new
<1>5. old # <<>>
  BY <1>1, <1>3, EmptySeq
<1>6. Head(old) = b[h]
  <2>1. Head(old) = old[1]
    BY <1>3, <1>5
  <2>2. old[1] = b[(h + 1 - 1) % QueueSize] /\ (h + 1 - 1) % QueueSize = h
    BY <1>1, <1>3
  <2> QED
    BY <2>1, <2>2
<1>7. /\ Tail(old) \in Seq(Items \cup {Zero}) /\ Len(Tail(old)) = c - 1
      /\ \A i \in 1..(c - 1) : Tail(old)[i] = old[i + 1]
  BY <1>3, <1>5, HeadTailProperties
<1>8. ASSUME NEW i \in 1..(c - 1) PROVE new[i] = Tail(old)[i]
  <2>1. i \in Nat /\ i + 1 \in 1..c
    BY <1>1
  <2>2. new[i] = b[(n + i - 1) % QueueSize] /\ old[i + 1] = b[(h + (i + 1) - 1) % QueueSize]
    BY <1>3, <1>4, <2>1
  <2>3. (n + i - 1) % QueueSize = IF n + i - 1 < QueueSize THEN n + i - 1
                                  ELSE n + i - 1 - QueueSize
    BY <1>4
  <2>4. (h + (i + 1) - 1) % QueueSize = IF h + (i + 1) - 1 < QueueSize THEN h + (i + 1) - 1
                                        ELSE h + (i + 1) - 1 - QueueSize
    BY <1>3, <2>1
  <2>5. (n + i - 1) % QueueSize = (h + (i + 1) - 1) % QueueSize
    BY <1>1, <1>2, <2>1, <2>3, <2>4
  <2> QED
    BY <1>7, <2>2, <2>5
<1>9. new = Tail(old)
  BY <1>4, <1>7, <1>8, SeqEqual
<1> QED
  BY <1>5, <1>6, <1>9 DEF new, old, n

-----------------------------------------------------------------------------
\* An empty ring is an empty queue.
LEMMA EmptyReading ==
  ASSUME NEW b \in [Slots -> Items \cup {Zero}], NEW h \in Slots
  PROVE  ReadFrom(b, h, 0) = <<>>
<1>1. 0 \in 0..QueueSize
  BY QueueAssumption
<1>2. ReadFrom(b, h, 0) \in Seq(Items \cup {Zero}) /\ Len(ReadFrom(b, h, 0)) = 0
  BY <1>1, ReadingIsSeq
<1> QED
  BY <1>2, EmptySeq

\* send_put is Put.
LEMMA PutIsPut ==
  ASSUME QueueTypeOK, SenderHasItem, NEW s \in Senders, send_put(s)
  PROVE  \E x \in Items : Fifo!Put(x)
<1>0. /\ buffer \in [Slots -> Items \cup {Zero}] /\ head \in Slots
      /\ count \in 0..QueueSize /\ count < QueueSize /\ tail = (head + count) % QueueSize
      /\ item[s] \in Items
      /\ buffer' = [buffer EXCEPT ![tail] = item[s]] /\ head' = head /\ count' = count + 1
      /\ got' = got
  BY DEF QueueTypeOK, SenderHasItem, send_put
<1>1. /\ Contents = ReadFrom(buffer, head, count)
      /\ Contents' = ReadFrom(buffer', head', count')
  BY DEF Contents, ReadFrom
<1>2. Contents' = Append(Contents, item[s])
  BY <1>0, <1>1, PuttingAppends
<1>3. Len(Contents) < QueueSize
  BY <1>0, <1>1, ReadingIsSeq
<1> QED
  BY <1>0, <1>2, <1>3 DEF Fifo!Put

\* recv_take is Take.
LEMMA TakeIsTake ==
  ASSUME QueueTypeOK, NEW r \in Receivers, recv_take(r)
  PROVE  Fifo!Take(r)
<1>0. /\ buffer \in [Slots -> Items \cup {Zero}] /\ head \in Slots
      /\ count \in 0..QueueSize /\ count > 0
      /\ buffer' = buffer /\ head' = (head + 1) % QueueSize /\ count' = count - 1
      /\ got' = [got EXCEPT ![r] = buffer[head]]
  BY DEF QueueTypeOK, recv_take
<1>1. /\ Contents = ReadFrom(buffer, head, count)
      /\ Contents' = ReadFrom(buffer', head', count')
  BY DEF Contents, ReadFrom
<1>2. Contents # <<>> /\ Head(Contents) = buffer[head] /\ Contents' = Tail(Contents)
  BY <1>0, <1>1, TakingDropsHead
<1> QED
  BY <1>0, <1>2 DEF Fifo!Take

\* The ring of queue.c implements the bounded FIFO, for any number of senders
\* and receivers, over any number of wraps and resets.
THEOREM QueueImplementsFifo == QueueSpec => ImplementsFifo
<1>1. QueueInit => Fifo!FifoInit
  <2> SUFFICES ASSUME QueueInit PROVE Fifo!FifoInit
    OBVIOUS
  <2>1. QueueTypeOK
    BY QueueInitEstablishesInv DEF QueueInv
  <2>2. Contents = ReadFrom(buffer, head, 0)
    BY DEF Contents, ReadFrom, QueueInit
  <2>3. Contents = <<>>
    BY <2>1, <2>2, EmptyReading DEF QueueTypeOK
  <2> QED
    BY <2>3 DEF Fifo!FifoInit, QueueInit
<1>2. QueueInv /\ QueueInv' /\ [QueueNext]_queueVars => [Fifo!FifoNext]_(Fifo!fifoVars)
  <2> SUFFICES ASSUME QueueInv, QueueInv', [QueueNext]_queueVars
               PROVE  Fifo!FifoNext \/ UNCHANGED <<Contents, got>>
    BY DEF Fifo!fifoVars
  <2>0. QueueTypeOK /\ SenderHasItem /\ QueueTypeOK'
    BY DEF QueueInv
  <2> DEFINE Still == UNCHANGED <<ringVars, got>>
  <2>1. ASSUME NEW s \in Senders, NEW x \in Items, queue_send(s, x) PROVE Still
    BY <2>1 DEF queue_send
  <2>2. ASSUME NEW s \in Senders, send_wait(s) PROVE Still
    BY <2>2 DEF send_wait
  <2>3. ASSUME NEW s \in Senders, send_put(s) PROVE Fifo!FifoNext
    BY <2>0, <2>3, PutIsPut DEF Fifo!FifoNext
  <2>4. ASSUME NEW r \in Receivers, NEW ms \in {"none", "timed", "forever"}, queue_recv(r, ms)
        PROVE  Still
    BY <2>4 DEF queue_recv
  <2>5. ASSUME NEW r \in Receivers, recv_wait(r) PROVE Still
    BY <2>5 DEF recv_wait
  <2>6. ASSUME NEW r \in Receivers, deadline(r) PROVE Still
    BY <2>6 DEF deadline
  <2>7. ASSUME NEW r \in Receivers, recv_timed_out(r) PROVE Still
    BY <2>7 DEF recv_timed_out
  <2>8. ASSUME NEW r \in Receivers, recv_fails(r) PROVE Still
    BY <2>8 DEF recv_fails
  <2>9. ASSUME NEW r \in Receivers, recv_take(r) PROVE Fifo!FifoNext
    BY <2>0, <2>9, TakeIsTake DEF Fifo!FifoNext
  <2>10. ASSUME NEW t \in Threads, spurious_wakeup(t) PROVE Still
    BY <2>10 DEF spurious_wakeup
  <2>11. ASSUME queue_reset PROVE Fifo!FifoNext
    <3>1. Contents' = ReadFrom(buffer', head', 0) /\ got' = got
      BY <2>11 DEF Contents, ReadFrom, queue_reset
    <3>2. Contents' = <<>>
      BY <2>0, <3>1, EmptyReading DEF QueueTypeOK
    <3> QED
      BY <3>1, <3>2 DEF Fifo!FifoNext, Fifo!Clear
  <2>12. ASSUME queue_delete PROVE Still
    BY <2>12 DEF queue_delete
  <2>13. ASSUME UNCHANGED queueVars PROVE Still
    BY <2>13 DEF queueVars
  <2>14. Still => UNCHANGED <<Contents, got>>
    BY DEF ringVars, Contents
  <2> HIDE DEF Still
  <2> QED
    BY <2>1, <2>2, <2>3, <2>4, <2>5, <2>6, <2>7, <2>8, <2>9, <2>10, <2>11, <2>12, <2>13, <2>14
       DEF QueueNext, SendStep, RecvStep
<1> QED
  BY <1>1, <1>2, QueueInvariant, PTL DEF QueueSpec, ImplementsFifo, Fifo!FifoSpec

-----------------------------------------------------------------------------
\* The event group.

EventTypeOK == /\ bits \in SUBSET Bits
               /\ place \in [Waiters -> {"idle", "lock", "wait", "timed_out"}]
               /\ call \in [Waiters -> AnyCall]
               /\ passed \in [Waiters -> BOOLEAN]
               /\ taker \in [Bits -> SUBSET Waiters]

\* A waiter that takes a bit clears it in the same critical section, so a bit that
\* is set has not been taken since.
SetIsUntaken == \A b \in bits : taker[b] = {}

\* The inductive invariant.
EventInv == EventTypeOK /\ NoMissedEvent /\ SetIsUntaken /\ TakenOnce

-----------------------------------------------------------------------------
\* The initial states satisfy it.
LEMMA EventInitInv == EventInit => EventInv
<1> SUFFICES ASSUME EventInit PROVE EventInv
  OBVIOUS
<1>1. NoCall \in AnyCall
  BY DEF NoCall, AnyCall, Modes
<1> QED
  BY <1>1 DEF EventInit, EventInv, EventTypeOK, NoMissedEvent, SetIsUntaken, TakenOnce

\* A call that ends leaves the other threads where they are.
LEMMA ReturnTypes ==
  ASSUME EventTypeOK, NEW t \in Waiters, WaitReturns(t)
  PROVE  /\ place' \in [Waiters -> {"idle", "lock", "wait", "timed_out"}]
         /\ call' \in [Waiters -> AnyCall]
         /\ passed' \in [Waiters -> BOOLEAN]
         /\ \A u \in Waiters : place'[u] = "wait" => place[u] = "wait" /\ call'[u] = call[u]
<1>1. NoCall \in AnyCall
  BY DEF NoCall, AnyCall, Modes
<1> QED
  BY <1>1 DEF EventTypeOK, WaitReturns

\* Fewer bits meet no more conditions.
LEMMA FewerBits ==
  ASSUME EventTypeOK, NEW t \in Waiters, ~ConditionMet(t),
         bits' \subseteq bits, call'[t] = call[t]
  PROVE  ~ConditionMet(t)'
<1>1. call[t].wait \in SUBSET Bits /\ call[t].mode \in Modes
  BY DEF EventTypeOK, AnyCall
<1>2. CASE call[t].mode = "all"
  BY <1>1, <1>2 DEF ConditionMet
<1>3. CASE call[t].mode = "any"
  BY <1>1, <1>3 DEF ConditionMet
<1> QED
  BY <1>1, <1>2, <1>3 DEF Modes

-----------------------------------------------------------------------------
\* Every step keeps the types.
LEMMA EventTypes == EventInv /\ [EventNext]_eventVars => EventTypeOK'
<1> SUFFICES ASSUME EventTypeOK, [EventNext]_eventVars PROVE EventTypeOK'
  BY DEF EventInv
<1>1. ASSUME NEW mask \in SUBSET Bits, event_group_set_bit(mask) PROVE EventTypeOK'
  BY <1>1 DEF EventTypeOK, event_group_set_bit
<1>2. ASSUME NEW mask \in SUBSET Bits, event_group_clear_bit(mask) PROVE EventTypeOK'
  BY <1>2 DEF EventTypeOK, event_group_clear_bit
<1>3. ASSUME NEW t \in Waiters, NEW arguments \in Calls, event_group_wait(t, arguments)
      PROVE  EventTypeOK'
  BY <1>3, EventAssumption DEF EventTypeOK, event_group_wait
<1>4. ASSUME NEW t \in Waiters, WaitStep(t) PROVE EventTypeOK'
  <2>1. CASE wait_met(t)
    BY <2>1, ReturnTypes DEF EventTypeOK, wait_met
  <2>2. CASE wait_not_met(t)
    BY <2>2, ReturnTypes DEF EventTypeOK, wait_not_met
  <2>3. CASE wait_blocks(t)
    BY <2>3 DEF EventTypeOK, wait_blocks
  <2>4. CASE wait_times_out(t)
    BY <2>4 DEF EventTypeOK, wait_times_out
  <2>5. CASE wait_timed_out(t)
    BY <2>5, ReturnTypes DEF EventTypeOK, wait_timed_out
  <2> QED
    BY <1>4, <2>1, <2>2, <2>3, <2>4, <2>5 DEF WaitStep
<1>5. ASSUME NEW t \in Waiters, wait_deadline(t) PROVE EventTypeOK'
  BY <1>5 DEF EventTypeOK, wait_deadline
<1>6. ASSUME NEW t \in Waiters, wait_spurious_wakeup(t) PROVE EventTypeOK'
  BY <1>6 DEF EventTypeOK, wait_spurious_wakeup
<1>7. CASE UNCHANGED eventVars
  BY <1>7 DEF EventTypeOK, eventVars
<1> QED
  BY <1>1, <1>2, <1>3, <1>4, <1>5, <1>6, <1>7 DEF EventNext

\* Every step leaves only threads asleep whose condition is not met: a set wakes
\* all of them, and whatever else changes the bits clears some.
LEMMA EventAwake == EventInv /\ [EventNext]_eventVars => NoMissedEvent'
<1> SUFFICES ASSUME EventTypeOK, NoMissedEvent, [EventNext]_eventVars,
                    NEW u \in Waiters, place'[u] = "wait"
             PROVE  ~ConditionMet(u)'
  BY DEF EventInv, NoMissedEvent
<1> DEFINE Stays == place[u] = "wait" /\ bits' \subseteq bits /\ call'[u] = call[u]
<1>0. ASSUME Stays PROVE ~ConditionMet(u)'
  BY <1>0, FewerBits DEF NoMissedEvent
<1>1. ASSUME NEW mask \in SUBSET Bits, event_group_set_bit(mask) PROVE FALSE
  BY <1>1 DEF EventTypeOK, event_group_set_bit
<1>2. ASSUME NEW mask \in SUBSET Bits, event_group_clear_bit(mask) PROVE Stays
  BY <1>2 DEF EventTypeOK, event_group_clear_bit
<1>3. ASSUME NEW t \in Waiters, NEW arguments, event_group_wait(t, arguments)
      PROVE  Stays
  BY <1>3 DEF EventTypeOK, event_group_wait
<1>4. ASSUME NEW t \in Waiters, WaitStep(t) PROVE ~ConditionMet(u)'
  <2>1. CASE wait_met(t)
    BY <2>1, <1>0, ReturnTypes DEF wait_met
  <2>2. CASE wait_not_met(t)
    BY <2>2, <1>0, ReturnTypes DEF wait_not_met
  <2>3. CASE wait_blocks(t)
    <3>1. CASE u = t
      BY <2>3, <3>1 DEF wait_blocks, ConditionMet
    <3>2. CASE u # t
      BY <2>3, <3>2, <1>0 DEF EventTypeOK, wait_blocks
    <3> QED
      BY <3>1, <3>2
  <2>4. CASE wait_times_out(t)
    BY <2>4, <1>0 DEF EventTypeOK, wait_times_out
  <2>5. CASE wait_timed_out(t)
    BY <2>5, <1>0, ReturnTypes DEF wait_timed_out
  <2> QED
    BY <1>4, <2>1, <2>2, <2>3, <2>4, <2>5 DEF WaitStep
<1>5. ASSUME NEW t \in Waiters, wait_deadline(t) PROVE Stays
  BY <1>5 DEF wait_deadline
<1>6. ASSUME NEW t \in Waiters, wait_spurious_wakeup(t) PROVE Stays
  BY <1>6 DEF EventTypeOK, wait_spurious_wakeup
<1>7. CASE UNCHANGED eventVars
  BY <1>7, <1>0 DEF eventVars
<1> QED
  BY <1>0, <1>1, <1>2, <1>3, <1>4, <1>5, <1>6, <1>7 DEF EventNext

\* Every step gives a bit only to a thread that finds it set, hence untaken, and
\* that clears it at once.
LEMMA EventTaken == EventInv /\ [EventNext]_eventVars => SetIsUntaken' /\ TakenOnce'
<1> SUFFICES ASSUME EventTypeOK, SetIsUntaken, TakenOnce, [EventNext]_eventVars
             PROVE  SetIsUntaken' /\ TakenOnce'
  BY DEF EventInv
<1>1. ASSUME NEW mask \in SUBSET Bits, event_group_set_bit(mask) PROVE SetIsUntaken' /\ TakenOnce'
  BY <1>1 DEF EventTypeOK, SetIsUntaken, TakenOnce, event_group_set_bit
<1>2. ASSUME NEW t \in Waiters, wait_met(t) PROVE SetIsUntaken' /\ TakenOnce'
  <2> DEFINE Taken == (bits \cap call[t].wait) \cap call[t].clear
  <2>1. /\ bits' = bits \ call[t].clear
        /\ \A b \in Bits : taker'[b] = IF b \in Taken THEN taker[b] \cup {t} ELSE taker[b]
    BY <1>2 DEF wait_met
  <2>2. \A b \in Taken : taker[b] = {}
    BY DEF SetIsUntaken
  <2>3. SetIsUntaken'
    BY <2>1 DEF EventTypeOK, SetIsUntaken
  <2>4. TakenOnce'
    BY <2>1, <2>2 DEF TakenOnce
  <2> QED
    BY <2>3, <2>4
<1>3. ASSUME bits' \subseteq bits, taker' = taker PROVE SetIsUntaken' /\ TakenOnce'
  BY <1>3 DEF SetIsUntaken, TakenOnce
<1>4. ASSUME NEW mask \in SUBSET Bits, event_group_clear_bit(mask) PROVE SetIsUntaken' /\ TakenOnce'
  BY <1>4, <1>3 DEF event_group_clear_bit
<1>5. ASSUME NEW t \in Waiters,
             wait_not_met(t) \/ wait_blocks(t) \/ wait_times_out(t) \/ wait_timed_out(t)
               \/ wait_deadline(t) \/ wait_spurious_wakeup(t)
      PROVE  SetIsUntaken' /\ TakenOnce'
  BY <1>5, <1>3 DEF wait_not_met, wait_blocks, wait_times_out, wait_timed_out,
     wait_deadline, wait_spurious_wakeup
<1>6. ASSUME NEW t \in Waiters, NEW arguments, event_group_wait(t, arguments)
      PROVE  SetIsUntaken' /\ TakenOnce'
  BY <1>6, <1>3 DEF event_group_wait
<1>7. CASE UNCHANGED eventVars
  BY <1>7, <1>3 DEF eventVars
<1> QED
  BY <1>1, <1>2, <1>4, <1>5, <1>6, <1>7 DEF EventNext, WaitStep

-----------------------------------------------------------------------------
\* The inductive invariant holds in every state of an event group.
THEOREM EventInvariant == EventSpec => []EventInv
<1>1. EventInv /\ [EventNext]_eventVars => EventInv'
  BY EventTypes, EventAwake, EventTaken DEF EventInv
<1> QED
  BY <1>1, EventInitInv, PTL DEF EventSpec

\* A waiter whose condition is met is never left blocked in
\* pthread_cond_timedwait.
THEOREM EventNoMissed == EventSpec => []NoMissedEvent
<1>1. EventInv => NoMissedEvent
  BY DEF EventInv
<1> QED
  BY <1>1, EventInvariant, PTL

\* A bit that was set once is taken by at most one waiter that clears it.
THEOREM EventTakenOnce == EventSpec => []TakenOnce
<1>1. EventInv => TakenOnce
  BY DEF EventInv
<1> QED
  BY <1>1, EventInvariant, PTL

-----------------------------------------------------------------------------
\* The cooperative scheduler.

Callers == Runners \cup Posters

ScheduleTypeOK ==
    /\ task_queue \in Seq(Jobs) /\ accepted \in Seq(Jobs) /\ run \in Seq(Jobs)
    /\ sched \in {"up", "stopped", "freed"}
    /\ at \in [Callers -> {"idle", "test", "lock", "callback"}]
    /\ new_task \in [Posters -> Jobs \cup {NoJob}]
    /\ \A p \in Posters : at[p] = "lock" => new_task[p] \in Jobs
    /\ due \in [Runners -> Nat]

\* Without overlapping runs there is one runner, and what it saw in its test is
\* still there when it has the lock.
OneRunner ==
    "runners" \notin shared =>
        /\ \A r, s \in Runners : at[r] # "idle" /\ at[s] # "idle" => r = s
        /\ \A r \in Runners : at[r] = "lock" /\ sched = "up" => task_queue # <<>>

\* Without an overlapping schedule_destroy nobody is inside once it has begun.
NobodyInside ==
    "destroy" \notin shared /\ sched # "up" => \A t \in Callers : at[t] = "idle"

\* What was accepted has been taken, in order, or is in the list.
InOrder == /\ sched = "up" => accepted = run \o task_queue
           /\ \A r \in Runners : due[r] <= Len(accepted)

\* The inductive invariant.
ScheduleInv == /\ ScheduleTypeOK /\ OneRunner /\ NobodyInside /\ InOrder
               /\ BrokenOnlyIfShared

-----------------------------------------------------------------------------
\* The initial states satisfy it.
LEMMA ScheduleInitInv == ScheduleInit => ScheduleInv
  BY ScheduleAssumption DEF ScheduleInit, ScheduleInv, ScheduleTypeOK, Callers, OneRunner,
     NobodyInside, InOrder, BrokenOnlyIfShared

\* Moving the head of one list to the end of another keeps their concatenation.
LEMMA MoveHead ==
  ASSUME NEW S, NEW a \in Seq(S), NEW b \in Seq(S), b # <<>>
  PROVE  /\ Append(a, Head(b)) \o Tail(b) = a \o b
         /\ Head(b) \in S /\ Tail(b) \in Seq(S)
<1>1. Head(b) \in S /\ Tail(b) \in Seq(S) /\ <<Head(b)>> \in Seq(S)
  BY HeadTailProperties
<1>2. <<Head(b)>> \o Tail(b) = b
  <2>1. Len(b) \in Nat \ {0} /\ Head(b) = b[1]
    BY EmptySeq
  <2>2. SubSeq(b, 1, Len(b)) = <<b[1]>> \o SubSeq(b, 2, Len(b))
    BY <2>1, SubSeqRecursiveFirst
  <2> QED
    BY <2>1, <2>2, SubSeqFull, TailIsSubSeq
<1>3. Append(a, Head(b)) = a \o <<Head(b)>>
  BY <1>1, AppendIsConcat
<1>4. (a \o <<Head(b)>>) \o Tail(b) = a \o (<<Head(b)>> \o Tail(b))
  BY <1>1, ConcatAssociative
<1> QED
  BY <1>1, <1>2, <1>3, <1>4

\* Linking a node at the end of the list.
LEMMA LinkLast ==
  ASSUME NEW S, NEW a \in Seq(S), NEW b \in Seq(S), NEW e \in S,
         NEW c, c = a \o b
  PROVE  Append(c, e) = a \o Append(b, e)
<1>1. <<e>> \in Seq(S) /\ a \o b \in Seq(S)
  BY ConcatProperties
<1>2. Append(c, e) = (a \o b) \o <<e>>
  BY <1>1, AppendIsConcat
<1>3. Append(b, e) = b \o <<e>>
  BY AppendIsConcat
<1>4. (a \o b) \o <<e>> = a \o (b \o <<e>>)
  BY <1>1, ConcatAssociative
<1> QED
  BY <1>2, <1>3, <1>4

-----------------------------------------------------------------------------
\* A post keeps the invariant, whether its node is linked or it finds the list freed.
LEMMA PostKeepsInv ==
  ASSUME ScheduleInv, NEW p \in Posters, (\E j \in Jobs : schedule_post(p, j)) \/ post_links(p)
  PROVE  ScheduleInv'
<1> USE DEF ScheduleInv
<1>0. p \in Callers /\ p \notin Runners
  BY ScheduleAssumption DEF Callers
<1>1. ASSUME NEW j \in Jobs, schedule_post(p, j) PROVE ScheduleInv'
  BY <1>0, <1>1 DEF schedule_post, Overlaps, ScheduleTypeOK, OneRunner, NobodyInside,
     InOrder, BrokenOnlyIfShared, Callers
<1>2. ASSUME post_links(p), broken' = "freed", UNCHANGED <<task_queue, at, new_task, accepted>>,
             sched # "up"
      PROVE  ScheduleInv'
  BY <1>0, <1>2 DEF post_links, Link, ScheduleTypeOK, OneRunner, NobodyInside,
     InOrder, BrokenOnlyIfShared, Callers
<1>3. ASSUME post_links(p), task_queue' = Append(task_queue, new_task[p]),
             accepted' = Append(accepted, new_task[p]), at' = [at EXCEPT ![p] = "idle"],
             new_task' = [new_task EXCEPT ![p] = NoJob], UNCHANGED broken
      PROVE  ScheduleInv'
  <2>1. new_task[p] \in Jobs
    BY <1>3 DEF post_links, Link, ScheduleTypeOK
  <2>2. ScheduleTypeOK'
    BY <1>0, <1>3, <2>1 DEF post_links, Link, ScheduleTypeOK, Callers
  <2>3. task_queue' # <<>>
    BY <1>3, <2>1, EmptySeq, AppendProperties DEF ScheduleTypeOK
  <2>4. OneRunner' /\ NobodyInside' /\ BrokenOnlyIfShared'
    BY <1>0, <1>3, <2>3 DEF post_links, Link, ScheduleTypeOK, OneRunner, NobodyInside,
       BrokenOnlyIfShared, Callers
  <2>5. InOrder'
    <3>1. sched = "up" => accepted' = run \o task_queue'
      BY <1>3, <2>1, LinkLast DEF ScheduleTypeOK, InOrder
    <3>2. Len(accepted') = Len(accepted) + 1
      BY <1>3, <2>1, AppendProperties DEF ScheduleTypeOK
    <3>3. UNCHANGED <<sched, due, run>>
      BY <1>3 DEF post_links, Link
    <3> QED
      BY <3>1, <3>2, <3>3, LenProperties DEF ScheduleTypeOK, InOrder
  <2> QED
    BY <2>2, <2>4, <2>5
<1> QED
  BY <1>1, <1>2, <1>3 DEF post_links, Link

\* A runner outside its critical section changes no list.
LEMMA RunKeepsInv ==
  ASSUME ScheduleInv, NEW r \in Runners, schedule_run(r) \/ run_tests(r) \/ run_called(r)
  PROVE  ScheduleInv'
<1> USE DEF ScheduleInv
<1>0. r \in Callers /\ r \notin Posters
  BY ScheduleAssumption DEF Callers
<1>1. CASE schedule_run(r)
  <2>1. Len(accepted) \in Nat
    BY LenProperties DEF ScheduleTypeOK
  <2>2. \A s \in Runners : at[s] # "idle" => "runners" \in shared'
    BY <1>1 DEF schedule_run, Busy
  <2>3. ScheduleTypeOK' /\ InOrder'
    BY <1>0, <1>1, <2>1 DEF schedule_run, ScheduleTypeOK, InOrder, Callers
  <2>4. OneRunner'
    BY <1>0, <1>1, <2>2 DEF schedule_run, ScheduleTypeOK, OneRunner, Callers
  <2>5. NobodyInside' /\ BrokenOnlyIfShared'
    BY <1>1 DEF schedule_run, Overlaps, ScheduleTypeOK, NobodyInside, BrokenOnlyIfShared
  <2> QED
    BY <2>3, <2>4, <2>5
<1>2. CASE run_tests(r)
  BY <1>0, <1>2 DEF run_tests, ScheduleTypeOK, OneRunner, NobodyInside, InOrder,
     BrokenOnlyIfShared, Callers
<1>3. CASE run_called(r)
  BY <1>0, <1>3 DEF run_called, ScheduleTypeOK, OneRunner, NobodyInside, InOrder,
     BrokenOnlyIfShared, Callers
<1> QED
  BY <1>1, <1>2, <1>3

\* The critical section of a runner takes the head; it finds an empty list only
\* after another runner, and a freed one only after schedule_destroy.
LEMMA TakeKeepsInv ==
  ASSUME ScheduleInv, NEW r \in Runners, run_takes(r)
  PROVE  ScheduleInv'
<1> USE DEF ScheduleInv
<1>0. r \in Callers /\ r \notin Posters
  BY ScheduleAssumption DEF Callers
<1>1. CASE sched # "up" \/ task_queue = <<>>
  BY <1>0, <1>1 DEF run_takes, ScheduleTypeOK, OneRunner, NobodyInside, InOrder,
     BrokenOnlyIfShared, Callers
<1>2. CASE sched = "up" /\ task_queue # <<>>
  <2>1. /\ task_queue' = Tail(task_queue) /\ run' = Append(run, Head(task_queue))
        /\ at' = [at EXCEPT ![r] = "callback"]
        /\ UNCHANGED <<sched, new_task, due, accepted, shared, broken>>
    BY <1>2 DEF run_takes
  <2>2. /\ run' \o task_queue' = run \o task_queue
        /\ task_queue' \in Seq(Jobs) /\ run' \in Seq(Jobs)
    BY <1>2, <2>1, MoveHead, AppendProperties DEF ScheduleTypeOK
  <2>3. ScheduleTypeOK' /\ InOrder' /\ BrokenOnlyIfShared'
    BY <1>0, <2>1, <2>2 DEF ScheduleTypeOK, InOrder, BrokenOnlyIfShared, Callers
  <2>4. OneRunner' /\ NobodyInside'
    BY <1>0, <1>2, <2>1 DEF run_takes, ScheduleTypeOK, OneRunner, NobodyInside, Callers
  <2> QED
    BY <2>3, <2>4
<1> QED
  BY <1>1, <1>2

\* schedule_destroy overlaps whoever is inside when it stops the scheduler.
LEMMA DestroyKeepsInv ==
  ASSUME ScheduleInv, schedule_destroy \/ destroy_frees
  PROVE  ScheduleInv'
<1> USE DEF ScheduleInv
<1>1. CASE schedule_destroy
  <2>1. \A t \in Callers : at[t] # "idle" => "destroy" \in shared'
    BY <1>1 DEF schedule_destroy, Busy, Callers
  <2>2. shared \subseteq shared' /\ ("runners" \in shared' <=> "runners" \in shared)
    BY <1>1 DEF schedule_destroy
  <2> QED
    BY <1>1, <2>1, <2>2 DEF schedule_destroy, ScheduleTypeOK, OneRunner, NobodyInside,
       InOrder, BrokenOnlyIfShared
<1>2. CASE destroy_frees
  BY <1>2 DEF destroy_frees, ScheduleTypeOK, OneRunner, NobodyInside, InOrder,
     BrokenOnlyIfShared
<1> QED
  BY <1>1, <1>2

\* The inductive step.
LEMMA ScheduleStepKeepsInv == ScheduleInv /\ [ScheduleNext]_scheduleVars => ScheduleInv'
<1> SUFFICES ASSUME ScheduleInv, [ScheduleNext]_scheduleVars PROVE ScheduleInv'
  OBVIOUS
<1>1. CASE ScheduleNext
  BY <1>1, PostKeepsInv, RunKeepsInv, TakeKeepsInv, DestroyKeepsInv DEF ScheduleNext
<1>2. CASE UNCHANGED scheduleVars
  BY <1>2 DEF scheduleVars, ScheduleInv, ScheduleTypeOK, OneRunner, NobodyInside, InOrder,
     BrokenOnlyIfShared
<1> QED
  BY <1>1, <1>2

-----------------------------------------------------------------------------
\* The inductive invariant holds in every state of the scheduler.
THEOREM ScheduleInvariant == ScheduleSpec => []ScheduleInv
  BY ScheduleInitInv, ScheduleStepKeepsInv, PTL DEF ScheduleSpec

\* schedule_run dereferences NULL only beside another schedule_run, and freed
\* memory is used only beside schedule_destroy, for any number of threads.
THEOREM ScheduleBroken == ScheduleSpec => []BrokenOnlyIfShared
<1>1. ScheduleInv => BrokenOnlyIfShared
  BY DEF ScheduleInv
<1> QED
  BY <1>1, ScheduleInvariant, PTL

\* A schedule_run that returns while the scheduler is up has taken everything that
\* was posted when it was called, in the order of the posts.
THEOREM ScheduleDrains == ScheduleSpec => RunDrains
<1> DEFINE Drained(r) == at[r] = "test" /\ at'[r] = "idle" /\ sched = "up"
                           => /\ due[r] <= Len(run)
                              /\ SubSeq(run, 1, due[r]) = SubSeq(accepted, 1, due[r])
<1>1. ScheduleInv /\ [ScheduleNext]_scheduleVars => [\A r \in Runners : Drained(r)]_scheduleVars
  <2> SUFFICES ASSUME ScheduleInv, ScheduleNext, NEW r \in Runners,
                      at[r] = "test", at'[r] = "idle", sched = "up"
               PROVE  due[r] <= Len(run) /\ run = accepted
    OBVIOUS
  <2>1. r \in Callers /\ r \notin Posters /\ at \in [Callers -> {"idle", "test", "lock", "callback"}]
    BY ScheduleAssumption DEF Callers, ScheduleInv, ScheduleTypeOK
  <2>2. run_tests(r)
    BY <2>1 DEF ScheduleNext, post_links, Link, schedule_post, schedule_run, run_tests,
       run_takes, run_called, schedule_destroy, destroy_frees, Callers
  <2>3. task_queue = <<>>
    BY <2>1, <2>2 DEF run_tests
  <2>4. run = accepted
    BY <2>3, ConcatEmptySeq DEF ScheduleInv, ScheduleTypeOK, InOrder
  <2> QED
    BY <2>4 DEF ScheduleInv, InOrder
<1> QED
  BY <1>1, ScheduleInvariant, PTL DEF ScheduleSpec, RunDrains
=============================================================================
