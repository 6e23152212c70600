---------------------------- MODULE BoundedFifo ----------------------------
(***************************************************************************)
(* What the queue of core/posix/queue.c promises: a first-in first-out     *)
(* store of at most QueueSize items that can be emptied at once.           *)
(***************************************************************************)
EXTENDS Naturals, Sequences

CONSTANTS Items,      \* what may be stored
          Receivers,  \* who takes items
          QueueSize,  \* queue_size
          Zero        \* nothing taken yet

VARIABLES items,      \* what is stored, oldest first
          got         \* receiver -> the item it took last

fifoVars == <<items, got>>

FifoInit == items = <<>> /\ got = [r \in Receivers |-> Zero]

Put(x) == /\ Len(items) < QueueSize
          /\ items' = Append(items, x)
          /\ UNCHANGED got

Take(r) == /\ items # <<>>
           /\ got' = [got EXCEPT ![r] = Head(items)]
           /\ items' = Tail(items)

Clear == items' = <<>> /\ UNCHANGED got

FifoNext == \/ \E x \in Items : Put(x)
            \/ \E r \in Receivers : Take(r)
            \/ Clear

FifoSpec == FifoInit /\ [][FifoNext]_fifoVars
=============================================================================
