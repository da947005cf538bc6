-------------------------------- MODULE FIFO --------------------------------
(***************************************************************************)
(* The promise of a bounded first-in first-out buffer, as callers of       *)
(* ms_ring and ms_task_queue rely on it.  Every operation is a call that   *)
(* returns: out is the item the last call was about, NoItem when the call  *)
(* returned NULL (the buffer was full or empty).                           *)
(***************************************************************************)
EXTENDS Naturals, Sequences

CONSTANTS
  Items,     \* the items that can be stored
  NoItem,    \* stands for a NULL result
  Capacity   \* how many items fit

VARIABLES
  queue,     \* the stored items, oldest first
  out        \* what the last call returned

Init ==
  /\ queue = << >>
  /\ out = NoItem

Enqueue(item) ==
  /\ Len(queue) < Capacity
  /\ queue' = Append(queue, item)
  /\ out' = item

EnqueueFull ==
  /\ Len(queue) = Capacity
  /\ out' = NoItem
  /\ UNCHANGED queue

Dequeue ==
  /\ queue # << >>
  /\ out' = Head(queue)
  /\ queue' = Tail(queue)

DequeueEmpty ==
  /\ queue = << >>
  /\ out' = NoItem
  /\ UNCHANGED queue

Next ==
  \/ \E item \in Items : Enqueue(item)
  \/ EnqueueFull
  \/ Dequeue
  \/ DequeueEmpty

Spec == Init /\ [][Next]_<<queue, out>>
=============================================================================
