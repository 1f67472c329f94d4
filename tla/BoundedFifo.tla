------------------------------ MODULE BoundedFifo ------------------------------
(***************************************************************************)
(* What the scheduler relies on when it uses a C_Queue (circular_queue.h): *)
(* a first-in first-out queue of at most MAX_SIZE pointers, to which       *)
(* enqueue adds in silence, or not at all.                                 *)
(***************************************************************************)
EXTENDS Naturals, Sequences

CONSTANTS Data, NULL, MAX_SIZE

VARIABLES
  items,  \* the queued pointers, front first
  ret     \* what the last dequeue, front or rear returned

vars == <<items, ret>>

Init == items = <<>> /\ ret = NULL

Enqueue(data) ==
  /\ items' = IF Len(items) = MAX_SIZE THEN items ELSE Append(items, data)
  /\ UNCHANGED ret

Dequeue ==
  \/ items = <<>> /\ ret' = NULL /\ UNCHANGED items
  \/ items # <<>> /\ ret' = Head(items) /\ items' = Tail(items)

Front ==
  /\ ret' = IF items = <<>> THEN NULL ELSE Head(items)
  /\ UNCHANGED items

Rear ==
  /\ ret' = IF items = <<>> THEN NULL ELSE items[Len(items)]
  /\ UNCHANGED items

Next == (\E data \in Data : Enqueue(data)) \/ Dequeue \/ Front \/ Rear

Spec == Init /\ [][Next]_vars
=============================================================================
