----------------------------- MODULE CircularQueue -----------------------------
(***************************************************************************)
(* The ring buffer of circular_queue.c, field by field.  An empty queue    *)
(* has front = rear = -1; taking the last element initialises it again.    *)
(* A definition named ...Bug is a plausible slip in the definition that    *)
(* follows it; no action uses it.                                          *)
(***************************************************************************)
EXTENDS Integers, Sequences

CONSTANTS
  Data,     \* the pointers that are queued
  NULL,
  MAX_SIZE  \* MAX_SIZE of types.h

ASSUME RingAssumption == MAX_SIZE \in Nat \ {0} /\ NULL \notin Data

VARIABLES
  elem, front, rear, no_elem,  \* the fields of C_Queue
  ret                          \* what the last dequeue, front or rear returned

vars == <<elem, front, rear, no_elem, ret>>

Index == 0..(MAX_SIZE - 1)

is_full == no_elem = MAX_SIZE
is_empty == no_elem = 0

init_queue ==
  /\ front' = -1 /\ rear' = -1 /\ no_elem' = 0
  /\ elem' = [i \in Index |-> NULL]

\* init_queue is the first thing that happens to a C_Queue.
Init ==
  /\ front = -1 /\ rear = -1 /\ no_elem = 0
  /\ elem = [i \in Index |-> NULL]
  /\ ret = NULL

\* The index wraps one position early, and the last one is never used.
SuccBug(i) == (i + 1) % (MAX_SIZE - 1)

Succ(i) == (i + 1) % MAX_SIZE

\* No special case for the empty queue.
EnqueueBug(data) ==
  /\ \/ is_full /\ UNCHANGED <<elem, front, rear, no_elem>>
     \/ /\ ~is_full
        /\ rear' = Succ(rear)
        /\ elem' = [elem EXCEPT ![Succ(rear)] = data]
        /\ no_elem' = no_elem + 1
        /\ UNCHANGED front
  /\ UNCHANGED ret

Enqueue(data) ==
  /\ \/ is_full /\ UNCHANGED <<elem, front, rear, no_elem>>
     \/ /\ ~is_full /\ is_empty
        /\ front' = 0 /\ rear' = 0 /\ no_elem' = 1
        /\ elem' = [elem EXCEPT ![0] = data]
     \/ /\ ~is_full /\ ~is_empty
        /\ rear' = Succ(rear)
        /\ elem' = [elem EXCEPT ![Succ(rear)] = data]
        /\ no_elem' = no_elem + 1
        /\ UNCHANGED front
  /\ UNCHANGED ret

Dequeue ==
  \/ is_empty /\ ret' = NULL /\ UNCHANGED <<elem, front, rear, no_elem>>
  \/ ~is_empty /\ no_elem = 1 /\ ret' = elem[front] /\ init_queue
  \/ /\ ~is_empty /\ no_elem # 1
     /\ ret' = elem[front]
     /\ front' = Succ(front)
     /\ no_elem' = no_elem - 1
     /\ UNCHANGED <<elem, rear>>

Front ==
  /\ ret' = IF is_empty THEN NULL ELSE elem[front]
  /\ UNCHANGED <<elem, front, rear, no_elem>>

Rear ==
  /\ ret' = IF is_empty THEN NULL ELSE elem[rear]
  /\ UNCHANGED <<elem, front, rear, no_elem>>

Next == (\E data \in Data : Enqueue(data)) \/ Dequeue \/ Front \/ Rear

Spec == Init /\ [][Next]_vars

-----------------------------------------------------------------------------
\* The two ends and the count agree: the elements are the no_elem positions
\* from front to rear around the ring, and none of them is empty.
RingInv ==
  /\ no_elem \in 0..MAX_SIZE /\ ret \in Data \cup {NULL}
  /\ elem \in [Index -> Data \cup {NULL}]
  /\ IF no_elem = 0
     THEN front = -1 /\ rear = -1
     ELSE /\ front \in Index /\ rear \in Index
          /\ rear = (front + no_elem - 1) % MAX_SIZE
          /\ \A k \in 0..(no_elem - 1) : elem[(front + k) % MAX_SIZE] \in Data

\* The sequence a C_Queue stands for.
Contents == [k \in 1..no_elem |-> elem[(front + k - 1) % MAX_SIZE]]

Fifo == INSTANCE BoundedFifo WITH items <- Contents

\* The ring is a bounded FIFO: nothing is lost, duplicated or reordered when
\* it wraps, runs full or runs empty.
ImplementsFifo == Fifo!Spec
=============================================================================
