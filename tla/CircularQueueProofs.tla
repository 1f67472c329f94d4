-------------------------- MODULE CircularQueueProofs --------------------------
(***************************************************************************)
(* The ring of circular_queue.c is a bounded FIFO for every MAX_SIZE: its  *)
(* shape is an invariant, and each of its operations does to the sequence  *)
(* it stands for what BoundedFifo says.                                    *)
(***************************************************************************)
EXTENDS CircularQueue, TLAPS

\* Around the ring: an offset of less than two turns wraps at most once.
LEMMA Wrap ==
  \A x \in Nat : x < 2 * MAX_SIZE =>
    /\ x % MAX_SIZE = IF x < MAX_SIZE THEN x ELSE x - MAX_SIZE
    /\ x % MAX_SIZE \in Index
BY RingAssumption DEF Index

\* The slot at offset j from i is j slots on, or has wrapped.
LEMMA Slot ==
  ASSUME NEW i \in Index, NEW j \in 0..MAX_SIZE
  PROVE  /\ (i + j) % MAX_SIZE = IF i + j < MAX_SIZE THEN i + j ELSE i + j - MAX_SIZE
         /\ (i + j) % MAX_SIZE \in Index
<1>1. i + j \in Nat /\ i + j < 2 * MAX_SIZE
  BY RingAssumption DEF Index
<1>2. PICK x \in Nat : x = i + j
  BY <1>1
<1>3. x < 2 * MAX_SIZE
  BY <1>1, <1>2
<1>4. /\ x % MAX_SIZE = IF x < MAX_SIZE THEN x ELSE x - MAX_SIZE
      /\ x % MAX_SIZE \in Index
  BY <1>3, Wrap, Zenon
<1> DEFINE a == (i + j) % MAX_SIZE
           b == x % MAX_SIZE
<1>5. a = b
  BY <1>2
<1>6. b = (IF x < MAX_SIZE THEN x ELSE x - MAX_SIZE) /\ b \in Index
  BY <1>4
<1> HIDE DEF a, b
<1>7. a = (IF i + j < MAX_SIZE THEN i + j ELSE i + j - MAX_SIZE) /\ a \in Index
  BY <1>2, <1>5, <1>6, RingAssumption DEF Index
<1>8. QED
  BY <1>7, Zenon DEF a

\* Different offsets of less than a turn are different slots.
LEMMA SlotsDiffer ==
  ASSUME NEW i \in Index, NEW j \in 0..(MAX_SIZE - 1), NEW k \in 0..(MAX_SIZE - 1), j # k
  PROVE  (i + j) % MAX_SIZE # (i + k) % MAX_SIZE
<1>1. j \in 0..MAX_SIZE /\ k \in 0..MAX_SIZE
  BY RingAssumption
<1>2. /\ (i + j) % MAX_SIZE = IF i + j < MAX_SIZE THEN i + j ELSE i + j - MAX_SIZE
      /\ (i + k) % MAX_SIZE = IF i + k < MAX_SIZE THEN i + k ELSE i + k - MAX_SIZE
  BY <1>1, Slot
<1> DEFINE a == (i + j) % MAX_SIZE
           b == (i + k) % MAX_SIZE
<1>3. /\ a = IF i + j < MAX_SIZE THEN i + j ELSE i + j - MAX_SIZE
      /\ b = IF i + k < MAX_SIZE THEN i + k ELSE i + k - MAX_SIZE
  BY <1>2
<1> HIDE DEF a, b
<1>4. a # b
  BY <1>3, RingAssumption DEF Index
<1>5. QED
  BY <1>4 DEF a, b

\* A step of the rear.
LEMMA RearStep ==
  ASSUME NEW f \in Index, NEW n \in 1..MAX_SIZE
  PROVE  Succ((f + n - 1) % MAX_SIZE) = (f + n) % MAX_SIZE
<1>1. n - 1 \in 0..MAX_SIZE /\ n \in 0..MAX_SIZE /\ f + n - 1 = f + (n - 1)
  BY RingAssumption DEF Index
<1>2. PICK r \in Index : /\ r = (f + n - 1) % MAX_SIZE
                         /\ r = IF f + n - 1 < MAX_SIZE THEN f + n - 1 ELSE f + n - 1 - MAX_SIZE
  BY <1>1, Slot
<1>3. 1 \in 0..MAX_SIZE
  BY RingAssumption
<1>4. Succ(r) = IF r + 1 < MAX_SIZE THEN r + 1 ELSE r + 1 - MAX_SIZE
  BY <1>3, Slot DEF Succ
<1>5. (f + n) % MAX_SIZE = IF f + n < MAX_SIZE THEN f + n ELSE f + n - MAX_SIZE
  BY <1>1, Slot
<1>6. QED
  BY <1>2, <1>4, <1>5, RingAssumption DEF Index

\* A step of the front.
LEMMA FrontStep ==
  ASSUME NEW f \in Index, NEW k \in 0..(MAX_SIZE - 1)
  PROVE  Succ(f) \in Index /\ (Succ(f) + k) % MAX_SIZE = (f + (k + 1)) % MAX_SIZE
<1>1. 1 \in 0..MAX_SIZE /\ k \in 0..MAX_SIZE /\ k + 1 \in 0..MAX_SIZE
  BY RingAssumption
<1>2. Succ(f) \in Index /\ Succ(f) = IF f + 1 < MAX_SIZE THEN f + 1 ELSE f + 1 - MAX_SIZE
  BY <1>1, Slot DEF Succ
<1>3. (Succ(f) + k) % MAX_SIZE =
        IF Succ(f) + k < MAX_SIZE THEN Succ(f) + k ELSE Succ(f) + k - MAX_SIZE
  BY <1>1, <1>2, Slot
<1>4. (f + (k + 1)) % MAX_SIZE =
        IF f + (k + 1) < MAX_SIZE THEN f + (k + 1) ELSE f + (k + 1) - MAX_SIZE
  BY <1>1, Slot
<1>5. QED
  BY <1>2, <1>3, <1>4, RingAssumption DEF Index

-----------------------------------------------------------------------------
\* init_queue leaves a well-formed empty ring.
LEMMA RingInit == Init => RingInv
BY RingAssumption DEF Init, RingInv, Index

\* enqueue keeps the ring well formed: empty, in the middle, wrapping and full.
LEMMA RingEnqueue ==
  ASSUME RingInv, NEW data \in Data, Enqueue(data)
  PROVE  RingInv'
<1>1. CASE is_full
  BY <1>1 DEF RingInv, Enqueue
<1>2. CASE ~is_full /\ is_empty
  <2>1. 0 \in Index /\ 0 % MAX_SIZE = 0
    BY RingAssumption, Wrap DEF Index
  <2>2. /\ front' = 0 /\ rear' = 0 /\ no_elem' = 1 /\ ret' = ret
        /\ elem' = [elem EXCEPT ![0] = data]
    BY <1>2 DEF Enqueue
  <2>3. (front' + no_elem' - 1) % MAX_SIZE = 0
    BY <2>1, <2>2
  <2>4. \A k \in 0..(no_elem' - 1) : elem'[(front' + k) % MAX_SIZE] \in Data
    BY <2>1, <2>2 DEF RingInv
  <2>5. QED
    BY <2>1, <2>2, <2>3, <2>4, RingAssumption DEF RingInv
<1>3. CASE ~is_full /\ ~is_empty
  <2>1. /\ rear' = Succ(rear) /\ no_elem' = no_elem + 1 /\ front' = front /\ ret' = ret
        /\ elem' = [elem EXCEPT ![Succ(rear)] = data]
    BY <1>3 DEF Enqueue
  <2>2. /\ front \in Index /\ rear \in Index /\ no_elem \in 1..(MAX_SIZE - 1)
        /\ rear = (front + no_elem - 1) % MAX_SIZE
        /\ \A k \in 0..(no_elem - 1) : elem[(front + k) % MAX_SIZE] \in Data
        /\ elem \in [Index -> Data \cup {NULL}]
        /\ ret \in Data \cup {NULL}
    BY <1>3, RingAssumption DEF RingInv, is_full, is_empty
  <2>3. rear' = (front + no_elem) % MAX_SIZE
    <3>1. no_elem \in 1..MAX_SIZE
      BY <2>2, RingAssumption
    <3>2. Succ((front + no_elem - 1) % MAX_SIZE) = (front + no_elem) % MAX_SIZE
      BY <2>2, <3>1, RearStep
    <3>3. QED
      BY <2>1, <2>2, <3>2
  <2>4. rear' \in Index
    BY <2>2, <2>3, Wrap, RingAssumption DEF Index
  <2>5. elem' \in [Index -> Data \cup {NULL}]
    BY <2>1, <2>2, <2>4
  <2>6. \A k \in 0..no_elem : elem'[(front + k) % MAX_SIZE] \in Data
    <3> TAKE k \in 0..no_elem
    <3>1. k \in 0..(MAX_SIZE - 1) /\ (front + k) % MAX_SIZE \in Index
      BY <2>2, Wrap, RingAssumption DEF Index
    <3>2. CASE k = no_elem
      BY <3>1, <3>2, <2>1, <2>2, <2>3
    <3>3. CASE k # no_elem
      <4>1. no_elem \in 0..(MAX_SIZE - 1) /\ k \in 0..(no_elem - 1)
        BY <2>2, <3>3, RingAssumption
      <4>2. (front + k) % MAX_SIZE # (front + no_elem) % MAX_SIZE
        BY <2>2, <3>1, <3>3, <4>1, SlotsDiffer
      <4>3. elem'[(front + k) % MAX_SIZE] = elem[(front + k) % MAX_SIZE]
        BY <2>1, <2>2, <2>3, <3>1, <4>2
      <4>4. QED
        BY <2>2, <4>1, <4>3
    <3>4. QED
      BY <3>2, <3>3
  <2>7. /\ no_elem' \in 1..MAX_SIZE /\ no_elem' - 1 = no_elem
        /\ front' + no_elem' - 1 = front + no_elem
    BY <2>1, <2>2, RingAssumption DEF Index
  <2>8. QED
    BY <2>1, <2>2, <2>3, <2>4, <2>5, <2>6, <2>7 DEF RingInv
<1>4. QED
  BY <1>1, <1>2, <1>3

\* dequeue does, down to the last element.
LEMMA RingDequeue ==
  ASSUME RingInv, Dequeue
  PROVE  RingInv'
<1>1. CASE is_empty
  BY <1>1 DEF RingInv, Dequeue, is_empty
<1>2. CASE ~is_empty /\ no_elem = 1
  <2>1. front \in Index /\ elem[(front + 0) % MAX_SIZE] \in Data /\ ret' = elem[front]
    BY <1>2 DEF RingInv, Dequeue, is_empty
  <2>2. front + 0 = front /\ front % MAX_SIZE = front
    BY <2>1, RingAssumption, Wrap DEF Index
  <2>3. QED
    BY <1>2, <2>1, <2>2, RingAssumption DEF RingInv, Dequeue, is_empty, init_queue
<1>3. CASE ~is_empty /\ no_elem # 1
  <2>1. /\ ret' = elem[front] /\ front' = Succ(front) /\ no_elem' = no_elem - 1
        /\ elem' = elem /\ rear' = rear
    BY <1>3 DEF Dequeue
  <2>2. /\ front \in Index /\ rear \in Index /\ no_elem \in 2..MAX_SIZE
        /\ rear = (front + no_elem - 1) % MAX_SIZE
        /\ \A k \in 0..(no_elem - 1) : elem[(front + k) % MAX_SIZE] \in Data
        /\ elem \in [Index -> Data \cup {NULL}]
    BY <1>3, RingAssumption DEF RingInv, is_empty
  <2>3. Succ(front) \in Index
    <3>1. 0 \in 0..(MAX_SIZE - 1)
      BY RingAssumption
    <3>2. QED
      BY <2>2, <3>1, FrontStep
  <2>4. \A k \in 0..(no_elem - 2) : (Succ(front) + k) % MAX_SIZE = (front + (k + 1)) % MAX_SIZE
    BY <2>2, FrontStep, RingAssumption
  <2>5. rear' = (front' + no_elem' - 1) % MAX_SIZE
    <3>1. no_elem - 2 \in 0..(no_elem - 2) /\ front + ((no_elem - 2) + 1) = front + no_elem - 1
      BY <2>2 DEF Index
    <3>2. front' + no_elem' - 1 = Succ(front) + (no_elem - 2)
      BY <2>1, <2>2, <2>3 DEF Index
    <3>3. QED
      BY <2>1, <2>2, <2>4, <3>1, <3>2
  <2>6. \A k \in 0..(no_elem' - 1) : elem'[(front' + k) % MAX_SIZE] \in Data
    <3> TAKE k \in 0..(no_elem' - 1)
    <3>1. k \in 0..(no_elem - 2) /\ k + 1 \in 0..(no_elem - 1)
      BY <2>1, <2>2
    <3>2. QED
      BY <2>1, <2>2, <2>4, <3>1
  <2>7. ret' \in Data \cup {NULL}
    BY <2>1, <2>2
  <2>8. no_elem' \in 1..MAX_SIZE
    BY <2>1, <2>2, RingAssumption
  <2>9. QED
    BY <2>1, <2>2, <2>3, <2>5, <2>6, <2>7, <2>8 DEF RingInv
<1>4. QED
  BY <1>1, <1>2, <1>3

\* The two ends and the count of a C_Queue always agree, and the slots
\* between the ends are filled: enqueue and dequeue keep the ring in shape.
THEOREM RingShape == Spec => []RingInv
<1>1. RingInv /\ [Next]_vars => RingInv'
  <2> SUFFICES ASSUME RingInv, [Next]_vars PROVE RingInv'
    OBVIOUS
  <2>1. ASSUME NEW data \in Data, Enqueue(data) PROVE RingInv'
    BY <2>1, RingEnqueue
  <2>2. CASE Dequeue
    BY <2>2, RingDequeue
  <2>3. CASE Front
    BY <2>3 DEF RingInv, Front, is_empty
  <2>4. CASE Rear
    BY <2>4 DEF RingInv, Rear, is_empty
  <2>5. CASE UNCHANGED vars
    BY <2>5 DEF RingInv, vars
  <2>6. QED
    BY <2>1, <2>2, <2>3, <2>4, <2>5 DEF Next
<1>2. QED
  BY RingInit, <1>1, PTL DEF Spec

-----------------------------------------------------------------------------
\* The elements of the sequence are found around the ring.
ContentsShape ==
  /\ Contents \in Seq(Data) /\ Len(Contents) = no_elem
  /\ no_elem \in Nat
  /\ \A k \in 1..no_elem : Contents[k] = elem[(front + (k - 1)) % MAX_SIZE]

\* A ring in shape stands for a sequence of its no_elem elements.
LEMMA ContentsType == RingInv => ContentsShape
<1> SUFFICES ASSUME RingInv PROVE ContentsShape
  OBVIOUS
<1>1. no_elem \in Nat
  BY DEF RingInv
<1>2. ASSUME NEW k \in 1..no_elem
      PROVE  /\ Contents[k] = elem[(front + (k - 1)) % MAX_SIZE]
             /\ Contents[k] \in Data
  <2>1. front \in Index /\ k - 1 \in 0..(no_elem - 1)
    BY <1>1, <1>2 DEF RingInv
  <2>2. front + k - 1 = front + (k - 1)
    BY <1>1, <1>2, <2>1 DEF Index
  <2>3. Contents[k] = elem[(front + (k - 1)) % MAX_SIZE]
    BY <2>2, Zenon DEF Contents
  <2>4. elem[(front + (k - 1)) % MAX_SIZE] \in Data
    BY <2>1 DEF RingInv
  <2>5. QED
    BY <2>3, <2>4
<1>3. Contents = [k \in 1..no_elem |-> Contents[k]]
  BY DEF Contents
<1>4. QED
  BY <1>1, <1>2, <1>3 DEF ContentsShape

\* A filled ring has a first and a last slot, the ends of the sequence.
LEMMA Ends ==
  ASSUME RingInv, ~is_empty
  PROVE  Contents # <<>> /\ Head(Contents) = elem[front] /\ Contents[no_elem] = elem[rear]
<1>1. no_elem \in Nat \ {0} /\ front \in Index /\ rear = (front + no_elem - 1) % MAX_SIZE
  BY DEF RingInv, is_empty
<1>2. 1 \in 1..no_elem /\ no_elem \in 1..no_elem
  BY <1>1
<1>3. front + (1 - 1) = front /\ front % MAX_SIZE = front
  BY <1>1, RingAssumption, Wrap DEF Index
<1>4. Contents[1] = elem[front]
  BY <1>2, <1>3, ContentsType DEF ContentsShape
<1>5. front + (no_elem - 1) = front + no_elem - 1
  BY <1>1 DEF Index
<1>6. Contents[no_elem] = elem[rear]
  BY <1>1, <1>2, <1>5, ContentsType DEF ContentsShape
<1>7. QED
  BY <1>1, <1>4, <1>6, ContentsType DEF ContentsShape

\* In terms of the contents, enqueue appends, or drops when full.
LEMMA EnqueueAppends ==
  ASSUME RingInv, RingInv', NEW data \in Data, Enqueue(data)
  PROVE  Fifo!Enqueue(data)
<1>1. CASE is_full
  <2>1. Contents' = Contents /\ ret' = ret
    BY <1>1 DEF Enqueue, Contents
  <2>2. Len(Contents) = MAX_SIZE
    BY <1>1, ContentsType DEF ContentsShape, is_full
  <2>3. QED
    BY <2>1, <2>2 DEF Fifo!Enqueue
<1>2. CASE ~is_full /\ is_empty
  <2>1. /\ no_elem = 0 /\ no_elem' = 1 /\ front' = 0 /\ ret' = ret
        /\ elem' = [elem EXCEPT ![0] = data] /\ elem \in [Index -> Data \cup {NULL}]
    BY <1>2 DEF Enqueue, RingInv, is_empty
  <2>2. ContentsShape /\ ContentsShape'
    BY ContentsType, PTL
  <2>3. 0 % MAX_SIZE = 0 /\ 0 \in Index /\ 0 # MAX_SIZE
    BY RingAssumption, Wrap DEF Index
  <2>4. Contents = <<>> /\ Contents' = <<data>>
    <3>1. 1 \in 1..no_elem' /\ front' + (1 - 1) = 0
      BY <2>1
    <3>2. Contents'[1] = data
      BY <2>1, <2>2, <2>3, <3>1 DEF ContentsShape
    <3>3. QED
      BY <2>1, <2>2, <3>2 DEF ContentsShape
  <2>5. QED
    BY <2>1, <2>3, <2>4 DEF Fifo!Enqueue
<1>3. CASE ~is_full /\ ~is_empty
  <2>1. /\ front \in Index /\ no_elem \in 1..(MAX_SIZE - 1)
        /\ rear = (front + no_elem - 1) % MAX_SIZE
        /\ no_elem' = no_elem + 1 /\ front' = front /\ ret' = ret
        /\ elem' = [elem EXCEPT ![Succ(rear)] = data] /\ elem \in [Index -> Data \cup {NULL}]
    BY <1>3, RingAssumption DEF Enqueue, RingInv, is_empty, is_full
  <2>2. ContentsShape /\ ContentsShape'
    BY ContentsType, PTL
  <2>3. Succ(rear) = (front + no_elem) % MAX_SIZE /\ Succ(rear) \in Index
    <3>1. no_elem \in 1..MAX_SIZE /\ no_elem \in 0..MAX_SIZE
      BY <2>1, RingAssumption
    <3>2. QED
      BY <2>1, <3>1, RearStep, Slot
  <2>4. Contents'[no_elem + 1] = data
    <3>1. no_elem + 1 \in 1..no_elem' /\ (no_elem + 1) - 1 = no_elem
      BY <2>1
    <3>2. QED
      BY <2>1, <2>2, <2>3, <3>1 DEF ContentsShape
  <2>5. ASSUME NEW k \in 1..no_elem
        PROVE  Contents'[k] = Contents[k]
    <3>1. /\ k - 1 \in 0..(MAX_SIZE - 1) /\ no_elem \in 0..(MAX_SIZE - 1) /\ k - 1 # no_elem
          /\ k - 1 \in 0..MAX_SIZE /\ k \in 1..no_elem'
      BY <2>1, RingAssumption
    <3>2. (front + (k - 1)) % MAX_SIZE # Succ(rear) /\ (front + (k - 1)) % MAX_SIZE \in Index
      BY <2>1, <2>3, <3>1, SlotsDiffer, Slot
    <3>3. elem'[(front' + (k - 1)) % MAX_SIZE] = elem[(front + (k - 1)) % MAX_SIZE]
      BY <2>1, <2>3, <3>2
    <3>4. QED
      BY <2>2, <3>1, <3>3 DEF ContentsShape
  <2>6. Contents' = Append(Contents, data)
    <3>1. /\ Contents \in Seq(Data) /\ Contents' \in Seq(Data) /\ no_elem \in Nat
          /\ Len(Contents) = no_elem /\ Len(Contents') = no_elem + 1
      BY <2>1, <2>2 DEF ContentsShape
    <3>2. QED
      BY <2>4, <2>5, <3>1
  <2>7. Len(Contents) # MAX_SIZE
    BY <2>1, <2>2, RingAssumption DEF ContentsShape
  <2>8. QED
    BY <2>1, <2>6, <2>7 DEF Fifo!Enqueue
<1>4. QED
  BY <1>1, <1>2, <1>3

\* dequeue takes the head.
LEMMA DequeueTakesHead ==
  ASSUME RingInv, RingInv', Dequeue
  PROVE  Fifo!Dequeue
<1>1. CASE is_empty
  <2>1. Contents' = Contents /\ ret' = NULL
    BY <1>1 DEF Dequeue, Contents
  <2>2. Contents = <<>>
    BY <1>1, ContentsType DEF ContentsShape, is_empty
  <2>3. QED
    BY <2>1, <2>2 DEF Fifo!Dequeue
<1>2. CASE ~is_empty
  <2>1. /\ no_elem \in Nat \ {0} /\ no_elem' = no_elem - 1 /\ ret' = elem[front]
        /\ front \in Index /\ no_elem <= MAX_SIZE
    BY <1>2 DEF Dequeue, RingInv, is_empty, init_queue
  <2>2. ContentsShape /\ ContentsShape'
    BY ContentsType, PTL
  <2>3. Contents # <<>> /\ Head(Contents) = elem[front]
    BY <1>2, Ends
  <2>4. ASSUME NEW k \in 1..no_elem'
        PROVE  Contents'[k] = Contents[k + 1]
    <3>1. /\ no_elem # 1 /\ k \in Nat /\ k - 1 \in 0..(MAX_SIZE - 1)
          /\ (k - 1) + 1 = (k + 1) - 1 /\ k + 1 \in 1..no_elem
      BY <2>1, <2>4, RingAssumption
    <3>2. front' = Succ(front) /\ elem' = elem
      BY <1>2, <3>1 DEF Dequeue
    <3>3. (Succ(front) + (k - 1)) % MAX_SIZE = (front + ((k + 1) - 1)) % MAX_SIZE
      BY <2>1, <3>1, FrontStep
    <3>4. QED
      BY <2>2, <3>1, <3>2, <3>3 DEF ContentsShape
  <2>5. Contents' = Tail(Contents)
    <3>1. /\ Contents \in Seq(Data) /\ Contents' \in Seq(Data) /\ no_elem \in Nat \ {0}
          /\ Len(Contents) = no_elem /\ Len(Contents') = no_elem - 1
      BY <2>1, <2>2 DEF ContentsShape
    <3>2. QED
      BY <2>1, <2>4, <3>1
  <2>6. QED
    BY <2>1, <2>3, <2>5 DEF Fifo!Dequeue
<1>3. QED
  BY <1>1, <1>2

\* front and rear return the first and the last element.
LEMMA EndsAreRead ==
  ASSUME RingInv
  PROVE  (Front => Fifo!Front) /\ (Rear => Fifo!Rear)
<1>1. ContentsShape
  BY ContentsType
<1>2. is_empty <=> Contents = <<>>
  BY <1>1 DEF ContentsShape, is_empty
<1>3. Front \/ Rear => Contents' = Contents
  BY DEF Front, Rear, Contents
<1>4. Front => ret' = IF Contents = <<>> THEN NULL ELSE Head(Contents)
  BY <1>2, Ends DEF Front
<1>5. Rear => ret' = IF Contents = <<>> THEN NULL ELSE Contents[Len(Contents)]
  BY <1>1, <1>2, Ends DEF Rear, ContentsShape
<1>6. QED
  BY <1>3, <1>4, <1>5 DEF Fifo!Front, Fifo!Rear

\* Nothing is lost, duplicated or reordered by the ring, whatever its size:
\* every operation of circular_queue.c does to Contents what BoundedFifo says.
THEOREM RingImplementsFifo == Spec => ImplementsFifo
<1>1. Init => Fifo!Init
  <2> SUFFICES ASSUME Init PROVE Fifo!Init
    OBVIOUS
  <2>1. RingInv
    BY RingInit
  <2>2. Contents = <<>>
    BY <2>1, ContentsType DEF ContentsShape, Init
  <2>3. QED
    BY <2>2 DEF Init, Fifo!Init
<1>2. RingInv /\ RingInv' /\ [Next]_vars => [Fifo!Next]_Fifo!vars
  <2> SUFFICES ASSUME RingInv, RingInv', [Next]_vars PROVE [Fifo!Next]_Fifo!vars
    OBVIOUS
  <2>1. ASSUME NEW data \in Data, Enqueue(data) PROVE Fifo!Next
    BY <2>1, EnqueueAppends DEF Fifo!Next
  <2>2. CASE Dequeue
    BY <2>2, DequeueTakesHead DEF Fifo!Next
  <2>3. CASE Front \/ Rear
    BY <2>3, EndsAreRead DEF Fifo!Next
  <2>4. CASE UNCHANGED vars
    BY <2>4 DEF vars, Fifo!vars, Contents
  <2>5. QED
    BY <2>1, <2>2, <2>3, <2>4 DEF Next
<1>3. QED
  BY RingShape, <1>1, <1>2, PTL DEF Spec, ImplementsFifo, Fifo!Spec
=============================================================================
