---------------------------- MODULE SchedulerProofs ----------------------------
(***************************************************************************)
(* Proofs about the scheduler, for every number of threads, priorities and *)
(* devices, every queue capacity and every client: the types, the counts   *)
(* and the semaphores of so_end, and the mutual exclusion of the handlers. *)
(* not_terminated_threads counts the live threads whatever the client does;*)
(* the rest holds as long as Main forks at most once.  (With a second fork *)
(* check_scheduler acts on a running handler.)  Then so_end only joins when*)
(* every thread has left its slot: it follows no NULL pointer, and frees no*)
(* structure that is still used.  The one thing C leaves undefined that is *)
(* left is a slot past terminated_threads (Overflow).                      *)
(***************************************************************************)
EXTENDS SchedulerProps, FunctionTheorems, FiniteSetTheorems, TLAPS

-----------------------------------------------------------------------------
\* Types.

\* The unsigned decrement stays within an unsigned int.
LEMMA DecrementType ==
  ASSUME NEW n \in 0..(WordSize - 1)
  PROVE  Decrement(n) \in 0..(WordSize - 1)
BY ConstantsAssumption DEF Decrement

\* A queue stays a sequence of the same elements when one of them is queued.
LEMMA EnqueueType ==
  ASSUME NEW S, NEW q \in Seq(S), NEW x \in S
  PROVE  Enqueue(q, x) \in Seq(S)
BY DEF Enqueue

\* so_init is given an unsigned int.
LEMMA QuantumType ==
  ASSUME NEW q \in Quanta PROVE q \in 0..(WordSize - 1)
BY ConstantsAssumption

\* The state before the first so_init is well typed.
LEMMA InitTypeOK == Init => TypeOK
<1> SUFFICES ASSUME Init PROVE TypeOK
  OBVIOUS
<1>1. 0 \in 0..(WordSize - 1) /\ 0 \in 0..MaxEvents /\ 0 \in Prio /\ 0 \in Nat
  BY ConstantsAssumption DEF Prio
<1>2. /\ pc \in [Actor -> Label] /\ op \in [Actor -> CallNames \cup {"begin", "exit"}]
      /\ ready \in [Prio -> Seq(Pointer)] /\ waiting \in [Dev -> Seq(Pointer)]
      /\ terminated \in Seq(Actor)
  BY DEF Init, Label
<1>3. QED
  BY <1>1, <1>2 DEF Init, TypeOK, Pointer

\* so_signal's loop is in one thread at a time, and knows its device.
OneDrainer ==
  \A t \in Actor : pc[t] = "signal_loop" =>
    draining \in Dev /\ \A u \in Actor : pc[u] = "signal_loop" => u = t

\* Every step keeps the types.
LEMMA StepTypeOK == TypeOK /\ OneDrainer /\ [Next]_vars => TypeOK'
<1> SUFFICES ASSUME TypeOK, OneDrainer, [Next]_vars PROVE TypeOK'
  OBVIOUS
<1> USE DEF TypeOK, sched_vars, queue_vars, thread_vars, sem_vars, local_vars, Goto, Enter
<1>1. ASSUME NEW q \in Quanta, NEW n \in Ios, SoInit(q, n) PROVE TypeOK'
  BY <1>1, QuantumType, ConstantsAssumption DEF SoInit, Actor, Pointer, Label
<1>2. ASSUME NEW t \in Actor, NEW u \in Thread, NEW p \in Prio, SoFork(t, u, p) PROVE TypeOK'
  <2>1. /\ child' \in [Actor -> Thread \cup {None}] /\ prio' \in [Actor -> Prio]
        /\ quantum' \in [Actor -> 0..(WordSize - 1)]
    <3> DEFINE Words == 0..(WordSize - 1)
    <3>1. time_quantum \in Words /\ quantum \in [Actor -> Words]
      OBVIOUS
    <3> HIDE DEF Words
    <3>2. quantum' \in [Actor -> Words]
      BY <1>2, <3>1 DEF SoFork
    <3>3. child' \in [Actor -> Thread \cup {None}] /\ prio' \in [Actor -> Prio]
      BY <1>2 DEF SoFork
    <3>4. QED
      BY <3>2, <3>3 DEF Words
  <2>5. no_threads' \in Nat /\ calls' \in [Actor -> Nat]
    BY <1>2 DEF SoFork
  <2>2. /\ tid' \in [Actor -> Pointer] /\ work_done' \in [Actor -> BOOLEAN]
        /\ on_wait' \in [Actor -> BOOLEAN]
    BY <1>2 DEF SoFork, Pointer
  <2>3. pc' \in [Actor -> Label] /\ op' \in [Actor -> CallNames \cup {"begin", "exit"}]
    BY <1>2 DEF SoFork, Label, CallNames
  <2>4. QED
    BY <1>2, <2>1, <2>2, <2>3, <2>5 DEF SoFork
<1>3. ASSUME NEW t \in Actor, ForkPost(t) PROVE TypeOK'
  BY <1>3 DEF ForkPost, Label
<1>4. ASSUME NEW t \in Actor, ForkCreate(t) PROVE TypeOK'
  BY <1>4 DEF ForkCreate, Label
<1>5. ASSUME NEW t \in Actor, ForkEnqueue(t) PROVE TypeOK'
  <2>1. child[t] \in Pointer
    BY DEF Pointer, Actor
  <2>2. \A i \in Prio : Enqueue(ready[i], child[t]) \in Seq(Pointer)
    BY <2>1, EnqueueType
  <2>3. ready' \in [Prio -> Seq(Pointer)] /\ pc' \in [Actor -> Label]
    BY <1>5, <2>2 DEF ForkEnqueue, Label
  <2>4. QED
    BY <1>5, <2>3 DEF ForkEnqueue
<1>6. ASSUME NEW t \in Actor, SoExec(t) PROVE TypeOK'
  BY <1>6 DEF SoExec, Label, CallNames
<1>7. ASSUME NEW t \in Actor, NEW d \in Dev, SoWait(t, d) PROVE TypeOK'
  <2>1. Enqueue(waiting[d], running) \in Seq(Pointer)
    BY EnqueueType
  <2>2. waiting' \in [Dev -> Seq(Pointer)]
    BY <1>7, <2>1 DEF SoWait
  <2>3. pc' \in [Actor -> Label] /\ op' \in [Actor -> CallNames \cup {"begin", "exit"}]
    BY <1>7 DEF SoWait, Label, CallNames
  <2>4. on_wait' \in [Actor -> BOOLEAN] /\ calls' \in [Actor -> Nat]
    <3>1. on_wait' = [on_wait EXCEPT ![running] = TRUE] /\ calls' = [calls EXCEPT ![t] = @ + 1]
      BY <1>7 DEF SoWait
    <3>2. on_wait' \in [Actor -> BOOLEAN]
      BY <3>1
    <3>3. calls' \in [Actor -> Nat]
      BY <3>1
    <3>4. QED
      BY <3>2, <3>3
  <2>5. QED
    BY <1>7, <2>2, <2>3, <2>4 DEF SoWait
<1>8. ASSUME NEW t \in Actor, NEW d \in Dev, SoSignal(t, d) PROVE TypeOK'
  <2>1. /\ pc' \in [Actor -> Label] /\ op' \in [Actor -> CallNames \cup {"begin", "exit"}]
        /\ calls' \in [Actor -> Nat] /\ draining' \in Dev \cup {None}
    BY <1>8 DEF SoSignal, Label, CallNames
  <2>2. QED
    BY <1>8, <2>1 DEF SoSignal
<1>9. ASSUME NEW t \in Actor, SignalLoop(t) PROVE TypeOK'
  <2>0. draining \in Dev
    BY <1>9 DEF SignalLoop, OneDrainer
  <2> DEFINE q == waiting[draining]
  <2>1. CASE /\ q # <<>>
             /\ waiting' = [waiting EXCEPT ![draining] = Tail(@)]
             /\ on_wait' = [on_wait EXCEPT ![Head(q)] = FALSE]
             /\ ready' = [ready EXCEPT ![prio[Head(q)]] = Enqueue(@, Head(q))]
             /\ UNCHANGED <<draining, pc>>
    <3>1. q \in Seq(Pointer) /\ q # <<>>
      BY <2>0, <2>1
    <3>2. Tail(q) \in Seq(Pointer) /\ Head(q) \in Pointer
      BY <3>1
    <3>3. waiting' \in [Dev -> Seq(Pointer)]
      BY <2>0, <2>1, <3>2
    <3>4. \A i \in Prio : Enqueue(ready[i], Head(q)) \in Seq(Pointer)
      BY <3>2, EnqueueType
    <3>5. ready' \in [Prio -> Seq(Pointer)]
      BY <2>1, <3>4
    <3>6. on_wait' \in [Actor -> BOOLEAN]
      BY <2>1
    <3>7. QED
      BY <1>9, <2>1, <3>3, <3>5, <3>6 DEF SignalLoop
  <2>2. CASE /\ draining' = None
             /\ pc' = [pc EXCEPT ![t] = "decrease"]
             /\ UNCHANGED <<queue_vars, on_wait>>
    BY <1>9, <2>2 DEF SignalLoop, Label
  <2>3. QED
    BY <1>9, <2>1, <2>2 DEF SignalLoop
<1>10. ASSUME NEW t \in Actor, DecreaseQuantum(t) PROVE TypeOK'
  BY <1>10, DecrementType DEF DecreaseQuantum, Label
<1>11. ASSUME NEW t \in Actor, CheckScheduler(t) PROVE TypeOK'
  <2>1. Requeued \in [Prio -> Seq(Pointer)]
    <3>1. \A i \in Prio : Enqueue(ready[i], running) \in Seq(Pointer)
      BY EnqueueType
    <3>2. QED
      BY <3>1 DEF Requeued
  <2> DEFINE q == Requeued
  <2> HIDE DEF q
  <2>2. q \in [Prio -> Seq(Pointer)]
    BY <2>1 DEF q
  <2>3. ASSUME NEW i \in Prio, Eligible(q, i), Dispatch(q, i)
        PROVE  /\ ready' \in [Prio -> Seq(Pointer)] /\ running' \in Pointer
               /\ main_running' \in BOOLEAN /\ quantum' \in [Actor -> 0..(WordSize - 1)]
    <3>1. Head(q[i]) \in Pointer /\ Tail(q[i]) \in Seq(Pointer)
      BY <2>2, <2>3 DEF Eligible
    <3> DEFINE rest == [q EXCEPT ![i] = Tail(@)]
    <3>2. rest \in [Prio -> Seq(Pointer)]
      BY <2>2, <3>1
    <3>3. \A j \in Prio : Enqueue(rest[j], running) \in Seq(Pointer)
      BY <3>2, EnqueueType
    <3>4. ready' \in [Prio -> Seq(Pointer)]
      BY <2>3, <3>2, <3>3 DEF Dispatch
    <3>5. QED
      BY <2>3, <3>1, <3>4 DEF Dispatch, Refill
  <2>4. /\ ready' \in [Prio -> Seq(Pointer)] /\ running' \in Pointer
        /\ main_running' \in BOOLEAN /\ quantum' \in [Actor -> 0..(WordSize - 1)]
    BY <1>11, <2>2, <2>3 DEF CheckScheduler, q
  <2>5. pc' \in [Actor -> Label]
    BY <1>11 DEF CheckScheduler, Label
  <2>6. QED
    BY <1>11, <2>4, <2>5 DEF CheckScheduler
<1>12. ASSUME NEW t \in Actor, Preempted(t) PROVE TypeOK'
  BY <1>12 DEF Preempted, AfterPreempted, Label
<1>13. ASSUME NEW t \in Actor, Broadcast(t) PROVE TypeOK'
  BY <1>13 DEF Broadcast, AfterBroadcast, Label
<1>14. ASSUME NEW t \in Actor, WaitToRun(t) \/ SpuriousWakeup(t) PROVE TypeOK'
  BY <1>14 DEF WaitToRun, SpuriousWakeup, Label
<1>15. ASSUME NEW t \in Actor, ThreadStart(t) PROVE TypeOK'
  BY <1>15 DEF ThreadStart, Label, Pointer
<1>16. ASSUME NEW t \in Actor, HandlerReturns(t) PROVE TypeOK'
  BY <1>16 DEF HandlerReturns, Label
<1>17. ASSUME NEW t \in Actor, RecordTerminated(t) PROVE TypeOK'
  BY <1>17 DEF RecordTerminated, Label
<1>18. ASSUME NEW t \in Actor, SemWait(t) \/ SemGet(t) \/ SemPost(t) PROVE TypeOK'
  <2>1. pc' \in [Actor -> Label]
    BY <1>18 DEF SemWait, SemGet, SemPost, Label
  <2>2. not_term' \in Nat /\ all_term' \in Nat
    BY <1>18 DEF SemWait, SemGet, SemPost
  <2>3. QED
    BY <1>18, <2>1, <2>2 DEF SemWait, SemGet, SemPost
<1>19. CASE SoEnd \/ EndWait \/ EndJoin
  <2>1. pc' \in [Actor -> Label]
    BY <1>19 DEF SoEnd, EndWait, EndJoin, NothingDefined, Label
  <2>2. all_term' \in Nat /\ joined' \in Nat
    <3>1. CASE SoEnd \/ EndWait
      BY <3>1 DEF SoEnd, EndWait
    <3>2. CASE EndJoin
      <4>1. joined' \in {joined, joined + 1} /\ all_term' = all_term
        BY <3>2 DEF EndJoin
      <4>2. QED
        BY <4>1
    <3>3. QED
      BY <1>19, <3>1, <3>2
  <2>3. UNCHANGED <<sched_vars, queue_vars, quantum, thread_vars, not_term, op, child, calls,
                    draining>>
    BY <1>19 DEF SoEnd, EndWait, EndJoin
  <2>4. QED
    BY <2>1, <2>2, <2>3
<1>20. CASE EndFree
  <2>1. 0 \in 0..(WordSize - 1) /\ 0 \in 0..MaxEvents /\ 0 \in Prio /\ 0 \in Nat
    BY ConstantsAssumption DEF Prio
  <2>2. /\ pc' \in [Actor -> Label] /\ op' \in [Actor -> CallNames \cup {"begin", "exit"}]
        /\ ready' \in [Prio -> Seq(Pointer)] /\ waiting' \in [Dev -> Seq(Pointer)]
        /\ terminated' \in Seq(Actor)
    BY <1>20 DEF EndFree, NoRecords, Label
  <2>3. QED
    BY <1>20, <2>1, <2>2 DEF EndFree, Pointer
<1>21. ASSUME NEW t \in Actor, Overflow(t) \/ UseFreed(t) PROVE TypeOK'
  <2>1. pc' \in [Actor -> Label]
    BY <1>21 DEF Overflow, UseFreed, NothingDefined, Label
  <2>2. QED
    BY <1>21, <2>1 DEF Overflow, UseFreed
<1>22. CASE UNCHANGED vars
  BY <1>22 DEF vars
<1>23. QED
  BY <1>1, <1>2, <1>3, <1>4, <1>5, <1>6, <1>7, <1>8, <1>9, <1>10, <1>11, <1>12, <1>13,
     <1>14, <1>15, <1>16, <1>17, <1>18, <1>19, <1>20, <1>21, <1>22
     DEF Next, DefinedStep, LibraryStep, ClientStep, EndStep

\* Every step keeps at most one thread in so_signal's loop: the one that
\* holds sch_mutex.
LEMMA StepOneDrainer == TypeOK /\ OneDrainer /\ [Next]_vars => OneDrainer'
<1> SUFFICES ASSUME TypeOK, OneDrainer, [Next]_vars PROVE OneDrainer'
  OBVIOUS
<1> USE DEF OneDrainer, sched_vars, queue_vars, thread_vars, sem_vars, local_vars, Goto, Enter
<1> pc \in [Actor -> Label]
  BY DEF TypeOK
<1>1. ASSUME NEW t \in Actor, NEW d \in Dev, SoSignal(t, d) PROVE OneDrainer'
  BY <1>1, ConstantsAssumption DEF SoSignal, MutexFree
<1>2. ASSUME NEW t \in Actor, SignalLoop(t) PROVE OneDrainer'
  BY <1>2 DEF SignalLoop
<1>3. ASSUME NEW t \in Actor, LibraryStep(t), ~SignalLoop(t) PROVE OneDrainer'
  BY <1>3 DEF LibraryStep, ForkPost, ForkCreate, ForkEnqueue, DecreaseQuantum, CheckScheduler,
     Preempted, AfterPreempted, Broadcast, AfterBroadcast, WaitToRun, ThreadStart,
     RecordTerminated, SemWait, SemGet, SemPost
<1>4. ASSUME NEW t \in Actor, SpuriousWakeup(t) \/ SoExec(t) \/ HandlerReturns(t)
      PROVE  OneDrainer'
  BY <1>4 DEF SpuriousWakeup, SoExec, HandlerReturns
<1>5. ASSUME NEW t \in Actor, NEW u \in Thread, NEW p \in Prio, SoFork(t, u, p)
      PROVE  OneDrainer'
  BY <1>5 DEF SoFork
<1>6. ASSUME NEW t \in Actor, NEW d \in Dev, SoWait(t, d) PROVE OneDrainer'
  BY <1>6 DEF SoWait
<1>7. ASSUME NEW q \in Quanta, NEW n \in Ios, SoInit(q, n) PROVE OneDrainer'
  BY <1>7 DEF SoInit
<1>8. CASE EndStep
  BY <1>8 DEF EndStep, SoEnd, EndWait, EndJoin, NothingDefined, EndFree
<1>9. ASSUME NEW t \in Actor, Overflow(t) \/ UseFreed(t) PROVE OneDrainer'
  BY <1>9 DEF Overflow, UseFreed, NothingDefined
<1>10. CASE UNCHANGED vars
  BY <1>10 DEF vars
<1>11. QED
  BY <1>1, <1>2, <1>3, <1>4, <1>5, <1>6, <1>7, <1>8, <1>9, <1>10
     DEF Next, DefinedStep, ClientStep

\* The two together are inductive.
LEMMA Typed == Spec => [](TypeOK /\ OneDrainer)
<1>1. Init => OneDrainer
  BY DEF Init, OneDrainer
<1>2. QED
  BY InitTypeOK, StepTypeOK, StepOneDrainer, <1>1, PTL DEF Spec

\* Every variable keeps its type, whatever the client does: in particular the
\* unsigned quantum wraps where it would become negative, and a semaphore
\* never does.
THEOREM TypeCorrect == Spec => []TypeOK
BY Typed, PTL

-----------------------------------------------------------------------------
\* so_end frees the scheduler when no thread is left.

\* Main is never inside thread_function, and only forks.
MainLocal ==
  /\ pc[Main] \in {"off", "user", "fork_post", "fork_create", "fork_enqueue", "decrease",
                   "check", "preempted", "broadcast", "end_wait", "end_join"}
  /\ pc[Main] \in {"fork_post", "fork_create", "fork_enqueue", "decrease", "check",
                   "preempted", "broadcast"} => op[Main] = "fork"
  /\ alive <=> pc[Main] # "off"

\* no_threads counts the threads that exist.
Created ==
  /\ no_threads <= MaxThreads
  /\ \A t \in Thread : /\ pc[t] \notin {"off", "end_wait", "end_join", "undefined"}
                       /\ pc[t] = "none" <=> t > no_threads
  /\ ~alive => no_threads = 0

Creating(t) == pc[t] \in {"fork_post", "fork_create"}

\* Every so_fork has a child of its own, and starts it once.
Children ==
  \A t \in Actor : Creating(t) =>
    /\ child[t] \in Thread /\ pc[child[t]] = "unborn"
    /\ \A u \in Actor : Creating(u) /\ child[u] = child[t] => u = t

\* terminated_threads holds each thread at most once, at its end.
Recorded ==
  /\ \A i \in 1..Len(terminated) :
       /\ terminated[i] \in Thread
       /\ pc[terminated[i]] \in {"sem_wait", "sem_get", "sem_post", "done"}
  /\ \A i, j \in 1..Len(terminated) : terminated[i] = terminated[j] => i = j

\* The threads so_end has joined are over.
Joined ==
  /\ joined <= no_threads /\ joined <= Len(terminated)
  /\ joined # 0 => pc[Main] = "end_join"
  /\ \A i \in 1..joined : pc[terminated[i]] = "done"

Accounting == MainLocal /\ Created /\ Children /\ Recorded /\ Joined

\* The process has done what C leaves undefined.
Dead == alive /\ \A t \in Actor : pc[t] = "undefined"

\* The threads so_end has joined are as many as it has counted, and all
\* different: they are all the threads there are.
LEMMA AllJoinedMeansAllDone ==
  ASSUME TypeOK, Accounting, AllJoined
  PROVE  \A t \in Thread : pc[t] \in {"none", "done"}
<1> DEFINE Ended == {terminated[i] : i \in 1..joined}
<1>1. joined = no_threads /\ joined \in Nat
  BY DEF TypeOK, Accounting, Joined, AllJoined
<1>0. joined <= Len(terminated) /\ Len(terminated) \in Nat
  BY DEF TypeOK, Accounting, Joined
<1>2. Ended \subseteq 1..no_threads
  <2>1. ASSUME NEW i \in 1..joined PROVE terminated[i] \in 1..no_threads
    <3>1. i \in 1..Len(terminated)
      BY <1>0, <1>1
    <3>2. terminated[i] \in Thread /\ pc[terminated[i]] # "none"
      BY <3>1 DEF Accounting, Recorded
    <3>3. ~(terminated[i] > no_threads)
      BY <3>2 DEF Accounting, Created
    <3>4. QED
      BY <1>1, <3>2, <3>3 DEF Thread
  <2>2. QED
    BY <2>1
<1>3. Cardinality(Ended) = no_threads /\ IsFiniteSet(Ended)
  <2> DEFINE f == [i \in 1..joined |-> terminated[i]]
  <2>1. \A i, j \in 1..joined : terminated[i] = terminated[j] => i = j
    <3>1. 1..joined \subseteq 1..Len(terminated)
      BY <1>0, <1>1
    <3>2. QED
      BY <3>1 DEF Accounting, Recorded
  <2>4. f \in [1..joined -> Ended]
    OBVIOUS
  <2>5. \A e \in Ended : \E i \in 1..joined : f[i] = e
    OBVIOUS
  <2>6. \A i, j \in 1..joined : f[i] = f[j] => i = j
    BY <2>1
  <2>7. f \in Bijection(1..joined, Ended)
    BY <2>4, <2>5, <2>6 DEF Bijection, Injection, Surjection, IsInjective
  <2>2. IsFiniteSet(1..joined) /\ Cardinality(1..joined) = joined
    BY <1>1, FS_Interval
  <2>3. QED
    BY <1>1, <2>7, <2>2, FS_Bijection DEF ExistsBijection
<1>4. IsFiniteSet(1..no_threads) /\ Cardinality(1..no_threads) = no_threads
  BY <1>1, FS_Interval
<1>5. Ended = 1..no_threads
  BY <1>2, <1>3, <1>4, FS_Subset
<1>6. ASSUME NEW t \in Thread, pc[t] # "none" PROVE pc[t] = "done"
  <2>1. t \in 1..no_threads
    BY <1>6 DEF TypeOK, Accounting, Created, Thread
  <2>2. PICK i \in 1..joined : t = terminated[i]
    BY <1>5, <2>1
  <2>3. QED
    BY <2>2 DEF Accounting, Joined
<1>7. QED
  BY <1>6
\* The types the accounting needs.
Facts ==
  /\ pc \in [Actor -> Label] /\ op \in [Actor -> CallNames \cup {"begin", "exit"}]
  /\ child \in [Actor -> Thread \cup {None}]
  /\ no_threads \in Nat /\ joined \in Nat /\ Len(terminated) \in Nat
  /\ terminated \in Seq(Actor)
  /\ Main \in Actor /\ Main \notin Thread /\ Thread \subseteq Actor /\ MaxThreads \in Nat
  /\ \A t \in Actor : t # Main => t \in Thread
  /\ \A t \in Thread : t \in Nat

\* The facts about types the steps below need, in a form the provers like.
LEMMA FactsHold == TypeOK => Facts
BY ConstantsAssumption DEF TypeOK, Facts, Actor, Thread

\* After so_end's last free no thread is left.
NothingLeft ==
  /\ \A t \in Thread : pc'[t] = "none"
  /\ pc'[Main] = "off" /\ alive' = FALSE /\ no_threads' = 0
  /\ terminated' = <<>> /\ joined' = 0

\* When so_end frees the scheduler, no thread is left.
LEMMA NoneRemain ==
  ASSUME TypeOK, Accounting, EndFree
  PROVE  NothingLeft
<1>1. \A t \in Thread : pc[t] \in {"none", "done"}
  BY AllJoinedMeansAllDone DEF EndFree
<1>2. QED
  BY <1>1, ConstantsAssumption DEF EndFree, NoRecords, Actor, NothingLeft

\* so_end's loop joins a thread, or follows a NULL pointer.
LEMMA JoinsOrDies ==
  ASSUME Accounting, EndJoin
  PROVE  Dead' \/ UNCHANGED pc
BY DEF Accounting, MainLocal, EndJoin, NothingDefined, Dead, sched_vars

\* An actor that has started and not ended has a scheduler.
LEMMA AliveWhileActive ==
  ASSUME TypeOK, Accounting
  PROVE  \A t \in Actor : pc[t] \notin {"none", "off"} => alive
BY FactsHold, ConstantsAssumption DEF Facts, Accounting, MainLocal, Created, Thread

\* There is a scheduler when a slot past terminated_threads or a freed structure
\* is used.
LEMMA UndefinedIsDead ==
  ASSUME TypeOK, Accounting, NEW t \in Actor, Overflow(t) \/ UseFreed(t)
  PROVE  Dead' /\ no_threads' = no_threads
<1>1. CASE Overflow(t)
  <2>1. alive
    BY <1>1, AliveWhileActive DEF Overflow
  <2>2. QED
    BY <1>1, <2>1 DEF Overflow, NothingDefined, Dead, sched_vars
<1>2. CASE UseFreed(t)
  <2>1. PICK i \in 1..joined : TRUE
    BY <1>2 DEF UseFreed, Freed
  <2>2. joined \in Nat /\ no_threads \in Nat /\ joined <= no_threads
    BY DEF TypeOK, Accounting, Joined
  <2>3. no_threads # 0
    BY <2>1, <2>2
  <2>4. alive
    BY <2>3 DEF TypeOK, Accounting, Created
  <2>5. QED
    BY <1>2, <2>4 DEF UseFreed, NothingDefined, Dead, sched_vars
<1>3. QED
  BY <1>1, <1>2

\* A step of any other kind is a DefinedStep.
LEMMA DefinedUnlessDead ==
  ASSUME TypeOK, Accounting, [Next]_vars, ~Dead'
  PROVE  [DefinedStep]_vars
BY UndefinedIsDead DEF Next

\* Nothing happens after that.
LEMMA DeadStays == Dead /\ [Next]_vars => UNCHANGED vars
<1> SUFFICES ASSUME Dead, [Next]_vars PROVE UNCHANGED vars
  OBVIOUS
<1> Main \in Actor
  BY DEF Actor
<1> USE DEF Dead
<1>1. ASSUME NEW t \in Actor, LibraryStep(t) PROVE FALSE
  BY <1>1 DEF LibraryStep, ForkPost, ForkCreate, ForkEnqueue, SignalLoop, DecreaseQuantum,
     CheckScheduler, Preempted, Broadcast, WaitToRun, ThreadStart, RecordTerminated, SemWait,
     SemGet, SemPost
<1>2. ASSUME NEW t \in Actor, ClientStep(t) \/ SpuriousWakeup(t) PROVE FALSE
  BY <1>2 DEF ClientStep, SpuriousWakeup, SoFork, SoExec, SoWait, SoSignal, HandlerReturns,
     MayCall
<1>3. ~EndStep
  BY DEF EndStep, SoEnd, EndWait, EndJoin, EndFree
<1>4. ASSUME NEW q \in Quanta, NEW n \in Ios, SoInit(q, n) PROVE FALSE
  BY <1>4 DEF SoInit
<1>5. ASSUME NEW t \in Actor, Overflow(t) \/ UseFreed(t) PROVE FALSE
  <2>1. Follows(t) = {}
    BY DEF Follows, MayCall
  <2>2. QED
    BY <1>5, <2>1 DEF Overflow, UseFreed
<1>6. QED
  BY <1>1, <1>2, <1>3, <1>4, <1>5 DEF Next, DefinedStep

LEMMA StepDead == Dead /\ [Next]_vars => Dead'
BY DeadStays DEF Dead, vars, sched_vars

\* Every step preserves each part of Accounting: Main and its local variables;
LEMMA StepMainLocal == TypeOK /\ Accounting /\ [Next]_vars => Dead' \/ MainLocal'
<1> SUFFICES ASSUME TypeOK, Accounting, [Next]_vars, ~Dead' PROVE MainLocal'
  OBVIOUS
<1> Facts
  BY FactsHold
<1>0. EndFree => NothingLeft
  BY NoneRemain
<1>d. [DefinedStep]_vars
  BY DefinedUnlessDead
<1> USE ConstantsAssumption
<1> USE DEF sched_vars, queue_vars, thread_vars, sem_vars, local_vars, Goto, Enter, Facts,
     Accounting, MainLocal, Created
<1>1. ASSUME NEW q \in Quanta, NEW n \in Ios, SoInit(q, n) PROVE MainLocal'
  BY <1>1 DEF SoInit
<1>2. ASSUME NEW t \in Actor, NEW u \in Thread, NEW p \in Prio, SoFork(t, u, p) PROVE MainLocal'
  BY <1>2 DEF SoFork, MayCall, Thread
<1>3. ASSUME NEW t \in Actor, ForkPost(t) PROVE MainLocal'
  BY <1>3 DEF ForkPost
<1>4. ASSUME NEW t \in Actor, ForkCreate(t) PROVE MainLocal'
  BY <1>4 DEF ForkCreate
<1>5. ASSUME NEW t \in Actor, ForkEnqueue(t) PROVE MainLocal'
  BY <1>5 DEF ForkEnqueue
<1>6. ASSUME NEW t \in Actor, SoExec(t) PROVE MainLocal'
  BY <1>6 DEF SoExec, MayCall
<1>7. ASSUME NEW t \in Actor, NEW d \in Dev, SoWait(t, d) PROVE MainLocal'
  BY <1>7 DEF SoWait, MayCall
<1>8. ASSUME NEW t \in Actor, NEW d \in Dev, SoSignal(t, d) PROVE MainLocal'
  BY <1>8 DEF SoSignal, MayCall
<1>9. ASSUME NEW t \in Actor, SignalLoop(t) PROVE MainLocal'
  BY <1>9 DEF SignalLoop
<1>10. ASSUME NEW t \in Actor, DecreaseQuantum(t) PROVE MainLocal'
  BY <1>10 DEF DecreaseQuantum
<1>11. ASSUME NEW t \in Actor, CheckScheduler(t) PROVE MainLocal'
  BY <1>11 DEF CheckScheduler
<1>12. ASSUME NEW t \in Actor, Preempted(t) PROVE MainLocal'
  BY <1>12 DEF Preempted, AfterPreempted
<1>13. ASSUME NEW t \in Actor, Broadcast(t) PROVE MainLocal'
  BY <1>13 DEF Broadcast, AfterBroadcast
<1>14. ASSUME NEW t \in Actor, WaitToRun(t) PROVE MainLocal'
  BY <1>14 DEF WaitToRun
<1>15. ASSUME NEW t \in Actor, SpuriousWakeup(t) PROVE MainLocal'
  BY <1>15 DEF SpuriousWakeup
<1>16. ASSUME NEW t \in Actor, ThreadStart(t) PROVE MainLocal'
  BY <1>16 DEF ThreadStart
<1>17. ASSUME NEW t \in Actor, HandlerReturns(t) PROVE MainLocal'
  BY <1>17 DEF HandlerReturns
<1>18. ASSUME NEW t \in Actor, RecordTerminated(t) PROVE MainLocal'
  BY <1>18 DEF RecordTerminated
<1>19. ASSUME NEW t \in Actor, SemWait(t) PROVE MainLocal'
  BY <1>19 DEF SemWait
<1>20. ASSUME NEW t \in Actor, SemGet(t) PROVE MainLocal'
  BY <1>20 DEF SemGet
<1>21. ASSUME NEW t \in Actor, SemPost(t) PROVE MainLocal'
  BY <1>21 DEF SemPost
<1>22. ASSUME SoEnd PROVE MainLocal'
  BY <1>22 DEF SoEnd
<1>23. ASSUME EndWait PROVE MainLocal'
  BY <1>23 DEF EndWait
<1>24. ASSUME EndJoin PROVE MainLocal'
  BY <1>24, JoinsOrDies DEF EndJoin
<1>25. ASSUME EndFree PROVE MainLocal'
  BY <1>0, <1>25 DEF NothingLeft
<1>26. ASSUME UNCHANGED vars PROVE MainLocal'
  BY <1>26 DEF vars
<1>27. QED
  BY <1>d, <1>1, <1>2, <1>3, <1>4, <1>5, <1>6, <1>7, <1>8, <1>9, <1>10, <1>11, <1>12, <1>13,
       <1>14, <1>15, <1>16, <1>17, <1>18, <1>19, <1>20, <1>21, <1>22, <1>23, <1>24, <1>25,
       <1>26
     DEF DefinedStep, LibraryStep, ClientStep, EndStep

\* the threads so_fork has created, and their number;
LEMMA StepCreated == TypeOK /\ Accounting /\ [Next]_vars => Dead' \/ Created'
<1> SUFFICES ASSUME TypeOK, Accounting, [Next]_vars, ~Dead' PROVE Created'
  OBVIOUS
<1> Facts
  BY FactsHold
<1>0. EndFree => NothingLeft
  BY NoneRemain
<1>d. [DefinedStep]_vars
  BY DefinedUnlessDead
<1> USE ConstantsAssumption
<1> USE DEF sched_vars, queue_vars, thread_vars, sem_vars, local_vars, Goto, Enter, Facts,
     Accounting, MainLocal, Created, Children, Creating
<1>1. ASSUME NEW q \in Quanta, NEW n \in Ios, SoInit(q, n) PROVE Created'
  BY <1>1 DEF SoInit
<1>2. ASSUME NEW t \in Actor, NEW u \in Thread, NEW p \in Prio, SoFork(t, u, p) PROVE Created'
  BY <1>2 DEF SoFork, MayCall, Thread
<1>3. ASSUME NEW t \in Actor, ForkPost(t) PROVE Created'
  BY <1>3 DEF ForkPost
<1>4. ASSUME NEW t \in Actor, ForkCreate(t) PROVE Created'
  BY <1>4 DEF ForkCreate
<1>5. ASSUME NEW t \in Actor, ForkEnqueue(t) PROVE Created'
  BY <1>5 DEF ForkEnqueue
<1>6. ASSUME NEW t \in Actor, SoExec(t) PROVE Created'
  BY <1>6 DEF SoExec, MayCall
<1>7. ASSUME NEW t \in Actor, NEW d \in Dev, SoWait(t, d) PROVE Created'
  BY <1>7 DEF SoWait, MayCall
<1>8. ASSUME NEW t \in Actor, NEW d \in Dev, SoSignal(t, d) PROVE Created'
  BY <1>8 DEF SoSignal, MayCall
<1>9. ASSUME NEW t \in Actor, SignalLoop(t) PROVE Created'
  BY <1>9 DEF SignalLoop
<1>10. ASSUME NEW t \in Actor, DecreaseQuantum(t) PROVE Created'
  BY <1>10 DEF DecreaseQuantum
<1>11. ASSUME NEW t \in Actor, CheckScheduler(t) PROVE Created'
  BY <1>11 DEF CheckScheduler
<1>12. ASSUME NEW t \in Actor, Preempted(t) PROVE Created'
  BY <1>12 DEF Preempted, AfterPreempted
<1>13. ASSUME NEW t \in Actor, Broadcast(t) PROVE Created'
  BY <1>13 DEF Broadcast, AfterBroadcast
<1>14. ASSUME NEW t \in Actor, WaitToRun(t) PROVE Created'
  BY <1>14 DEF WaitToRun
<1>15. ASSUME NEW t \in Actor, SpuriousWakeup(t) PROVE Created'
  BY <1>15 DEF SpuriousWakeup
<1>16. ASSUME NEW t \in Actor, ThreadStart(t) PROVE Created'
  BY <1>16 DEF ThreadStart
<1>17. ASSUME NEW t \in Actor, HandlerReturns(t) PROVE Created'
  BY <1>17 DEF HandlerReturns
<1>18. ASSUME NEW t \in Actor, RecordTerminated(t) PROVE Created'
  BY <1>18 DEF RecordTerminated
<1>19. ASSUME NEW t \in Actor, SemWait(t) PROVE Created'
  BY <1>19 DEF SemWait
<1>20. ASSUME NEW t \in Actor, SemGet(t) PROVE Created'
  BY <1>20 DEF SemGet
<1>21. ASSUME NEW t \in Actor, SemPost(t) PROVE Created'
  BY <1>21 DEF SemPost
<1>22. ASSUME SoEnd PROVE Created'
  BY <1>22 DEF SoEnd
<1>23. ASSUME EndWait PROVE Created'
  BY <1>23 DEF EndWait
<1>24. ASSUME EndJoin PROVE Created'
  BY <1>24, JoinsOrDies DEF EndJoin
<1>25. ASSUME EndFree PROVE Created'
  BY <1>0, <1>25 DEF Thread, NothingLeft
<1>26. ASSUME UNCHANGED vars PROVE Created'
  BY <1>26 DEF vars
<1>27. QED
  BY <1>d, <1>1, <1>2, <1>3, <1>4, <1>5, <1>6, <1>7, <1>8, <1>9, <1>10, <1>11, <1>12, <1>13,
       <1>14, <1>15, <1>16, <1>17, <1>18, <1>19, <1>20, <1>21, <1>22, <1>23, <1>24, <1>25,
       <1>26
     DEF DefinedStep, LibraryStep, ClientStep, EndStep

\* the thread each so_fork is creating;
LEMMA StepChildren == TypeOK /\ Accounting /\ [Next]_vars => Dead' \/ Children'
<1> SUFFICES ASSUME TypeOK, Accounting, [Next]_vars, ~Dead' PROVE Children'
  OBVIOUS
<1> Facts
  BY FactsHold
<1>0. EndFree => NothingLeft
  BY NoneRemain
<1>d. [DefinedStep]_vars
  BY DefinedUnlessDead
<1> USE ConstantsAssumption
<1> USE DEF sched_vars, queue_vars, thread_vars, sem_vars, local_vars, Goto, Enter, Facts,
     Accounting, Created, Children, Creating
<1>1. ASSUME NEW q \in Quanta, NEW n \in Ios, SoInit(q, n) PROVE Children'
  BY <1>1 DEF SoInit
<1>2. ASSUME NEW t \in Actor, NEW u \in Thread, NEW p \in Prio, SoFork(t, u, p) PROVE Children'
  BY <1>2 DEF SoFork, MayCall, Thread
<1>3. ASSUME NEW t \in Actor, ForkPost(t) PROVE Children'
  BY <1>3 DEF ForkPost
<1>4. ASSUME NEW t \in Actor, ForkCreate(t) PROVE Children'
  BY <1>4 DEF ForkCreate
<1>5. ASSUME NEW t \in Actor, ForkEnqueue(t) PROVE Children'
  BY <1>5 DEF ForkEnqueue
<1>6. ASSUME NEW t \in Actor, SoExec(t) PROVE Children'
  BY <1>6 DEF SoExec, MayCall
<1>7. ASSUME NEW t \in Actor, NEW d \in Dev, SoWait(t, d) PROVE Children'
  BY <1>7 DEF SoWait, MayCall
<1>8. ASSUME NEW t \in Actor, NEW d \in Dev, SoSignal(t, d) PROVE Children'
  BY <1>8 DEF SoSignal, MayCall
<1>9. ASSUME NEW t \in Actor, SignalLoop(t) PROVE Children'
  BY <1>9 DEF SignalLoop
<1>10. ASSUME NEW t \in Actor, DecreaseQuantum(t) PROVE Children'
  BY <1>10 DEF DecreaseQuantum
<1>11. ASSUME NEW t \in Actor, CheckScheduler(t) PROVE Children'
  BY <1>11 DEF CheckScheduler
<1>12. ASSUME NEW t \in Actor, Preempted(t) PROVE Children'
  BY <1>12 DEF Preempted, AfterPreempted
<1>13. ASSUME NEW t \in Actor, Broadcast(t) PROVE Children'
  BY <1>13 DEF Broadcast, AfterBroadcast
<1>14. ASSUME NEW t \in Actor, WaitToRun(t) PROVE Children'
  BY <1>14 DEF WaitToRun
<1>15. ASSUME NEW t \in Actor, SpuriousWakeup(t) PROVE Children'
  BY <1>15 DEF SpuriousWakeup
<1>16. ASSUME NEW t \in Actor, ThreadStart(t) PROVE Children'
  BY <1>16 DEF ThreadStart
<1>17. ASSUME NEW t \in Actor, HandlerReturns(t) PROVE Children'
  BY <1>17 DEF HandlerReturns
<1>18. ASSUME NEW t \in Actor, RecordTerminated(t) PROVE Children'
  BY <1>18 DEF RecordTerminated
<1>19. ASSUME NEW t \in Actor, SemWait(t) PROVE Children'
  BY <1>19 DEF SemWait
<1>20. ASSUME NEW t \in Actor, SemGet(t) PROVE Children'
  BY <1>20 DEF SemGet
<1>21. ASSUME NEW t \in Actor, SemPost(t) PROVE Children'
  BY <1>21 DEF SemPost
<1>22. ASSUME SoEnd PROVE Children'
  BY <1>22 DEF SoEnd
<1>23. ASSUME EndWait PROVE Children'
  BY <1>23 DEF EndWait
<1>24. ASSUME EndJoin PROVE Children'
  BY <1>24, JoinsOrDies DEF EndJoin
<1>25. ASSUME EndFree PROVE Children'
  BY <1>0, <1>25 DEF EndFree, NothingLeft
<1>26. ASSUME UNCHANGED vars PROVE Children'
  BY <1>26 DEF vars
<1>27. QED
  BY <1>d, <1>1, <1>2, <1>3, <1>4, <1>5, <1>6, <1>7, <1>8, <1>9, <1>10, <1>11, <1>12, <1>13,
       <1>14, <1>15, <1>16, <1>17, <1>18, <1>19, <1>20, <1>21, <1>22, <1>23, <1>24, <1>25,
       <1>26
     DEF DefinedStep, LibraryStep, ClientStep, EndStep

\* the slots of terminated_threads;
LEMMA StepRecorded == TypeOK /\ Accounting /\ [Next]_vars => Dead' \/ Recorded'
<1> SUFFICES ASSUME TypeOK, Accounting, [Next]_vars, ~Dead' PROVE Recorded'
  OBVIOUS
<1> Facts
  BY FactsHold
<1>0. EndFree => NothingLeft
  BY NoneRemain
<1>d. [DefinedStep]_vars
  BY DefinedUnlessDead
<1> USE ConstantsAssumption
<1> USE DEF sched_vars, queue_vars, thread_vars, sem_vars, local_vars, Goto, Enter, Facts,
     Accounting, MainLocal, Created, Children, Creating, Recorded
<1>1. ASSUME NEW q \in Quanta, NEW n \in Ios, SoInit(q, n) PROVE Recorded'
  BY <1>1 DEF SoInit
<1>2. ASSUME NEW t \in Actor, NEW u \in Thread, NEW p \in Prio, SoFork(t, u, p) PROVE Recorded'
  BY <1>2 DEF SoFork, MayCall, Thread
<1>3. ASSUME NEW t \in Actor, ForkPost(t) PROVE Recorded'
  BY <1>3 DEF ForkPost
<1>4. ASSUME NEW t \in Actor, ForkCreate(t) PROVE Recorded'
  <2>1. /\ pc[t] = "fork_create" /\ pc[child[t]] = "unborn"
        /\ \A u \in Actor : u # t /\ u # child[t] => pc'[u] = pc[u]
    BY <1>4 DEF ForkCreate
  <2>2. terminated' = terminated
    BY <1>4 DEF ForkCreate
  <2>3. \A i \in 1..Len(terminated) : pc'[terminated[i]] = pc[terminated[i]]
    BY <2>1
  <2>4. QED
    BY <2>2, <2>3
<1>5. ASSUME NEW t \in Actor, ForkEnqueue(t) PROVE Recorded'
  BY <1>5 DEF ForkEnqueue
<1>6. ASSUME NEW t \in Actor, SoExec(t) PROVE Recorded'
  BY <1>6 DEF SoExec, MayCall
<1>7. ASSUME NEW t \in Actor, NEW d \in Dev, SoWait(t, d) PROVE Recorded'
  BY <1>7 DEF SoWait, MayCall
<1>8. ASSUME NEW t \in Actor, NEW d \in Dev, SoSignal(t, d) PROVE Recorded'
  BY <1>8 DEF SoSignal, MayCall
<1>9. ASSUME NEW t \in Actor, SignalLoop(t) PROVE Recorded'
  BY <1>9 DEF SignalLoop
<1>10. ASSUME NEW t \in Actor, DecreaseQuantum(t) PROVE Recorded'
  BY <1>10 DEF DecreaseQuantum
<1>11. ASSUME NEW t \in Actor, CheckScheduler(t) PROVE Recorded'
  BY <1>11 DEF CheckScheduler
<1>12. ASSUME NEW t \in Actor, Preempted(t) PROVE Recorded'
  BY <1>12 DEF Preempted, AfterPreempted
<1>13. ASSUME NEW t \in Actor, Broadcast(t) PROVE Recorded'
  BY <1>13 DEF Broadcast, AfterBroadcast
<1>14. ASSUME NEW t \in Actor, WaitToRun(t) PROVE Recorded'
  BY <1>14 DEF WaitToRun
<1>15. ASSUME NEW t \in Actor, SpuriousWakeup(t) PROVE Recorded'
  BY <1>15 DEF SpuriousWakeup
<1>16. ASSUME NEW t \in Actor, ThreadStart(t) PROVE Recorded'
  BY <1>16 DEF ThreadStart
<1>17. ASSUME NEW t \in Actor, HandlerReturns(t) PROVE Recorded'
  BY <1>17 DEF HandlerReturns
<1>18. ASSUME NEW t \in Actor, RecordTerminated(t) PROVE Recorded'
  <2>1. /\ pc[t] = "record" /\ t \in Thread
        /\ pc' = [pc EXCEPT ![t] = "sem_wait"] /\ terminated' = Append(terminated, t)
    BY <1>18 DEF RecordTerminated
  <2>2. \A i \in 1..Len(terminated) : terminated[i] # t
    BY <2>1
  <2>3. /\ Len(terminated') = Len(terminated) + 1
        /\ terminated'[Len(terminated) + 1] = t
        /\ \A i \in 1..Len(terminated) : terminated'[i] = terminated[i]
    BY <2>1
  <2>4. ASSUME NEW i \in 1..Len(terminated')
        PROVE  i \in 1..Len(terminated) \/ i = Len(terminated) + 1
    BY <2>3
  <2>5. ASSUME NEW i \in 1..Len(terminated')
        PROVE  /\ terminated'[i] \in Thread
               /\ pc'[terminated'[i]] \in {"sem_wait", "sem_get", "sem_post", "done"}
    BY <2>1, <2>2, <2>3, <2>4
  <2>6. ASSUME NEW i \in 1..Len(terminated'), NEW j \in 1..Len(terminated'),
               terminated'[i] = terminated'[j]
        PROVE  i = j
    BY <2>2, <2>3, <2>4, <2>6
  <2>7. QED
    BY <2>5, <2>6
<1>19. ASSUME NEW t \in Actor, SemWait(t) PROVE Recorded'
  BY <1>19 DEF SemWait
<1>20. ASSUME NEW t \in Actor, SemGet(t) PROVE Recorded'
  BY <1>20 DEF SemGet
<1>21. ASSUME NEW t \in Actor, SemPost(t) PROVE Recorded'
  BY <1>21 DEF SemPost
<1>22. ASSUME SoEnd PROVE Recorded'
  BY <1>22 DEF SoEnd
<1>23. ASSUME EndWait PROVE Recorded'
  BY <1>23 DEF EndWait
<1>24. ASSUME EndJoin PROVE Recorded'
  BY <1>24, JoinsOrDies DEF EndJoin
<1>25. ASSUME EndFree PROVE Recorded'
  <2>1. Len(terminated') = 0 /\ 1..0 = {}
    BY <1>0, <1>25 DEF NothingLeft
  <2>2. QED
    BY <1>0, <1>25, <2>1 DEF NothingLeft
<1>26. ASSUME UNCHANGED vars PROVE Recorded'
  BY <1>26 DEF vars
<1>27. QED
  BY <1>d, <1>1, <1>2, <1>3, <1>4, <1>5, <1>6, <1>7, <1>8, <1>9, <1>10, <1>11, <1>12, <1>13,
       <1>14, <1>15, <1>16, <1>17, <1>18, <1>19, <1>20, <1>21, <1>22, <1>23, <1>24, <1>25,
       <1>26
     DEF DefinedStep, LibraryStep, ClientStep, EndStep

\* and the threads so_end has joined.
LEMMA StepJoined == TypeOK /\ Accounting /\ [Next]_vars => Dead' \/ Joined'
<1> SUFFICES ASSUME TypeOK, Accounting, [Next]_vars, ~Dead' PROVE Joined'
  OBVIOUS
<1> Facts
  BY FactsHold
<1>0. EndFree => NothingLeft
  BY NoneRemain
<1>d. [DefinedStep]_vars
  BY DefinedUnlessDead
<1> USE ConstantsAssumption
<1> USE DEF sched_vars, queue_vars, thread_vars, sem_vars, local_vars, Goto, Enter, Facts,
     Accounting, Created, Children, Creating, Recorded, Joined
<1>1. ASSUME NEW q \in Quanta, NEW n \in Ios, SoInit(q, n) PROVE Joined'
  BY <1>1 DEF SoInit
<1>2. ASSUME NEW t \in Actor, NEW u \in Thread, NEW p \in Prio, SoFork(t, u, p) PROVE Joined'
  BY <1>2 DEF SoFork, MayCall, Thread
<1>3. ASSUME NEW t \in Actor, ForkPost(t) PROVE Joined'
  BY <1>3 DEF ForkPost
<1>4. ASSUME NEW t \in Actor, ForkCreate(t) PROVE Joined'
  <2>1. /\ pc[t] = "fork_create" /\ child[t] \in Thread /\ pc[child[t]] = "unborn"
        /\ \A u \in Actor : u # t /\ u # child[t] => pc'[u] = pc[u]
        /\ UNCHANGED <<terminated, joined, no_threads>>
    BY <1>4 DEF ForkCreate
  <2>2. joined # 0 => pc'[Main] = "end_join"
    BY <2>1
  <2>3. \A i \in 1..joined : pc'[terminated[i]] = "done"
    BY <2>1
  <2>4. QED
    BY <2>1, <2>2, <2>3
<1>5. ASSUME NEW t \in Actor, ForkEnqueue(t) PROVE Joined'
  BY <1>5 DEF ForkEnqueue
<1>6. ASSUME NEW t \in Actor, SoExec(t) PROVE Joined'
  BY <1>6 DEF SoExec, MayCall
<1>7. ASSUME NEW t \in Actor, NEW d \in Dev, SoWait(t, d) PROVE Joined'
  BY <1>7 DEF SoWait, MayCall
<1>8. ASSUME NEW t \in Actor, NEW d \in Dev, SoSignal(t, d) PROVE Joined'
  BY <1>8 DEF SoSignal, MayCall
<1>9. ASSUME NEW t \in Actor, SignalLoop(t) PROVE Joined'
  BY <1>9 DEF SignalLoop
<1>10. ASSUME NEW t \in Actor, DecreaseQuantum(t) PROVE Joined'
  BY <1>10 DEF DecreaseQuantum
<1>11. ASSUME NEW t \in Actor, CheckScheduler(t) PROVE Joined'
  BY <1>11 DEF CheckScheduler
<1>12. ASSUME NEW t \in Actor, Preempted(t) PROVE Joined'
  BY <1>12 DEF Preempted, AfterPreempted
<1>13. ASSUME NEW t \in Actor, Broadcast(t) PROVE Joined'
  BY <1>13 DEF Broadcast, AfterBroadcast
<1>14. ASSUME NEW t \in Actor, WaitToRun(t) PROVE Joined'
  BY <1>14 DEF WaitToRun
<1>15. ASSUME NEW t \in Actor, SpuriousWakeup(t) PROVE Joined'
  BY <1>15 DEF SpuriousWakeup
<1>16. ASSUME NEW t \in Actor, ThreadStart(t) PROVE Joined'
  BY <1>16 DEF ThreadStart
<1>17. ASSUME NEW t \in Actor, HandlerReturns(t) PROVE Joined'
  BY <1>17 DEF HandlerReturns
<1>18. ASSUME NEW t \in Actor, RecordTerminated(t) PROVE Joined'
  BY <1>18 DEF RecordTerminated
<1>19. ASSUME NEW t \in Actor, SemWait(t) PROVE Joined'
  BY <1>19 DEF SemWait
<1>20. ASSUME NEW t \in Actor, SemGet(t) PROVE Joined'
  BY <1>20 DEF SemGet
<1>21. ASSUME NEW t \in Actor, SemPost(t) PROVE Joined'
  BY <1>21 DEF SemPost
<1>22. ASSUME SoEnd PROVE Joined'
  BY <1>22 DEF SoEnd
<1>23. ASSUME EndWait PROVE Joined'
  BY <1>23 DEF EndWait
<1>24. ASSUME EndJoin PROVE Joined'
  BY <1>24, JoinsOrDies DEF EndJoin
<1>25. ASSUME EndFree PROVE Joined'
  <2>1. Len(terminated') = 0 /\ 1..0 = {}
    BY <1>0, <1>25 DEF NothingLeft
  <2>2. QED
    BY <1>0, <1>25, <2>1 DEF NothingLeft
<1>26. ASSUME UNCHANGED vars PROVE Joined'
  BY <1>26 DEF vars
<1>27. QED
  BY <1>d, <1>1, <1>2, <1>3, <1>4, <1>5, <1>6, <1>7, <1>8, <1>9, <1>10, <1>11, <1>12, <1>13,
       <1>14, <1>15, <1>16, <1>17, <1>18, <1>19, <1>20, <1>21, <1>22, <1>23, <1>24, <1>25,
       <1>26
     DEF DefinedStep, LibraryStep, ClientStep, EndStep

\* Nothing is created, recorded or joined before the first so_init.
LEMMA InitAccounting == Init => Accounting
BY ConstantsAssumption
   DEF Init, Accounting, MainLocal, Created, Children, Creating, Recorded, Joined, Actor, Thread

\* so_end's books balance in every reachable state, until the process does what C
\* leaves undefined.
LEMMA Accounted == Spec => [](TypeOK /\ (Accounting \/ Dead))
<1>1. TypeOK /\ Accounting /\ [Next]_vars => Dead' \/ Accounting'
  BY StepMainLocal, StepCreated, StepChildren, StepRecorded, StepJoined DEF Accounting
<1>2. QED
  BY Typed, InitAccounting, StepDead, <1>1, PTL DEF Spec

\* so_end never frees a scheduler, nor its mutex and semaphores, that a thread can
\* still use: when it has joined as many threads as were counted, these are all the
\* threads there are, even when Main forks several, pthread_create fails or a queue is
\* full.  (Of the structures of the threads, which it frees one by one before, the
\* theorem UndefinedOnlyByOverflow speaks.)
THEOREM NothingOutlivesScheduler == Spec => []NoThreadOutlivesScheduler
<1>1. TypeOK /\ (Accounting \/ Dead) => NoThreadOutlivesScheduler
  BY ConstantsAssumption DEF Accounting, Created, Dead, NoThreadOutlivesScheduler, Thread
<1>2. QED
  BY Accounted, <1>1, PTL

\* A sequence of different numbers up to n that lacks one of them is shorter than n.
LEMMA LacksOne ==
  ASSUME NEW n \in Nat, NEW S, NEW q \in Seq(S), Range(q) \subseteq 1..n,
         IsInjective(q), NEW x \in 1..n, x \notin Range(q)
  PROVE  Len(q) < n
<1>1. IsFiniteSet(1..n) /\ Cardinality(1..n) = n
  BY FS_Interval
<1>2. /\ IsFiniteSet((1..n) \ {x}) /\ Cardinality((1..n) \ {x}) = n - 1
  BY <1>1, FS_RemoveElement
<1>3. IsFiniteSet(1..Len(q)) /\ Cardinality(1..Len(q)) = Len(q) /\ Len(q) \in Nat
  <2> DEFINE m == Len(q)
  <2>1. m \in Nat
    OBVIOUS
  <2> HIDE DEF m
  <2>2. IsFiniteSet(1..m) /\ Cardinality(1..m) = m
    BY <2>1, FS_Interval
  <2>3. QED
    BY <2>1, <2>2 DEF m
<1>4. q \in [1..Len(q) -> (1..n) \ {x}]
  BY DEF Range
<1>5. ~(n - 1 < Len(q))
  <2> DEFINE A == 1..Len(q)
             B == (1..n) \ {x}
  <2> SUFFICES ASSUME n - 1 < Len(q) PROVE FALSE
    OBVIOUS
  <2>1. IsFiniteSet(A) /\ IsFiniteSet(B) /\ Cardinality(B) < Cardinality(A) /\ q \in [A -> B]
    BY <1>2, <1>3, <1>4
  <2>2. \A i, j \in A : q[i] = q[j] => i = j
    BY <1>4 DEF IsInjective
  <2> HIDE DEF A, B
  <2>3. QED
    BY <2>1, <2>2, FS_PigeonHole
<1>6. QED
  BY <1>3, <1>5

\* A queue of threads that lacks one of them has room, when MAX_SIZE is at
\* least the number of threads.
LEMMA QueueHasRoom ==
  ASSUME MaxThreads <= MaxSize, NEW S, NEW q \in Seq(S), Range(q) \subseteq Thread,
         IsInjective(q), NEW x \in Thread, x \notin Range(q)
  PROVE  Len(q) < MaxSize
<1>1. MaxThreads \in Nat /\ Thread = 1..MaxThreads
  BY ConstantsAssumption DEF Thread
<1>2. Len(q) < MaxThreads /\ Len(q) \in Nat
  BY <1>1, LacksOne
<1>3. QED
  BY <1>1, <1>2, ConstantsAssumption

-----------------------------------------------------------------------------
\* Wakeups.

\* A thread that has started has stored its tid.
Started ==
  \A t \in Actor : pc[t] \notin {"off", "none", "unborn", "start", "undefined"} => tid[t] = t

\* No step sends a thread on that has not stored its tid.
LEMMA StepStarted == TypeOK /\ Accounting /\ Started /\ [Next]_vars => Dead' \/ Started'
<1> SUFFICES ASSUME TypeOK, Accounting, Started, [Next]_vars, ~Dead' PROVE Started'
  OBVIOUS
<1> Facts
  BY FactsHold
<1>0. EndFree => NothingLeft
  BY NoneRemain
<1>d. [DefinedStep]_vars
  BY DefinedUnlessDead
<1> USE ConstantsAssumption
<1> USE DEF sched_vars, queue_vars, thread_vars, sem_vars, local_vars, Goto, Enter, Facts,
     Accounting, Created, Children, Creating, Started
<1> tid \in [Actor -> Pointer]
  BY DEF TypeOK
<1>1. ASSUME NEW q \in Quanta, NEW n \in Ios, SoInit(q, n) PROVE Started'
  BY <1>1 DEF SoInit
<1>2. ASSUME NEW t \in Actor, NEW u \in Thread, NEW p \in Prio, SoFork(t, u, p) PROVE Started'
  BY <1>2 DEF SoFork, MayCall, Thread
<1>3. ASSUME NEW t \in Actor, ForkPost(t) PROVE Started'
  BY <1>3 DEF ForkPost
<1>4. ASSUME NEW t \in Actor, ForkCreate(t) PROVE Started'
  BY <1>4 DEF ForkCreate
<1>5. ASSUME NEW t \in Actor, ForkEnqueue(t) PROVE Started'
  BY <1>5 DEF ForkEnqueue
<1>6. ASSUME NEW t \in Actor, SoExec(t) PROVE Started'
  BY <1>6 DEF SoExec, MayCall
<1>7. ASSUME NEW t \in Actor, NEW d \in Dev, SoWait(t, d) PROVE Started'
  BY <1>7 DEF SoWait, MayCall
<1>8. ASSUME NEW t \in Actor, NEW d \in Dev, SoSignal(t, d) PROVE Started'
  BY <1>8 DEF SoSignal, MayCall
<1>9. ASSUME NEW t \in Actor, SignalLoop(t) PROVE Started'
  BY <1>9 DEF SignalLoop
<1>10. ASSUME NEW t \in Actor, DecreaseQuantum(t) PROVE Started'
  BY <1>10 DEF DecreaseQuantum
<1>11. ASSUME NEW t \in Actor, CheckScheduler(t) PROVE Started'
  BY <1>11 DEF CheckScheduler
<1>12. ASSUME NEW t \in Actor, Preempted(t) PROVE Started'
  BY <1>12 DEF Preempted, AfterPreempted
<1>13. ASSUME NEW t \in Actor, Broadcast(t) PROVE Started'
  BY <1>13 DEF Broadcast, AfterBroadcast
<1>14. ASSUME NEW t \in Actor, WaitToRun(t) PROVE Started'
  BY <1>14 DEF WaitToRun
<1>15. ASSUME NEW t \in Actor, SpuriousWakeup(t) PROVE Started'
  BY <1>15 DEF SpuriousWakeup
<1>16. ASSUME NEW t \in Actor, ThreadStart(t) PROVE Started'
  BY <1>16 DEF ThreadStart
<1>17. ASSUME NEW t \in Actor, HandlerReturns(t) PROVE Started'
  BY <1>17 DEF HandlerReturns
<1>18. ASSUME NEW t \in Actor, RecordTerminated(t) PROVE Started'
  BY <1>18 DEF RecordTerminated
<1>19. ASSUME NEW t \in Actor, SemWait(t) PROVE Started'
  BY <1>19 DEF SemWait
<1>20. ASSUME NEW t \in Actor, SemGet(t) PROVE Started'
  BY <1>20 DEF SemGet
<1>21. ASSUME NEW t \in Actor, SemPost(t) PROVE Started'
  BY <1>21 DEF SemPost
<1>22. ASSUME SoEnd PROVE Started'
  BY <1>22 DEF SoEnd
<1>23. ASSUME EndWait PROVE Started'
  BY <1>23 DEF EndWait
<1>24. ASSUME EndJoin PROVE Started'
  BY <1>24, JoinsOrDies DEF EndJoin
<1>25. ASSUME EndFree PROVE Started'
  BY <1>0, <1>25 DEF EndFree, NothingLeft
<1>26. ASSUME UNCHANGED vars PROVE Started'
  BY <1>26 DEF vars
<1>27. QED
  BY <1>d, <1>1, <1>2, <1>3, <1>4, <1>5, <1>6, <1>7, <1>8, <1>9, <1>10, <1>11, <1>12, <1>13,
       <1>14, <1>15, <1>16, <1>17, <1>18, <1>19, <1>20, <1>21, <1>22, <1>23, <1>24, <1>25,
       <1>26
     DEF DefinedStep, LibraryStep, ClientStep, EndStep

\* No step chooses a sleeping thread, or puts the chosen one to sleep,
\* without leaving an actor that is about to broadcast.
LEMMA StepAwake ==
  TypeOK /\ Accounting /\ Started /\ NoLostWakeup /\ [Next]_vars => Dead' \/ NoLostWakeup'
<1> SUFFICES ASSUME TypeOK, Accounting, Started, NoLostWakeup, [Next]_vars, ~Dead'
      PROVE  NoLostWakeup'
  OBVIOUS
<1> Facts
  BY FactsHold
<1>0. EndFree => NothingLeft
  BY NoneRemain
<1>d. [DefinedStep]_vars
  BY DefinedUnlessDead
<1> USE ConstantsAssumption
<1> USE DEF sched_vars, queue_vars, thread_vars, sem_vars, local_vars, Goto, Enter, Facts,
     Accounting, Created, Children, Creating, Started, NoLostWakeup
<1>1. ASSUME NEW q \in Quanta, NEW n \in Ios, SoInit(q, n) PROVE NoLostWakeup'
  BY <1>1 DEF SoInit
<1>2. ASSUME NEW t \in Actor, NEW u \in Thread, NEW p \in Prio, SoFork(t, u, p) PROVE NoLostWakeup'
  <2>1. pc[u] = "none" /\ u # t /\ pc[t] = "user"
    BY <1>2 DEF SoFork, MayCall, Thread
  <2>2. /\ \A v \in Actor : v # t /\ v # u => pc'[v] = pc[v]
        /\ pc'[t] = "fork_post" /\ pc'[u] = "unborn" /\ running' = running
    BY <1>2, <2>1 DEF SoFork
  <2>3. QED
    BY <2>1, <2>2
<1>3. ASSUME NEW t \in Actor, ForkPost(t) PROVE NoLostWakeup'
  BY <1>3 DEF ForkPost
<1>4. ASSUME NEW t \in Actor, ForkCreate(t) PROVE NoLostWakeup'
  BY <1>4 DEF ForkCreate
<1>5. ASSUME NEW t \in Actor, ForkEnqueue(t) PROVE NoLostWakeup'
  BY <1>5 DEF ForkEnqueue
<1>6. ASSUME NEW t \in Actor, SoExec(t) PROVE NoLostWakeup'
  BY <1>6 DEF SoExec, MayCall
<1>7. ASSUME NEW t \in Actor, NEW d \in Dev, SoWait(t, d) PROVE NoLostWakeup'
  BY <1>7 DEF SoWait, MayCall
<1>8. ASSUME NEW t \in Actor, NEW d \in Dev, SoSignal(t, d) PROVE NoLostWakeup'
  BY <1>8 DEF SoSignal, MayCall
<1>9. ASSUME NEW t \in Actor, SignalLoop(t) PROVE NoLostWakeup'
  BY <1>9 DEF SignalLoop
<1>10. ASSUME NEW t \in Actor, DecreaseQuantum(t) PROVE NoLostWakeup'
  BY <1>10 DEF DecreaseQuantum
<1>11. ASSUME NEW t \in Actor, CheckScheduler(t) PROVE NoLostWakeup'
  BY <1>11 DEF CheckScheduler
<1>12. ASSUME NEW t \in Actor, Preempted(t) PROVE NoLostWakeup'
  BY <1>12 DEF Preempted, AfterPreempted
<1>13. ASSUME NEW t \in Actor, Broadcast(t) PROVE NoLostWakeup'
  BY <1>13 DEF Broadcast, AfterBroadcast
<1>14. ASSUME NEW t \in Actor, WaitToRun(t) PROVE NoLostWakeup'
  BY <1>14 DEF WaitToRun
<1>15. ASSUME NEW t \in Actor, SpuriousWakeup(t) PROVE NoLostWakeup'
  BY <1>15 DEF SpuriousWakeup
<1>16. ASSUME NEW t \in Actor, ThreadStart(t) PROVE NoLostWakeup'
  BY <1>16 DEF ThreadStart
<1>17. ASSUME NEW t \in Actor, HandlerReturns(t) PROVE NoLostWakeup'
  BY <1>17 DEF HandlerReturns
<1>18. ASSUME NEW t \in Actor, RecordTerminated(t) PROVE NoLostWakeup'
  BY <1>18 DEF RecordTerminated
<1>19. ASSUME NEW t \in Actor, SemWait(t) PROVE NoLostWakeup'
  BY <1>19 DEF SemWait
<1>20. ASSUME NEW t \in Actor, SemGet(t) PROVE NoLostWakeup'
  BY <1>20 DEF SemGet
<1>21. ASSUME NEW t \in Actor, SemPost(t) PROVE NoLostWakeup'
  BY <1>21 DEF SemPost
<1>22. ASSUME SoEnd PROVE NoLostWakeup'
  BY <1>22 DEF SoEnd
<1>23. ASSUME EndWait PROVE NoLostWakeup'
  BY <1>23 DEF EndWait
<1>24. ASSUME EndJoin PROVE NoLostWakeup'
  BY <1>24, JoinsOrDies DEF EndJoin
<1>25. ASSUME EndFree PROVE NoLostWakeup'
  BY <1>0, <1>25 DEF EndFree, NothingLeft
<1>26. ASSUME UNCHANGED vars PROVE NoLostWakeup'
  BY <1>26 DEF vars
<1>27. QED
  BY <1>d, <1>1, <1>2, <1>3, <1>4, <1>5, <1>6, <1>7, <1>8, <1>9, <1>10, <1>11, <1>12, <1>13,
       <1>14, <1>15, <1>16, <1>17, <1>18, <1>19, <1>20, <1>21, <1>22, <1>23, <1>24, <1>25,
       <1>26
     DEF DefinedStep, LibraryStep, ClientStep, EndStep

\* No wakeup is lost: whatever the clients do, a chosen thread that sleeps on
\* is_running_thread has a broadcast ahead of it from another thread, which may
\* still be between its decision and its broadcast, for every number of threads.
THEOREM WakeupsReach == Spec => []NoLostWakeup
<1>1. Init => Started /\ NoLostWakeup
  BY ConstantsAssumption DEF Init, Started, NoLostWakeup, Actor, Thread
<1>2. Dead => NoLostWakeup
  BY DEF Dead, NoLostWakeup, Actor
<1>3. QED
  BY Accounted, StepStarted, StepAwake, StepDead, <1>1, <1>2, PTL DEF Spec
-----------------------------------------------------------------------------
\* Handlers.

\* The queues hold threads, a scheduler has a running thread, and so_fork
\* queues a thread.
Pointers ==
  /\ ready \in [Prio -> Seq(Actor)] /\ waiting \in [Dev -> Seq(Actor)]
  /\ alive => running \in Actor
  /\ \A t \in Actor : pc[t] = "fork_enqueue" => child[t] \in Thread

\* A tid names the thread that has it.
Tids == \A t \in Actor : tid[t] \in {t, None}

\* The points at which an actor acts for the running thread: while the
\* handler executes, and in a call up to its scheduling decision.
Acting(t) ==
  \/ pc[t] \in {"fork_post", "fork_create", "fork_enqueue", "signal_loop", "decrease", "check"}
  \/ pc[t] = "user" /\ (t \in Thread \/ calls[Main] = 0)

\* The right to act is held by one thread, the running one.  Main has it
\* until its first so_fork has decided who runs next.
Token ==
  /\ \A t \in Actor : Acting(t) => running = t
  /\ pc[Main] \in {"fork_post", "fork_create", "fork_enqueue", "decrease", "check",
                   "preempted", "broadcast"} => calls[Main] # 0

Exclusion == Pointers /\ Tids /\ Token

\* A thread only ever stores its own pthread_self() as its tid.
LEMMA StepTids ==
  ASSUME TypeOK, Accounting, Tids, [Next]_vars, ~Dead'
  PROVE  Tids'
<1> Facts
  BY FactsHold
<1>0. EndFree => NothingLeft
  BY NoneRemain
<1>d. [DefinedStep]_vars
  BY DefinedUnlessDead
<1> USE ConstantsAssumption
<1> USE DEF sched_vars, queue_vars, thread_vars, sem_vars, local_vars, Goto, Enter, Facts,
     Accounting, Tids
<1>1. ASSUME NEW q \in Quanta, NEW n \in Ios, SoInit(q, n) PROVE Tids'
  BY <1>1 DEF SoInit
<1>2. ASSUME NEW t \in Actor, NEW u \in Thread, NEW p \in Prio, SoFork(t, u, p) PROVE Tids'
  BY <1>2 DEF SoFork, MayCall, Thread
<1>3. ASSUME NEW t \in Actor, ForkPost(t) PROVE Tids'
  BY <1>3 DEF ForkPost
<1>4. ASSUME NEW t \in Actor, ForkCreate(t) PROVE Tids'
  BY <1>4 DEF ForkCreate
<1>5. ASSUME NEW t \in Actor, ForkEnqueue(t) PROVE Tids'
  BY <1>5 DEF ForkEnqueue
<1>6. ASSUME NEW t \in Actor, SoExec(t) PROVE Tids'
  BY <1>6 DEF SoExec, MayCall
<1>7. ASSUME NEW t \in Actor, NEW d \in Dev, SoWait(t, d) PROVE Tids'
  BY <1>7 DEF SoWait, MayCall
<1>8. ASSUME NEW t \in Actor, NEW d \in Dev, SoSignal(t, d) PROVE Tids'
  BY <1>8 DEF SoSignal, MayCall
<1>9. ASSUME NEW t \in Actor, SignalLoop(t) PROVE Tids'
  BY <1>9 DEF SignalLoop
<1>10. ASSUME NEW t \in Actor, DecreaseQuantum(t) PROVE Tids'
  BY <1>10 DEF DecreaseQuantum
<1>11. ASSUME NEW t \in Actor, CheckScheduler(t) PROVE Tids'
  BY <1>11 DEF CheckScheduler
<1>12. ASSUME NEW t \in Actor, Preempted(t) PROVE Tids'
  BY <1>12 DEF Preempted, AfterPreempted
<1>13. ASSUME NEW t \in Actor, Broadcast(t) PROVE Tids'
  BY <1>13 DEF Broadcast, AfterBroadcast
<1>14. ASSUME NEW t \in Actor, WaitToRun(t) PROVE Tids'
  BY <1>14 DEF WaitToRun
<1>15. ASSUME NEW t \in Actor, SpuriousWakeup(t) PROVE Tids'
  BY <1>15 DEF SpuriousWakeup
<1>16. ASSUME NEW t \in Actor, ThreadStart(t) PROVE Tids'
  BY <1>16 DEF ThreadStart
<1>17. ASSUME NEW t \in Actor, HandlerReturns(t) PROVE Tids'
  BY <1>17 DEF HandlerReturns
<1>18. ASSUME NEW t \in Actor, RecordTerminated(t) PROVE Tids'
  BY <1>18 DEF RecordTerminated
<1>19. ASSUME NEW t \in Actor, SemWait(t) PROVE Tids'
  BY <1>19 DEF SemWait
<1>20. ASSUME NEW t \in Actor, SemGet(t) PROVE Tids'
  BY <1>20 DEF SemGet
<1>21. ASSUME NEW t \in Actor, SemPost(t) PROVE Tids'
  BY <1>21 DEF SemPost
<1>22. ASSUME SoEnd PROVE Tids'
  BY <1>22 DEF SoEnd
<1>23. ASSUME EndWait PROVE Tids'
  BY <1>23 DEF EndWait
<1>24. ASSUME EndJoin PROVE Tids'
  BY <1>24, JoinsOrDies DEF EndJoin
<1>25. ASSUME EndFree PROVE Tids'
  BY <1>25 DEF EndFree
<1>26. ASSUME UNCHANGED vars PROVE Tids'
  BY <1>26 DEF vars
<1>27. QED
  BY <1>d, <1>1, <1>2, <1>3, <1>4, <1>5, <1>6, <1>7, <1>8, <1>9, <1>10, <1>11, <1>12, <1>13,
       <1>14, <1>15, <1>16, <1>17, <1>18, <1>19, <1>20, <1>21, <1>22, <1>23, <1>24, <1>25,
       <1>26
     DEF DefinedStep, LibraryStep, ClientStep, EndStep

\* No step puts a NULL into a queue, or leaves a scheduler without a
\* running thread.
LEMMA StepPointers ==
  ASSUME TypeOK, OneDrainer, Accounting, Pointers, [Next]_vars, ~Dead'
  PROVE  Pointers'
<1> Facts
  BY FactsHold
<1>0. EndFree => NothingLeft
  BY NoneRemain
<1>d. [DefinedStep]_vars
  BY DefinedUnlessDead
<1>a. \A t \in Actor : pc[t] \notin {"none", "off"} => alive
  BY AliveWhileActive
<1>b. prio \in [Actor -> Prio]
  BY DEF TypeOK
<1>c. \A q \in Seq(Actor), t \in Actor : Enqueue(q, t) \in Seq(Actor)
  BY EnqueueType
<1> USE ConstantsAssumption
<1> USE DEF sched_vars, queue_vars, thread_vars, sem_vars, local_vars, Goto, Enter, Facts,
     Accounting, MainLocal, Created, Children, Creating, Pointers
<1>1. ASSUME NEW q \in Quanta, NEW n \in Ios, SoInit(q, n) PROVE Pointers'
  BY <1>1 DEF SoInit
<1>2. ASSUME NEW t \in Actor, NEW u \in Thread, NEW p \in Prio, SoFork(t, u, p) PROVE Pointers'
  BY <1>2 DEF SoFork, MayCall, Thread
<1>3. ASSUME NEW t \in Actor, ForkPost(t) PROVE Pointers'
  BY <1>3 DEF ForkPost
<1>4. ASSUME NEW t \in Actor, ForkCreate(t) PROVE Pointers'
  <2>1. /\ child[t] \in Thread
        /\ \A u \in Actor : pc'[u] = "fork_enqueue" => u = t \/ pc[u] = pc'[u]
    BY <1>4 DEF ForkCreate
  <2>2. UNCHANGED <<ready, waiting, alive, running, child>>
    BY <1>4 DEF ForkCreate
  <2>3. QED
    BY <2>1, <2>2
<1>5. ASSUME NEW t \in Actor, ForkEnqueue(t) PROVE Pointers'
  <2>1. child[t] \in Actor /\ ready' = [ready EXCEPT ![prio[child[t]]] = Enqueue(@, child[t])]
    BY <1>5 DEF ForkEnqueue
  <2>2. ready' \in [Prio -> Seq(Actor)]
    BY <1>b, <1>c, <2>1
  <2>3. QED
    BY <1>5, <2>2 DEF ForkEnqueue
<1>6. ASSUME NEW t \in Actor, SoExec(t) PROVE Pointers'
  BY <1>6 DEF SoExec, MayCall
<1>7. ASSUME NEW t \in Actor, NEW d \in Dev, SoWait(t, d) PROVE Pointers'
  <2>1. running \in Actor
    BY <1>a, <1>7 DEF SoWait, MayCall
  <2>2. waiting' = [waiting EXCEPT ![d] = Enqueue(@, running)]
    BY <1>7 DEF SoWait
  <2>3. waiting' \in [Dev -> Seq(Actor)]
    BY <1>c, <2>1, <2>2
  <2>4. QED
    BY <1>7, <2>3 DEF SoWait, MayCall
<1>8. ASSUME NEW t \in Actor, NEW d \in Dev, SoSignal(t, d) PROVE Pointers'
  BY <1>8 DEF SoSignal, MayCall
<1>9. ASSUME NEW t \in Actor, SignalLoop(t) PROVE Pointers'
  <2> DEFINE q == waiting[draining]
  <2>1. draining \in Dev
    BY <1>9 DEF SignalLoop, OneDrainer
  <2>2. q \in Seq(Actor)
    BY <2>1
  <2>3. CASE /\ q # <<>>
             /\ waiting' = [waiting EXCEPT ![draining] = Tail(@)]
             /\ ready' = [ready EXCEPT ![prio[Head(q)]] = Enqueue(@, Head(q))]
             /\ UNCHANGED <<draining, pc>>
    <3>1. Tail(q) \in Seq(Actor) /\ Head(q) \in Actor
      BY <2>2, <2>3
    <3>2. waiting' \in [Dev -> Seq(Actor)]
      BY <2>1, <2>3, <3>1
    <3>3. \A i \in Prio : Enqueue(ready[i], Head(q)) \in Seq(Actor)
      BY <1>c, <3>1
    <3>4. ready' \in [Prio -> Seq(Actor)]
      BY <2>3, <3>3
    <3>5. QED
      BY <1>9, <2>3, <3>2, <3>4 DEF SignalLoop
  <2>4. CASE /\ draining' = None
             /\ pc' = [pc EXCEPT ![t] = "decrease"]
             /\ UNCHANGED <<queue_vars, on_wait>>
    BY <1>9, <2>4 DEF SignalLoop
  <2>5. QED
    BY <1>9, <2>3, <2>4 DEF SignalLoop
<1>10. ASSUME NEW t \in Actor, DecreaseQuantum(t) PROVE Pointers'
  BY <1>10 DEF DecreaseQuantum
<1>11. ASSUME NEW t \in Actor, CheckScheduler(t) PROVE Pointers'
  <2>1. running \in Actor
    BY <1>a, <1>11 DEF CheckScheduler
  <2>2. Requeued \in [Prio -> Seq(Actor)]
    <3>1. \A i \in Prio : Enqueue(ready[i], running) \in Seq(Actor)
      BY <1>c, <2>1
    <3>2. QED
      BY <3>1 DEF Requeued
  <2> DEFINE q == Requeued
  <2> HIDE DEF q
  <2>3. q \in [Prio -> Seq(Actor)]
    BY <2>2 DEF q
  <2>4. ASSUME NEW i \in Prio, Eligible(q, i), Dispatch(q, i)
        PROVE  ready' \in [Prio -> Seq(Actor)] /\ running' \in Actor
    <3>1. Head(q[i]) \in Actor /\ Tail(q[i]) \in Seq(Actor)
      BY <2>3, <2>4 DEF Eligible
    <3> DEFINE rest == [q EXCEPT ![i] = Tail(@)]
    <3>2. rest \in [Prio -> Seq(Actor)]
      BY <2>3, <3>1
    <3>3. \A j \in Prio : Enqueue(rest[j], running) \in Seq(Actor)
      BY <1>c, <2>1, <3>2
    <3>4. QED
      BY <2>4, <3>1, <3>2, <3>3 DEF Dispatch
  <2>5. ready' \in [Prio -> Seq(Actor)] /\ running' \in Actor
    BY <1>11, <2>1, <2>3, <2>4 DEF CheckScheduler, q
  <2>6. QED
    BY <1>11, <2>5 DEF CheckScheduler
<1>12. ASSUME NEW t \in Actor, Preempted(t) PROVE Pointers'
  BY <1>12 DEF Preempted, AfterPreempted
<1>13. ASSUME NEW t \in Actor, Broadcast(t) PROVE Pointers'
  BY <1>13 DEF Broadcast, AfterBroadcast
<1>14. ASSUME NEW t \in Actor, WaitToRun(t) PROVE Pointers'
  BY <1>14 DEF WaitToRun
<1>15. ASSUME NEW t \in Actor, SpuriousWakeup(t) PROVE Pointers'
  BY <1>15 DEF SpuriousWakeup
<1>16. ASSUME NEW t \in Actor, ThreadStart(t) PROVE Pointers'
  BY <1>16 DEF ThreadStart
<1>17. ASSUME NEW t \in Actor, HandlerReturns(t) PROVE Pointers'
  BY <1>17 DEF HandlerReturns
<1>18. ASSUME NEW t \in Actor, RecordTerminated(t) PROVE Pointers'
  BY <1>18 DEF RecordTerminated
<1>19. ASSUME NEW t \in Actor, SemWait(t) PROVE Pointers'
  BY <1>19 DEF SemWait
<1>20. ASSUME NEW t \in Actor, SemGet(t) PROVE Pointers'
  BY <1>20 DEF SemGet
<1>21. ASSUME NEW t \in Actor, SemPost(t) PROVE Pointers'
  BY <1>21 DEF SemPost
<1>22. ASSUME SoEnd PROVE Pointers'
  BY <1>22 DEF SoEnd
<1>23. ASSUME EndWait PROVE Pointers'
  BY <1>23 DEF EndWait
<1>24. ASSUME EndJoin PROVE Pointers'
  BY <1>24, JoinsOrDies DEF EndJoin
<1>25. ASSUME EndFree PROVE Pointers'
  <2>1. ready' \in [Prio -> Seq(Actor)] /\ waiting' \in [Dev -> Seq(Actor)]
    BY <1>25 DEF EndFree
  <2>2. QED
    BY <1>0, <1>25, <2>1 DEF NothingLeft
<1>26. ASSUME UNCHANGED vars PROVE Pointers'
  BY <1>26 DEF vars
<1>27. QED
  BY <1>d, <1>1, <1>2, <1>3, <1>4, <1>5, <1>6, <1>7, <1>8, <1>9, <1>10, <1>11, <1>12, <1>13,
       <1>14, <1>15, <1>16, <1>17, <1>18, <1>19, <1>20, <1>21, <1>22, <1>23, <1>24, <1>25,
       <1>26
     DEF DefinedStep, LibraryStep, ClientStep, EndStep

\* The right to act passes on with sch->running_thread, and only then.
LEMMA StepToken ==
  ASSUME MainForks <= 1, TypeOK, OneDrainer, Accounting, Exclusion, [Next]_vars, ~Dead'
  PROVE  Token'
<1> Facts
  BY FactsHold
<1>0. EndFree => NothingLeft
  BY NoneRemain
<1>d. [DefinedStep]_vars
  BY DefinedUnlessDead
<1>a. \A t \in Actor : pc[t] \notin {"none", "off"} => alive
  BY AliveWhileActive
<1> /\ on_wait \in [Actor -> BOOLEAN] /\ tid \in [Actor -> Pointer] /\ calls \in [Actor -> Nat]
      /\ prio \in [Actor -> Prio]
  BY DEF TypeOK
<1> USE ConstantsAssumption
<1> USE DEF sched_vars, queue_vars, thread_vars, sem_vars, local_vars, Goto, Enter, Facts,
     Accounting, MainLocal, Created, Children, Creating, Exclusion, Pointers, Tids, Token,
     Acting
<1>1. ASSUME NEW q \in Quanta, NEW n \in Ios, SoInit(q, n) PROVE Token'
  <2>1. \A t \in Thread : pc[t] = "none"
    BY <1>1 DEF SoInit, Thread
  <2>2. QED
    BY <1>1, <2>1 DEF SoInit
<1>2. ASSUME NEW t \in Actor, NEW u \in Thread, NEW p \in Prio, SoFork(t, u, p) PROVE Token'
  <2>1. /\ Acting(t) /\ t # u /\ running = t /\ pc[u] = "none"
        /\ pc' = [pc EXCEPT ![t] = "fork_post", ![u] = "unborn"]
        /\ calls' = [calls EXCEPT ![t] = @ + 1] /\ running' = running
    BY <1>2 DEF SoFork, MayCall, Thread
  <2>2. \A v \in Actor : v # t /\ v # u => pc'[v] = pc[v] /\ (v = Main => calls'[v] = calls[v])
    BY <2>1
  <2>3. t = Main => calls'[Main] # 0
    BY <2>1
  <2>4. QED
    BY <2>1, <2>2, <2>3
<1>3. ASSUME NEW t \in Actor, ForkPost(t) PROVE Token'
  BY <1>3 DEF ForkPost
<1>4. ASSUME NEW t \in Actor, ForkCreate(t) PROVE Token'
  BY <1>4 DEF ForkCreate
<1>5. ASSUME NEW t \in Actor, ForkEnqueue(t) PROVE Token'
  BY <1>5 DEF ForkEnqueue
<1>6. ASSUME NEW t \in Actor, SoExec(t) PROVE Token'
  BY <1>6 DEF SoExec, MayCall
<1>7. ASSUME NEW t \in Actor, NEW d \in Dev, SoWait(t, d) PROVE Token'
  BY <1>7 DEF SoWait, MayCall
<1>8. ASSUME NEW t \in Actor, NEW d \in Dev, SoSignal(t, d) PROVE Token'
  BY <1>8 DEF SoSignal, MayCall
<1>9. ASSUME NEW t \in Actor, SignalLoop(t) PROVE Token'
  BY <1>9 DEF SignalLoop
<1>10. ASSUME NEW t \in Actor, DecreaseQuantum(t) PROVE Token'
  BY <1>10 DEF DecreaseQuantum
<1>11. ASSUME NEW t \in Actor, CheckScheduler(t) PROVE Token'
  BY <1>11 DEF CheckScheduler
<1>12. ASSUME NEW t \in Actor, Preempted(t) PROVE Token'
  <2>1. alive /\ running \in Actor
    BY <1>a, <1>12 DEF Preempted
  <2>2. pc'[t] = "user" => running = t
    BY <1>12, <2>1 DEF Preempted, AfterPreempted
  <2>3. QED
    BY <1>12, <2>2 DEF Preempted, AfterPreempted
<1>13. ASSUME NEW t \in Actor, Broadcast(t) PROVE Token'
  BY <1>13 DEF Broadcast, AfterBroadcast
<1>14. ASSUME NEW t \in Actor, WaitToRun(t) PROVE Token'
  <2>1. alive /\ running \in Actor
    BY <1>a, <1>14 DEF WaitToRun
  <2>2. pc'[t] = "user" => running = t
    BY <1>14, <2>1 DEF WaitToRun
  <2>3. QED
    BY <1>14, <2>2 DEF WaitToRun
<1>15. ASSUME NEW t \in Actor, SpuriousWakeup(t) PROVE Token'
  BY <1>15 DEF SpuriousWakeup
<1>16. ASSUME NEW t \in Actor, ThreadStart(t) PROVE Token'
  BY <1>16 DEF ThreadStart
<1>17. ASSUME NEW t \in Actor, HandlerReturns(t) PROVE Token'
  BY <1>17 DEF HandlerReturns
<1>18. ASSUME NEW t \in Actor, RecordTerminated(t) PROVE Token'
  BY <1>18 DEF RecordTerminated
<1>19. ASSUME NEW t \in Actor, SemWait(t) PROVE Token'
  BY <1>19 DEF SemWait
<1>20. ASSUME NEW t \in Actor, SemGet(t) PROVE Token'
  BY <1>20 DEF SemGet
<1>21. ASSUME NEW t \in Actor, SemPost(t) PROVE Token'
  BY <1>21 DEF SemPost
<1>22. ASSUME SoEnd PROVE Token'
  BY <1>22 DEF SoEnd
<1>23. ASSUME EndWait PROVE Token'
  BY <1>23 DEF EndWait
<1>24. ASSUME EndJoin PROVE Token'
  BY <1>24, JoinsOrDies DEF EndJoin
<1>25. ASSUME EndFree PROVE Token'
  BY <1>0, <1>25 DEF NothingLeft, EndFree
<1>26. ASSUME UNCHANGED vars PROVE Token'
  BY <1>26 DEF vars
<1>27. QED
  BY <1>d, <1>1, <1>2, <1>3, <1>4, <1>5, <1>6, <1>7, <1>8, <1>9, <1>10, <1>11, <1>12, <1>13,
       <1>14, <1>15, <1>16, <1>17, <1>18, <1>19, <1>20, <1>21, <1>22, <1>23, <1>24, <1>25,
       <1>26
     DEF DefinedStep, LibraryStep, ClientStep, EndStep

\* Before the first so_init nobody acts.
LEMMA InitExclusion == Init => Exclusion
<1> SUFFICES ASSUME Init PROVE Exclusion
  OBVIOUS
<1>1. Pointers
  BY ConstantsAssumption DEF Init, Pointers, Actor, Thread
<1>2. Tids /\ Token
  BY ConstantsAssumption DEF Init, Tids, Token, Acting, Actor
<1>3. QED
  BY <1>1, <1>2 DEF Exclusion

\* "Only one function can be executed at a certain moment" (test_exec.c):
\* however fork, wait, signal, exec, exit, time slices, wakeups and so_end
\* interleave, a handler only executes in the running thread.
THEOREM HandlersExclude ==
  ASSUME MainForks <= 1
  PROVE  Spec => []MutualExclusion
<1>1. TypeOK /\ OneDrainer /\ Accounting /\ Exclusion /\ [Next]_vars => Dead' \/ Exclusion'
  BY StepPointers, StepTids, StepToken DEF Exclusion
<1>2. TypeOK /\ Exclusion => MutualExclusion
  BY DEF Exclusion, Token, Acting, MutualExclusion, AtUser, Actor
<1>3. Dead => MutualExclusion
  BY DEF Dead, MutualExclusion, AtUser, Actor
<1>4. Dead /\ Accounting => FALSE
  BY DEF Dead, Accounting, MainLocal, Actor
<1>5. QED
  BY Typed, Accounted, InitExclusion, StepDead, <1>1, <1>2, <1>3, <1>4, PTL DEF Spec

-----------------------------------------------------------------------------
\* The count.

\* A thread whose so_fork has counted it, and that has not passed its sem_wait.
Counts(t) ==
  /\ pc[t] \notin {"none", "sem_get", "sem_post", "done"}
  /\ \A f \in Actor : pc[f] = "fork_post" => child[f] # t

Counted == {t \in Thread : Counts(t)}

\* They are finitely many.
LEMMA CountedFinite == IsFiniteSet(Counted)
BY FS_Interval, FS_Subset, ConstantsAssumption DEF Counted, Thread

\* A step counts a thread, takes one off the count, or changes nothing; so_end's
\* frees take the semaphore with the threads.
LEMMA StepCounts ==
  ASSUME TypeOK, Accounting, [Next]_vars, ~Dead'
  PROVE  \/ not_term' = not_term /\ \A v \in Thread : Counts(v)' <=> Counts(v)
         \/ /\ not_term' = not_term + 1
            /\ \E x \in Thread : /\ ~Counts(x) /\ Counts(x)'
                                 /\ \A v \in Thread : v # x => (Counts(v)' <=> Counts(v))
         \/ /\ not_term' = not_term - 1
            /\ \E x \in Thread : /\ Counts(x) /\ ~Counts(x)'
                                 /\ \A v \in Thread : v # x => (Counts(v)' <=> Counts(v))
         \/ not_term' = 0 /\ \A v \in Thread : ~Counts(v)'
<1> DEFINE Same == not_term' = not_term /\ \A v \in Thread : Counts(v)' <=> Counts(v)
<1> Facts
  BY FactsHold
<1>0. EndFree => NothingLeft
  BY NoneRemain
<1>d. [DefinedStep]_vars
  BY DefinedUnlessDead
<1> USE DEF sched_vars, queue_vars, thread_vars, sem_vars, local_vars, Goto, Enter, Facts, Counts
<1>1. ASSUME NEW t \in Actor, NEW u \in Thread, NEW p \in Prio, SoFork(t, u, p) PROVE Same
  <2>1. /\ pc[t] = "user" /\ pc[u] = "none" /\ t # u /\ not_term' = not_term
        /\ pc' = [pc EXCEPT ![t] = "fork_post", ![u] = "unborn"]
        /\ child' = [child EXCEPT ![t] = u]
    BY <1>1 DEF SoFork, MayCall, Accounting, Created, Thread
  <2>2. ~Counts(u) /\ ~Counts(u)'
    BY <2>1
  <2>3. ASSUME NEW v \in Thread, v # u PROVE Counts(v)' <=> Counts(v)
    <3>1. \A f \in Actor : f # t => (pc'[f] = "fork_post" <=> pc[f] = "fork_post")
                                    /\ child'[f] = child[f]
      BY <2>1
    <3>2. pc'[t] = "fork_post" /\ child'[t] # v /\ pc[t] # "fork_post"
      BY <2>1, <2>3
    <3>3. pc'[v] = pc[v] \/ v = t
      BY <2>1, <2>3
    <3>4. QED
      BY <2>1, <3>1, <3>2, <3>3
  <2>4. QED
    BY <2>1, <2>2, <2>3
<1>2. ASSUME NEW t \in Actor, ForkPost(t)
      PROVE  /\ not_term' = not_term + 1
             /\ \E x \in Thread : /\ ~Counts(x) /\ Counts(x)'
                                  /\ \A v \in Thread : v # x => (Counts(v)' <=> Counts(v))
  <2> DEFINE x == child[t]
  <2>1. /\ pc[t] = "fork_post" /\ not_term' = not_term + 1
        /\ pc' = [pc EXCEPT ![t] = "fork_create"] /\ child' = child
    BY <1>2 DEF ForkPost
  <2>2. /\ x \in Thread /\ pc[x] = "unborn"
        /\ \A f \in Actor : pc[f] = "fork_post" /\ child[f] = x => f = t
    BY <2>1 DEF Accounting, Children, Creating
  <2>3. ~Counts(x) /\ Counts(x)'
    BY <2>1, <2>2
  <2>4. ASSUME NEW v \in Thread, v # x PROVE Counts(v)' <=> Counts(v)
    BY <2>1, <2>2, <2>4
  <2>5. QED
    BY <2>1, <2>2, <2>3, <2>4
<1>3. ASSUME NEW t \in Actor, ForkCreate(t) PROVE Same
  <2>1. /\ pc[t] = "fork_create" /\ child[t] \in Thread /\ pc[child[t]] = "unborn"
        /\ \/ pc' = [pc EXCEPT ![t] = "fork_enqueue", ![child[t]] = "start"]
           \/ pc' = [pc EXCEPT ![t] = "fork_enqueue"]
        /\ child' = child /\ not_term' = not_term
    BY <1>3 DEF ForkCreate, Accounting, Children, Creating
  <2>2. QED
    BY <2>1
<1>4. ASSUME NEW t \in Actor,
             ForkEnqueue(t) \/ SignalLoop(t) \/ DecreaseQuantum(t) \/ CheckScheduler(t)
             \/ SoExec(t) \/ (\E d \in Dev : SoWait(t, d) \/ SoSignal(t, d)) \/ HandlerReturns(t)
      PROVE  Same
  <2>1. /\ not_term' = not_term /\ child' = child
        /\ \/ pc' = pc
           \/ /\ pc[t] \in {"fork_enqueue", "signal_loop", "decrease", "check", "user"}
              /\ \E l \in {"decrease", "check", "signal_loop", "broadcast", "preempted"} :
                   pc' = [pc EXCEPT ![t] = l]
    BY <1>4 DEF ForkEnqueue, SignalLoop, DecreaseQuantum, CheckScheduler, SoExec, SoWait,
       SoSignal, HandlerReturns, MayCall
  <2>2. QED
    BY <2>1
<1>5. ASSUME NEW t \in Actor,
             Preempted(t) \/ WaitToRun(t) \/ SpuriousWakeup(t) \/ ThreadStart(t)
             \/ RecordTerminated(t)
      PROVE  Same
  <2>1. /\ not_term' = not_term /\ child' = child
        /\ pc[t] \in {"preempted", "wait_to_run", "blocked", "start", "record"}
        /\ \E l \in {"record", "broadcast", "user", "wait_to_run", "blocked", "sem_wait"} :
             pc' = [pc EXCEPT ![t] = l]
    BY <1>5 DEF Preempted, AfterPreempted, WaitToRun, SpuriousWakeup, ThreadStart,
       RecordTerminated
  <2>2. QED
    BY <2>1
<1>6. ASSUME NEW t \in Actor, Broadcast(t) PROVE Same
  BY <1>6 DEF Broadcast, AfterBroadcast
<1>7. ASSUME NEW t \in Actor, SemWait(t)
      PROVE  /\ not_term' = not_term - 1
             /\ \E x \in Thread : /\ Counts(x) /\ ~Counts(x)'
                                  /\ \A v \in Thread : v # x => (Counts(v)' <=> Counts(v))
  <2>1. /\ pc[t] = "sem_wait" /\ not_term' = not_term - 1 /\ t \in Thread
        /\ pc' = [pc EXCEPT ![t] = "sem_get"] /\ child' = child
    BY <1>7 DEF SemWait, Accounting, MainLocal
  <2>2. Counts(t) /\ ~Counts(t)'
    BY <2>1 DEF Accounting, Children, Creating
  <2>3. QED
    BY <2>1, <2>2
<1>8. ASSUME NEW t \in Actor, SemGet(t) \/ SemPost(t) PROVE Same
  <2>1. /\ not_term' = not_term /\ child' = child
        /\ pc[t] \in {"sem_get", "sem_post"}
        /\ \E l \in {"sem_post", "done"} : pc' = [pc EXCEPT ![t] = l]
    BY <1>8 DEF SemGet, SemPost
  <2>2. QED
    BY <2>1
<1>9. ASSUME NEW q \in Quanta, NEW n \in Ios, SoInit(q, n) PROVE Same
  BY <1>9 DEF SoInit
<1>10. CASE SoEnd \/ EndWait
  BY <1>10 DEF SoEnd, EndWait, Same
<1>11. CASE EndJoin
  BY <1>11, JoinsOrDies DEF EndJoin
<1>12. CASE EndFree
  BY <1>0, <1>12 DEF EndFree, NothingLeft
<1>13. CASE UNCHANGED vars
  BY <1>13 DEF vars
<1>14. QED
  BY <1>d, <1>1, <1>2, <1>3, <1>4, <1>5, <1>6, <1>7, <1>8, <1>9, <1>10, <1>11, <1>12, <1>13
     DEF DefinedStep, LibraryStep, ClientStep, EndStep, Same

\* The semaphore keeps up with the threads.
LEMMA StepCounted ==
  ASSUME TypeOK, Accounting, not_term = Cardinality(Counted), [Next]_vars, ~Dead'
  PROVE  not_term' = Cardinality(Counted')
<1>1. CASE not_term' = not_term /\ \A v \in Thread : Counts(v)' <=> Counts(v)
  <2>1. Counted' = Counted
    BY <1>1 DEF Counted
  <2>2. QED
    BY <1>1, <2>1
<1>2. ASSUME NEW x \in Thread, ~Counts(x), Counts(x)', not_term' = not_term + 1,
             \A v \in Thread : v # x => (Counts(v)' <=> Counts(v))
      PROVE  not_term' = Cardinality(Counted')
  <2>1. Counted' = Counted \cup {x} /\ x \notin Counted
    BY <1>2 DEF Counted
  <2>2. QED
    BY <1>2, <2>1, CountedFinite, FS_AddElement
<1>3. ASSUME NEW x \in Thread, Counts(x), ~Counts(x)', not_term' = not_term - 1,
             \A v \in Thread : v # x => (Counts(v)' <=> Counts(v))
      PROVE  not_term' = Cardinality(Counted')
  <2>1. Counted' = Counted \ {x} /\ x \in Counted
    BY <1>3 DEF Counted
  <2>2. QED
    BY <1>3, <2>1, CountedFinite, FS_RemoveElement
<1>4. CASE not_term' = 0 /\ \A v \in Thread : ~Counts(v)'
  <2>1. Counted' = {}
    BY <1>4 DEF Counted
  <2>2. QED
    BY <1>4, <2>1, FS_EmptySet
<1>5. QED
  BY <1>1, <1>2, <1>3, <1>4, StepCounts

LEMMA InitCounted == Init => not_term = Cardinality(Counted)
<1> SUFFICES ASSUME Init PROVE not_term = Cardinality(Counted)
  OBVIOUS
<1>1. Counted = {}
  BY ConstantsAssumption DEF Init, Counted, Counts, Actor, Thread
<1>2. QED
  BY <1>1, FS_EmptySet DEF Init

\* The count is right in every reachable state, until the process does what C
\* leaves undefined.
LEMMA SemCounted ==
  Spec => [](TypeOK /\ ((Accounting /\ not_term = Cardinality(Counted)) \/ Dead))
<1>1. /\ TypeOK /\ Accounting /\ not_term = Cardinality(Counted) /\ [Next]_vars
      => Dead' \/ (Accounting /\ not_term = Cardinality(Counted))'
  <2>1. TypeOK /\ Accounting /\ [Next]_vars => Dead' \/ Accounting'
    BY StepMainLocal, StepCreated, StepChildren, StepRecorded, StepJoined DEF Accounting
  <2>2. QED
    BY <2>1, StepCounted
<1>2. QED
  BY Typed, InitAccounting, InitCounted, StepDead, <1>1, PTL DEF Spec

\* not_terminated_threads never loses count: between the sem_post of its so_fork
\* and its own sem_wait every thread is counted once, also when pthread_create
\* fails, a queue is full, or Main forks several times.
THEOREM LiveThreadsCounted == Spec => []SemCountsLive
<1>1. TypeOK /\ ((Accounting /\ not_term = Cardinality(Counted)) \/ Dead) => SemCountsLive
  BY DEF SemCountsLive, Counted, Counts, Dead, Actor
<1>2. QED
  BY SemCounted, <1>1, PTL

-----------------------------------------------------------------------------
\* The end.

Past == {"sem_get", "sem_post", "done"}

\* Every thread there is has passed its sem_wait.
AllPast == \A t \in Thread : pc[t] = "none" \/ pc[t] \in Past

\* A thread that has passed its critical section at the end has its slot.
Slotted == \A t \in Thread : pc[t] \in {"sem_wait"} \cup Past => t \in Range(terminated)

\* Only Main's one so_fork creates a thread when there is none.
OneRoot ==
  /\ calls[Main] = 0 => all_term = 0 /\ \A t \in Thread : pc[t] = "none"
  /\ pc[Main] = "fork_post" => \A t \in Thread : pc[t] \in {"none", "unborn"}

\* all_threads_terminated is only posted, and so_end only joins, when every
\* thread is past its sem_wait.
LastOnly ==
  /\ all_term > 0 => AllPast
  /\ \A t \in Thread : pc[t] = "sem_post" => AllPast
  /\ pc[Main] = "end_join" => AllPast

Finishing == not_term = Cardinality(Counted) /\ Slotted /\ OneRoot /\ LastOnly

\* A count of zero means what sem_getvalue takes it for.
LEMMA ZeroMeansAllPast ==
  ASSUME TypeOK, Accounting, Finishing, not_term = 0, pc[Main] # "fork_post"
  PROVE  AllPast
<1> Facts
  BY FactsHold
<1>1. Counted = {}
  BY CountedFinite, FS_EmptySet DEF Finishing
<1>2. ASSUME NEW f \in Actor, pc[f] = "fork_post" PROVE FALSE
  <2>1. f \in Thread
    BY <1>2 DEF Facts
  <2>2. Counts(f)
    BY <1>2 DEF Counts, Accounting, Children, Creating
  <2>3. QED
    BY <1>1, <2>1, <2>2 DEF Counted
<1>3. QED
  BY <1>1, <1>2 DEF Counted, Counts, AllPast, Past

\* When every thread is past its sem_wait, every one of them has its slot.
LEMMA AllPastAllSlotted ==
  ASSUME TypeOK, Accounting, Slotted, AllPast
  PROVE  Len(terminated) = no_threads
<1> Facts
  BY FactsHold
<1>1. no_threads \in Nat /\ Len(terminated) \in Nat /\ DOMAIN terminated = 1..Len(terminated)
  BY DEF Facts
<1>2. Range(terminated) = 1..no_threads
  <2>1. ASSUME NEW t \in Range(terminated) PROVE t \in 1..no_threads
    <3>1. t \in Thread /\ pc[t] # "none"
      BY <1>1, <2>1 DEF Accounting, Recorded, Range
    <3>2. ~(t > no_threads)
      BY <3>1 DEF Accounting, Created
    <3>3. QED
      BY <1>1, <3>1, <3>2 DEF Thread
  <2>2. ASSUME NEW t \in 1..no_threads PROVE t \in Range(terminated)
    <3>1. t \in Thread /\ pc[t] # "none"
      BY <1>1, <2>2 DEF Accounting, Created, Thread, Facts
    <3>2. QED
      BY <3>1 DEF AllPast, Slotted
  <2>3. QED
    BY <2>1, <2>2
<1>3. terminated \in Bijection(1..Len(terminated), 1..no_threads)
  <2>1. terminated \in [1..Len(terminated) -> 1..no_threads]
    <3>1. terminated = [i \in 1..Len(terminated) |-> terminated[i]]
      BY <1>1 DEF Facts
    <3>2. \A i \in 1..Len(terminated) : terminated[i] \in 1..no_threads
      BY <1>1, <1>2 DEF Range
    <3>3. QED
      BY <3>1, <3>2
  <2>2. \A i, j \in 1..Len(terminated) : terminated[i] = terminated[j] => i = j
    BY DEF Accounting, Recorded
  <2>3. \A t \in 1..no_threads : \E i \in 1..Len(terminated) : terminated[i] = t
    BY <1>1, <1>2 DEF Range
  <2>4. QED
    BY <1>1, <2>1, <2>2, <2>3 DEF Bijection, Injection, Surjection, IsInjective
<1>4. IsFiniteSet(1..Len(terminated)) /\ Cardinality(1..Len(terminated)) = Len(terminated)
  <2> DEFINE n == Len(terminated)
  <2>1. n \in Nat
    BY <1>1
  <2> HIDE DEF n
  <2>2. IsFiniteSet(1..n) /\ Cardinality(1..n) = n
    BY <2>1, FS_Interval
  <2>3. QED
    BY <2>2 DEF n
<1>5. Cardinality(1..no_threads) = no_threads
  BY <1>1, FS_Interval
<1>6. QED
  BY <1>3, <1>4, <1>5, FS_Bijection DEF ExistsBijection

\* terminated_threads had no slot left for a thread.
Overflown == Dead /\ no_threads > MaxSize /\ no_threads <= MaxThreads

\* A thread that is about to take its slot has not taken one before.
LEMMA OverflowNeedsThreads ==
  ASSUME TypeOK, Accounting, NEW t \in Actor, Overflow(t)
  PROVE  no_threads > MaxSize
<1> Facts
  BY FactsHold
<1>1. pc[t] = "record" /\ Len(terminated) >= MaxSize /\ t \in Thread
  BY DEF Overflow, Accounting, MainLocal, Facts
<1>2. terminated \in Seq(Actor) /\ DOMAIN terminated = 1..Len(terminated)
  BY DEF Facts
<1>3. \A u \in Thread : pc[u] # "none" => u \in 1..no_threads
  BY DEF Accounting, Created, Thread, Facts
<1>4. \A i \in 1..Len(terminated) : terminated[i] \in (1..no_threads) \ {t}
  BY <1>1, <1>3 DEF Accounting, Recorded
<1>5. Range(terminated) \subseteq 1..no_threads /\ t \notin Range(terminated)
  BY <1>2, <1>4 DEF Range
<1>6. IsInjective(terminated)
  BY <1>2 DEF Accounting, Recorded, IsInjective
<1>7. t \in 1..no_threads /\ no_threads \in Nat
  BY <1>1, <1>3 DEF Facts
<1>8. Len(terminated) < no_threads
  BY <1>2, <1>5, <1>6, <1>7, LacksOne
<1>9. QED
  BY <1>1, <1>7, <1>8, ConstantsAssumption DEF Facts

\* so_end frees no structure that another actor is about to follow a pointer to.
LEMMA NoUseFreed ==
  ASSUME Accounting, LastOnly, NEW t \in Actor, UseFreed(t)
  PROVE  FALSE
<1>1. PICK i \in 1..joined : TRUE
  BY DEF UseFreed, Freed
<1>2. joined # 0
  BY <1>1
<1>3. pc[Main] = "end_join" /\ AllPast
  BY <1>2 DEF Accounting, Joined, LastOnly
<1>4. pc[t] \in {"none", "sem_get", "sem_post", "done", "end_join"}
  BY <1>3 DEF AllPast, Past, Actor
<1>5. Follows(t) = {}
  BY <1>4 DEF Follows, MayCall
<1>6. QED
  BY <1>5 DEF UseFreed

\* so_end follows no NULL pointer either, and nothing but an overflow of
\* terminated_threads leaves the process undefined.
LEMMA NothingElseUndefined ==
  ASSUME TypeOK, Accounting, Slotted, LastOnly, [Next]_vars
  PROVE  ~Dead' \/ Overflown'
<1> Facts
  BY FactsHold
<1>1. pc[Main] # "undefined"
  BY DEF Accounting, MainLocal
<1> USE DEF sched_vars, queue_vars, thread_vars, sem_vars, local_vars, Goto, Enter, Facts
<1>2. ASSUME NEW t \in Actor, LibraryStep(t) PROVE pc'[Main] # "undefined"
  BY <1>1, <1>2 DEF LibraryStep, ForkPost, ForkCreate, ForkEnqueue, SignalLoop, DecreaseQuantum,
     CheckScheduler, Preempted, AfterPreempted, Broadcast, AfterBroadcast, WaitToRun,
     ThreadStart, RecordTerminated, SemWait, SemGet, SemPost
<1>3. ASSUME NEW t \in Actor, ClientStep(t) \/ SpuriousWakeup(t) PROVE pc'[Main] # "undefined"
  BY <1>1, <1>3 DEF ClientStep, SpuriousWakeup, SoFork, SoExec, SoWait, SoSignal, HandlerReturns
<1>4. ASSUME EndJoin PROVE pc'[Main] # "undefined"
  <2>1. Len(terminated) = no_threads
    BY <1>4, AllPastAllSlotted DEF EndJoin, LastOnly
  <2>2. ~(joined >= Len(terminated))
    BY <1>4, <2>1 DEF EndJoin
  <2>3. pc' = pc
    BY <1>4, <2>2 DEF EndJoin
  <2>4. QED
    BY <1>1, <2>3
<1>5. ASSUME SoEnd \/ EndWait \/ EndFree PROVE pc'[Main] # "undefined"
  BY <1>1, <1>5 DEF SoEnd, EndWait, EndFree
<1>6. ASSUME NEW q \in Quanta, NEW n \in Ios, SoInit(q, n) PROVE pc'[Main] # "undefined"
  BY <1>6 DEF SoInit
<1>7. ASSUME UNCHANGED vars PROVE pc'[Main] # "undefined"
  BY <1>1, <1>7 DEF vars
<1>8. ASSUME NEW t \in Actor, Overflow(t) PROVE Overflown'
  <2>1. Dead' /\ no_threads' = no_threads
    BY <1>8, UndefinedIsDead
  <2>2. no_threads > MaxSize /\ no_threads <= MaxThreads
    BY <1>8, OverflowNeedsThreads DEF Accounting, Created
  <2>3. QED
    BY <2>1, <2>2 DEF Overflown
<1>9. ASSUME NEW t \in Actor PROVE ~UseFreed(t)
  BY NoUseFreed
<1>10. QED
  BY <1>2, <1>3, <1>4, <1>5, <1>6, <1>7, <1>8, <1>9 DEF Next, DefinedStep, EndStep, Dead

\* Each thread that reaches its end takes a slot, and keeps it.
LEMMA StepSlotted ==
  ASSUME TypeOK, Accounting, Slotted, [Next]_vars, ~Dead'
  PROVE  Slotted'
<1> Facts
  BY FactsHold
<1>0. EndFree => NothingLeft
  BY NoneRemain
<1>d. [DefinedStep]_vars
  BY DefinedUnlessDead
<1> USE DEF sched_vars, queue_vars, thread_vars, sem_vars, local_vars, Goto, Enter, Facts,
     Slotted, Past
<1>1. ASSUME NEW t \in Actor, RecordTerminated(t) PROVE Slotted'
  <2>1. /\ pc' = [pc EXCEPT ![t] = "sem_wait"] /\ terminated' = Append(terminated, t)
    BY <1>1 DEF RecordTerminated
  <2>2. /\ DOMAIN terminated' = 1..(Len(terminated) + 1) /\ DOMAIN terminated = 1..Len(terminated)
        /\ terminated'[Len(terminated) + 1] = t
        /\ \A i \in 1..Len(terminated) : terminated'[i] = terminated[i]
    BY <2>1
  <2>3. /\ Len(terminated) + 1 \in DOMAIN terminated'
        /\ \A i \in 1..Len(terminated) : i \in DOMAIN terminated'
    BY <2>2
  <2>4. t \in Range(terminated') /\ Range(terminated) \subseteq Range(terminated')
    BY <2>2, <2>3 DEF Range
  <2>5. QED
    BY <2>1, <2>4
<1>2. ASSUME NEW t \in Actor, LibraryStep(t), ~RecordTerminated(t), ~ForkCreate(t)
      PROVE  Slotted'
  BY <1>2 DEF LibraryStep, ForkPost, ForkEnqueue, SignalLoop, DecreaseQuantum,
     CheckScheduler, Preempted, AfterPreempted, Broadcast, AfterBroadcast, WaitToRun,
     ThreadStart, SemWait, SemGet, SemPost
<1>3. ASSUME NEW t \in Actor, ForkCreate(t) PROVE Slotted'
  BY <1>3 DEF ForkCreate
<1>4. ASSUME NEW t \in Actor, ClientStep(t) \/ SpuriousWakeup(t) PROVE Slotted'
  BY <1>4 DEF ClientStep, SpuriousWakeup, SoFork, SoExec, SoWait, SoSignal, HandlerReturns
<1>5. CASE SoEnd \/ EndWait
  BY <1>5 DEF SoEnd, EndWait
<1>6. CASE EndJoin
  BY <1>6, JoinsOrDies DEF EndJoin
<1>7. CASE EndFree
  BY <1>0, <1>7 DEF NothingLeft
<1>8. ASSUME NEW q \in Quanta, NEW n \in Ios, SoInit(q, n) PROVE Slotted'
  BY <1>8 DEF SoInit
<1>9. CASE UNCHANGED vars
  BY <1>9 DEF vars
<1>10. QED
  BY <1>d, <1>1, <1>2, <1>3, <1>4, <1>5, <1>6, <1>7, <1>8, <1>9 DEF DefinedStep, EndStep

\* Only Main's one so_fork starts from nothing.
LEMMA StepOneRoot ==
  ASSUME MainForks <= 1, TypeOK, Accounting, Exclusion, OneRoot, [Next]_vars, ~Dead'
  PROVE  OneRoot'
<1> Facts
  BY FactsHold
<1>0. EndFree => NothingLeft
  BY NoneRemain
<1>d. [DefinedStep]_vars
  BY DefinedUnlessDead
<1> calls \in [Actor -> Nat] /\ all_term \in Nat
  BY DEF TypeOK
<1>a. pc[Main] \in {"fork_post", "fork_create", "fork_enqueue", "decrease", "check",
                    "preempted", "broadcast"} => calls[Main] # 0
  BY DEF Exclusion, Token
<1> USE ConstantsAssumption
<1> USE DEF sched_vars, queue_vars, thread_vars, sem_vars, local_vars, Goto, Enter, Facts, OneRoot
<1>1. ASSUME NEW t \in Actor, NEW u \in Thread, NEW p \in Prio, SoFork(t, u, p) PROVE OneRoot'
  <2>1. /\ pc[t] = "user" /\ pc[u] = "none" /\ t # u /\ all_term' = all_term
        /\ pc' = [pc EXCEPT ![t] = "fork_post", ![u] = "unborn"]
        /\ calls' = [calls EXCEPT ![t] = @ + 1]
        /\ t = Main => calls[Main] = 0
    BY <1>1 DEF SoFork, MayCall, Accounting, Created, Thread
  <2>2. CASE t = Main
    BY <2>1, <2>2
  <2>3. CASE t # Main
    <3>1. calls'[Main] = calls[Main] /\ calls[Main] # 0 /\ pc'[Main] = pc[Main]
      BY <2>1, <2>3
    <3>2. pc[Main] # "fork_post"
      BY <2>1, <2>3
    <3>3. QED
      BY <3>1, <3>2
  <2>4. QED
    BY <2>2, <2>3
<1>2. ASSUME NEW t \in Actor, ForkPost(t) PROVE OneRoot'
  BY <1>2, <1>a DEF ForkPost
<1>3. ASSUME NEW t \in Actor, ForkCreate(t) PROVE OneRoot'
  <2>1. /\ pc[t] = "fork_create" /\ child[t] \in Thread /\ pc[child[t]] = "unborn"
        /\ UNCHANGED <<calls, all_term>> /\ pc'[t] = "fork_enqueue"
        /\ \A v \in Actor : v # t /\ v # child[t] => pc'[v] = pc[v]
    BY <1>3 DEF ForkCreate, Accounting, Children, Creating
  <2>2. calls[Main] # 0 /\ pc'[Main] # "fork_post"
    BY <2>1, <1>a
  <2>3. QED
    BY <2>1, <2>2
<1>4. ASSUME NEW t \in Actor,
             LibraryStep(t) \/ SpuriousWakeup(t), ~ForkPost(t), ~ForkCreate(t)
      PROVE  OneRoot'
  <2>1. calls' = calls /\ pc[t] \notin {"none", "unborn", "fork_post"}
    BY <1>4 DEF LibraryStep, ForkEnqueue, SignalLoop, DecreaseQuantum, CheckScheduler,
       Preempted, Broadcast, WaitToRun, ThreadStart, RecordTerminated, SemWait, SemGet, SemPost,
       SpuriousWakeup
  <2>2. /\ t \in Thread => calls[Main] # 0
        /\ t = Main => calls[Main] # 0
    BY <1>4, <1>a, <2>1 DEF LibraryStep, ForkEnqueue, SignalLoop, DecreaseQuantum,
       CheckScheduler, Preempted, Broadcast, WaitToRun, ThreadStart, RecordTerminated, SemWait,
       SemGet, SemPost, SpuriousWakeup, Accounting, MainLocal
  <2>3. pc'[Main] = "fork_post" => pc[Main] = "fork_post" /\ t \in Thread
    BY <1>4 DEF LibraryStep, ForkEnqueue, SignalLoop, DecreaseQuantum, CheckScheduler,
       Preempted, AfterPreempted, Broadcast, AfterBroadcast, WaitToRun, ThreadStart,
       RecordTerminated, SemWait, SemGet, SemPost, SpuriousWakeup
  <2>4. calls'[Main] # 0
    BY <2>1, <2>2
  <2>5. pc'[Main] # "fork_post"
    BY <2>1, <2>3
  <2>6. QED
    BY <2>4, <2>5
<1>5. ASSUME NEW t \in Actor, NEW d \in Dev, SoWait(t, d) \/ SoSignal(t, d) PROVE OneRoot'
  BY <1>5 DEF SoWait, SoSignal, MayCall
<1>6. ASSUME NEW t \in Actor, SoExec(t) \/ HandlerReturns(t) PROVE OneRoot'
  BY <1>6 DEF SoExec, HandlerReturns, MayCall
<1>7. CASE SoEnd \/ EndWait
  BY <1>7 DEF SoEnd, EndWait
<1>8. CASE EndJoin
  BY <1>8, JoinsOrDies DEF EndJoin
<1>9. CASE EndFree
  BY <1>0, <1>9 DEF EndFree, NothingLeft
<1>10. ASSUME NEW q \in Quanta, NEW n \in Ios, SoInit(q, n) PROVE OneRoot'
  BY <1>10 DEF SoInit
<1>11. CASE UNCHANGED vars
  BY <1>11 DEF vars
<1>12. QED
  BY <1>d, <1>1, <1>2, <1>3, <1>4, <1>5, <1>6, <1>7, <1>8, <1>9, <1>10, <1>11
     DEF DefinedStep, ClientStep, EndStep

\* The last thread, and so_end, only take the count for what it is when it is
\* zero; nobody can fork any more then.
LEMMA StepLastOnly ==
  ASSUME MainForks <= 1, TypeOK, Accounting, Exclusion, Finishing, [Next]_vars, ~Dead'
  PROVE  LastOnly'
<1> DEFINE Trigger == \/ all_term > 0 \/ pc[Main] = "end_join"
                      \/ \E t \in Thread : pc[t] = "sem_post"
<1> Facts
  BY FactsHold
<1>0. EndFree => NothingLeft
  BY NoneRemain
<1>d. [DefinedStep]_vars
  BY DefinedUnlessDead
<1> calls \in [Actor -> Nat] /\ all_term \in Nat /\ not_term \in Nat
  BY DEF TypeOK
<1> USE DEF sched_vars, queue_vars, thread_vars, sem_vars, local_vars, Goto, Enter, Facts
<1>1. Trigger => AllPast
  BY DEF Finishing, LastOnly
<1>2. ASSUME NEW t \in Actor, NEW u \in Thread, NEW p \in Prio, SoFork(t, u, p)
      PROVE  ~Trigger'
  <2>1. /\ pc[t] = "user" /\ pc[u] = "none" /\ t # u /\ all_term' = all_term
        /\ pc' = [pc EXCEPT ![t] = "fork_post", ![u] = "unborn"]
        /\ t = Main => calls[Main] = 0
    BY <1>2, ConstantsAssumption DEF SoFork, MayCall, Accounting, Created, Thread
  <2>2. ~Trigger
    <3>1. CASE t = Main
      BY <2>1, <3>1 DEF Finishing, OneRoot
    <3>2. CASE t # Main
      <4>1. ~AllPast
        BY <2>1, <3>2 DEF AllPast, Past
      <4>2. QED
        BY <1>1, <4>1
    <3>3. QED
      BY <3>1, <3>2
  <2>3. QED
    BY <2>1, <2>2
<1>3. ASSUME NEW t \in Actor, SemGet(t), Trigger' PROVE AllPast
  <2>1. CASE not_term = 0
    <3>1. pc[Main] # "fork_post"
      BY <1>3 DEF SemGet, Finishing, OneRoot, Accounting, MainLocal
    <3>2. QED
      BY <2>1, <3>1, ZeroMeansAllPast
  <2>2. CASE not_term # 0
    BY <1>1, <1>3, <2>2 DEF SemGet, IsLast
  <2>3. QED
    BY <2>1, <2>2
<1>4. ASSUME NEW t \in Actor, LibraryStep(t) \/ SpuriousWakeup(t), ~SemGet(t), Trigger'
      PROVE  Trigger
  <2>1. ForkCreate(t) => /\ child[t] \in Thread /\ pc[child[t]] = "unborn"
    BY DEF ForkCreate, Accounting, Children, Creating
  <2>2. SemPost(t) => t \in Thread
    BY DEF SemPost, Accounting, MainLocal
  <2>3. QED
    BY <1>4, <2>1, <2>2 DEF LibraryStep, ForkPost, ForkCreate, ForkEnqueue, SignalLoop,
       DecreaseQuantum, CheckScheduler, Preempted, AfterPreempted, Broadcast, AfterBroadcast,
       WaitToRun, ThreadStart, RecordTerminated, SemWait, SemPost, SpuriousWakeup
<1>5. ASSUME NEW t \in Actor, Trigger',
             SoExec(t) \/ (\E d \in Dev : SoWait(t, d) \/ SoSignal(t, d)) \/ HandlerReturns(t)
      PROVE  Trigger
  BY <1>5 DEF SoExec, SoWait, SoSignal, HandlerReturns, MayCall
<1>6. ASSUME SoEnd \/ EndWait, Trigger' PROVE AllPast
  <2>1. CASE SoEnd /\ not_term = 0
    BY <2>1, ZeroMeansAllPast DEF SoEnd
  <2>2. CASE SoEnd /\ not_term # 0
    BY <1>1, <1>6, <2>2 DEF SoEnd
  <2>3. CASE EndWait
    BY <1>1, <2>3 DEF EndWait
  <2>4. QED
    BY <1>6, <2>1, <2>2, <2>3
<1>7. ASSUME NEW q \in Quanta, NEW n \in Ios, SoInit(q, n), Trigger' PROVE Trigger
  BY <1>7 DEF SoInit
<1>8. AllPast /\ EndJoin => AllPast'
  BY JoinsOrDies DEF AllPast
<1>9. EndFree => AllPast'
  BY <1>0 DEF NothingLeft, AllPast
<1>10. EndJoin /\ Trigger' => Trigger
  BY JoinsOrDies DEF EndJoin
<1>11. ASSUME UNCHANGED vars PROVE (Trigger' => Trigger) /\ (AllPast => AllPast')
  BY <1>11 DEF vars, AllPast
<1>12. ASSUME AllPast, NEW t \in Actor, LibraryStep(t) \/ SpuriousWakeup(t) PROVE AllPast'
  <2>1. ForkCreate(t) => /\ child[t] \in Thread /\ pc[child[t]] = "unborn"
    BY DEF ForkCreate, Accounting, Children, Creating
  <2>2. ~ForkCreate(t)
    BY <1>12, <2>1 DEF AllPast, Past
  <2>3. QED
    BY <1>12, <2>2 DEF AllPast, Past, LibraryStep, ForkPost, ForkEnqueue, SignalLoop,
       DecreaseQuantum, CheckScheduler, Preempted, AfterPreempted, Broadcast, AfterBroadcast,
       WaitToRun, ThreadStart, RecordTerminated, SemWait, SemGet, SemPost, SpuriousWakeup
<1>13. ASSUME AllPast, NEW t \in Actor,
              SoExec(t) \/ (\E d \in Dev : SoWait(t, d) \/ SoSignal(t, d)) \/ HandlerReturns(t)
       PROVE  AllPast'
  BY <1>13 DEF AllPast, Past, SoExec, SoWait, SoSignal, HandlerReturns, MayCall
<1>14. ASSUME AllPast, SoEnd \/ EndWait PROVE AllPast'
  BY <1>14 DEF AllPast, SoEnd, EndWait
<1>15. ASSUME AllPast, NEW q \in Quanta, NEW n \in Ios, SoInit(q, n) PROVE AllPast'
  BY <1>15 DEF AllPast, SoInit
<1>16. Trigger' => AllPast'
  BY <1>d, <1>1, <1>2, <1>3, <1>4, <1>5, <1>6, <1>7, <1>8, <1>9, <1>10, <1>11, <1>12, <1>13, <1>14,
     <1>15
     DEF DefinedStep, ClientStep, EndStep, LibraryStep
<1>17. QED
  BY <1>16 DEF LastOnly

LEMMA InitFinishing == Init => Finishing
<1>1. Init => Slotted /\ OneRoot /\ LastOnly
  BY ConstantsAssumption DEF Init, Slotted, OneRoot, LastOnly, Past, Actor, Thread
<1>2. QED
  BY <1>1, InitCounted DEF Finishing

\* The scheduler's books, when Main forks at most once.
Books == TypeOK /\ OneDrainer /\ Accounting /\ Exclusion /\ Finishing

LEMMA InitBooks == Init => Books
<1>1. Init => OneDrainer
  BY DEF Init, OneDrainer
<1>2. QED
  BY InitTypeOK, InitAccounting, InitExclusion, InitFinishing, <1>1 DEF Books

\* They balance after every step, unless terminated_threads overflows.
LEMMA StepBooks ==
  ASSUME MainForks <= 1, Books, [Next]_vars
  PROVE  (Books' /\ ~Dead') \/ Overflown'
<1> SUFFICES ASSUME ~Overflown' PROVE Books' /\ ~Dead'
  OBVIOUS
<1> USE DEF Books
<1>1. ~Dead'
  BY NothingElseUndefined DEF Finishing
<1>2. TypeOK' /\ OneDrainer'
  BY StepTypeOK, StepOneDrainer
<1>3. Accounting'
  BY <1>1, StepMainLocal, StepCreated, StepChildren, StepRecorded, StepJoined DEF Accounting
<1>4. Exclusion'
  BY <1>1, StepPointers, StepTids, StepToken DEF Exclusion
<1>5. not_term' = Cardinality(Counted')
  BY <1>1, StepCounted DEF Finishing
<1>6. Slotted' /\ OneRoot' /\ LastOnly'
  BY <1>1, StepSlotted, StepOneRoot, StepLastOnly DEF Finishing
<1>7. QED
  BY <1>1, <1>2, <1>3, <1>4, <1>5, <1>6 DEF Finishing

\* Nothing happens after that.
LEMMA OverflownStays == Overflown /\ [Next]_vars => Overflown'
BY DeadStays DEF Overflown, Dead, vars, sched_vars

\* It takes more threads than slots.
LEMMA RoomForAll ==
  ASSUME MaxThreads <= MaxSize
  PROVE  Spec => []~Overflown
<1>1. TypeOK => ~Overflown
  BY ConstantsAssumption DEF TypeOK, Overflown
<1>2. QED
  BY TypeCorrect, <1>1, PTL

LEMMA Balanced ==
  ASSUME MainForks <= 1
  PROVE  Spec => [](Books \/ Overflown)
<1>1. Books /\ [Next]_vars => Books' \/ Overflown'
  BY StepBooks
<1>2. QED
  BY InitBooks, OverflownStays, <1>1, PTL DEF Spec

\* so_end starts to join when every thread has left its slot in
\* terminated_threads and nobody can fork any more: between the last thread's
\* sem_getvalue and its sem_post no new thread can appear.
THEOREM EndFindsAllFinished ==
  ASSUME MainForks <= 1
  PROVE  Spec => []EndJoinsFinished
<1>1. TypeOK /\ Accounting /\ Finishing => EndJoinsFinished
  <2> SUFFICES ASSUME TypeOK, Accounting, Finishing, pc[Main] = "end_join"
               PROVE  /\ Len(terminated) = no_threads
                      /\ \A t \in Thread : pc[t] = "none" \/ Exiting(t)
    BY DEF EndJoinsFinished
  <2>1. AllPast
    BY DEF Finishing, LastOnly
  <2>2. QED
    BY <2>1, AllPastAllSlotted DEF Finishing, AllPast, Past, Exiting
<1>2. Overflown => EndJoinsFinished
  BY DEF Overflown, Dead, EndJoinsFinished, Actor
<1>3. QED
  BY Balanced, <1>1, <1>2, PTL DEF Books

\* When Main forks at most once, whatever the threads do: so_end follows no NULL
\* pointer, and nobody follows a pointer to a structure it has freed, unless more
\* threads were created than terminated_threads has slots.
THEOREM UndefinedOnlyByOverflow ==
  ASSUME MainForks <= 1
  PROVE  Spec => [](StaysDefined \/ no_threads > MaxSize)
<1>1. Accounting => StaysDefined
  BY DEF Accounting, MainLocal, StaysDefined
<1>2. QED
  BY Balanced, <1>1, PTL DEF Books, Overflown
=============================================================================
