----------------------------- MODULE SchedulerProps -----------------------------
(***************************************************************************)
(* What so_scheduler.h and the test suite promise of the scheduler, and    *)
(* the facts about its queues and semaphores that make it work.            *)
(***************************************************************************)
EXTENDS Scheduler

Pointer == Actor \cup {None}  \* a struct thread *, or a tid_t

\* Every variable has its C type; in particular quanta are unsigned ints, and
\* the queues hold pointers to threads.
TypeOK ==
  /\ alive \in BOOLEAN /\ main_running \in BOOLEAN
  /\ time_quantum \in 0..(WordSize - 1) /\ io \in 0..MaxEvents /\ no_threads \in Nat
  /\ running \in Pointer
  /\ ready \in [Prio -> Seq(Pointer)] /\ waiting \in [Dev -> Seq(Pointer)]
  /\ terminated \in Seq(Actor)
  /\ quantum \in [Actor -> 0..(WordSize - 1)]
  /\ prio \in [Actor -> Prio] /\ tid \in [Actor -> Pointer]
  /\ work_done \in [Actor -> BOOLEAN] /\ on_wait \in [Actor -> BOOLEAN]
  /\ not_term \in Nat /\ all_term \in Nat
  /\ pc \in [Actor -> Label] /\ op \in [Actor -> CallNames \cup {"begin", "exit"}]
  /\ child \in [Actor -> Thread \cup {None}] /\ calls \in [Actor -> Nat]
  /\ joined \in Nat /\ draining \in Dev \cup {None}

-----------------------------------------------------------------------------
Forking(t) == pc[t] \in {"fork_post", "fork_create", "fork_enqueue"}

\* The threads whose so_fork has queued them, and that have not returned.
Admitted(t) == /\ pc[t] # "none" /\ ~work_done[t]
               /\ \A f \in Actor : Forking(f) => child[f] # t

AtUser(t) == pc[t] = "user"

Slots(queues, t) == {s \in (DOMAIN queues) \X (1..MaxSize) :
                       s[2] <= Len(queues[s[1]]) /\ queues[s[1]][s[2]] = t}

\* "only one function can be executed at a certain moment" (test_exec.c): a
\* handler only executes in the thread the scheduler has chosen.
MutualExclusion == \A t \in Thread : AtUser(t) => running = t

\* Whenever a handler executes, no thread that could run has a higher
\* priority, whatever the calls that queued and removed threads.
HighestPriorityRuns ==
  \A t \in Thread : AtUser(t) => \A i \in Prio : i > prio[t] => ready[i] = <<>>

\* Between the hand-overs of fork, wait, signal, exec and exit a thread that
\* has not returned is never lost or duplicated: unless it is running, it
\* has one place, in the ready queue of its priority or, if it waits, on
\* one device's queue.
OnePlaceEach ==
  \A t \in Thread : Admitted(t) /\ running # t =>
    IF on_wait[t]
    THEN Cardinality(Slots(waiting, t)) = 1 /\ Slots(ready, t) = {}
    ELSE /\ Cardinality(Slots(ready, t)) = 1 /\ Slots(waiting, t) = {}
         /\ \A s \in Slots(ready, t) : s[1] = prio[t]

\* so_end frees every thread struct: a thread that has returned is in no
\* queue, ready or waiting, and the running thread is not also ready.
NoStalePlace ==
  \A t \in Thread : pc[t] # "none" =>
    /\ work_done[t] \/ running = t => Slots(ready, t) = {}
    /\ work_done[t] => Slots(waiting, t) = {}

\* The processor does not idle: once the running thread has returned and has
\* handed over, no thread is ready.
WorkConserving ==
  \A t \in Thread :
    running = t /\ pc[t] \in {"record", "sem_wait", "sem_get", "sem_post", "done"}
      => \A i \in Prio : ready[i] = <<>>

\* The quantum of an executing handler is never 0 and never wraps below it, whatever
\* the threads do (Main has forked once).  Only a thread that has waited alone and
\* went on, and is marked as waiting or queued as ready for it, may run without one.
QuantumInBounds ==
  calls[Main] <= 1 => \A t \in Thread :
    AtUser(t) /\ ~on_wait[t] /\ Slots(ready, t) = {} => quantum[t] \in 1..time_quantum

\* so_wait only returns once the device was signalled (test_io.c).
WaitUntilSignalled == \A t \in Thread : AtUser(t) => ~on_wait[t]

\* Nobody broadcasts in vain: a chosen thread that sleeps on the condition
\* variable has a broadcast ahead of it, from the thread that chose it.
NoLostWakeup ==
  \A t \in Thread : running = t /\ pc[t] = "blocked" =>
    \E u \in Actor : \/ pc[u] = "broadcast"
                     \/ pc[u] = "preempted" /\ u # t

\* No decision, of whichever actor, runs ahead of a so_fork: the thread it chooses is
\* past its pthread_create, and only a pthread_create that failed leaves it without a pthread.
ChosenThreadsExist ==
  \A t \in Thread : running = t =>
    /\ pc[t] # "none"
    /\ \A f \in Actor : pc[f] \in {"fork_post", "fork_create"} => child[f] # t
    /\ pc[t] = "unborn" => CreateMayFail

-----------------------------------------------------------------------------
\* Termination, the semaphores and so_end.

Exiting(t) == pc[t] \in {"sem_get", "sem_post", "done"}

\* not_terminated_threads counts the threads that have neither passed their
\* sem_wait nor are still to be counted by their so_fork.
SemCountsLive ==
  pc[Main] # "undefined" => not_term = Cardinality({t \in Thread :
    /\ pc[t] \notin {"none", "sem_get", "sem_post", "done"}
    /\ \A f \in Actor : pc[f] = "fork_post" => child[f] # t})

\* so_end starts to join when every thread has left its slot in
\* terminated_threads and nobody can fork any more.
EndJoinsFinished ==
  pc[Main] = "end_join" =>
    /\ Len(terminated) = no_threads
    /\ \A t \in Thread : pc[t] = "none" \/ Exiting(t)

\* terminated_threads has a free slot for every thread that is about to take one.
\* The code does not ask; test_exec.c creates tasks until tasks_no reaches
\* SO_MAX_EXECUTION_TIME, 1024.
RecordFits == \A t \in Thread : pc[t] = "record" => Len(terminated) < MaxSize

\* Where a thread stays unless another actor moves.
Stuck(t) == \/ pc[t] \in {"none", "unborn", "blocked", "done"}
            \/ pc[t] = "sem_wait" /\ not_term = 0

\* so_end never waits for ever on threads that wait for one another: when nobody
\* can move there is a thread left, and each that is left waits on a device.
HangsOnlyOnDevice ==
  pc[Main] = "end_wait" /\ all_term = 0 /\ (\A t \in Thread : Stuck(t)) =>
    /\ \E t \in Thread : on_wait[t]
    /\ \A t \in Thread : pc[t] \notin {"none", "done"} => on_wait[t]

\* so_end frees a thread's structure when it has joined the thread.  No pointer to it,
\* from running_thread or a queue, is followed after that; neither is a slot of
\* terminated_threads before it is filled, and none lies behind the array.
StaysDefined == pc[Main] # "undefined"

\* When so_end frees the scheduler no thread is left to use it, the mutex or the
\* semaphores.  (The structures of the threads are the subject of StaysDefined.)
NoThreadOutlivesScheduler == ~alive => \A t \in Thread : pc[t] = "none"

-----------------------------------------------------------------------------
\* The processor the threads share.  A call is under way from its first
\* critical section to its decision; a forked thread is new until it is queued.
Executing == {t \in Thread : AtUser(t)}
Deciding == \E t \in Actor : Forking(t) \/ pc[t] \in {"signal_loop", "decrease", "check"}
Forked == {t \in Thread : pc[t] # "none"}
Gone == {t \in Thread : work_done[t]}
Unqueued == {child[t] : t \in {f \in Actor : Forking(f)}}

Promise == INSTANCE Processor WITH
  holder <- running, executing <- Executing, deciding <- Deciding,
  born <- Forked, gone <- Gone, newborn <- Unqueued, signalled <- draining,
  prio <- [t \in Thread |-> prio[t]], asleep <- waiting

\* With its pthreads, mutex, condition variable and semaphores the library is
\* one processor shared by priority: each of its steps is one of the
\* processor's, or changes nothing that a client could see.
ImplementsProcessor == Promise!Spec

-----------------------------------------------------------------------------
\* A thread that has not returned and does not wait only loses the processor
\* when its quantum is spent or to a thread of higher priority.
PreemptionIsEarned ==
  [][\A t, u \in Thread : running = t /\ running' = u /\ t # u =>
       work_done[t] \/ on_wait[t] \/ quantum[t] = 0 \/ prio[u] > prio[t]]_vars

\* so_end returns, unless a thread waits for ever on a device that nobody signals.
EndReturns ==
  pc[Main] \in {"end_wait", "end_join"} ~> pc[Main] = "off" \/ \E t \in Thread : []on_wait[t]

\* No starvation while handlers are finite: a ready thread gets to execute.
ReadyRuns == \A t \in Thread : (\E i \in Prio : Slots(ready, t) # {}) ~> AtUser(t)
=============================================================================
