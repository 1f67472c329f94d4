------------------------------- MODULE Scheduler -------------------------------
(***************************************************************************)
(* The cooperative thread scheduler of 4-scheduler/util/so_scheduler.c.    *)
(*                                                                         *)
(* Every so_fork creates a real pthread; the library lets one of them run  *)
(* at a time by making all the others wait on the condition variable       *)
(* is_running_thread until sch->running_thread is theirs.  A critical      *)
(* section of sch_mutex is one action; so is every semaphore operation,    *)
(* every pthread_create or pthread_join and every access to shared memory  *)
(* that the code makes outside the mutex.  pc[t] names the point actor t   *)
(* has reached, op[t] the call (or "begin", or "exit") it is inside.       *)
(*                                                                         *)
(* What the handlers do between two calls is the client's: any of the      *)
(* calls, in any order, at most MaxCalls of them.                          *)
(*                                                                         *)
(* A definition named ...Bug is a plausible slip in the definition that    *)
(* follows it; no action uses it.                                          *)
(***************************************************************************)
EXTENDS Integers, Sequences, FiniteSets

CONSTANTS
  MaxThreads,   \* bound: threads created between an so_init and its so_end
  Main,         \* the thread that calls so_init and so_end
  None,         \* no thread: a NULL pointer, and the tid 0 (INVALID_TID)
  MaxPrio,      \* SO_MAX_PRIO
  MaxEvents,    \* SO_MAX_NUM_EVENTS
  MaxSize,      \* MAX_SIZE, the capacity of every queue
  WordSize,     \* 2^32, the number of values of an unsigned int
  Quanta,       \* the time quanta so_init is called with
  Ios,          \* the numbers of devices so_init is called with
  Calls,        \* the calls a handler makes: a subset of CallNames
  MaxCalls,     \* bound: calls a handler makes before it returns
  MainForks,    \* bound: so_fork calls Main makes between so_init and so_end
  SoloWait,     \* may a handler call so_wait when no other thread is ready?
  CreateMayFail \* may pthread_create fail?

Thread == 1..MaxThreads  \* struct threads, numbered in the order so_fork allocates them
Actor == Thread \cup {Main}
Prio == 0..MaxPrio
Dev == 0..(MaxEvents - 1)
CallNames == {"fork", "exec", "wait", "signal"}

ASSUME ConstantsAssumption ==
  /\ MaxThreads \in Nat
  /\ Main \notin Thread
  /\ None \notin Actor \cup Dev
  /\ MaxPrio \in Nat /\ MaxEvents \in Nat
  /\ MaxSize \in Nat \ {0} /\ WordSize \in Nat \ {0}
  /\ Quanta \subseteq 1..(WordSize - 1)
  /\ Ios \subseteq 0..MaxEvents
  /\ Calls \subseteq CallNames
  /\ MaxCalls \in Nat /\ MainForks \in Nat
  /\ SoloWait \in BOOLEAN /\ CreateMayFail \in BOOLEAN

VARIABLES
  alive,        \* sch # NULL
  time_quantum, \* sch->time_quantum
  io,           \* sch->io
  no_threads,   \* sch->no_threads
  running,      \* sch->running_thread
  main_running, \* main_thread_running
  ready,        \* sch->ready_queues, front first
  waiting,      \* sch->waiting_queues, front first
  terminated,   \* sch->terminated_threads[0 .. no_terminated_threads - 1]
  quantum, prio, tid, work_done, on_wait,  \* the fields of struct thread
  not_term,     \* value of the semaphore not_terminated_threads
  all_term,     \* value of the semaphore all_threads_terminated
  pc, op,       \* control state of every actor
  child,        \* so_fork's local tr
  calls,        \* calls made so far, to bound the client
  joined,       \* so_end's loop counter i
  draining      \* the device so_signal's loop empties, holding sch_mutex

sched_vars == <<alive, time_quantum, io, no_threads, running, main_running, terminated>>
queue_vars == <<ready, waiting>>
thread_vars == <<prio, tid, work_done, on_wait>>
sem_vars == <<not_term, all_term>>
local_vars == <<child, calls, joined, draining>>
vars == <<sched_vars, queue_vars, quantum, thread_vars, sem_vars, pc, op, local_vars>>

\* Where a thread can be.  "none": not allocated; "unborn": its struct thread
\* is allocated, the pthread does not exist (yet); "undefined": the process has
\* done what C leaves undefined, and the model does not follow it any further.
Label == {"off", "none", "unborn", "start", "wait_to_run", "blocked", "user",
          "fork_post", "fork_create", "fork_enqueue", "signal_loop", "decrease", "check",
          "preempted", "broadcast", "record", "sem_wait", "sem_get", "sem_post",
          "done", "end_wait", "end_join", "undefined"}

\* Only so_signal's loop keeps sch_mutex from one step to the next.
MutexFree == draining = None

\* The end of what can be said about the process.
NothingDefined == pc' = [t \in Actor |-> "undefined"]

Goto(t, label) == pc' = [pc EXCEPT ![t] = label]

\* enqueue drops the element when the ring is full, without a word.
Enqueue(q, t) == IF Len(q) = MaxSize THEN q ELSE Append(q, t)

-----------------------------------------------------------------------------
Init ==
  /\ alive = FALSE /\ time_quantum = 0 /\ io = 0 /\ no_threads = 0
  /\ running = None /\ main_running = FALSE /\ terminated = <<>>
  /\ ready = [i \in Prio |-> <<>>] /\ waiting = [d \in Dev |-> <<>>]
  /\ quantum = [t \in Actor |-> 0] /\ prio = [t \in Actor |-> 0]
  /\ tid = [t \in Actor |-> None]
  /\ work_done = [t \in Actor |-> FALSE] /\ on_wait = [t \in Actor |-> FALSE]
  /\ not_term = 0 /\ all_term = 0 /\ draining = None
  /\ pc = [t \in Actor |-> IF t = Main THEN "off" ELSE "none"]
  /\ op = [t \in Actor |-> "begin"]
  /\ child = [t \in Actor |-> None] /\ calls = [t \in Actor |-> 0] /\ joined = 0

\* A call that so_init rejects (time_quantum 0, too many devices, a scheduler
\* that exists) returns without a change of state.
SoInit(q, n) ==
  /\ pc[Main] = "off" /\ ~alive
  /\ alive' = TRUE /\ time_quantum' = q /\ io' = n
  /\ running' = Main /\ main_running' = TRUE
  /\ tid' = [tid EXCEPT ![Main] = Main]
  /\ Goto(Main, "user")
  /\ UNCHANGED <<no_threads, terminated, queue_vars, quantum, prio, work_done,
                 on_wait, sem_vars, op, local_vars>>

-----------------------------------------------------------------------------
\* The calls.  A handler makes any of Calls; Main only forks.
MayCall(t, c) ==
  /\ pc[t] = "user"
  /\ IF t = Main THEN c = "fork" /\ calls[t] < MainForks
                 ELSE c \in Calls /\ calls[t] < MaxCalls

Enter(t, c, label) ==
  /\ Goto(t, label)
  /\ op' = [op EXCEPT ![t] = c]

\* so_fork, up to the end of its first critical section: the new thread's
\* structure is filled in and counted.  A call with no handler or with a
\* priority above SO_MAX_PRIO returns without a change of state.
SoFork(t, u, p) ==
  /\ MayCall(t, "fork") /\ MutexFree
  /\ u = no_threads + 1
  /\ quantum' = [quantum EXCEPT ![u] = time_quantum]
  /\ prio' = [prio EXCEPT ![u] = p]
  /\ tid' = [tid EXCEPT ![u] = None]
  /\ work_done' = [work_done EXCEPT ![u] = FALSE]
  /\ on_wait' = [on_wait EXCEPT ![u] = FALSE]
  /\ no_threads' = no_threads + 1
  /\ child' = [child EXCEPT ![t] = u]
  /\ calls' = [calls EXCEPT ![t] = @ + 1]
  /\ pc' = [pc EXCEPT ![t] = "fork_post", ![u] = "unborn"]
  /\ op' = [op EXCEPT ![t] = "fork", ![u] = "begin"]
  /\ UNCHANGED <<alive, time_quantum, io, running, main_running, terminated,
                 queue_vars, sem_vars, joined, draining>>

\* The thread is queued before it is created.
ForkPostBug(t) ==
  /\ pc[t] = "fork_post"
  /\ not_term' = not_term + 1
  /\ ready' = [ready EXCEPT ![prio[child[t]]] = Enqueue(@, child[t])]
  /\ Goto(t, "fork_create")
  /\ UNCHANGED <<sched_vars, waiting, quantum, thread_vars, all_term, op, local_vars>>

ForkPost(t) ==
  /\ pc[t] = "fork_post"
  /\ not_term' = not_term + 1
  /\ Goto(t, "fork_create")
  /\ UNCHANGED <<sched_vars, queue_vars, quantum, thread_vars, all_term, op, local_vars>>

\* The result of pthread_create is not looked at.
ForkCreate(t) ==
  /\ pc[t] = "fork_create"
  /\ \/ pc' = [pc EXCEPT ![t] = "fork_enqueue", ![child[t]] = "start"]
     \/ CreateMayFail /\ Goto(t, "fork_enqueue")
  /\ UNCHANGED <<sched_vars, queue_vars, quantum, thread_vars, sem_vars, op, local_vars>>

ForkEnqueue(t) ==
  /\ pc[t] = "fork_enqueue" /\ MutexFree
  /\ ready' = [ready EXCEPT ![prio[child[t]]] = Enqueue(@, child[t])]
  /\ Goto(t, "decrease")
  /\ UNCHANGED <<sched_vars, waiting, quantum, thread_vars, sem_vars, op, local_vars>>

SoExec(t) ==
  /\ MayCall(t, "exec")
  /\ Enter(t, "exec", "decrease")
  /\ calls' = [calls EXCEPT ![t] = @ + 1]
  /\ UNCHANGED <<sched_vars, queue_vars, quantum, thread_vars, sem_vars, child, joined,
                 draining>>

\* Whether the client calls so_wait now: with SoloWait = FALSE it never makes
\* the only runnable thread wait.
ClientWaits == SoloWait \/ \E i \in Prio : ready[i] # <<>>

\* so_wait's first critical section puts sch->running_thread on the device's
\* queue.  A device that does not exist is refused without a change of state.
SoWait(t, d) ==
  /\ MayCall(t, "wait") /\ ClientWaits /\ MutexFree
  /\ d < io
  /\ on_wait' = [on_wait EXCEPT ![running] = TRUE]
  /\ waiting' = [waiting EXCEPT ![d] = Enqueue(@, running)]
  /\ Enter(t, "wait", "decrease")
  /\ calls' = [calls EXCEPT ![t] = @ + 1]
  /\ UNCHANGED <<sched_vars, ready, quantum, prio, tid, work_done, sem_vars, child, joined,
                 draining>>

\* so_signal takes the mutex and keeps it for the whole of its loop.
SoSignal(t, d) ==
  /\ MayCall(t, "signal") /\ MutexFree
  /\ d < io
  /\ draining' = d
  /\ Enter(t, "signal", "signal_loop")
  /\ calls' = [calls EXCEPT ![t] = @ + 1]
  /\ UNCHANGED <<sched_vars, queue_vars, quantum, thread_vars, sem_vars, child, joined>>

\* An if instead of the loop: only the first thread of the device's queue wakes.
SignalLoopBug(t) ==
  /\ pc[t] = "signal_loop"
  /\ LET q == waiting[draining] IN
     IF q = <<>> THEN UNCHANGED <<queue_vars, on_wait>>
     ELSE /\ waiting' = [waiting EXCEPT ![draining] = Tail(@)]
          /\ on_wait' = [on_wait EXCEPT ![Head(q)] = FALSE]
          /\ ready' = [ready EXCEPT ![prio[Head(q)]] = Enqueue(@, Head(q))]
  /\ draining' = None
  /\ Goto(t, "decrease")
  /\ UNCHANGED <<sched_vars, quantum, prio, tid, work_done, sem_vars, op, child, calls, joined>>

\* One pass of that loop: wake the first thread of the device's queue, or
\* leave the loop and release the mutex.
SignalLoop(t) ==
  /\ pc[t] = "signal_loop"
  /\ LET q == waiting[draining] IN
     \/ /\ q # <<>>
        /\ waiting' = [waiting EXCEPT ![draining] = Tail(@)]
        /\ on_wait' = [on_wait EXCEPT ![Head(q)] = FALSE]
        /\ ready' = [ready EXCEPT ![prio[Head(q)]] = Enqueue(@, Head(q))]
        /\ UNCHANGED <<draining, pc>>
     \/ /\ q = <<>>
        /\ draining' = None
        /\ Goto(t, "decrease")
        /\ UNCHANGED <<queue_vars, on_wait>>
  /\ UNCHANGED <<sched_vars, quantum, prio, tid, work_done, sem_vars, op, child, calls, joined>>

-----------------------------------------------------------------------------
\* The steps the calls share.

\* A signed time_quantum.
DecrementBug(n) == n - 1

Decrement(n) == (n + WordSize - 1) % WordSize

\* The decrement is on whatever thread is running, and it is unsigned.
DecreaseQuantum(t) ==
  /\ pc[t] = "decrease" /\ MutexFree
  /\ quantum' = [quantum EXCEPT ![running] = Decrement(@)]
  /\ Goto(t, "check")
  /\ UNCHANGED <<sched_vars, queue_vars, thread_vars, sem_vars, op, local_vars>>

\* A thread that has returned is not taken for an expired one.
ExpiredBug == quantum[running] = 0

\* check_scheduler sets its local curr to NULL.
Expired == quantum[running] = 0 \/ work_done[running]

\* A waiting thread keeps the processor as long as its quantum lasts.
YieldsBug == Expired \/ main_running

\* The running thread gives way to a ready thread of any priority.
Yields == Expired \/ main_running \/ on_wait[running]

\* A thread that waits, or has returned, is queued again.
RequeuedWaitingBug ==
  IF Expired /\ tid[running] # tid[Main] /\ ~work_done[running]
  THEN [ready EXCEPT ![prio[running]] = Enqueue(@, running)]
  ELSE ready

RequeuedReturnedBug ==
  IF Expired /\ tid[running] # tid[Main] /\ ~on_wait[running]
  THEN [ready EXCEPT ![prio[running]] = Enqueue(@, running)]
  ELSE ready

\* The ready queues once a thread whose quantum is over is back in its queue.
Requeued ==
  IF Expired /\ tid[running] # tid[Main] /\ ~work_done[running] /\ ~on_wait[running]
  THEN [ready EXCEPT ![prio[running]] = Enqueue(@, running)]
  ELSE ready

\* >= for >.
EligibleBug(q, i) == q[i] # <<>> /\ (Yields \/ prio[Head(q[i])] >= prio[running])

Eligible(q, i) == q[i] # <<>> /\ (Yields \/ prio[Head(q[i])] > prio[running])

\* The loop over the priorities runs upwards.
ScannedBeforeBug(i) == {j \in Prio : j < i}

\* The priorities check_scheduler looks at before i.
ScannedBefore(i) == {j \in Prio : j > i}

\* The chosen thread continues with what is left of its last quantum.
RefillBug(next) == quantum

Refill(next) == [quantum EXCEPT ![next] = time_quantum]

Dispatch(q, i) ==
  LET next == Head(q[i])
      rest == [q EXCEPT ![i] = Tail(@)]
  IN  /\ ready' = IF Yields THEN rest
                  ELSE [rest EXCEPT ![prio[running]] = Enqueue(@, running)]
      /\ main_running' = FALSE
      /\ quantum' = Refill(next)
      /\ running' = next

\* The scheduling decision, one critical section: the first thread of the
\* highest priority that may take over does; if there is none, the running
\* thread stays, even when it has ended or waits.
CheckScheduler(t) ==
  /\ pc[t] = "check" /\ MutexFree
  /\ LET q == Requeued IN
     \/ /\ \A i \in Prio : ~Eligible(q, i)
        /\ ready' = q
        /\ UNCHANGED <<running, main_running, quantum>>
     \/ \E i \in Prio :
        /\ Eligible(q, i)
        /\ \A j \in ScannedBefore(i) : ~Eligible(q, j)
        /\ Dispatch(q, i)
  /\ Goto(t, IF op[t] = "wait" THEN "broadcast" ELSE "preempted")
  /\ UNCHANGED <<alive, time_quantum, io, no_threads, terminated, waiting,
                 thread_vars, sem_vars, op, local_vars>>

\* A thread that returns wakes nobody.
AfterPreemptedBug(t) ==
  IF op[t] = "exit" THEN "record"
  ELSE IF tid[running] # t THEN "broadcast" ELSE "user"

AfterPreempted(t) ==
  IF tid[running] # t THEN "broadcast"
  ELSE IF op[t] = "exit" THEN "record" ELSE "user"

Preempted(t) ==
  /\ pc[t] = "preempted" /\ MutexFree
  /\ Goto(t, AfterPreempted(t))
  /\ UNCHANGED <<sched_vars, queue_vars, quantum, thread_vars, sem_vars, op, local_vars>>

\* Main goes on after its so_fork; nobody ever makes it wait to run.
AfterBroadcast(t) ==
  IF op[t] = "exit" THEN "record"
  ELSE IF op[t] = "fork" /\ t = Main THEN "user" ELSE "wait_to_run"

Broadcast(t) ==
  /\ pc[t] = "broadcast" /\ MutexFree
  /\ pc' = [u \in Actor |-> IF u = t THEN AfterBroadcast(t)
                            ELSE IF pc[u] = "blocked" THEN "wait_to_run" ELSE pc[u]]
  /\ UNCHANGED <<sched_vars, queue_vars, quantum, thread_vars, sem_vars, op, local_vars>>

\* One pass of the loop of wait_to_run: leave it, or block and release the mutex.
\* (thread_function then clears work_done, which so_fork has cleared already.)
WaitToRun(t) ==
  /\ pc[t] = "wait_to_run" /\ MutexFree
  /\ Goto(t, IF tid[running] = t THEN "user" ELSE "blocked")
  /\ UNCHANGED <<sched_vars, queue_vars, quantum, thread_vars, sem_vars, op, local_vars>>

\* POSIX lets pthread_cond_wait return without a broadcast.
SpuriousWakeup(t) ==
  /\ pc[t] = "blocked"
  /\ Goto(t, "wait_to_run")
  /\ UNCHANGED <<sched_vars, queue_vars, quantum, thread_vars, sem_vars, op, local_vars>>

-----------------------------------------------------------------------------
\* thread_function without its wait_to_run.
ThreadStartBug(t) ==
  /\ pc[t] = "start"
  /\ tid' = [tid EXCEPT ![t] = t]
  /\ Goto(t, "user")
  /\ UNCHANGED <<sched_vars, queue_vars, quantum, prio, work_done, on_wait,
                 sem_vars, op, local_vars>>

\* thread_function around the handler.
ThreadStart(t) ==
  /\ pc[t] = "start"
  /\ tid' = [tid EXCEPT ![t] = t]
  /\ Goto(t, "wait_to_run")
  /\ UNCHANGED <<sched_vars, queue_vars, quantum, prio, work_done, on_wait,
                 sem_vars, op, local_vars>>

HandlerReturns(t) ==
  /\ t # Main /\ pc[t] = "user"
  /\ work_done' = [work_done EXCEPT ![t] = TRUE]
  /\ Enter(t, "exit", "check")
  /\ UNCHANGED <<sched_vars, queue_vars, quantum, prio, tid, on_wait, sem_vars, local_vars>>

\* A slot past the MAX_SIZE of terminated_threads is memory of the ready queue of
\* priority 0, here a part of it that is not in use (else: Overflow).
RecordTerminated(t) ==
  /\ pc[t] = "record" /\ MutexFree
  /\ terminated' = Append(terminated, t)
  /\ Goto(t, "sem_wait")
  /\ UNCHANGED <<alive, time_quantum, io, no_threads, running, main_running,
                 queue_vars, quantum, thread_vars, sem_vars, op, local_vars>>

\* The slot past the array is in use, by the queue or later by an enqueue.
Overflow(t) ==
  /\ pc[t] = "record" /\ MutexFree /\ Len(terminated) >= MaxSize
  /\ NothingDefined
  /\ UNCHANGED <<sched_vars, queue_vars, quantum, thread_vars, sem_vars, op, local_vars>>

\* The thread is taken off the count when it has been joined, too late.
SemWaitBug(t) ==
  /\ pc[t] = "sem_wait"
  /\ not_term > 0
  /\ Goto(t, "sem_get")
  /\ UNCHANGED <<sched_vars, queue_vars, quantum, thread_vars, sem_vars, op, local_vars>>

SemWait(t) ==
  /\ pc[t] = "sem_wait"
  /\ not_term > 0
  /\ not_term' = not_term - 1
  /\ Goto(t, "sem_get")
  /\ UNCHANGED <<sched_vars, queue_vars, quantum, thread_vars, all_term, op, local_vars>>

\* The thread counts itself, off by one.
IsLastBug == not_term <= 1
\* The last thread is the one that finds the count still at one.
IsLastLateBug == not_term = 1

IsLast == not_term = 0

SemGet(t) ==
  /\ pc[t] = "sem_get"
  /\ Goto(t, IF IsLast THEN "sem_post" ELSE "done")
  /\ UNCHANGED <<sched_vars, queue_vars, quantum, thread_vars, sem_vars, op, local_vars>>

SemPost(t) ==
  /\ pc[t] = "sem_post"
  /\ all_term' = all_term + 1
  /\ Goto(t, "done")
  /\ UNCHANGED <<sched_vars, queue_vars, quantum, thread_vars, not_term, op, local_vars>>

-----------------------------------------------------------------------------
\* so_end, in Main.  Without a scheduler it returns at once.
SoEnd ==
  /\ pc[Main] = "user" /\ alive
  /\ Goto(Main, IF not_term # 0 THEN "end_wait" ELSE "end_join")
  /\ UNCHANGED <<sched_vars, queue_vars, quantum, thread_vars, sem_vars, op, local_vars>>

EndWait ==
  /\ pc[Main] = "end_wait"
  /\ all_term > 0
  /\ all_term' = all_term - 1
  /\ Goto(Main, "end_join")
  /\ UNCHANGED <<sched_vars, queue_vars, quantum, thread_vars, not_term, op, local_vars>>

\* pthread_join(terminated_threads[i]->tid) and free(terminated_threads[i]): the
\* structure is Freed from here on.  A slot that no thread has filled yet is a NULL
\* pointer, which the process does not survive.
EndJoin ==
  /\ pc[Main] = "end_join" /\ joined < no_threads
  /\ \/ /\ joined < Len(terminated)
        /\ pc[terminated[joined + 1]] = "done"
        /\ joined' = joined + 1
        /\ UNCHANGED pc
     \/ /\ joined >= Len(terminated)
        /\ NothingDefined
        /\ UNCHANGED joined
  /\ UNCHANGED <<sched_vars, queue_vars, quantum, thread_vars, sem_vars, op, child, calls,
                 draining>>

\* The structures so_end's loop has freed.
Freed == {terminated[i] : i \in 1..joined}

\* The heads check_scheduler looks at: down to the first that may take over.
Scanned(q) == {Head(q[i]) : i \in {k \in Prio :
                 q[k] # <<>> /\ \A j \in ScannedBefore(k) : ~Eligible(q, j)}}

\* The structures, other than its own, that the next critical section of t reads or writes.
Follows(t) == {u \in Actor :
  \/ u = running /\ \/ pc[t] \in {"decrease", "check", "preempted", "wait_to_run"}
                    \/ MayCall(t, "wait") /\ ClientWaits
  \/ pc[t] = "check" /\ u \in Scanned(Requeued)
  \/ pc[t] = "signal_loop" /\ waiting[draining] # <<>> /\ u = Head(waiting[draining])}

\* A structure is used that so_end has freed.  The other actions say what happens
\* if its contents have survived, this one stands for everything else.
UseFreed(t) ==
  /\ Follows(t) \cap Freed # {} /\ (MutexFree \/ pc[t] = "signal_loop")
  /\ NothingDefined
  /\ UNCHANGED <<sched_vars, queue_vars, quantum, thread_vars, sem_vars, op, local_vars>>

\* so_end's loop misses the last thread.
AllJoinedBug == joined + 1 >= no_threads

AllJoined == joined >= no_threads

\* so_init's calloc zeroes no_terminated_threads.
NoRecords == <<>>

\* The scheduler is freed; the joined pthreads are gone.
EndFree ==
  /\ pc[Main] = "end_join" /\ AllJoined
  /\ alive' = FALSE /\ time_quantum' = 0 /\ io' = 0 /\ no_threads' = 0
  /\ running' = None /\ main_running' = main_running /\ terminated' = NoRecords
  /\ ready' = [i \in Prio |-> <<>>] /\ waiting' = [d \in Dev |-> <<>>]
  /\ quantum' = [t \in Actor |-> 0] /\ prio' = [t \in Actor |-> 0]
  /\ tid' = [t \in Actor |-> None]
  /\ work_done' = [t \in Actor |-> FALSE] /\ on_wait' = [t \in Actor |-> FALSE]
  /\ not_term' = 0 /\ all_term' = 0 /\ UNCHANGED draining
  /\ pc' = [t \in Actor |-> IF t = Main THEN "off"
                            ELSE IF pc[t] = "done" THEN "none" ELSE pc[t]]
  /\ op' = [t \in Actor |-> "begin"]
  /\ child' = [t \in Actor |-> None] /\ calls' = [t \in Actor |-> 0] /\ joined' = 0

-----------------------------------------------------------------------------
\* One step of actor t inside the library.
LibraryStep(t) ==
  \/ ForkPost(t) \/ ForkCreate(t) \/ ForkEnqueue(t)
  \/ SignalLoop(t) \/ DecreaseQuantum(t) \/ CheckScheduler(t) \/ Preempted(t) \/ Broadcast(t)
  \/ WaitToRun(t)
  \/ ThreadStart(t) \/ RecordTerminated(t) \/ SemWait(t) \/ SemGet(t) \/ SemPost(t)

\* One step of the client in actor t: a call, or the handler's return.
ClientStep(t) ==
  \/ \E u \in Thread, p \in Prio : SoFork(t, u, p)
  \/ SoExec(t)
  \/ \E d \in Dev : SoWait(t, d) \/ SoSignal(t, d)
  \/ HandlerReturns(t)

EndStep == SoEnd \/ EndWait \/ EndJoin \/ EndFree

\* A step of which C says what it does.
DefinedStep ==
  \/ \E q \in Quanta, n \in Ios : SoInit(q, n)
  \/ \E t \in Actor : LibraryStep(t) \/ ClientStep(t) \/ SpuriousWakeup(t)
  \/ EndStep

Next ==
  \/ DefinedStep
  \/ \E t \in Actor : Overflow(t) \/ UseFreed(t)

\* The kernel runs every runnable pthread, and grants the mutex to whoever
\* keeps asking; handlers return (their calls are bounded) and Main calls
\* so_end in the end.  Nobody is obliged to start, and no wakeup is spurious.
Fairness ==
  /\ \A t \in Actor : WF_vars(LibraryStep(t)) /\ WF_vars(ClientStep(t))
  /\ WF_vars(EndStep)

Spec == Init /\ [][Next]_vars
FairSpec == Spec /\ Fairness
=============================================================================
