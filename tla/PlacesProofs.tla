----------------------------- MODULE PlacesProofs -----------------------------
(***************************************************************************)
(* Where the scheduler keeps each thread, and what follows for the threads *)
(* it chooses: for every number of threads, priorities and devices, every  *)
(* time quantum and every queue capacity.  That a chosen thread exists is  *)
(* shown for every client, the priority and the quantum of an executing    *)
(* thread for every client that forks at most once from Main, and the place*)
(* of each thread if nobody makes the only runnable thread wait either.    *)
(***************************************************************************)
EXTENDS SchedulerProofs

-----------------------------------------------------------------------------
\* Queues.

\* A thread that is queued is added, or dropped when the queue is full.
LEMMA EnqueueRange ==
  ASSUME NEW S, NEW q \in Seq(S), NEW x \in S
  PROVE  /\ Range(Enqueue(q, x)) \subseteq Range(q) \cup {x}
         /\ Range(q) \subseteq Range(Enqueue(q, x))
         /\ Len(q) # MaxSize => x \in Range(Enqueue(q, x))
         /\ IsInjective(q) /\ x \notin Range(q) => IsInjective(Enqueue(q, x))
         /\ Enqueue(q, x) # <<>>
<1>1. CASE Len(q) = MaxSize
  BY <1>1, ConstantsAssumption DEF Enqueue
<1>2. CASE Len(q) # MaxSize
  <2> DEFINE r == Append(q, x)
  <2>1. /\ Enqueue(q, x) = r /\ DOMAIN q = 1..Len(q) /\ DOMAIN r = 1..(Len(q) + 1)
        /\ Len(q) \in Nat
        /\ r[Len(q) + 1] = x /\ \A k \in 1..Len(q) : r[k] = q[k]
    BY <1>2 DEF Enqueue
  <2> HIDE DEF r
  <2>2. \A k \in 1..(Len(q) + 1) : k \in 1..Len(q) \/ k = Len(q) + 1
    BY <2>1
  <2>3. Range(r) = Range(q) \cup {x}
    <3>1. Range(r) \subseteq Range(q) \cup {x}
      BY <2>1, <2>2 DEF Range
    <3>2. \A k \in 1..Len(q) : k \in 1..(Len(q) + 1) /\ Len(q) + 1 \in 1..(Len(q) + 1)
      BY <2>1
    <3>3. x \in Range(r)
      BY <2>1 DEF Range
    <3>4. Range(q) \subseteq Range(r)
      BY <2>1, <3>2 DEF Range
    <3>5. QED
      BY <3>1, <3>3, <3>4
  <2>4. ASSUME IsInjective(q), x \notin Range(q),
               NEW k \in DOMAIN r, NEW l \in DOMAIN r, r[k] = r[l]
        PROVE  k = l
    <3>1. \A j \in 1..Len(q) : q[j] # x
      BY <2>1, <2>4 DEF Range
    <3>2. QED
      BY <2>1, <2>2, <2>4, <3>1 DEF IsInjective
  <2>5. r # <<>>
    BY <2>1
  <2>6. QED
    BY <2>1, <2>3, <2>4, <2>5 DEF IsInjective
<1>3. QED
  BY <1>1, <1>2

\* Taking the front of a queue removes that thread from it.
LEMMA DequeueRange ==
  ASSUME NEW S, NEW q \in Seq(S), q # <<>>
  PROVE  /\ Head(q) \in Range(q) /\ Tail(q) \in Seq(S)
         /\ Range(q) \subseteq Range(Tail(q)) \cup {Head(q)}
         /\ Range(Tail(q)) \subseteq Range(q)
         /\ IsInjective(q) => IsInjective(Tail(q)) /\ Range(Tail(q)) = Range(q) \ {Head(q)}
<1> DEFINE r == Tail(q)
<1>1. /\ DOMAIN q = 1..Len(q) /\ Len(q) \in Nat \ {0} /\ Head(q) = q[1]
      /\ r \in Seq(S) /\ DOMAIN r = 1..(Len(q) - 1)
      /\ \A k \in 1..(Len(q) - 1) : r[k] = q[k + 1]
  OBVIOUS
<1> HIDE DEF r
<1>2. \A k \in DOMAIN r : k + 1 \in DOMAIN q /\ k + 1 # 1 /\ r[k] = q[k + 1]
  BY <1>1
<1>3. \A k \in DOMAIN q : k = 1 \/ (k - 1 \in DOMAIN r /\ r[k - 1] = q[k])
  <2>1. ASSUME NEW k \in 1..Len(q), k # 1
        PROVE  k - 1 \in 1..(Len(q) - 1) /\ (k - 1) + 1 = k
    BY <1>1, <2>1
  <2>2. QED
    BY <1>1, <2>1
<1>4. 1 \in DOMAIN q /\ Head(q) = q[1]
  BY <1>1
<1>5. Head(q) \in Range(q) /\ Range(r) \subseteq Range(q)
  BY <1>2, <1>4 DEF Range
<1>6. Range(q) \subseteq Range(r) \cup {Head(q)}
  BY <1>3, <1>4 DEF Range
<1>7. ASSUME IsInjective(q) PROVE IsInjective(r) /\ Range(r) = Range(q) \ {Head(q)}
  <2>1. ASSUME NEW k \in DOMAIN r, NEW l \in DOMAIN r, r[k] = r[l] PROVE k = l
    <3>1. k + 1 = l + 1
      BY <1>2, <1>7, <2>1 DEF IsInjective
    <3>2. k \in Int /\ l \in Int
      BY <1>1
    <3>3. QED
      BY <3>1, <3>2
  <2>2. Head(q) \notin Range(r)
    BY <1>2, <1>4, <1>7 DEF IsInjective, Range
  <2>3. QED
    BY <1>5, <1>6, <2>1, <2>2 DEF IsInjective
<1>8. QED
  BY <1>1, <1>5, <1>6, <1>7 DEF r

\* A slot of a queue holds one of the threads in it.
LEMMA SlotIsPlace ==
  ASSUME NEW D, NEW S, NEW queues \in [D -> Seq(S)], NEW t, NEW s \in Slots(queues, t)
  PROVE  /\ s = <<s[1], s[2]>> /\ s[1] \in D /\ s[2] \in DOMAIN queues[s[1]]
         /\ queues[s[1]][s[2]] = t /\ t \in Range(queues[s[1]])
<1>1. /\ s \in D \X (1..MaxSize) /\ s[2] <= Len(queues[s[1]]) /\ queues[s[1]][s[2]] = t
  BY DEF Slots
<1>2. s = <<s[1], s[2]>> /\ s[1] \in D /\ s[2] \in 1..MaxSize
  BY <1>1
<1>3. s[2] \in DOMAIN queues[s[1]]
  BY <1>1, <1>2, ConstantsAssumption
<1>4. QED
  BY <1>1, <1>2, <1>3 DEF Range

\* The decrement only wraps below zero.
LEMMA DecrementPositive ==
  ASSUME NEW n \in 1..(WordSize - 1)
  PROVE  Decrement(n) = n - 1
BY ConstantsAssumption DEF Decrement

-----------------------------------------------------------------------------
\* Whatever the client does.

\* A thread that so_fork has got to the point of queueing.
Known(t) ==
  t \in Thread /\ pc[t] # "none" /\ \A f \in Actor : Creating(f) => child[f] # t

\* The queues, and the calls that add to them, only know such threads; a ready
\* thread is in the queue of its priority.
Queued ==
  /\ \A i \in Prio : \A t \in Range(ready[i]) : Known(t) /\ prio[t] = i
  /\ \A d \in Dev : \A t \in Range(waiting[d]) : Known(t)
  /\ \A f \in Actor : pc[f] = "fork_enqueue" => Known(child[f])

\* So does sch->running_thread, once it is not Main any more.
Holder ==
  /\ alive => /\ main_running <=> running = Main
              /\ tid[Main] = Main /\ time_quantum \in 1..(WordSize - 1)
              /\ running # Main => Known(running)
  /\ ~alive => running = None

\* No handler executes before Main has handed over.
MainFirst ==
  running = Main =>
    \A t \in Thread : pc[t] \in {"none", "unborn", "start", "wait_to_run", "blocked"}

\* No queue holds more than its capacity.
QueuesFit ==
  /\ \A i \in Prio : Len(ready[i]) <= MaxSize
  /\ \A d \in Dev : Len(waiting[d]) <= MaxSize

Members == Pointers /\ Tids /\ Queued /\ Holder /\ MainFirst

\* enqueue never goes beyond the capacity.
LEMMA EnqueueFits ==
  ASSUME NEW S, NEW q \in Seq(S), NEW x \in S, Len(q) <= MaxSize
  PROVE  /\ Len(Enqueue(q, x)) <= MaxSize
         /\ Len(Enqueue(q, x)) <= Len(q) + 1
BY ConstantsAssumption DEF Enqueue

\* A decision of whichever actor, with whatever thread running, only moves threads
\* that have been queued.  It chooses the first of the highest priority.
LEMMA Election ==
  ASSUME TypeOK, Accounting, Members, NEW t \in Actor, CheckScheduler(t)
  PROVE  /\ alive
         /\ \A i \in Prio : \A u \in Range(ready'[i]) : Known(u) /\ prio[u] = i
         /\ \/ /\ UNCHANGED <<running, quantum, main_running>>
               /\ Yields => \A i \in Prio : ready'[i] = <<>> /\ ready[i] = <<>>
               /\ running # Main /\ Expired => work_done[running] \/ on_wait[running]
               /\ \A i \in Prio : Range(ready[i]) \subseteq Range(ready'[i])
            \/ /\ Known(running') /\ main_running' = FALSE
               /\ quantum' = [quantum EXCEPT ![running'] = time_quantum]
         /\ running' \in Thread =>
              \A i \in Prio : i > prio[running'] => ready'[i] = <<>>
         /\ QueuesFit => \A i \in Prio : Len(ready'[i]) <= MaxSize
<1> Facts
  BY FactsHold
<1>1. /\ alive /\ running \in Actor
      /\ running # Main => Known(running) /\ running \in Thread
      /\ running # Main => tid[running] # tid[Main]
      /\ main_running <=> running = Main
  BY AliveWhileActive, ConstantsAssumption
     DEF CheckScheduler, Members, Holder, Pointers, Tids, Facts
<1>2. /\ prio \in [Actor -> Prio] /\ quantum \in [Actor -> 0..(WordSize - 1)]
      /\ work_done \in [Actor -> BOOLEAN] /\ on_wait \in [Actor -> BOOLEAN]
      /\ ready \in [Prio -> Seq(Actor)] /\ prio[running] \in Prio
  BY <1>1 DEF TypeOK, Members, Pointers
<1> DEFINE q == Requeued
           Fit(u, i) == Known(u) /\ prio[u] = i
<1>3. \A i \in Prio : \A u \in Range(ready[i]) : Fit(u, i)
  BY DEF Members, Queued
<1>4. /\ q \in [Prio -> Seq(Actor)]
      /\ \A i \in Prio : \A u \in Range(q[i]) : Fit(u, i)
      /\ running # Main /\ Expired =>
           work_done[running] \/ on_wait[running] \/ q[prio[running]] # <<>>
      /\ \A i \in Prio : ready[i] # <<>> => q[i] # <<>>
      /\ \A i \in Prio : Range(ready[i]) \subseteq Range(q[i])
      /\ QueuesFit => \A i \in Prio : Len(q[i]) <= MaxSize
  <2>1. CASE Expired /\ tid[running] # tid[Main] /\ ~work_done[running] /\ ~on_wait[running]
    <3> DEFINE r == ready[prio[running]]
    <3>1. /\ q = [ready EXCEPT ![prio[running]] = Enqueue(@, running)] /\ running # Main
          /\ r \in Seq(Actor)
      BY <1>2, <2>1 DEF Requeued
    <3>2. /\ Enqueue(r, running) \in Seq(Actor)
          /\ Range(Enqueue(r, running)) \subseteq Range(r) \cup {running}
          /\ Range(r) \subseteq Range(Enqueue(r, running)) /\ Enqueue(r, running) # <<>>
          /\ Len(r) <= MaxSize => Len(Enqueue(r, running)) <= MaxSize
      <4> HIDE DEF r
      <4>1. QED
        BY <1>1, <3>1, EnqueueType, EnqueueRange, EnqueueFits
    <3> HIDE DEF r
    <3>3. /\ q[prio[running]] = Enqueue(r, running)
          /\ \A i \in Prio : i # prio[running] => q[i] = ready[i]
      BY <1>2, <3>1 DEF r
    <3>4. q \in [Prio -> Seq(Actor)]
      BY <1>2, <3>1, <3>2 DEF r
    <3>5. ASSUME NEW i \in Prio
          PROVE  /\ \A u \in Range(q[i]) : Fit(u, i)
                 /\ Range(ready[i]) \subseteq Range(q[i])
                 /\ ready[i] # <<>> => q[i] # <<>>
                 /\ QueuesFit => Len(q[i]) <= MaxSize
      <4>1. CASE i = prio[running]
        BY <1>1, <1>3, <3>1, <3>2, <3>3, <4>1 DEF r, QueuesFit
      <4>2. CASE i # prio[running]
        BY <1>3, <3>3, <4>2 DEF QueuesFit
      <4>3. QED
        BY <4>1, <4>2
    <3>6. QED
      BY <3>2, <3>3, <3>4, <3>5
  <2>2. CASE ~(Expired /\ tid[running] # tid[Main] /\ ~work_done[running] /\ ~on_wait[running])
    <3>1. q = ready
      BY <2>2 DEF Requeued
    <3>2. running # Main /\ Expired => work_done[running] \/ on_wait[running]
      BY <1>1, <2>2
    <3>3. QED
      BY <1>2, <1>3, <3>1, <3>2 DEF QueuesFit
  <2>3. QED
    BY <2>1, <2>2
<1> HIDE DEF q
<1>5. \A i \in Prio : q[i] # <<>> => /\ Head(q[i]) \in Range(q[i])
                                     /\ Fit(Head(q[i]), i) /\ Head(q[i]) \in Actor
  BY <1>4, DequeueRange DEF Facts
<1>6. CASE /\ \A i \in Prio : ~Eligible(q, i)
           /\ ready' = q /\ UNCHANGED <<running, main_running, quantum>>
  <2>1. Yields => \A i \in Prio : q[i] = <<>>
    BY <1>6 DEF Eligible
  <2>2. running # Main /\ Expired => work_done[running] \/ on_wait[running]
    BY <1>2, <1>4, <2>1 DEF Yields
  <2>3. running \in Thread => \A i \in Prio : i > prio[running] => q[i] = <<>>
    BY <1>5, <1>6 DEF Eligible
  <2>4. QED
    BY <1>1, <1>4, <1>6, <2>1, <2>2, <2>3
<1>7. ASSUME NEW i \in Prio, Eligible(q, i), \A j \in ScannedBefore(i) : ~Eligible(q, j),
             Dispatch(q, i)
      PROVE  /\ \A j \in Prio : \A u \in Range(ready'[j]) : Fit(u, j)
             /\ Fit(running', i) /\ main_running' = FALSE
             /\ quantum' = [quantum EXCEPT ![running'] = time_quantum]
             /\ \A j \in Prio : j > i => ready'[j] = <<>>
             /\ QueuesFit => \A j \in Prio : Len(ready'[j]) <= MaxSize
  <2> DEFINE next == Head(q[i])
             rest == [q EXCEPT ![i] = Tail(@)]
  <2>1. /\ running' = next /\ main_running' = FALSE
        /\ quantum' = [quantum EXCEPT ![next] = time_quantum]
        /\ ready' = IF Yields THEN rest
                    ELSE [rest EXCEPT ![prio[running]] = Enqueue(@, running)]
    BY <1>7 DEF Dispatch, Refill
  <2>2. q[i] # <<>> /\ q[i] \in Seq(Actor) /\ Fit(next, i)
    BY <1>4, <1>5, <1>7 DEF Eligible
  <2>3. /\ Tail(q[i]) \in Seq(Actor) /\ Range(Tail(q[i])) \subseteq Range(q[i])
        /\ Len(Tail(q[i])) <= Len(q[i])
    <3> DEFINE s == q[i]
    <3>1. s # <<>> /\ s \in Seq(Actor)
      BY <2>2
    <3> HIDE DEF s
    <3>2. /\ Tail(s) \in Seq(Actor) /\ Range(Tail(s)) \subseteq Range(s)
          /\ Len(Tail(s)) <= Len(s)
      BY <3>1, DequeueRange
    <3>3. QED
      BY <3>2 DEF s
  <2>4. /\ rest \in [Prio -> Seq(Actor)] /\ rest[i] = Tail(q[i])
        /\ \A j \in Prio : j # i => rest[j] = q[j]
    BY <1>4, <2>3
  <2> HIDE DEF next, rest
  <2>5. \A j \in Prio : /\ \A u \in Range(rest[j]) : Fit(u, j)
                        /\ QueuesFit => Len(rest[j]) <= MaxSize
    <3>1. \A j \in Prio : Range(rest[j]) \subseteq Range(q[j])
      BY <2>3, <2>4
    <3>2. Len(rest[i]) \in Nat /\ Len(q[i]) \in Nat /\ Len(rest[i]) <= Len(q[i])
      BY <2>2, <2>3, <2>4
    <3>3. ASSUME NEW j \in Prio, QueuesFit PROVE Len(rest[j]) <= MaxSize
      <4>1. CASE j = i
        BY <1>4, <3>2, <3>3, <4>1, ConstantsAssumption
      <4>2. CASE j # i
        BY <1>4, <2>4, <3>3, <4>2
      <4>3. QED
        BY <4>1, <4>2
    <3>4. QED
      BY <1>4, <3>1, <3>3
  <2>6. CASE Yields
    <3>1. \A j \in Prio : j > i => j # i /\ q[j] = <<>>
      BY <1>7, <2>6 DEF ScannedBefore, Eligible, Prio
    <3>2. QED
      BY <2>1, <2>2, <2>4, <2>5, <2>6, <3>1
  <2>7. CASE ~Yields
    <3>1. running # Main /\ prio[next] > prio[running] /\ Fit(running, prio[running])
      BY <1>1, <1>7, <2>7 DEF Yields, Eligible, next
    <3>2. i > prio[running]
      BY <2>2, <3>1
    <3>3. \A j \in Prio : j > i => j # i /\ j # prio[running] /\ q[j] = <<>>
      <4>1. ASSUME NEW j \in Prio, j > i, q[j] # <<>> PROVE FALSE
        <5>1. prio[Head(q[j])] = j /\ j > prio[running]
          BY <1>2, <1>5, <3>2, <4>1 DEF Prio
        <5>2. Eligible(q, j)
          BY <4>1, <5>1 DEF Eligible
        <5>3. QED
          BY <1>7, <4>1, <5>2 DEF ScannedBefore
      <4>2. QED
        BY <1>2, <3>2, <4>1 DEF Prio
    <3> DEFINE r == rest[prio[running]]
    <3>4. r \in Seq(Actor)
      BY <1>2, <2>4
    <3> HIDE DEF r
    <3>5. /\ Range(Enqueue(r, running)) \subseteq Range(r) \cup {running}
          /\ Len(r) <= MaxSize => Len(Enqueue(r, running)) <= MaxSize
      BY <1>1, <3>4, EnqueueRange, EnqueueFits
    <3>6. /\ ready'[prio[running]] = Enqueue(r, running)
          /\ \A j \in Prio : j # prio[running] => ready'[j] = rest[j]
      BY <1>2, <2>1, <2>4, <2>7 DEF r
    <3>7. \A u \in Range(r) : Fit(u, prio[running])
      BY <1>2, <2>5 DEF r
    <3>8. ASSUME NEW j \in Prio
          PROVE  /\ \A u \in Range(ready'[j]) : Fit(u, j)
                 /\ QueuesFit => Len(ready'[j]) <= MaxSize
      <4>1. CASE j = prio[running]
        BY <1>2, <2>5, <3>1, <3>5, <3>6, <3>7, <4>1 DEF r
      <4>2. CASE j # prio[running]
        BY <2>5, <3>6, <4>2
      <4>3. QED
        BY <4>1, <4>2
    <3>9. ASSUME NEW j \in Prio, j > i PROVE ready'[j] = <<>>
      BY <2>4, <3>3, <3>6, <3>9
    <3>10. QED
      BY <2>1, <2>2, <3>8, <3>9
  <2>8. QED
    BY <2>6, <2>7
<1>8. QED
  <2>1. CASE \E i \in Prio : /\ Eligible(q, i)
                             /\ \A j \in ScannedBefore(i) : ~Eligible(q, j)
                             /\ Dispatch(q, i)
    <3>1. PICK i \in Prio : /\ Eligible(q, i)
                            /\ \A j \in ScannedBefore(i) : ~Eligible(q, j)
                            /\ Dispatch(q, i)
      BY <2>1
    <3>2. /\ \A j \in Prio : \A u \in Range(ready'[j]) : Fit(u, j)
          /\ Fit(running', i) /\ main_running' = FALSE
          /\ quantum' = [quantum EXCEPT ![running'] = time_quantum]
          /\ \A j \in Prio : j > i => ready'[j] = <<>>
          /\ QueuesFit => \A j \in Prio : Len(ready'[j]) <= MaxSize
      BY <1>7, <3>1
    <3>3. QED
      BY <1>1, <3>2
  <2>2. QED
    BY <1>6, <2>1 DEF CheckScheduler, q

\* The steps that move no thread.
QuietStep ==
  \/ \E t \in Actor :
       \/ ForkPost(t) \/ ForkCreate(t) \/ SoExec(t) \/ (\E d \in Dev : SoSignal(t, d))
       \/ DecreaseQuantum(t) \/ Preempted(t) \/ Broadcast(t) \/ WaitToRun(t)
       \/ SpuriousWakeup(t) \/ ThreadStart(t) \/ RecordTerminated(t)
       \/ SemWait(t) \/ SemGet(t) \/ SemPost(t)
  \/ SoEnd \/ EndWait \/ EndJoin \/ UNCHANGED vars

\* A call on its way to its decision is not overtaken by it.
StillDeciding(t) ==
  /\ pc[t] \in {"signal_loop", "decrease", "check"}
       => pc'[t] \in {"signal_loop", "decrease", "check"}
  /\ pc[t] = "check" => pc'[t] = "check"

\* They leave the queues, the decision and the marks of every thread alone.
LEMMA QuietStepMovesNone ==
  ASSUME TypeOK, Accounting, QuietStep, ~Dead'
  PROVE  /\ UNCHANGED <<ready, waiting, prio, work_done, on_wait, running, main_running,
                        alive, time_quantum, child>>
         /\ \A t \in Actor : pc'[t] = "none" <=> pc[t] = "none"
         /\ \A t \in Actor : Forking(t)' <=> Forking(t)
         /\ \A t \in Actor : Creating(t)' => Creating(t)
         /\ \A t \in Actor : StillDeciding(t)
         /\ tid[Main] = Main => tid'[Main] = Main
<1> Facts
  BY FactsHold
<1> tid \in [Actor -> Pointer]
  BY DEF TypeOK
<1> USE DEF sched_vars, queue_vars, thread_vars, sem_vars, local_vars, Goto, Enter, Facts, Forking,
     Creating,
     StillDeciding
<1>1. ASSUME NEW t \in Actor, ForkCreate(t)
      PROVE  /\ \A u \in Actor : pc'[u] = "none" <=> pc[u] = "none"
             /\ \A u \in Actor : Forking(u)' <=> Forking(u)
             /\ \A u \in Actor : Creating(u)' => Creating(u)
             /\ \A u \in Actor : StillDeciding(u)
  <2>1. /\ pc[t] = "fork_create" /\ child[t] \in Thread /\ pc[child[t]] = "unborn"
        /\ \/ pc' = [pc EXCEPT ![t] = "fork_enqueue", ![child[t]] = "start"]
           \/ pc' = [pc EXCEPT ![t] = "fork_enqueue"]
    BY <1>1 DEF ForkCreate, Accounting, Children, Creating
  <2>2. QED
    BY <2>1
<1>2. ASSUME NEW t \in Actor, ForkCreate(t)
      PROVE  UNCHANGED <<ready, waiting, prio, work_done, on_wait, running, main_running,
                         alive, time_quantum, child, tid>>
  BY <1>2 DEF ForkCreate
<1>3. ASSUME NEW t \in Actor,
             ForkPost(t) \/ SoExec(t) \/ (\E d \in Dev : SoSignal(t, d)) \/ DecreaseQuantum(t)
      PROVE  /\ UNCHANGED <<ready, waiting, prio, work_done, on_wait, running, main_running,
                            alive, time_quantum, child, tid>>
             /\ \A u \in Actor : pc'[u] = "none" <=> pc[u] = "none"
             /\ \A u \in Actor : Forking(u)' <=> Forking(u)
             /\ \A u \in Actor : Creating(u)' => Creating(u)
             /\ \A u \in Actor : StillDeciding(u)
  BY <1>3 DEF ForkPost, SoExec, SoSignal, DecreaseQuantum, MayCall
<1>4. ASSUME NEW t \in Actor, Preempted(t) \/ Broadcast(t) \/ WaitToRun(t) \/ SpuriousWakeup(t)
      PROVE  /\ UNCHANGED <<ready, waiting, prio, work_done, on_wait, running, main_running,
                            alive, time_quantum, child, tid>>
             /\ \A u \in Actor : pc'[u] = "none" <=> pc[u] = "none"
             /\ \A u \in Actor : Forking(u)' <=> Forking(u)
             /\ \A u \in Actor : Creating(u)' => Creating(u)
             /\ \A u \in Actor : StillDeciding(u)
  BY <1>4 DEF Preempted, AfterPreempted, Broadcast, AfterBroadcast, WaitToRun, SpuriousWakeup
<1>5. ASSUME NEW t \in Actor, ThreadStart(t)
      PROVE  /\ UNCHANGED <<ready, waiting, prio, work_done, on_wait, running, main_running,
                            alive, time_quantum, child>>
             /\ \A u \in Actor : pc'[u] = "none" <=> pc[u] = "none"
             /\ \A u \in Actor : Forking(u)' <=> Forking(u)
             /\ \A u \in Actor : Creating(u)' => Creating(u)
             /\ \A u \in Actor : StillDeciding(u)
             /\ tid[Main] = Main => tid'[Main] = Main
  BY <1>5 DEF ThreadStart
<1>6. ASSUME NEW t \in Actor, RecordTerminated(t) \/ SemWait(t) \/ SemGet(t) \/ SemPost(t)
      PROVE  /\ UNCHANGED <<ready, waiting, prio, work_done, on_wait, running, main_running,
                            alive, time_quantum, child, tid>>
             /\ \A u \in Actor : pc'[u] = "none" <=> pc[u] = "none"
             /\ \A u \in Actor : Forking(u)' <=> Forking(u)
             /\ \A u \in Actor : Creating(u)' => Creating(u)
             /\ \A u \in Actor : StillDeciding(u)
  BY <1>6 DEF RecordTerminated, SemWait, SemGet, SemPost
<1>7. CASE SoEnd \/ EndWait \/ EndJoin
  <2>1. UNCHANGED <<ready, waiting, prio, work_done, on_wait, running, main_running,
                    alive, time_quantum, child, tid>>
    BY <1>7 DEF SoEnd, EndWait, EndJoin
  <2>2. /\ \A u \in Actor : pc'[u] = "none" <=> pc[u] = "none"
        /\ \A u \in Actor : Forking(u)' <=> Forking(u)
        /\ \A u \in Actor : Creating(u)' => Creating(u)
        /\ \A u \in Actor : StillDeciding(u)
    BY <1>7, JoinsOrDies DEF SoEnd, EndWait
  <2>3. QED
    BY <2>1, <2>2
<1>8. CASE UNCHANGED vars
  BY <1>8 DEF vars
<1>9. QED
  BY <1>1, <1>2, <1>3, <1>4, <1>5, <1>6, <1>7, <1>8 DEF QuietStep

\* Only so_fork's threads get into the queues, whatever the client does.
LEMMA StepMembers ==
  ASSUME TypeOK, OneDrainer, Accounting, Members, [Next]_vars, ~Dead'
  PROVE  Members'
<1> Facts
  BY FactsHold
<1>n. [DefinedStep]_vars
  BY DefinedUnlessDead
<1>0. EndFree => NothingLeft
  BY NoneRemain
<1>a. Pointers' /\ Tids'
  BY StepPointers, StepTids DEF Members
<1>b. \A t \in Actor : pc[t] \notin {"none", "off"} => alive
  BY AliveWhileActive
<1>c. prio \in [Actor -> Prio] /\ ready \in [Prio -> Seq(Actor)] /\ waiting \in [Dev -> Seq(Actor)]
  BY DEF TypeOK, Members, Pointers
<1> USE DEF sched_vars, queue_vars, thread_vars, sem_vars, local_vars, Goto, Enter, Facts
<1>d. ASSUME UNCHANGED <<alive, running, main_running, time_quantum>>,
             tid[Main] = Main => tid'[Main] = Main,
             \A v \in Thread : Known(v) => Known(v)' /\ prio'[v] = prio[v],
             \A i \in Prio : \A v \in Range(ready'[i]) :
               v \in Range(ready[i]) \/ (Known(v) /\ prio[v] = i),
             \A e \in Dev : \A v \in Range(waiting'[e]) : v \in Range(waiting[e]) \/ Known(v),
             \A f \in Actor : pc'[f] = "fork_enqueue" =>
               (pc[f] = "fork_enqueue" /\ child'[f] = child[f]) \/ Known(child[f])',
             running = Main => \A v \in Thread :
               pc'[v] \in {"none", "unborn", "start", "wait_to_run", "blocked"}
      PROVE  Members'
  <2>1. \A v : Known(v) => v \in Thread
    BY DEF Known
  <2>2. Queued'
    <3>1. \A i \in Prio : \A v \in Range(ready'[i]) : Known(v)' /\ prio'[v] = i
      BY <1>d, <2>1 DEF Members, Queued
    <3>2. \A e \in Dev : \A v \in Range(waiting'[e]) : Known(v)'
      BY <1>d, <2>1 DEF Members, Queued
    <3>3. \A f \in Actor : pc'[f] = "fork_enqueue" => Known(child[f])'
      BY <1>d, <2>1 DEF Members, Queued
    <3>4. QED
      BY <3>1, <3>2, <3>3 DEF Queued, Known, Creating
  <2>3. Holder'
    BY <1>d, <2>1 DEF Members, Holder, Known, Creating
  <2>4. MainFirst'
    BY <1>d DEF MainFirst
  <2>5. QED
    BY <1>a, <2>2, <2>3, <2>4 DEF Members
<1>1. CASE QuietStep
  <2>1. /\ UNCHANGED <<ready, waiting, prio, running, main_running, alive, time_quantum, child>>
        /\ \A t \in Actor : pc'[t] = "none" <=> pc[t] = "none"
        /\ \A t \in Actor : Creating(t)' => Creating(t)
        /\ tid[Main] = Main => tid'[Main] = Main
    BY <1>1, QuietStepMovesNone
  <2>2. \A v \in Thread : Known(v) => Known(v)'
    BY <2>1 DEF Known
  <2>3. ASSUME NEW f \in Actor, pc'[f] = "fork_enqueue", pc[f] # "fork_enqueue"
        PROVE  Known(child[f])'
    <3>1. ForkCreate(f)
      BY <1>1, <2>3, JoinsOrDies, ConstantsAssumption
         DEF QuietStep, ForkPost, ForkCreate, SoExec, SoSignal, DecreaseQuantum, Preempted,
         AfterPreempted, Broadcast, AfterBroadcast, WaitToRun, SpuriousWakeup, ThreadStart,
         RecordTerminated, SemWait, SemGet, SemPost, SoEnd, EndWait, vars, MayCall
    <3>2. Creating(f) /\ ~Creating(f)'
      BY <3>1, <2>3 DEF ForkCreate, Creating
    <3>3. child[f] \in Thread /\ pc[child[f]] = "unborn"
      BY <3>2 DEF Accounting, Children
    <3>4. \A g \in Actor : Creating(g)' => child[g] # child[f]
      BY <2>1, <3>2 DEF Accounting, Children
    <3>5. QED
      BY <2>1, <3>3, <3>4 DEF Known
  <2>4. ASSUME running = Main, NEW v \in Thread
        PROVE  pc'[v] \in {"none", "unborn", "start", "wait_to_run", "blocked"}
    <3>1. /\ \A w \in Thread : pc[w] \in {"none", "unborn", "start", "wait_to_run", "blocked"}
          /\ pc[Main] # "start"
      BY <2>4 DEF Members, MainFirst, Accounting, MainLocal
    <3>2. pc[v] = "wait_to_run" => alive
      BY <1>b
    <3>3. alive => tid[running] # v
      BY <2>4, ConstantsAssumption DEF Members, Holder, Facts
    <3>4. ASSUME NEW t \in Actor,
                 ForkPost(t) \/ SoExec(t) \/ (\E d \in Dev : SoSignal(t, d))
                 \/ DecreaseQuantum(t) \/ Preempted(t)
                 \/ RecordTerminated(t) \/ SemWait(t) \/ SemGet(t) \/ SemPost(t)
          PROVE  pc'[v] = pc[v]
      BY <3>1, <3>4 DEF ForkPost, SoExec, SoSignal, DecreaseQuantum, Preempted,
         RecordTerminated, SemWait, SemGet, SemPost, MayCall
    <3>5. ASSUME NEW t \in Actor, ForkCreate(t) PROVE pc'[v] \in {pc[v], "start"}
      BY <3>1, <3>5 DEF ForkCreate
    <3>6. ASSUME NEW t \in Actor,
                 Broadcast(t) \/ WaitToRun(t) \/ SpuriousWakeup(t) \/ ThreadStart(t)
          PROVE  pc'[v] \in {pc[v], "wait_to_run", "blocked"}
      BY <3>1, <3>2, <3>3, <3>6 DEF Broadcast, WaitToRun, SpuriousWakeup, ThreadStart
    <3>7. SoEnd \/ EndWait \/ EndJoin \/ UNCHANGED vars => pc'[v] = pc[v]
      BY JoinsOrDies, ConstantsAssumption DEF SoEnd, EndWait, vars
    <3>8. QED
      BY <1>1, <3>1, <3>4, <3>5, <3>6, <3>7 DEF QuietStep
  <2>5. QED
    BY <1>d, <2>1, <2>2, <2>3, <2>4
<1>2. ASSUME NEW q \in Quanta, NEW n \in Ios, SoInit(q, n) PROVE Members'
  <2>1. /\ \A t \in Thread : pc[t] = "none"
        /\ UNCHANGED <<ready, waiting, prio>>
        /\ pc' = [pc EXCEPT ![Main] = "user"]
        /\ running' = Main /\ main_running' = TRUE /\ tid' = [tid EXCEPT ![Main] = Main]
        /\ time_quantum' = q /\ alive' = TRUE
    BY <1>2 DEF SoInit, Accounting, Created, Thread
  <2>2. \A v : ~Known(v)
    BY <2>1 DEF Known
  <2>3. \A f \in Actor : pc'[f] # "fork_enqueue"
    BY <2>1
  <2>4. Queued'
    BY <2>1, <2>2, <2>3 DEF Members, Queued
  <2>5. Holder' /\ MainFirst'
    BY <2>1, ConstantsAssumption DEF Holder, MainFirst, TypeOK
  <2>6. QED
    BY <1>a, <2>4, <2>5 DEF Members
<1>3. ASSUME NEW t \in Actor, NEW u \in Thread, NEW p \in Prio, SoFork(t, u, p) PROVE Members'
  <2>1. /\ pc[t] = "user" /\ pc[u] = "none" /\ t # u
        /\ pc' = [pc EXCEPT ![t] = "fork_post", ![u] = "unborn"]
        /\ prio' = [prio EXCEPT ![u] = p] /\ tid' = [tid EXCEPT ![u] = None]
        /\ child' = [child EXCEPT ![t] = u]
        /\ UNCHANGED <<ready, waiting, running, main_running, alive, time_quantum>>
    BY <1>3 DEF SoFork, MayCall, Accounting, Created, Thread
  <2>2. ASSUME NEW v \in Thread, Known(v) PROVE Known(v)' /\ prio'[v] = prio[v]
    <3>1. v # u /\ pc[v] # "none" /\ pc'[v] # "none"
      BY <2>1, <2>2 DEF Known
    <3>2. \A f \in Actor : Creating(f)' => child'[f] # v
      BY <2>1, <2>2, <3>1 DEF Known, Creating
    <3>3. QED
      BY <1>c, <2>1, <3>1, <3>2 DEF Known
  <2>3. tid[Main] = Main => tid'[Main] = Main
    BY <2>1 DEF TypeOK
  <2>4. \A f \in Actor : pc'[f] = "fork_enqueue" => pc[f] = "fork_enqueue" /\ child'[f] = child[f]
    BY <2>1
  <2>5. running = Main => \A v \in Thread :
          pc'[v] \in {"none", "unborn", "start", "wait_to_run", "blocked"}
    BY <2>1 DEF Members, MainFirst
  <2>6. QED
    BY <1>d, <2>1, <2>2, <2>3, <2>4, <2>5
<1>4. ASSUME NEW t \in Actor, ForkEnqueue(t) PROVE Members'
  <2> DEFINE c == child[t]
  <2>1. /\ pc[t] = "fork_enqueue" /\ pc' = [pc EXCEPT ![t] = "decrease"]
        /\ ready' = [ready EXCEPT ![prio[c]] = Enqueue(@, c)]
        /\ UNCHANGED <<waiting, running, main_running, alive, time_quantum, child, prio, tid>>
    BY <1>4 DEF ForkEnqueue
  <2>2. Known(c) /\ c \in Actor /\ prio[c] \in Prio
    BY <1>c, <2>1 DEF Members, Queued, Known
  <2>3. \A v \in Thread : Known(v) => Known(v)'
    BY <2>1 DEF Known, Creating
  <2>4. \A i \in Prio : Range(ready'[i]) \subseteq
         Range(ready[i]) \cup (IF i = prio[c] THEN {c} ELSE {})
    BY <1>c, <2>1, <2>2, EnqueueRange
  <2>5. \A f \in Actor : pc'[f] = "fork_enqueue" => pc[f] = "fork_enqueue"
    BY <2>1
  <2>6. running = Main => \A v \in Thread :
          pc'[v] \in {"none", "unborn", "start", "wait_to_run", "blocked"}
    BY <2>1 DEF Members, MainFirst
  <2>7. \A i \in Prio : \A v \in Range(ready'[i]) :
          v \in Range(ready[i]) \/ (Known(v) /\ prio[v] = i)
    BY <2>2, <2>4
  <2> HIDE DEF c
  <2>8. QED
    BY <1>d, <2>1, <2>3, <2>5, <2>6, <2>7
<1>5. ASSUME NEW t \in Actor, NEW d \in Dev, SoWait(t, d) PROVE Members'
  <2>1. /\ pc[t] = "user" /\ t \in Thread /\ pc' = [pc EXCEPT ![t] = "decrease"]
        /\ waiting' = [waiting EXCEPT ![d] = Enqueue(@, running)]
        /\ UNCHANGED <<ready, running, main_running, alive, time_quantum, child, prio, tid>>
    BY <1>5 DEF SoWait, MayCall
  <2>2. running # Main /\ Known(running) /\ running \in Actor
    BY <1>b, <2>1 DEF Members, MainFirst, Holder, Pointers
  <2>3. \A v \in Thread : Known(v) => Known(v)'
    BY <2>1 DEF Known, Creating
  <2>4. \A e \in Dev : Range(waiting'[e]) \subseteq Range(waiting[e]) \cup {running}
    BY <1>c, <2>1, <2>2, EnqueueRange
  <2>5. \A f \in Actor : pc'[f] = "fork_enqueue" => pc[f] = "fork_enqueue"
    BY <2>1
  <2>6. QED
    BY <1>d, <2>1, <2>2, <2>3, <2>4, <2>5
<1>6. ASSUME NEW t \in Actor, SignalLoop(t) PROVE Members'
  <2> DEFINE w == waiting[draining]
  <2>1. /\ pc[t] = "signal_loop" /\ draining \in Dev
        /\ \/ /\ w # <<>> /\ waiting' = [waiting EXCEPT ![draining] = Tail(@)]
              /\ ready' = [ready EXCEPT ![prio[Head(w)]] = Enqueue(@, Head(w))] /\ pc' = pc
           \/ pc' = [pc EXCEPT ![t] = "decrease"] /\ UNCHANGED <<ready, waiting>>
        /\ UNCHANGED <<running, main_running, alive, time_quantum, child, prio, tid>>
    BY <1>6 DEF SignalLoop, OneDrainer
  <2>2. \A v \in Thread : Known(v) => Known(v)'
    BY <2>1 DEF Known, Creating
  <2>3. \A f \in Actor : pc'[f] = "fork_enqueue" => pc[f] = "fork_enqueue"
    BY <2>1
  <2>4. running = Main => \A v \in Thread :
          pc'[v] \in {"none", "unborn", "start", "wait_to_run", "blocked"}
    BY <2>1 DEF Members, MainFirst
  <2>5. w \in Seq(Actor)
    BY <1>c, <2>1
  <2>6. /\ \A e \in Dev : Range(waiting'[e]) \subseteq Range(waiting[e])
        /\ \A i \in Prio : \A v \in Range(ready'[i]) :
             v \in Range(ready[i]) \/ (Known(v) /\ prio[v] = i)
    <3>1. CASE /\ w # <<>> /\ waiting' = [waiting EXCEPT ![draining] = Tail(@)]
               /\ ready' = [ready EXCEPT ![prio[Head(w)]] = Enqueue(@, Head(w))]
      <4> DEFINE h == Head(w)
      <4> HIDE DEF w
      <4>1. /\ h \in Range(w) /\ Range(Tail(w)) \subseteq Range(w)
        BY <2>5, <3>1, DequeueRange
      <4> HIDE DEF h
      <4>2. Known(h) /\ h \in Actor /\ prio[h] \in Prio
        BY <1>c, <2>1, <4>1 DEF Members, Queued, Known, w
      <4>3. \A e \in Dev : Range(waiting'[e]) \subseteq Range(waiting[e])
        BY <1>c, <2>1, <3>1, <4>1 DEF w
      <4>4. \A i \in Prio : Range(ready'[i]) \subseteq
             Range(ready[i]) \cup (IF i = prio[h] THEN {h} ELSE {})
        BY <1>c, <3>1, <4>2, EnqueueRange DEF h
      <4>5. QED
        BY <4>2, <4>3, <4>4
    <3>2. CASE UNCHANGED <<ready, waiting>>
      BY <3>2
    <3>3. QED
      BY <2>1, <3>1, <3>2
  <2> HIDE DEF w
  <2>7. QED
    BY <1>d, <2>1, <2>2, <2>3, <2>4, <2>6
<1>7. ASSUME NEW t \in Actor, CheckScheduler(t) PROVE Members'
  <2>1. /\ pc[t] = "check" /\ pc'[t] \in {"broadcast", "preempted"}
        /\ \A v \in Actor : v # t => pc'[v] = pc[v]
        /\ UNCHANGED <<waiting, alive, time_quantum, child, prio, tid>>
    BY <1>7 DEF CheckScheduler
  <2>2. \A v : Known(v) => Known(v)'
    BY <2>1 DEF Known, Creating
  <2>3. /\ alive /\ \A i \in Prio : \A u \in Range(ready'[i]) : Known(u) /\ prio[u] = i
        /\ \/ UNCHANGED <<running, main_running>>
           \/ Known(running') /\ main_running' = FALSE
    BY <1>7, Election
  <2>4. \A f \in Actor : pc'[f] = "fork_enqueue" => pc[f] = "fork_enqueue"
    BY <2>1
  <2>5. Queued'
    <3>1. \A i \in Prio : \A u \in Range(ready'[i]) : Known(u)' /\ prio'[u] = i
      BY <2>1, <2>2, <2>3
    <3>2. \A e \in Dev : \A u \in Range(waiting'[e]) : Known(u)'
      BY <2>1, <2>2 DEF Members, Queued
    <3>3. \A f \in Actor : pc'[f] = "fork_enqueue" => Known(child[f])'
      BY <2>1, <2>2, <2>4 DEF Members, Queued
    <3>4. QED
      BY <3>1, <3>2, <3>3 DEF Queued, Known, Creating
  <2>6. Known(running') => running' # Main
    BY ConstantsAssumption DEF Known, Thread
  <2>7. Holder'
    <3>1. running' # Main => Known(running)'
      BY <2>2, <2>3 DEF Members, Holder
    <3>2. main_running' <=> running' = Main
      BY <2>3, <2>6 DEF Members, Holder
    <3>3. QED
      BY <2>1, <2>3, <3>1, <3>2 DEF Members, Holder, Known, Creating
  <2>8. MainFirst'
    BY <2>1, <2>3, <2>6 DEF Members, MainFirst
  <2>9. QED
    BY <1>a, <2>5, <2>7, <2>8 DEF Members
<1>8. ASSUME NEW t \in Actor, HandlerReturns(t) PROVE Members'
  <2>1. /\ pc[t] = "user" /\ t \in Thread /\ pc' = [pc EXCEPT ![t] = "check"]
        /\ UNCHANGED <<ready, waiting, running, main_running, alive, time_quantum, child, prio,
                       tid>>
    BY <1>8 DEF HandlerReturns
  <2>2. running # Main
    BY <2>1 DEF Members, MainFirst
  <2>3. \A v \in Thread : Known(v) => Known(v)'
    BY <2>1 DEF Known, Creating
  <2>4. \A f \in Actor : pc'[f] = "fork_enqueue" => pc[f] = "fork_enqueue"
    BY <2>1
  <2>5. QED
    BY <1>d, <2>1, <2>2, <2>3, <2>4
<1>9. ASSUME EndFree PROVE Members'
  <2>1. /\ \A i \in Prio : Range(ready'[i]) = {}
        /\ \A d \in Dev : Range(waiting'[d]) = {}
        /\ running' = None
    BY <1>9 DEF EndFree, Range
  <2>2. alive' = FALSE /\ \A f \in Actor : pc'[f] # "fork_enqueue"
    BY <1>0, <1>9 DEF NothingLeft
  <2>3. Queued' /\ Holder' /\ MainFirst'
    BY <2>1, <2>2, ConstantsAssumption DEF Queued, Holder, MainFirst, Actor
  <2>4. QED
    BY <1>a, <2>3 DEF Members
<1>10. QED
  BY <1>n, <1>1, <1>2, <1>3, <1>4, <1>5, <1>6, <1>7, <1>8, <1>9
     DEF DefinedStep, LibraryStep, ClientStep, EndStep, QuietStep
\* Before the first so_init nobody is known.
LEMMA InitMembers == Init => Members /\ QueuesFit
<1> SUFFICES ASSUME Init PROVE Members /\ QueuesFit
  OBVIOUS
<1>1. Pointers /\ Tids
  BY InitExclusion DEF Exclusion
<1>2. Range(<<>>) = {}
  BY DEF Range
<1>3. Queued /\ Holder /\ MainFirst /\ QueuesFit
  BY <1>2, ConstantsAssumption DEF Init, Queued, Holder, MainFirst, QueuesFit, Actor, Thread
<1>4. QED
  BY <1>1, <1>3 DEF Members

\* The queues only know threads that so_fork has queued, for every client.
LEMMA Enrolled == Spec => [](TypeOK /\ ((Accounting /\ Members) \/ Dead))
<1>1. /\ TypeOK /\ OneDrainer /\ Accounting /\ Members /\ [Next]_vars => Dead' \/ Members'
      /\ Accounting => ~Dead
  BY StepMembers DEF Accounting, MainLocal, Dead, Actor
<1>2. QED
  BY Typed, Accounted, InitMembers, StepDead, <1>1, PTL DEF Spec

\* When pthread_create does not fail, a thread has no pthread only while its
\* so_fork is about to create it.
Born == \A t \in Thread : pc[t] = "unborn" => \E f \in Actor : Creating(f) /\ child[f] = t

\* so_fork only goes on with a thread that it has created.
LEMMA StepBorn ==
  ASSUME ~CreateMayFail
  PROVE  TypeOK /\ Accounting /\ Born /\ [Next]_vars => Dead' \/ Born'
<1> SUFFICES ASSUME TypeOK, Accounting, Born, [Next]_vars, ~Dead' PROVE Born'
  OBVIOUS
<1> Facts
  BY FactsHold
<1>n. [DefinedStep]_vars
  BY DefinedUnlessDead
<1>0. EndFree => NothingLeft
  BY NoneRemain
<1> USE ConstantsAssumption
<1> USE DEF sched_vars, queue_vars, thread_vars, sem_vars, local_vars, Goto, Enter, Facts,
     Accounting, Created, Children, Creating, Born
<1>1. ASSUME NEW q \in Quanta, NEW n \in Ios, SoInit(q, n) PROVE Born'
  BY <1>1 DEF SoInit
<1>2. ASSUME NEW t \in Actor, NEW u \in Thread, NEW p \in Prio, SoFork(t, u, p) PROVE Born'
  <2>1. /\ pc[t] = "user" /\ pc[u] = "none" /\ t # u
        /\ pc' = [pc EXCEPT ![t] = "fork_post", ![u] = "unborn"]
        /\ child' = [child EXCEPT ![t] = u]
    BY <1>2 DEF SoFork, MayCall, Thread
  <2>2. ASSUME NEW v \in Thread, v # u, pc'[v] = "unborn"
        PROVE  \E f \in Actor : Creating(f)' /\ child'[f] = v
    <3>1. pc[v] = "unborn"
      BY <2>1, <2>2
    <3>2. PICK f \in Actor : Creating(f) /\ child[f] = v
      BY <3>1
    <3>3. f # t /\ f # u
      BY <2>1, <3>2
    <3>4. QED
      BY <2>1, <3>2, <3>3
  <2>3. Creating(t)' /\ child'[t] = u
    BY <2>1
  <2>4. QED
    BY <2>2, <2>3
<1>3. ASSUME NEW t \in Actor, ForkPost(t) PROVE Born'
  BY <1>3 DEF ForkPost
<1>4. ASSUME NEW t \in Actor, ForkCreate(t) PROVE Born'
  <2>1. /\ pc[t] = "fork_create" /\ child[t] \in Thread /\ UNCHANGED child
        /\ pc' = [pc EXCEPT ![t] = "fork_enqueue", ![child[t]] = "start"]
    BY <1>4 DEF ForkCreate
  <2>2. ASSUME NEW u \in Thread, pc'[u] = "unborn"
        PROVE  \E f \in Actor : Creating(f)' /\ child'[f] = u
    <3>1. u # child[t] /\ u # t /\ pc[u] = "unborn"
      BY <2>1, <2>2
    <3>2. PICK f \in Actor : Creating(f) /\ child[f] = u
      BY <3>1
    <3>3. f # t /\ f # child[t] /\ pc'[f] = pc[f]
      BY <2>1, <3>1, <3>2
    <3>4. QED
      BY <2>1, <3>2, <3>3
  <2>3. QED
    BY <2>2
<1>5. ASSUME NEW t \in Actor, ForkEnqueue(t) PROVE Born'
  BY <1>5 DEF ForkEnqueue
<1>6. ASSUME NEW t \in Actor, SoExec(t) PROVE Born'
  BY <1>6 DEF SoExec, MayCall
<1>7. ASSUME NEW t \in Actor, NEW d \in Dev, SoWait(t, d) PROVE Born'
  BY <1>7 DEF SoWait, MayCall
<1>8. ASSUME NEW t \in Actor, NEW d \in Dev, SoSignal(t, d) PROVE Born'
  BY <1>8 DEF SoSignal, MayCall
<1>9. ASSUME NEW t \in Actor, SignalLoop(t) PROVE Born'
  BY <1>9 DEF SignalLoop
<1>10. ASSUME NEW t \in Actor, DecreaseQuantum(t) PROVE Born'
  BY <1>10 DEF DecreaseQuantum
<1>11. ASSUME NEW t \in Actor, CheckScheduler(t) PROVE Born'
  BY <1>11 DEF CheckScheduler
<1>12. ASSUME NEW t \in Actor, Preempted(t) PROVE Born'
  BY <1>12 DEF Preempted, AfterPreempted
<1>13. ASSUME NEW t \in Actor, Broadcast(t) PROVE Born'
  BY <1>13 DEF Broadcast, AfterBroadcast
<1>14. ASSUME NEW t \in Actor, WaitToRun(t) PROVE Born'
  BY <1>14 DEF WaitToRun
<1>15. ASSUME NEW t \in Actor, SpuriousWakeup(t) PROVE Born'
  BY <1>15 DEF SpuriousWakeup
<1>16. ASSUME NEW t \in Actor, ThreadStart(t) PROVE Born'
  BY <1>16 DEF ThreadStart
<1>17. ASSUME NEW t \in Actor, HandlerReturns(t) PROVE Born'
  BY <1>17 DEF HandlerReturns
<1>18. ASSUME NEW t \in Actor, RecordTerminated(t) PROVE Born'
  BY <1>18 DEF RecordTerminated
<1>19. ASSUME NEW t \in Actor, SemWait(t) PROVE Born'
  BY <1>19 DEF SemWait
<1>20. ASSUME NEW t \in Actor, SemGet(t) PROVE Born'
  BY <1>20 DEF SemGet
<1>21. ASSUME NEW t \in Actor, SemPost(t) PROVE Born'
  BY <1>21 DEF SemPost
<1>22. ASSUME SoEnd PROVE Born'
  BY <1>22 DEF SoEnd
<1>23. ASSUME EndWait PROVE Born'
  BY <1>23 DEF EndWait
<1>24. ASSUME EndJoin PROVE Born'
  BY <1>24, JoinsOrDies DEF EndJoin
<1>25. ASSUME EndFree PROVE Born'
  BY <1>0, <1>25 DEF EndFree, NothingLeft
<1>26. ASSUME UNCHANGED vars PROVE Born'
  BY <1>26 DEF vars
<1>27. QED
  BY <1>n, <1>1, <1>2, <1>3, <1>4, <1>5, <1>6, <1>7, <1>8, <1>9, <1>10, <1>11, <1>12, <1>13,
       <1>14, <1>15, <1>16, <1>17, <1>18, <1>19, <1>20, <1>21, <1>22, <1>23, <1>24, <1>25,
       <1>26
     DEF DefinedStep, LibraryStep, ClientStep, EndStep

\* so_fork's thread is there to run when it is chosen, for every client, however many
\* threads fork: no decision runs ahead of a so_fork that has counted its thread, and
\* posted the semaphore, but not got past its pthread_create.
THEOREM ChosenAreThere == Spec => []ChosenThreadsExist
<1>1. Init => Born
  BY ConstantsAssumption DEF Init, Born, Actor, Thread
<1>2. TypeOK /\ Accounting /\ Members /\ (CreateMayFail \/ Born) => ChosenThreadsExist
  <2> SUFFICES ASSUME TypeOK, Accounting, Members, CreateMayFail \/ Born,
                      NEW t \in Thread, running = t
               PROVE  /\ pc[t] # "none" /\ \A f \in Actor : Creating(f) => child[f] # t
                      /\ pc[t] = "unborn" => CreateMayFail
    BY DEF ChosenThreadsExist, Creating
  <2>1. CASE alive
    <3>1. Known(t)
      BY <2>1, ConstantsAssumption DEF Members, Holder
    <3>2. QED
      BY <3>1 DEF Known, Born
  <2>2. CASE ~alive
    BY <2>2, ConstantsAssumption DEF Members, Holder, Actor
  <2>3. QED
    BY <2>1, <2>2 DEF TypeOK
<1>3. /\ Dead => ChosenThreadsExist
      /\ Accounting => ~Dead
  BY DEF Dead, ChosenThreadsExist, Accounting, MainLocal, Actor
<1>4. TypeOK /\ Accounting /\ (CreateMayFail \/ Born) /\ [Next]_vars
        => Dead' \/ (CreateMayFail \/ Born)'
  BY StepBorn
<1>5. QED
  BY Enrolled, StepDead, <1>1, <1>2, <1>3, <1>4, PTL DEF Spec

\* No step makes a queue longer than its capacity.
LEMMA StepQueuesFit ==
  ASSUME TypeOK, OneDrainer, Accounting, Members, QueuesFit, [Next]_vars, ~Dead'
  PROVE  QueuesFit'
<1> Facts
  BY FactsHold
<1>n. [DefinedStep]_vars
  BY DefinedUnlessDead
<1>c. /\ prio \in [Actor -> Prio] /\ ready \in [Prio -> Seq(Actor)]
      /\ waiting \in [Dev -> Seq(Actor)]
      /\ \A t \in Actor : pc[t] \notin {"none", "off"} => running \in Actor
  BY AliveWhileActive DEF TypeOK, Members, Pointers
<1>d. \A q \in Seq(Actor), x \in Actor : Len(q) <= MaxSize => Len(Enqueue(q, x)) <= MaxSize
  BY EnqueueFits
<1> USE DEF sched_vars, queue_vars, thread_vars, sem_vars, local_vars, Goto, Enter, Facts
<1>1. CASE QuietStep
  BY <1>1, QuietStepMovesNone DEF QueuesFit
<1>2. ASSUME NEW t \in Actor, ForkEnqueue(t) PROVE QueuesFit'
  <2>1. child[t] \in Actor
    BY <1>2 DEF ForkEnqueue, Members, Queued, Known
  <2>2. ready' = [ready EXCEPT ![prio[child[t]]] = Enqueue(@, child[t])] /\ UNCHANGED waiting
    BY <1>2 DEF ForkEnqueue
  <2>3. QED
    BY <1>c, <1>d, <2>1, <2>2 DEF QueuesFit
<1>3. ASSUME NEW t \in Actor, NEW d \in Dev, SoWait(t, d) PROVE QueuesFit'
  <2>1. waiting' = [waiting EXCEPT ![d] = Enqueue(@, running)] /\ UNCHANGED ready
        /\ running \in Actor
    BY <1>3, <1>c DEF SoWait, MayCall
  <2>2. QED
    BY <1>c, <1>d, <2>1 DEF QueuesFit
<1>4. ASSUME NEW t \in Actor, SignalLoop(t) PROVE QueuesFit'
  <2> DEFINE w == waiting[draining]
  <2>1. /\ draining \in Dev /\ w \in Seq(Actor)
        /\ \/ /\ w # <<>> /\ waiting' = [waiting EXCEPT ![draining] = Tail(@)]
              /\ ready' = [ready EXCEPT ![prio[Head(w)]] = Enqueue(@, Head(w))]
           \/ UNCHANGED <<ready, waiting>>
    BY <1>4, <1>c DEF SignalLoop, OneDrainer
  <2>2. CASE /\ w # <<>> /\ waiting' = [waiting EXCEPT ![draining] = Tail(@)]
             /\ ready' = [ready EXCEPT ![prio[Head(w)]] = Enqueue(@, Head(w))]
    <3>1. Len(Tail(w)) <= Len(w) /\ Head(w) \in Actor /\ Tail(w) \in Seq(Actor)
          /\ Len(Tail(w)) \in Nat /\ Len(w) \in Nat
      BY <2>1, <2>2
    <3>2. \A e \in Dev : Len(waiting'[e]) <= MaxSize
      BY <1>c, <2>1, <2>2, <3>1, ConstantsAssumption DEF QueuesFit
    <3>3. \A i \in Prio : Len(ready'[i]) <= MaxSize
      BY <1>c, <1>d, <2>2, <3>1 DEF QueuesFit
    <3>4. QED
      BY <3>2, <3>3 DEF QueuesFit
  <2>3. QED
    BY <2>1, <2>2 DEF QueuesFit
<1>5. ASSUME NEW t \in Actor, CheckScheduler(t) PROVE QueuesFit'
  BY <1>5, Election DEF QueuesFit, CheckScheduler
<1>6. ASSUME NEW t \in Actor, NEW u \in Thread, NEW p \in Prio, SoFork(t, u, p) PROVE QueuesFit'
  BY <1>6 DEF SoFork, QueuesFit
<1>7. ASSUME NEW t \in Actor, HandlerReturns(t) PROVE QueuesFit'
  BY <1>7 DEF HandlerReturns, QueuesFit
<1>8. ASSUME NEW q \in Quanta, NEW n \in Ios, SoInit(q, n) PROVE QueuesFit'
  BY <1>8 DEF SoInit, QueuesFit
<1>9. ASSUME EndFree PROVE QueuesFit'
  BY <1>9, ConstantsAssumption DEF EndFree, QueuesFit
<1>10. QED
  BY <1>n, <1>1, <1>2, <1>3, <1>4, <1>5, <1>6, <1>7, <1>8, <1>9
     DEF DefinedStep, LibraryStep, ClientStep, EndStep, QuietStep

Ending == {"record", "sem_wait", "sem_get", "sem_post", "done"}

\* A handler that has returned does not come back.
Returned ==
  \A t \in Thread :
    /\ work_done[t] <=> op[t] = "exit"
    /\ work_done[t] => pc[t] \in {"check", "preempted", "broadcast"} \cup Ending
    /\ pc[t] \in Ending => work_done[t]

\* No step brings a handler that has returned back.
LEMMA StepReturned ==
  ASSUME TypeOK, Accounting, Returned, [Next]_vars, ~Dead'
  PROVE  Returned'
<1> Facts
  BY FactsHold
<1>n. [DefinedStep]_vars
  BY DefinedUnlessDead
<1>0. EndFree => NothingLeft
  BY NoneRemain
<1> work_done \in [Actor -> BOOLEAN]
  BY DEF TypeOK
<1> USE DEF sched_vars, queue_vars, thread_vars, sem_vars, local_vars, Goto, Enter, Facts,
     Returned, Ending
<1>1. ASSUME NEW t \in Actor, NEW u \in Thread, NEW p \in Prio, SoFork(t, u, p) PROVE Returned'
  <2>1. /\ pc[t] = "user" /\ t # u
        /\ pc' = [pc EXCEPT ![t] = "fork_post", ![u] = "unborn"]
        /\ op' = [op EXCEPT ![t] = "fork", ![u] = "begin"]
        /\ work_done' = [work_done EXCEPT ![u] = FALSE]
    BY <1>1 DEF SoFork, MayCall, Accounting, Created, Thread
  <2>2. QED
    BY <2>1
<1>2. ASSUME NEW t \in Actor, ForkCreate(t) PROVE Returned'
  <2>1. /\ pc[t] = "fork_create" /\ child[t] \in Thread /\ pc[child[t]] = "unborn"
        /\ \/ pc' = [pc EXCEPT ![t] = "fork_enqueue", ![child[t]] = "start"]
           \/ pc' = [pc EXCEPT ![t] = "fork_enqueue"]
        /\ UNCHANGED <<op, work_done>>
    BY <1>2 DEF ForkCreate, Accounting, Children, Creating
  <2>2. QED
    BY <2>1
<1>3. ASSUME NEW t \in Actor, ForkPost(t) \/ ForkEnqueue(t) \/ SignalLoop(t) PROVE Returned'
  BY <1>3 DEF ForkPost, ForkEnqueue, SignalLoop
<1>4. ASSUME NEW t \in Actor, SoExec(t) \/ \E d \in Dev : SoWait(t, d) \/ SoSignal(t, d)
      PROVE  Returned'
  BY <1>4 DEF SoExec, SoWait, SoSignal, MayCall
<1>5. ASSUME NEW t \in Actor, DecreaseQuantum(t) \/ CheckScheduler(t) PROVE Returned'
  BY <1>5 DEF DecreaseQuantum, CheckScheduler
<1>6. ASSUME NEW t \in Actor, Preempted(t) PROVE Returned'
  BY <1>6 DEF Preempted, AfterPreempted
<1>7. ASSUME NEW t \in Actor, Broadcast(t) PROVE Returned'
  BY <1>7 DEF Broadcast, AfterBroadcast
<1>8. ASSUME NEW t \in Actor, WaitToRun(t) \/ SpuriousWakeup(t) \/ ThreadStart(t) PROVE Returned'
  BY <1>8 DEF WaitToRun, SpuriousWakeup, ThreadStart
<1>9. ASSUME NEW t \in Actor, HandlerReturns(t) PROVE Returned'
  BY <1>9 DEF HandlerReturns
<1>10. ASSUME NEW t \in Actor, RecordTerminated(t) \/ SemWait(t) \/ SemGet(t) \/ SemPost(t)
       PROVE  Returned'
  BY <1>10 DEF RecordTerminated, SemWait, SemGet, SemPost
<1>11. ASSUME NEW q \in Quanta, NEW n \in Ios, SoInit(q, n) PROVE Returned'
  BY <1>11 DEF SoInit
<1>12. CASE SoEnd \/ EndWait
  BY <1>12 DEF SoEnd, EndWait
<1>13. CASE EndJoin
  BY <1>13, JoinsOrDies DEF EndJoin
<1>14. CASE EndFree
  BY <1>0, <1>14 DEF EndFree, NothingLeft
<1>15. CASE UNCHANGED vars
  BY <1>15 DEF vars
<1>16. QED
  BY <1>n, <1>1, <1>2, <1>3, <1>4, <1>5, <1>6, <1>7, <1>8, <1>9, <1>10, <1>11, <1>12, <1>13, <1>14,
     <1>15
     DEF DefinedStep, LibraryStep, ClientStep, EndStep

\* But for a call that is on its way to its decision, no ready thread has a
\* higher priority than the running one.
Prioritized ==
  \A t \in Thread : running = t /\ pc[t] \notin {"signal_loop", "decrease", "check"} =>
    \A i \in Prio : i > prio[t] => ready[i] = <<>>

\* Something is left of the running thread's time slice, or it has waited alone and
\* goes on: then it is ready, or it still waits and nobody else is ready, and so_signal
\* finds room for it.
Slice ==
  \A t \in Thread : running = t /\ ~work_done[t] =>
    \/ /\ quantum[t] \in 0..time_quantum
       /\ pc[t] # "check" => quantum[t] # 0
    \/ \E i \in Prio : t \in Range(ready[i])
    \/ /\ on_wait[t]
       /\ pc[t] \notin {"signal_loop", "decrease", "check"} => \A i \in Prio : ready[i] = <<>>
       /\ pc[t] = "signal_loop" =>
            \A i \in Prio : Len(ready[i]) + Len(waiting[draining]) <= MaxSize

\* Every decision prefers the highest priority, and wraps nobody's quantum.
LEMMA StepDecisions ==
  ASSUME MainForks <= 1, TypeOK, OneDrainer, Accounting, Exclusion, Members, QueuesFit, Returned,
         Prioritized, Slice, [Next]_vars, ~Dead'
  PROVE  Prioritized' /\ Slice'
<1> Facts
  BY FactsHold
<1>n. [DefinedStep]_vars
  BY DefinedUnlessDead
<1>b. /\ on_wait \in [Actor -> BOOLEAN] /\ work_done \in [Actor -> BOOLEAN]
      /\ prio \in [Actor -> Prio] /\ quantum \in [Actor -> 0..(WordSize - 1)]
      /\ ready \in [Prio -> Seq(Actor)] /\ waiting \in [Dev -> Seq(Actor)]
  BY DEF TypeOK, Members, Pointers
<1>c. \A t \in Actor : Acting(t) => running = t
  BY DEF Exclusion, Token
<1>e. \A t \in Actor : pc[t] \notin {"none", "off"} => alive
  BY AliveWhileActive
<1> USE DEF sched_vars, queue_vars, thread_vars, sem_vars, local_vars, Goto, Enter, Facts
<1>d. ASSUME UNCHANGED <<running, ready, time_quantum>>,
             \A v \in Thread : v = running =>
               /\ prio'[v] = prio[v] /\ work_done'[v] = work_done[v] /\ on_wait'[v] = on_wait[v]
               /\ quantum'[v] = quantum[v] /\ StillDeciding(v)
               /\ pc'[v] = "signal_loop" =>
                    pc[v] = "signal_loop" /\ UNCHANGED <<waiting, draining>>
      PROVE  Prioritized' /\ Slice'
  <2>1. Prioritized'
    BY <1>d DEF StillDeciding, Prioritized
  <2>2. Slice'
    <3> SUFFICES ASSUME NEW v \in Thread, running' = v, ~work_done'[v]
                 PROVE  \/ /\ quantum'[v] \in 0..time_quantum'
                           /\ pc'[v] # "check" => quantum'[v] # 0
                        \/ \E i \in Prio : v \in Range(ready'[i])
                        \/ /\ on_wait'[v]
                           /\ pc'[v] \notin {"signal_loop", "decrease", "check"} =>
                                \A i \in Prio : ready'[i] = <<>>
                           /\ pc'[v] = "signal_loop" =>
                                \A i \in Prio : Len(ready'[i]) + Len(waiting'[draining']) <= MaxSize
      BY DEF Slice
    <3>1. \/ /\ quantum[v] \in 0..time_quantum
             /\ pc[v] # "check" => quantum[v] # 0
          \/ \E i \in Prio : v \in Range(ready[i])
          \/ /\ on_wait[v]
             /\ pc[v] \notin {"signal_loop", "decrease", "check"} => \A i \in Prio : ready[i] = <<>>
             /\ pc[v] = "signal_loop" =>
                  \A i \in Prio : Len(ready[i]) + Len(waiting[draining]) <= MaxSize
      BY <1>d DEF Slice
    <3>2. QED
      BY <1>d, <3>1 DEF StillDeciding
  <2>3. QED
    BY <2>1, <2>2
<1>1. ASSUME QuietStep,
             ~\E t \in Actor : DecreaseQuantum(t) \/ \E d \in Dev : SoSignal(t, d)
      PROVE  Prioritized' /\ Slice'
  <2>1. /\ UNCHANGED <<ready, waiting, prio, work_done, on_wait, running, time_quantum>>
        /\ \A t \in Actor : StillDeciding(t)
    BY <1>1, QuietStepMovesNone
  <2>2. quantum' = quantum /\ draining' = draining
    BY <1>1 DEF QuietStep, ForkPost, ForkCreate, SoExec, Preempted, Broadcast,
       WaitToRun, SpuriousWakeup, ThreadStart, RecordTerminated, SemWait, SemGet, SemPost,
       SoEnd, EndWait, EndJoin, vars
  <2>3. \A v \in Thread : pc'[v] = "signal_loop" => pc[v] = "signal_loop"
    BY <1>1, JoinsOrDies DEF QuietStep, ForkPost, ForkCreate, SoExec, Preempted, AfterPreempted,
       Broadcast, AfterBroadcast, WaitToRun, SpuriousWakeup, ThreadStart, RecordTerminated,
       SemWait, SemGet, SemPost, SoEnd, EndWait, vars, MayCall
  <2>4. QED
    BY <1>d, <2>1, <2>2, <2>3
<1>2. ASSUME NEW t \in Actor, DecreaseQuantum(t) PROVE Prioritized' /\ Slice'
  <2>1. /\ UNCHANGED <<ready, waiting, prio, work_done, on_wait, running, time_quantum>>
        /\ pc[t] = "decrease" /\ pc'[t] = "check" /\ running = t /\ alive
        /\ quantum'[t] = Decrement(quantum[t])
    BY <1>2, <1>b, <1>c, <1>e DEF DecreaseQuantum, Acting
  <2>2. Prioritized'
    BY <2>1 DEF Prioritized
  <2>3. ASSUME quantum[t] \in 0..time_quantum, quantum[t] # 0 PROVE quantum'[t] \in 0..time_quantum
    <3>1. quantum[t] \in 1..(WordSize - 1) /\ time_quantum \in Nat
      BY <2>1, <2>3, ConstantsAssumption DEF Members, Holder
    <3>2. Decrement(quantum[t]) = quantum[t] - 1
      BY <3>1, DecrementPositive
    <3>3. QED
      BY <2>1, <2>3, <3>1, <3>2
  <2>4. Slice'
    BY <2>1, <2>3 DEF Slice
  <2>5. QED
    BY <2>2, <2>4
<1>3. ASSUME NEW t \in Actor, NEW u \in Thread, NEW p \in Prio, SoFork(t, u, p)
      PROVE  Prioritized' /\ Slice'
  <2>1. /\ pc[t] = "user" /\ pc[u] = "none" /\ alive
        /\ pc' = [pc EXCEPT ![t] = "fork_post", ![u] = "unborn"]
        /\ prio' = [prio EXCEPT ![u] = p] /\ work_done' = [work_done EXCEPT ![u] = FALSE]
        /\ on_wait' = [on_wait EXCEPT ![u] = FALSE]
        /\ quantum' = [quantum EXCEPT ![u] = time_quantum]
        /\ UNCHANGED <<running, ready, waiting, draining, time_quantum>>
    BY <1>3, <1>e DEF SoFork, MayCall, Accounting, Created, Thread
  <2>2. running # u
    BY <2>1, ConstantsAssumption DEF Members, Holder, Known
  <2>3. \A v \in Thread : v = running =>
          StillDeciding(v) /\ (pc'[v] = "signal_loop" => pc[v] = "signal_loop")
    BY <2>1, <2>2 DEF StillDeciding
  <2>4. \A v \in Thread : v = running => /\ prio'[v] = prio[v] /\ work_done'[v] = work_done[v]
                                         /\ quantum'[v] = quantum[v] /\ on_wait'[v] = on_wait[v]
    BY <1>b, <2>1, <2>2
  <2>5. QED
    BY <1>d, <2>1, <2>3, <2>4
<1>4. ASSUME NEW t \in Actor, ForkEnqueue(t) PROVE Prioritized' /\ Slice'
  <2>1. /\ running = t /\ UNCHANGED <<running, prio, work_done, on_wait, quantum, time_quantum>>
        /\ pc[t] = "fork_enqueue" /\ pc'[t] = "decrease"
        /\ ready' = [ready EXCEPT ![prio[child[t]]] = Enqueue(@, child[t])]
    BY <1>4, <1>c DEF ForkEnqueue, Acting
  <2>2. child[t] \in Actor
    BY <2>1 DEF Members, Queued, Known
  <2>3. \A i \in Prio : Range(ready[i]) \subseteq Range(ready'[i])
    BY <1>b, <2>1, <2>2, EnqueueRange
  <2>4. QED
    BY <2>1, <2>3 DEF Prioritized, Slice
<1>5. ASSUME NEW t \in Actor, SignalLoop(t) PROVE Prioritized' /\ Slice'
  <2> DEFINE w == waiting[draining]
  <2>1. /\ running = t /\ UNCHANGED <<running, prio, work_done, quantum, time_quantum>>
        /\ pc[t] = "signal_loop" /\ draining \in Dev /\ w \in Seq(Actor)
        /\ \/ /\ w # <<>> /\ waiting' = [waiting EXCEPT ![draining] = Tail(@)]
              /\ on_wait' = [on_wait EXCEPT ![Head(w)] = FALSE]
              /\ ready' = [ready EXCEPT ![prio[Head(w)]] = Enqueue(@, Head(w))]
              /\ UNCHANGED <<draining, pc>>
           \/ pc'[t] = "decrease" /\ UNCHANGED <<ready, on_wait>>
    BY <1>5, <1>b, <1>c DEF SignalLoop, Acting, OneDrainer
  <2> HIDE DEF w
  <2>2. CASE /\ w # <<>> /\ waiting' = [waiting EXCEPT ![draining] = Tail(@)]
             /\ on_wait' = [on_wait EXCEPT ![Head(w)] = FALSE]
             /\ ready' = [ready EXCEPT ![prio[Head(w)]] = Enqueue(@, Head(w))]
             /\ UNCHANGED <<draining, pc>>
    <3> DEFINE h == Head(w)
    <3>1. /\ h \in Actor /\ Len(w) \in Nat /\ Len(Tail(w)) = Len(w) - 1 /\ Len(w) # 0
          /\ Tail(w) \in Seq(Actor)
      BY <2>1, <2>2
    <3> HIDE DEF h
    <3>2. /\ ready' = [ready EXCEPT ![prio[h]] = Enqueue(@, h)] /\ prio[h] \in Prio
          /\ on_wait' = [on_wait EXCEPT ![h] = FALSE]
      BY <1>b, <2>2, <3>1 DEF h
    <3>3. /\ \A i \in Prio : /\ Range(ready[i]) \subseteq Range(ready'[i])
                             /\ Len(ready[i]) \in Nat /\ Len(ready'[i]) \in Nat
                             /\ Len(ready[i]) <= MaxSize
          /\ Len(ready[prio[h]]) # MaxSize => h \in Range(ready'[prio[h]])
      <4> DEFINE r == ready[prio[h]]
      <4>1. r \in Seq(Actor) /\ Len(r) <= MaxSize
        BY <1>b, <3>2 DEF QueuesFit
      <4> HIDE DEF r
      <4>2. /\ Range(r) \subseteq Range(Enqueue(r, h))
            /\ Len(r) # MaxSize => h \in Range(Enqueue(r, h))
            /\ Enqueue(r, h) \in Seq(Actor)
        BY <3>1, <4>1, EnqueueRange, EnqueueType
      <4>3. QED
        BY <1>b, <3>1, <3>2, <4>1, <4>2 DEF r, QueuesFit
    <3>4. Prioritized'
      BY <2>1, <2>2 DEF Prioritized
    <3>5. ASSUME t \in Thread, ~work_done[t]
          PROVE  \/ /\ quantum[t] \in 0..time_quantum /\ quantum[t] # 0
                 \/ \E i \in Prio : t \in Range(ready'[i])
                 \/ /\ on_wait'[t]
                    /\ \A i \in Prio : Len(ready'[i]) + Len(waiting'[draining]) <= MaxSize
      <4>1. CASE quantum[t] \in 0..time_quantum /\ quantum[t] # 0
        BY <4>1
      <4>2. CASE \E i \in Prio : t \in Range(ready[i])
        BY <3>3, <4>2
      <4>3. CASE /\ on_wait[t]
                 /\ \A i \in Prio : Len(ready[i]) + Len(w) <= MaxSize
        <5>1. \A i \in Prio : Len(ready[i]) < MaxSize
          BY <3>1, <3>3, <4>3, ConstantsAssumption
        <5>2. CASE h = t
          <6>1. Len(ready[prio[h]]) # MaxSize
            BY <3>2, <3>3, <5>1, ConstantsAssumption
          <6>2. QED
            BY <3>2, <3>3, <5>2, <6>1
        <5>3. CASE h # t
          <6>1. on_wait'[t]
            BY <1>b, <3>2, <4>3, <5>3
          <6>2. waiting'[draining] = Tail(w)
            BY <1>b, <2>1, <2>2 DEF w
          <6>3. ASSUME NEW i \in Prio PROVE Len(ready'[i]) <= Len(ready[i]) + 1
            <7>1. CASE i = prio[h]
              <8>1. ready'[i] = Enqueue(ready[i], h)
                BY <1>b, <3>2, <7>1
              <8>2. ready[i] \in Seq(Actor) /\ Len(ready[i]) <= MaxSize
                BY <1>b, <3>3
              <8>3. QED
                BY <3>1, <8>1, <8>2, EnqueueFits
            <7>2. CASE i # prio[h]
              BY <1>b, <3>2, <3>3, <7>2
            <7>3. QED
              BY <7>1, <7>2
          <6>4. ASSUME NEW i \in Prio PROVE Len(ready'[i]) + Len(waiting'[draining]) <= MaxSize
            <7>1. Len(ready[i]) + Len(w) <= MaxSize /\ Len(ready'[i]) <= Len(ready[i]) + 1
              BY <4>3, <6>3
            <7>2. QED
              BY <3>1, <3>3, <6>2, <7>1, ConstantsAssumption
          <6>5. QED
            BY <6>1, <6>4
        <5>4. QED
          BY <5>2, <5>3
      <4>4. QED
        BY <2>1, <3>5, <4>1, <4>2, <4>3 DEF Slice, w
    <3>6. Slice'
      BY <2>1, <2>2, <3>5 DEF Slice
    <3>7. QED
      BY <3>4, <3>6
  <2>3. CASE pc'[t] = "decrease" /\ UNCHANGED <<ready, on_wait>>
    BY <2>1, <2>3 DEF Prioritized, Slice
  <2>4. QED
    BY <2>1, <2>2, <2>3
<1>6. ASSUME NEW t \in Actor, NEW d \in Dev, SoWait(t, d) PROVE Prioritized' /\ Slice'
  <2>1. /\ UNCHANGED <<running, ready, time_quantum, prio, work_done, quantum>>
        /\ on_wait' = [on_wait EXCEPT ![running] = TRUE] /\ pc' = [pc EXCEPT ![t] = "decrease"]
        /\ pc[t] = "user" /\ running = t
    BY <1>6, <1>c DEF SoWait, MayCall, Acting
  <2>2. QED
    BY <1>b, <2>1 DEF Prioritized, Slice
<1>7. ASSUME NEW t \in Actor, NEW d \in Dev, SoSignal(t, d) PROVE Prioritized' /\ Slice'
  <2>1. /\ UNCHANGED <<running, ready, waiting, on_wait, time_quantum, prio, work_done, quantum>>
        /\ pc' = [pc EXCEPT ![t] = "signal_loop"] /\ draining' = d
        /\ pc[t] = "user" /\ running = t
    BY <1>7, <1>c DEF SoSignal, MayCall, Acting
  <2>2. (\A i \in Prio : ready[i] = <<>>) =>
          \A i \in Prio : Len(ready[i]) + Len(waiting[d]) <= MaxSize
    <3>1. Len(waiting[d]) \in Nat /\ Len(waiting[d]) <= MaxSize
      BY <1>b DEF QueuesFit
    <3>2. Len(<<>>) + Len(waiting[d]) = Len(waiting[d])
      BY <3>1
    <3>3. QED
      BY <3>1, <3>2
  <2>3. QED
    BY <1>b, <2>1, <2>2 DEF Prioritized, Slice
<1>8. ASSUME NEW t \in Actor, CheckScheduler(t) PROVE Prioritized' /\ Slice'
  <2>1. /\ running = t /\ alive
        /\ \/ /\ running' = running /\ quantum' = quantum
              /\ Yields => \A i \in Prio : ready'[i] = <<>> /\ ready[i] = <<>>
              /\ running # Main /\ Expired => work_done[running] \/ on_wait[running]
              /\ \A i \in Prio : Range(ready[i]) \subseteq Range(ready'[i])
           \/ /\ Known(running')
              /\ quantum' = [quantum EXCEPT ![running'] = time_quantum]
        /\ running' \in Thread =>
             \A i \in Prio : i > prio[running'] => ready'[i] = <<>>
    BY <1>8, <1>c, Election DEF CheckScheduler, Acting
  <2>2. /\ UNCHANGED <<prio, work_done, on_wait, time_quantum>>
        /\ pc'[t] \in {"preempted", "broadcast"}
    BY <1>8 DEF CheckScheduler
  <2>3. Prioritized'
    BY <2>1, <2>2 DEF Prioritized
  <2>4. CASE /\ running' = running /\ quantum' = quantum
             /\ Yields => \A i \in Prio : ready'[i] = <<>> /\ ready[i] = <<>>
             /\ running # Main /\ Expired => work_done[running] \/ on_wait[running]
             /\ \A i \in Prio : Range(ready[i]) \subseteq Range(ready'[i])
    <3>1. ASSUME t \in Thread, ~work_done[t]
          PROVE  \/ quantum[t] \in 0..time_quantum /\ quantum[t] # 0
                 \/ \E i \in Prio : t \in Range(ready'[i])
                 \/ on_wait[t] /\ \A i \in Prio : ready'[i] = <<>>
      <4>1. CASE on_wait[t]
        BY <2>1, <2>4, <4>1 DEF Yields
      <4>2. CASE ~on_wait[t]
        <5>1. ~Expired
          BY <2>1, <2>4, <3>1, <4>2, ConstantsAssumption
        <5>2. quantum[t] # 0
          BY <2>1, <5>1 DEF Expired
        <5>3. QED
          BY <2>1, <2>4, <3>1, <4>2, <5>2 DEF Slice
      <4>3. QED
        BY <4>1, <4>2
    <3>2. Slice'
      BY <2>1, <2>2, <2>4, <3>1 DEF Slice
    <3>3. QED
      BY <2>3, <3>2
  <2>5. CASE Known(running') /\ quantum' = [quantum EXCEPT ![running'] = time_quantum]
    <3>1. running' \in Actor /\ quantum'[running'] = time_quantum
      BY <1>b, <2>5 DEF Known
    <3>2. time_quantum \in 0..time_quantum /\ time_quantum # 0
      BY <2>1, ConstantsAssumption DEF Members, Holder
    <3>3. Slice'
      BY <2>2, <3>1, <3>2 DEF Slice
    <3>4. QED
      BY <2>3, <3>3
  <2>6. QED
    BY <2>1, <2>4, <2>5
<1>9. ASSUME NEW t \in Actor, HandlerReturns(t) PROVE Prioritized' /\ Slice'
  <2>1. /\ running = t /\ UNCHANGED <<running, ready, prio, quantum, time_quantum>>
        /\ t \in Thread /\ pc'[t] = "check" /\ work_done'[t] = TRUE
    BY <1>9, <1>b, <1>c DEF HandlerReturns, Acting
  <2>2. QED
    BY <2>1 DEF Prioritized, Slice
<1>10. ASSUME NEW q \in Quanta, NEW n \in Ios, SoInit(q, n) PROVE Prioritized' /\ Slice'
  BY <1>10, ConstantsAssumption DEF SoInit, Prioritized, Slice
<1>11. ASSUME EndFree PROVE Prioritized' /\ Slice'
  BY <1>11, ConstantsAssumption DEF EndFree, Prioritized, Slice
<1>12. QED
  BY <1>n, <1>1, <1>2, <1>3, <1>4, <1>5, <1>6, <1>7, <1>8, <1>9, <1>10, <1>11
     DEF DefinedStep, LibraryStep, ClientStep, EndStep, QuietStep

Decisions == QueuesFit /\ Returned /\ Prioritized /\ Slice

\* Every decision is right, whether or not the clients wait alone.
LEMMA Elected ==
  ASSUME MainForks <= 1
  PROVE  Spec => [](TypeOK /\ ((Exclusion /\ Decisions) \/ Dead))
<1>1. Init => Decisions
  <2> SUFFICES ASSUME Init PROVE Decisions
    OBVIOUS
  <2>1. Returned /\ Prioritized /\ Slice
    BY ConstantsAssumption DEF Init, Returned, Ending, Prioritized, Slice, Actor, Thread
  <2>2. QED
    BY <2>1, InitMembers DEF Decisions
<1>2. /\ TypeOK /\ OneDrainer /\ Accounting /\ Members /\ Exclusion /\ Decisions /\ [Next]_vars
           => Dead' \/ (Exclusion /\ Decisions)'
      /\ Accounting => ~Dead
  <2>1. Accounting => ~Dead
    BY DEF Accounting, MainLocal, Dead, Actor
  <2> SUFFICES ASSUME TypeOK, OneDrainer, Accounting, Members, Exclusion, Decisions,
                      [Next]_vars, ~Dead'
               PROVE  (Exclusion /\ Decisions)'
    BY <2>1
  <2>2. Exclusion'
    BY StepPointers, StepTids, StepToken DEF Exclusion
  <2>3. QueuesFit' /\ Returned'
    BY StepQueuesFit, StepReturned DEF Decisions
  <2>4. Prioritized' /\ Slice'
    BY StepDecisions DEF Decisions
  <2>5. QED
    BY <2>2, <2>3, <2>4 DEF Decisions
<1>3. QED
  BY Typed, Accounted, Enrolled, InitExclusion, StepDead, <1>1, <1>2, PTL DEF Spec

\* Whenever a handler executes, no ready thread has a higher priority, however
\* forks, signals, waits, exits and spent time slices have moved the threads, and
\* whether or not they wait alone; Main forks at most once.
THEOREM HighestRuns ==
  ASSUME MainForks <= 1
  PROVE  Spec => []HighestPriorityRuns
<1>1. Exclusion /\ Decisions => HighestPriorityRuns
  BY DEF HighestPriorityRuns, Decisions, Prioritized, Exclusion, Token, Acting, AtUser, Actor
<1>2. Dead => HighestPriorityRuns
  BY DEF Dead, HighestPriorityRuns, AtUser, Actor
<1>3. QED
  BY Elected, <1>1, <1>2, PTL

\* The unsigned quantum of an executing handler is never 0 and never wraps, for
\* every time quantum so_init accepts and every width of the unsigned int, whatever
\* the threads do when Main forks at most once, except in a thread that has waited
\* alone: that one is marked as waiting, or still queued.
THEOREM QuantumBounded ==
  ASSUME MainForks <= 1
  PROVE  Spec => []QuantumInBounds
<1>1. TypeOK /\ Exclusion /\ Decisions => QuantumInBounds
  <2> SUFFICES ASSUME TypeOK, Exclusion, Decisions, NEW t \in Thread, pc[t] = "user",
                      ~on_wait[t], Slots(ready, t) = {}
               PROVE  quantum[t] \in 1..time_quantum
    BY DEF QuantumInBounds, AtUser
  <2>1. running = t /\ ~work_done[t]
    BY DEF Exclusion, Token, Acting, Actor, Decisions, Returned, Ending
  <2>2. ASSUME NEW i \in Prio, t \in Range(ready[i]) PROVE FALSE
    <3>1. ready \in [Prio -> Seq(Actor)] /\ Len(ready[i]) <= MaxSize
      BY DEF Exclusion, Pointers, Decisions, QueuesFit
    <3>2. PICK k \in DOMAIN ready[i] : ready[i][k] = t
      BY <2>2 DEF Range
    <3>3. k \in 1..MaxSize /\ k <= Len(ready[i])
      BY <3>1, <3>2, ConstantsAssumption
    <3>4. <<i, k>> \in Slots(ready, t)
      BY <3>1, <3>2, <3>3 DEF Slots
    <3>5. QED
      BY <3>4
  <2>3. quantum[t] \in 0..time_quantum /\ quantum[t] # 0
    BY <2>1, <2>2 DEF Decisions, Slice
  <2>4. QED
    BY <2>3
<1>2. Dead => QuantumInBounds
  BY DEF Dead, QuantumInBounds, AtUser, Actor
<1>3. QED
  BY Elected, <1>1, <1>2, PTL

-----------------------------------------------------------------------------
\* The invariant.

\* A ready thread is queued once, under its priority; it neither runs nor waits.
ReadyPlaces ==
  \A i \in Prio : IsInjective(ready[i]) /\ \A t \in Range(ready[i]) :
    /\ t \in Thread /\ pc[t] # "none" /\ prio[t] = i
    /\ ~work_done[t] /\ ~on_wait[t] /\ t # running

\* A waiting thread is queued once, on one device.
WaitPlaces ==
  \A d \in Dev : IsInjective(waiting[d]) /\ \A t \in Range(waiting[d]) :
    /\ t \in Thread /\ pc[t] # "none" /\ ~work_done[t] /\ on_wait[t]
    /\ \A e \in Dev : t \in Range(waiting[e]) => e = d

\* A thread that so_fork has not queued yet is nowhere else.
Newborn ==
  \A f \in Actor : Forking(f) =>
    LET t == child[f] IN
    /\ t \in Thread /\ pc[t] # "none" /\ t # running
    /\ ~work_done[t] /\ ~on_wait[t] /\ \A i \in Prio : t \notin Range(ready[i])

\* Main runs from so_init to the first decision, and then never again.
Chosen ==
  alive => /\ main_running <=> running = Main
           /\ tid[Main] = Main /\ time_quantum \in 1..(WordSize - 1)
           /\ running \in Thread => pc[running] # "none"

\* A thread that waits gives up the processor at its so_wait's decision:
\* there is a ready thread to take over.
WaiterYields ==
  \A t \in Thread : running = t /\ on_wait[t] =>
    pc[t] \in {"decrease", "check"} /\ op[t] = "wait" /\ \E i \in Prio : ready[i] # <<>>

Places == ReadyPlaces /\ WaitPlaces /\ Newborn /\ Chosen /\ Returned /\ WaiterYields

\* What the decision, check_scheduler, leaves behind: every ready thread still has
\* its one place; either the running thread stays, and a thread that has to
\* give way only stays when nobody is ready, or a ready thread takes over
\* with a new quantum; nobody ready has a higher priority than it.
LEMMA Decision ==
  ASSUME TypeOK, OneDrainer, Accounting, Exclusion, ReadyPlaces, Chosen,
         NEW t \in Actor, CheckScheduler(t)
  PROVE  /\ running = t /\ alive
         /\ \A i \in Prio : IsInjective(ready'[i]) /\ \A u \in Range(ready'[i]) :
              /\ u \in Thread /\ pc[u] # "none" /\ prio[u] = i
              /\ ~work_done[u] /\ ~on_wait[u] /\ u # running'
         /\ \/ /\ running' = t /\ UNCHANGED <<quantum, main_running>>
               /\ Yields => \A i \in Prio : ready'[i] = <<>> /\ ready[i] = <<>>
               /\ t \in Thread /\ Expired => work_done[t] \/ on_wait[t]
            \/ /\ running' \in Thread /\ main_running' = FALSE
               /\ pc[running'] # "none" /\ ~work_done[running'] /\ ~on_wait[running']
               /\ quantum' = [quantum EXCEPT ![running'] = time_quantum]
         /\ running' \in Thread =>
              \A i \in Prio : i > prio[running'] => ready'[i] = <<>>
         /\ MaxThreads <= MaxSize => \A v \in Thread, i \in Prio :
              /\ v # running'
              /\ v \in Range(ready[i]) \/ (v = t /\ i = prio[t] /\ ~work_done[t] /\ ~on_wait[t])
              => v \in Range(ready'[i])
<1> Facts
  BY FactsHold
<1>1. running = t /\ alive
  BY AliveWhileActive DEF CheckScheduler, Exclusion, Token, Acting
<1> DEFINE q == Requeued
           Fit(u, i) == /\ u \in Thread /\ pc[u] # "none" /\ prio[u] = i
                        /\ ~work_done[u] /\ ~on_wait[u]
<1>2. /\ prio \in [Actor -> Prio] /\ quantum \in [Actor -> 0..(WordSize - 1)]
      /\ work_done \in [Actor -> BOOLEAN] /\ on_wait \in [Actor -> BOOLEAN]
      /\ ready \in [Prio -> Seq(Actor)] /\ prio[t] \in Prio
  BY <1>1 DEF TypeOK, Exclusion, Pointers
<1>3. t \in Thread => tid[t] # tid[Main]
  BY <1>1, ConstantsAssumption DEF Chosen, Exclusion, Tids, Facts
<1>4. /\ q \in [Prio -> Seq(Actor)]
      /\ \A i \in Prio : /\ IsInjective(q[i])
                         /\ \A u \in Range(q[i]) : Fit(u, i) /\ (u = t => Expired)
      /\ t \in Thread /\ Expired => work_done[t] \/ on_wait[t] \/ q[prio[t]] # <<>>
      /\ \A i \in Prio : ready[i] # <<>> => q[i] # <<>>
      /\ \A i \in Prio : Range(ready[i]) \subseteq Range(q[i])
      /\ MaxThreads <= MaxSize /\ t \in Thread /\ Expired =>
           work_done[t] \/ on_wait[t] \/ t \in Range(q[prio[t]])
  <2>1. CASE Expired /\ tid[running] # tid[Main] /\ ~work_done[running] /\ ~on_wait[running]
    <3>1. q = [ready EXCEPT ![prio[t]] = Enqueue(@, t)]
      BY <1>1, <2>1 DEF Requeued
    <3>2. t \in Thread /\ Fit(t, prio[t])
      <4>1. t # Main
        BY <1>1, <2>1
      <4>2. t \in Thread /\ pc[t] # "none"
        BY <4>1 DEF Facts, CheckScheduler
      <4>3. QED
        BY <1>1, <2>1, <4>2
    <3>3. \A i \in Prio : t \notin Range(ready[i])
      BY <1>1 DEF ReadyPlaces
    <3> DEFINE r == ready[prio[t]]
    <3>4. /\ r \in Seq(Actor) /\ Enqueue(r, t) \in Seq(Actor)
          /\ Range(Enqueue(r, t)) \subseteq Range(r) \cup {t}
          /\ IsInjective(Enqueue(r, t)) /\ Enqueue(r, t) # <<>>
          /\ Range(r) \subseteq Range(Enqueue(r, t))
          /\ Len(r) # MaxSize => t \in Range(Enqueue(r, t))
      <4>1. r \in Seq(Actor) /\ IsInjective(r) /\ t \notin Range(r)
        BY <1>2, <3>3 DEF ReadyPlaces
      <4> HIDE DEF r
      <4>2. Enqueue(r, t) \in Seq(Actor)
        BY <4>1, EnqueueType
      <4>3. QED
        BY <4>1, <4>2, EnqueueRange
    <3>5. MaxThreads <= MaxSize => t \in Range(Enqueue(r, t))
      <4>1. Range(r) \subseteq Thread /\ IsInjective(r) /\ t \notin Range(r)
        BY <1>2, <3>3 DEF ReadyPlaces
      <4>2. MaxThreads <= MaxSize => Len(r) < MaxSize
        BY <3>2, <3>4, <4>1, QueueHasRoom
      <4>3. QED
        BY <3>4, <4>2
    <3> HIDE DEF r
    <3>6. q[prio[t]] = Enqueue(r, t) /\ \A i \in Prio : i # prio[t] => q[i] = ready[i]
      BY <1>2, <3>1 DEF r
    <3>7. q \in [Prio -> Seq(Actor)]
      BY <1>2, <3>1, <3>4 DEF r
    <3>8. \A u \in Range(r) : Fit(u, prio[t])
      BY <1>2 DEF ReadyPlaces, r
    <3>9. ASSUME NEW i \in Prio
          PROVE  IsInjective(q[i]) /\ \A u \in Range(q[i]) : Fit(u, i) /\ (u = t => Expired)
      <4>1. CASE i = prio[t]
        BY <4>1, <2>1, <3>2, <3>4, <3>6, <3>8
      <4>2. CASE i # prio[t]
        BY <4>2, <2>1, <3>6 DEF ReadyPlaces
      <4>3. QED
        BY <4>1, <4>2
    <3>10. \A i \in Prio : Range(ready[i]) \subseteq Range(q[i])
      BY <3>4, <3>6 DEF r
    <3>11. QED
      BY <3>4, <3>6, <3>7, <3>9, <3>5, <3>10
  <2>2. CASE ~(Expired /\ tid[running] # tid[Main] /\ ~work_done[running] /\ ~on_wait[running])
    <3>1. q = ready
      BY <2>2 DEF Requeued
    <3>2. t \in Thread /\ Expired => work_done[t] \/ on_wait[t]
      BY <1>1, <1>3, <2>2
    <3>3. QED
      BY <1>1, <1>2, <3>1, <3>2 DEF ReadyPlaces
  <2>3. QED
    BY <2>1, <2>2
<1> HIDE DEF q
<1>5. \A i \in Prio : q[i] # <<>> => /\ Head(q[i]) \in Range(q[i])
                                     /\ Fit(Head(q[i]), i) /\ Head(q[i]) \in Actor
  BY <1>4, DequeueRange DEF Facts
<1>6. CASE /\ \A i \in Prio : ~Eligible(q, i)
           /\ ready' = q /\ UNCHANGED <<running, main_running, quantum>>
  <2>1. Yields => \A i \in Prio : q[i] = <<>>
    BY <1>6 DEF Eligible
  <2>2. Expired => Yields
    BY DEF Yields
  <2>3. \A i \in Prio : \A u \in Range(q[i]) : u # t
    <3>1. \A i \in Prio : q[i] = <<>> => Range(q[i]) = {}
      BY DEF Range
    <3>2. QED
      BY <1>4, <2>1, <2>2, <3>1
  <2>4. t \in Thread => \A i \in Prio : i > prio[t] => q[i] = <<>>
    BY <1>1, <1>5, <1>6 DEF Eligible
  <2>5. t \in Thread /\ Expired => work_done[t] \/ on_wait[t]
    BY <1>2, <1>4, <2>1, <2>2
  <2>6. Yields => \A i \in Prio : ready'[i] = <<>> /\ ready[i] = <<>>
    BY <1>4, <1>6, <2>1
  <2>7. \A i \in Prio : IsInjective(ready'[i]) /\ \A u \in Range(ready'[i]) :
          Fit(u, i) /\ u # running'
    BY <1>1, <1>4, <1>6, <2>3
  <2>8. \A v \in Thread, i \in Prio : v \in Range(ready[i]) => v \in Range(ready'[i])
    BY <1>4, <1>6
  <2>9. QED
    BY <1>1, <1>6, <2>4, <2>5, <2>6, <2>7, <2>8
<1>7. ASSUME NEW i \in Prio, Eligible(q, i), \A j \in ScannedBefore(i) : ~Eligible(q, j),
             Dispatch(q, i)
      PROVE  /\ \A j \in Prio : IsInjective(ready'[j]) /\ \A u \in Range(ready'[j]) :
                  Fit(u, j) /\ u # running'
             /\ running' \in Thread /\ main_running' = FALSE /\ Fit(running', i)
             /\ quantum' = [quantum EXCEPT ![running'] = time_quantum]
             /\ \A j \in Prio : j > i => ready'[j] = <<>>
             /\ MaxThreads <= MaxSize => \A v \in Thread, j \in Prio :
                  /\ v # running'
                  /\ v \in Range(ready[j])
                     \/ (v = t /\ j = prio[t] /\ ~work_done[t] /\ ~on_wait[t])
                  => v \in Range(ready'[j])
  <2> DEFINE next == Head(q[i])
             rest == [q EXCEPT ![i] = Tail(@)]
  <2>1. /\ running' = next /\ main_running' = FALSE
        /\ quantum' = [quantum EXCEPT ![next] = time_quantum]
        /\ ready' = IF Yields THEN rest
                    ELSE [rest EXCEPT ![prio[t]] = Enqueue(@, t)]
    BY <1>1, <1>7 DEF Dispatch, Refill
  <2>2. q[i] # <<>> /\ q[i] \in Seq(Actor) /\ Fit(next, i) /\ next \in Range(q[i])
    BY <1>4, <1>5, <1>7 DEF Eligible
  <2>3. /\ Tail(q[i]) \in Seq(Actor) /\ IsInjective(Tail(q[i]))
        /\ Range(Tail(q[i])) = Range(q[i]) \ {next}
    BY <1>4, <2>2, DequeueRange
  <2>4. /\ rest \in [Prio -> Seq(Actor)] /\ rest[i] = Tail(q[i])
        /\ \A j \in Prio : j # i => rest[j] = q[j]
    BY <1>4, <2>3
  <2> HIDE DEF next, rest
  <2>5. \A j \in Prio : IsInjective(rest[j]) /\ \A u \in Range(rest[j]) :
          Fit(u, j) /\ u # next /\ u \in Range(q[j])
    <3>1. ASSUME NEW j \in Prio, j # i
          PROVE  IsInjective(q[j]) /\ \A u \in Range(q[j]) : Fit(u, j) /\ u # next
      BY <1>4, <2>2, <3>1
    <3>2. IsInjective(rest[i]) /\ \A u \in Range(rest[i]) :
            Fit(u, i) /\ u # next /\ u \in Range(q[i])
      BY <1>4, <2>3, <2>4
    <3>3. QED
      BY <2>4, <3>1, <3>2
  <2>6. \A v \in Thread, j \in Prio : v # next /\ v \in Range(q[j]) => v \in Range(rest[j])
    BY <2>3, <2>4
  <2>7. CASE Yields
    <3>1. \A j \in Prio : j > i => j # i /\ q[j] = <<>>
      BY <1>7, <2>7 DEF ScannedBefore, Eligible, Prio
    <3>2. t \in Thread /\ ~work_done[t] /\ ~on_wait[t] => Expired
      BY <1>1, <2>7 DEF Yields, Chosen, Facts
    <3>3. ASSUME MaxThreads <= MaxSize, NEW v \in Thread, NEW j \in Prio, v # next,
                 v \in Range(ready[j]) \/ (v = t /\ j = prio[t] /\ ~work_done[t] /\ ~on_wait[t])
          PROVE  v \in Range(rest[j])
      <4>1. v \in Range(q[j])
        BY <1>4, <3>2, <3>3
      <4>2. QED
        BY <2>6, <3>3, <4>1
    <3>4. QED
      BY <2>1, <2>2, <2>4, <2>5, <2>7, <3>1, <3>3
  <2>8. CASE ~Yields
    <3>1. /\ ~Expired /\ ~main_running /\ ~on_wait[t] /\ ~work_done[t]
          /\ prio[next] > prio[t]
      BY <1>1, <1>7, <2>8 DEF Yields, Expired, Eligible, next
    <3>2. t \in Thread /\ pc[t] # "none"
      BY <1>1, <3>1 DEF Chosen, Facts, CheckScheduler
    <3>3. Fit(t, prio[t]) /\ t # next /\ \A j \in Prio : t \notin Range(rest[j])
      BY <1>4, <2>2, <2>5, <3>1, <3>2
    <3>4. i > prio[t]
      BY <2>2, <3>1
    <3>5. \A j \in Prio : j > i => j # i /\ j # prio[t] /\ q[j] = <<>>
      <4>1. ASSUME NEW j \in Prio, j > i, q[j] # <<>> PROVE FALSE
        <5>1. prio[Head(q[j])] = j /\ j > prio[t]
          BY <1>2, <1>5, <3>4, <4>1 DEF Prio
        <5>2. Eligible(q, j)
          BY <1>1, <4>1, <5>1 DEF Eligible
        <5>3. QED
          BY <1>7, <4>1, <5>2 DEF ScannedBefore
      <4>2. QED
        BY <1>2, <3>4, <4>1 DEF Prio
    <3> DEFINE r == rest[prio[t]]
    <3>6. /\ Range(Enqueue(r, t)) \subseteq Range(r) \cup {t} /\ IsInjective(Enqueue(r, t))
          /\ Range(r) \subseteq Range(Enqueue(r, t))
          /\ Len(r) # MaxSize => t \in Range(Enqueue(r, t))
      BY <1>2, <2>4, <2>5, <3>3, EnqueueRange
    <3>7. MaxThreads <= MaxSize => t \in Range(Enqueue(r, t))
      <4>1. Range(r) \subseteq Thread /\ IsInjective(r) /\ t \notin Range(r) /\ r \in Seq(Actor)
        BY <1>2, <2>4, <2>5, <3>3
      <4>2. MaxThreads <= MaxSize => Len(r) < MaxSize
        BY <3>2, <4>1, QueueHasRoom
      <4>3. QED
        BY <3>6, <4>1, <4>2
    <3> HIDE DEF r
    <3>8. /\ ready'[prio[t]] = Enqueue(r, t)
          /\ \A j \in Prio : j # prio[t] => ready'[j] = rest[j]
      BY <1>2, <2>1, <2>4, <2>8 DEF r
    <3>9. \A u \in Range(r) : Fit(u, prio[t]) /\ u # next
      BY <1>2, <2>5 DEF r
    <3>10. ASSUME NEW j \in Prio
          PROVE  IsInjective(ready'[j]) /\ \A u \in Range(ready'[j]) : Fit(u, j) /\ u # next
      <4>1. CASE j = prio[t]
        BY <4>1, <3>3, <3>6, <3>8, <3>9
      <4>2. CASE j # prio[t]
        BY <4>2, <2>5, <3>8
      <4>3. QED
        BY <4>1, <4>2
    <3>11. ASSUME NEW j \in Prio, j > i PROVE ready'[j] = <<>>
      <4>1. j # i /\ j # prio[t] /\ q[j] = <<>>
        BY <3>5, <3>11
      <4>2. ready'[j] = rest[j] /\ rest[j] = q[j]
        BY <2>4, <3>8, <4>1
      <4>3. QED
        BY <4>1, <4>2
    <3>12. ASSUME MaxThreads <= MaxSize, NEW v \in Thread, NEW j \in Prio, v # next,
                  v \in Range(ready[j]) \/ (v = t /\ j = prio[t])
           PROVE  v \in Range(ready'[j])
      <4>1. CASE v = t /\ j = prio[t]
        BY <3>8, <3>7, <3>12, <4>1
      <4>2. CASE v \in Range(ready[j])
        <5>1. v \in Range(rest[j])
          BY <1>4, <2>6, <3>12, <4>2
        <5>2. QED
          BY <3>6, <3>8, <5>1 DEF r
      <4>3. QED
        BY <3>12, <4>1, <4>2
    <3>13. QED
      BY <2>1, <2>2, <3>10, <3>11, <3>12
  <2>9. QED
    BY <2>7, <2>8
<1>8. QED
  <2>1. CASE \E i \in Prio : /\ Eligible(q, i)
                             /\ \A j \in ScannedBefore(i) : ~Eligible(q, j)
                             /\ Dispatch(q, i)
    <3>1. PICK i \in Prio : /\ Eligible(q, i)
                            /\ \A j \in ScannedBefore(i) : ~Eligible(q, j)
                            /\ Dispatch(q, i)
      BY <2>1
    <3>2. /\ \A j \in Prio : IsInjective(ready'[j]) /\ \A u \in Range(ready'[j]) :
                  Fit(u, j) /\ u # running'
          /\ running' \in Thread /\ main_running' = FALSE /\ Fit(running', i)
          /\ quantum' = [quantum EXCEPT ![running'] = time_quantum]
          /\ \A j \in Prio : j > i => ready'[j] = <<>>
          /\ MaxThreads <= MaxSize => \A v \in Thread, j \in Prio :
               /\ v # running'
               /\ v \in Range(ready[j])
                  \/ (v = t /\ j = prio[t] /\ ~work_done[t] /\ ~on_wait[t])
               => v \in Range(ready'[j])
      BY <1>7, <3>1
    <3>3. QED
      BY <1>1, <3>2
  <2>2. QED
    BY <1>6, <2>1 DEF CheckScheduler, q

\* Where the threads are.
Located == ReadyPlaces /\ WaitPlaces /\ Newborn /\ Chosen

\* No step loses track of where a thread is.
LEMMA StepLocated ==
  ASSUME MainForks <= 1, TypeOK, OneDrainer, Accounting, Exclusion, Places, [Next]_vars, ~Dead',
         Exclusion'
  PROVE  Located'
<1> Facts
  BY FactsHold
<1>n. [DefinedStep]_vars
  BY DefinedUnlessDead
<1>0. EndFree => NothingLeft
  BY NoneRemain
<1>a. \A t \in Actor : pc[t] \notin {"none", "off"} => alive
  BY AliveWhileActive
<1>b. /\ on_wait \in [Actor -> BOOLEAN] /\ work_done \in [Actor -> BOOLEAN]
      /\ tid \in [Actor -> Pointer] /\ prio \in [Actor -> Prio]
      /\ ready \in [Prio -> Seq(Actor)] /\ waiting \in [Dev -> Seq(Actor)]
  BY DEF TypeOK, Exclusion, Pointers
<1>c. \A t \in Actor : Acting(t) => running = t
  BY DEF Exclusion, Token
<1> USE DEF sched_vars, queue_vars, thread_vars, sem_vars, local_vars, Goto, Enter, Facts
<1>1. CASE QuietStep
  <2>1. /\ UNCHANGED <<ready, waiting, prio, work_done, on_wait, running, main_running,
                       alive, time_quantum, child>>
        /\ \A t \in Actor : pc'[t] = "none" <=> pc[t] = "none"
        /\ \A t \in Actor : Forking(t)' => Forking(t)
        /\ tid[Main] = Main => tid'[Main] = Main
    BY <1>1, QuietStepMovesNone
  <2>2. ReadyPlaces'
    BY <2>1 DEF Places, ReadyPlaces
  <2>3. WaitPlaces'
    BY <2>1 DEF Places, WaitPlaces
  <2>4. Newborn'
    BY <2>1 DEF Places, Newborn
  <2>5. Chosen'
    BY <2>1 DEF Places, Chosen
  <2>6. QED
    BY <2>2, <2>3, <2>4, <2>5 DEF Located
<1>2. ASSUME NEW q \in Quanta, NEW n \in Ios, SoInit(q, n) PROVE Located'
  <2>1. /\ \A t \in Actor : pc'[t] = IF t = Main THEN "user" ELSE pc[t]
        /\ \A t \in Thread : pc[t] = "none" /\ pc'[t] = "none"
        /\ UNCHANGED <<ready, waiting, prio, work_done, on_wait, child>>
        /\ running' = Main /\ main_running' = TRUE /\ tid'[Main] = Main
        /\ time_quantum' = q
    BY <1>2, <1>b, ConstantsAssumption DEF SoInit, Accounting, Created, Thread
  <2>2. ReadyPlaces' /\ WaitPlaces'
    BY <2>1 DEF Places, ReadyPlaces, WaitPlaces
  <2>3. Newborn'
    BY <2>1 DEF Newborn, Forking
  <2>4. Chosen'
    BY <2>1, ConstantsAssumption DEF Chosen
  <2>5. QED
    BY <2>2, <2>3, <2>4 DEF Located
<1>3. ASSUME NEW t \in Actor, NEW u \in Thread, NEW p \in Prio, SoFork(t, u, p) PROVE Located'
  <2>1. /\ pc[t] = "user" /\ pc[u] = "none" /\ t # u /\ u \in Actor /\ u # Main
        /\ pc' = [pc EXCEPT ![t] = "fork_post", ![u] = "unborn"]
        /\ prio' = [prio EXCEPT ![u] = p] /\ work_done' = [work_done EXCEPT ![u] = FALSE]
        /\ on_wait' = [on_wait EXCEPT ![u] = FALSE] /\ child' = [child EXCEPT ![t] = u]
        /\ tid' = [tid EXCEPT ![u] = None]
        /\ UNCHANGED <<ready, waiting, running, main_running, alive, time_quantum>>
    BY <1>3 DEF SoFork, MayCall, Accounting, Created, Thread
  <2>2. /\ \A v \in Actor : v # u => /\ pc'[v] = "none" <=> pc[v] = "none"
                                     /\ prio'[v] = prio[v] /\ work_done'[v] = work_done[v]
                                     /\ on_wait'[v] = on_wait[v] /\ tid'[v] = tid[v]
        /\ pc'[u] # "none" /\ ~work_done'[u] /\ ~on_wait'[u] /\ child'[t] = u
    BY <1>b, <2>1
  <2>3. running = t
    <3>1. Acting(t)'
      BY <2>1 DEF Acting
    <3>2. QED
      BY <2>1, <3>1 DEF Exclusion, Token
  <2>4. ReadyPlaces'
    BY <2>1, <2>2 DEF Places, ReadyPlaces
  <2>5. WaitPlaces'
    <3>1. \A d \in Dev : \A v \in Range(waiting[d]) : v # u /\ v \in Actor
      BY <2>1 DEF Places, WaitPlaces
    <3>2. ASSUME NEW d \in Dev, NEW v \in Range(waiting'[d])
          PROVE  /\ v \in Thread /\ pc'[v] # "none" /\ ~work_done'[v] /\ on_wait'[v]
                 /\ \A e \in Dev : v \in Range(waiting'[e]) => e = d
      <4>1. v \in Range(waiting[d]) /\ v # u /\ v \in Actor
        BY <2>1, <3>1
      <4>2. QED
        BY <2>1, <2>2, <4>1 DEF Places, WaitPlaces
    <3>3. QED
      BY <2>1, <3>2 DEF Places, WaitPlaces
  <2>6. Newborn'
    <3>1. \A f \in Actor : Forking(f)' => f = t
      <4>1. \A f \in Actor : Forking(f)' => Acting(f)'
        BY DEF Forking, Acting
      <4>2. QED
        BY <2>1, <2>3, <4>1 DEF Exclusion, Token
    <3>2. \A i \in Prio : u \notin Range(ready'[i])
      BY <2>1 DEF Places, ReadyPlaces
    <3>3. QED
      BY <2>1, <2>2, <2>3, <3>1, <3>2 DEF Newborn
  <2>7. Chosen'
    BY <2>1, <2>2 DEF Places, Chosen
  <2>8. QED
    BY <2>4, <2>5, <2>6, <2>7 DEF Located
<1>4. ASSUME NEW t \in Actor, ForkEnqueue(t) PROVE Located'
  <2> DEFINE u == child[t]
             r == ready[prio[u]]
  <2>1. /\ u \in Thread /\ pc[u] # "none" /\ u # running /\ ~work_done[u] /\ ~on_wait[u]
        /\ \A i \in Prio : u \notin Range(ready[i])
        /\ prio[u] \in Prio /\ r \in Seq(Actor)
    BY <1>4, <1>b DEF ForkEnqueue, Places, Newborn, Forking
  <2>2. /\ ready' = [ready EXCEPT ![prio[u]] = Enqueue(r, u)] /\ pc' = [pc EXCEPT ![t] = "decrease"]
        /\ UNCHANGED <<waiting, prio, work_done, on_wait, running, main_running, alive,
                       time_quantum, child, tid>>
    BY <1>4 DEF ForkEnqueue
  <2>3. /\ Range(Enqueue(r, u)) \subseteq Range(r) \cup {u} /\ IsInjective(Enqueue(r, u))
    BY <2>1, EnqueueRange DEF Places, ReadyPlaces
  <2>4. /\ ready'[prio[u]] = Enqueue(r, u)
        /\ \A i \in Prio : i # prio[u] => ready'[i] = ready[i]
        /\ \A v \in Actor : pc[v] # "none" => pc'[v] # "none"
        /\ \A v \in Range(r) : v \in Thread /\ pc[v] # "none" /\ prio[v] = prio[u]
                               /\ ~work_done[v] /\ ~on_wait[v] /\ v # running
    BY <1>b, <2>1, <2>2 DEF Places, ReadyPlaces
  <2> HIDE DEF r, u
  <2>5. ASSUME NEW i \in Prio
        PROVE  IsInjective(ready'[i]) /\ \A v \in Range(ready'[i]) :
                 /\ v \in Thread /\ pc[v] # "none" /\ prio[v] = i
                 /\ ~work_done[v] /\ ~on_wait[v] /\ v # running
    <3>1. CASE i = prio[u]
      BY <2>1, <2>3, <2>4, <3>1
    <3>2. CASE i # prio[u]
      BY <2>4, <3>2 DEF Places, ReadyPlaces
    <3>3. QED
      BY <3>1, <3>2
  <2>6. ReadyPlaces'
    BY <2>2, <2>4, <2>5 DEF ReadyPlaces
  <2>7. WaitPlaces'
    BY <2>2, <2>4 DEF Places, WaitPlaces
  <2>8. Newborn'
    <3>1. \A f \in Actor : ~Forking(f)'
      <4>1. running = t
        BY <1>4, <1>c DEF ForkEnqueue, Acting
      <4>2. \A f \in Actor : Forking(f)' => f # t /\ Forking(f)
        BY <2>2 DEF Forking
      <4>3. QED
        BY <1>c, <4>1, <4>2 DEF Acting, Forking
    <3>2. QED
      BY <3>1 DEF Newborn
  <2>9. Chosen'
    BY <2>2, <2>4 DEF Places, Chosen
  <2>10. QED
    BY <2>6, <2>7, <2>8, <2>9 DEF Located

<1>5. ASSUME NEW t \in Actor, NEW d \in Dev, SoWait(t, d) PROVE Located'
  <2> DEFINE r == waiting[d]
  <2>1. /\ pc[t] = "user" /\ t \in Thread /\ running = t /\ r \in Seq(Actor)
        /\ pc' = [pc EXCEPT ![t] = "decrease"]
        /\ on_wait' = [on_wait EXCEPT ![t] = TRUE]
        /\ waiting' = [waiting EXCEPT ![d] = Enqueue(r, t)]
        /\ UNCHANGED <<ready, prio, work_done, running, main_running, alive,
                       time_quantum, child, tid>>
    BY <1>5, <1>b, <1>c DEF SoWait, MayCall, Acting
  <2>2. ~on_wait[t] /\ ~work_done[t]
    BY <1>b, <2>1 DEF Places, WaiterYields, Returned, Ending
  <2>3. \A e \in Dev : t \notin Range(waiting[e])
    BY <2>2 DEF Places, WaitPlaces
  <2>4. Range(Enqueue(r, t)) \subseteq Range(r) \cup {t} /\ IsInjective(Enqueue(r, t))
    BY <2>1, <2>3, EnqueueRange DEF Places, WaitPlaces
  <2>5. /\ waiting'[d] = Enqueue(r, t) /\ \A e \in Dev : e # d => waiting'[e] = waiting[e]
        /\ \A v \in Actor : pc'[v] = "none" <=> pc[v] = "none"
        /\ on_wait'[t] /\ \A v \in Actor : v # t => on_wait'[v] = on_wait[v]
    BY <1>b, <2>1
  <2>6. \A v \in Range(r) : /\ v \in Thread /\ pc[v] # "none" /\ ~work_done[v] /\ on_wait[v]
                            /\ \A e \in Dev : v \in Range(waiting[e]) => e = d
    BY DEF Places, WaitPlaces
  <2> HIDE DEF r
  <2>7. ASSUME NEW e \in Dev
        PROVE  IsInjective(waiting'[e]) /\ \A v \in Range(waiting'[e]) :
                 /\ v \in Thread /\ pc[v] # "none" /\ ~work_done[v] /\ on_wait'[v]
                 /\ v = t => e = d
                 /\ v # t => v \in Range(waiting[e])
    <3>1. CASE e = d
      BY <2>1, <2>2, <2>4, <2>5, <2>6, <3>1 DEF r
    <3>2. CASE e # d
      BY <2>3, <2>5, <3>2 DEF Places, WaitPlaces
    <3>3. QED
      BY <3>1, <3>2
  <2>8. WaitPlaces'
    <3>1. ASSUME NEW e \in Dev, NEW f \in Dev, NEW v \in Range(waiting'[e]),
                 v \in Range(waiting'[f])
          PROVE  e = f
      <4>1. CASE v = t
        BY <2>7, <3>1, <4>1
      <4>2. CASE v # t
        <5>1. v \in Range(waiting[e]) /\ v \in Range(waiting[f])
          BY <2>7, <3>1, <4>2
        <5>2. QED
          BY <5>1 DEF Places, WaitPlaces
      <4>3. QED
        BY <4>1, <4>2
    <3>2. QED
      BY <2>1, <2>5, <2>7, <3>1 DEF WaitPlaces
  <2>9. ReadyPlaces'
    BY <2>1, <2>5 DEF Places, ReadyPlaces
  <2>10. Newborn'
    <3>1. \A f \in Actor : Forking(f)' => Forking(f)
      BY <2>1 DEF Forking
    <3>2. QED
      BY <2>1, <2>5, <3>1 DEF Places, Newborn
  <2>11. Chosen'
    BY <2>1, <2>5 DEF Places, Chosen
  <2>12. QED
    BY <2>8, <2>9, <2>10, <2>11 DEF Located
<1>6. ASSUME NEW t \in Actor, SignalLoop(t) PROVE Located'
  <2>1. /\ draining \in Dev /\ running = t /\ pc[t] = "signal_loop"
    BY <1>6, <1>c DEF SignalLoop, OneDrainer, Acting
  <2>2. /\ \A v \in Actor : pc'[v] = "none" <=> pc[v] = "none"
        /\ UNCHANGED <<prio, work_done, running, main_running, alive, time_quantum, child, tid>>
    BY <1>6 DEF SignalLoop
  <2>3. Newborn'
    <3>1. \A f \in Actor : ~Forking(f)'
      <4>1. \A f \in Actor : Forking(f)' => Forking(f)
        BY <1>6 DEF SignalLoop, Forking
      <4>2. QED
        BY <1>c, <2>1, <4>1 DEF Acting, Forking
    <3>2. QED
      BY <3>1 DEF Newborn
  <2>4. Chosen'
    BY <2>2 DEF Places, Chosen
  <2> DEFINE w == waiting[draining]
             u == Head(w)
             r == ready[prio[u]]
  <2>5. CASE /\ w # <<>>
             /\ waiting' = [waiting EXCEPT ![draining] = Tail(@)]
             /\ on_wait' = [on_wait EXCEPT ![u] = FALSE]
             /\ ready' = [ready EXCEPT ![prio[u]] = Enqueue(@, u)]
    <3>1. /\ Tail(w) \in Seq(Actor) /\ IsInjective(Tail(w)) /\ u \in Range(w)
          /\ Range(Tail(w)) = Range(w) \ {u}
      BY <1>b, <2>1, <2>5, DequeueRange DEF Places, WaitPlaces
    <3>2. /\ u \in Thread /\ pc[u] # "none" /\ ~work_done[u] /\ on_wait[u]
          /\ \A e \in Dev : u \in Range(waiting[e]) => e = draining
      BY <2>1, <3>1 DEF Places, WaitPlaces
    <3>3. u # running /\ \A i \in Prio : u \notin Range(ready[i])
      BY <2>1, <3>2 DEF Places, WaiterYields, ReadyPlaces
    <3>4. prio[u] \in Prio /\ r \in Seq(Actor)
      BY <1>b, <3>2
    <3>5. /\ Range(Enqueue(r, u)) \subseteq Range(r) \cup {u} /\ IsInjective(Enqueue(r, u))
      BY <3>2, <3>3, <3>4, EnqueueRange DEF Places, ReadyPlaces
    <3>6. /\ ready'[prio[u]] = Enqueue(r, u)
          /\ \A i \in Prio : i # prio[u] => ready'[i] = ready[i]
          /\ waiting'[draining] = Tail(w)
          /\ \A e \in Dev : e # draining => waiting'[e] = waiting[e]
          /\ ~on_wait'[u] /\ \A v \in Actor : v # u => on_wait'[v] = on_wait[v]
      BY <1>b, <2>1, <2>5, <3>2, <3>4
    <3>7. \A v \in Range(r) : /\ v \in Thread /\ pc[v] # "none" /\ prio[v] = prio[u]
                              /\ ~work_done[v] /\ ~on_wait[v] /\ v # running /\ v # u
      BY <3>2, <3>4 DEF Places, ReadyPlaces
    <3>8. \A e \in Dev : \A v \in Range(waiting[e]) :
            /\ v \in Thread /\ pc[v] # "none" /\ ~work_done[v] /\ on_wait[v]
            /\ \A f \in Dev : v \in Range(waiting[f]) => f = e
      BY DEF Places, WaitPlaces
    <3> HIDE DEF r, u, w
    <3>9. ASSUME NEW i \in Prio
          PROVE  IsInjective(ready'[i]) /\ \A v \in Range(ready'[i]) :
                   /\ v \in Thread /\ pc[v] # "none" /\ prio[v] = i
                   /\ ~work_done[v] /\ ~on_wait'[v] /\ v # running
      <4>1. CASE i = prio[u]
        BY <3>2, <3>3, <3>5, <3>6, <3>7, <4>1
      <4>2. CASE i # prio[u]
        BY <3>3, <3>6, <4>2 DEF Places, ReadyPlaces
      <4>3. QED
        BY <4>1, <4>2
    <3>10. ReadyPlaces'
      BY <2>2, <3>9 DEF ReadyPlaces
    <3>11. ASSUME NEW e \in Dev
           PROVE  IsInjective(waiting'[e]) /\ \A v \in Range(waiting'[e]) :
                    v # u /\ v \in Range(waiting[e])
      <4>1. CASE e = draining
        BY <3>1, <3>6, <4>1 DEF w
      <4>2. CASE e # draining
        BY <3>2, <3>6, <4>2 DEF Places, WaitPlaces
      <4>3. QED
        BY <4>1, <4>2
    <3>12. WaitPlaces'
      <4>1. \A e \in Dev : \A v \in Range(waiting'[e]) :
              /\ v \in Thread /\ pc'[v] # "none" /\ ~work_done'[v] /\ on_wait'[v]
              /\ \A f \in Dev : v \in Range(waiting'[f]) => f = e
        BY <2>2, <3>6, <3>8, <3>11
      <4>2. QED
        BY <3>11, <4>1 DEF WaitPlaces
    <3>13. QED
      BY <2>3, <2>4, <3>10, <3>12 DEF Located
  <2>6. CASE UNCHANGED <<ready, waiting, on_wait>>
    <3>1. ReadyPlaces' /\ WaitPlaces'
      BY <2>2, <2>6 DEF Places, ReadyPlaces, WaitPlaces
    <3>2. QED
      BY <2>3, <2>4, <3>1 DEF Located
  <2>7. QED
    BY <1>6, <2>5, <2>6 DEF SignalLoop
<1>7. ASSUME NEW t \in Actor, CheckScheduler(t) PROVE Located'
  <2>1. /\ running = t
        /\ \A i \in Prio : IsInjective(ready'[i]) /\ \A u \in Range(ready'[i]) :
              /\ u \in Thread /\ pc[u] # "none" /\ prio[u] = i
              /\ ~work_done[u] /\ ~on_wait[u] /\ u # running'
        /\ \/ running' = t /\ main_running' = main_running
           \/ running' \in Thread /\ main_running' = FALSE /\ pc[running'] # "none"
    BY <1>7, Decision DEF Places
  <2>2. /\ \A v \in Actor : pc'[v] = "none" <=> pc[v] = "none"
        /\ UNCHANGED <<waiting, prio, work_done, on_wait, alive, time_quantum, child, tid>>
        /\ \A f \in Actor : ~Forking(f)'
    <3>1. \A f \in Actor : Forking(f)' => f # t /\ Forking(f)
      BY <1>7 DEF CheckScheduler, Forking
    <3>2. QED
      BY <1>7, <1>c, <2>1, <3>1 DEF CheckScheduler, Acting, Forking
  <2>3. ReadyPlaces'
    BY <2>1, <2>2 DEF ReadyPlaces
  <2>4. WaitPlaces'
    BY <2>2 DEF Places, WaitPlaces
  <2>5. Newborn'
    BY <2>2 DEF Newborn
  <2>6. Chosen'
    BY <2>1, <2>2 DEF Places, Chosen
  <2>7. QED
    BY <2>3, <2>4, <2>5, <2>6 DEF Located
<1>8. ASSUME NEW t \in Actor, HandlerReturns(t) PROVE Located'
  <2>1. /\ t \in Thread /\ pc[t] = "user" /\ running = t
        /\ pc' = [pc EXCEPT ![t] = "check"] /\ work_done' = [work_done EXCEPT ![t] = TRUE]
        /\ UNCHANGED <<ready, waiting, prio, on_wait, running, main_running, alive,
                       time_quantum, child, tid>>
    BY <1>8, <1>c DEF HandlerReturns, Acting
  <2>2. /\ \A v \in Actor : pc'[v] = "none" <=> pc[v] = "none"
        /\ \A v \in Actor : v # t => work_done'[v] = work_done[v]
        /\ \A f \in Actor : Forking(f)' => Forking(f)
    BY <1>b, <2>1 DEF Forking
  <2>3. ReadyPlaces'
    BY <2>1, <2>2 DEF Places, ReadyPlaces
  <2>4. WaitPlaces'
    <3>1. ~on_wait[t]
      BY <2>1 DEF Places, WaiterYields
    <3>2. \A d \in Dev : \A v \in Range(waiting[d]) : v # t /\ v \in Actor
      BY <3>1 DEF Places, WaitPlaces
    <3>3. QED
      BY <2>1, <2>2, <3>2 DEF Places, WaitPlaces
  <2>5. Newborn'
    BY <2>1, <2>2 DEF Places, Newborn
  <2>6. Chosen'
    BY <2>1, <2>2 DEF Places, Chosen
  <2>7. QED
    BY <2>3, <2>4, <2>5, <2>6 DEF Located
<1>9. ASSUME EndFree PROVE Located'
  <2>1. /\ \A i \in Prio : ready'[i] = <<>>
        /\ \A d \in Dev : waiting'[d] = <<>>
        /\ alive' = FALSE /\ \A t \in Actor : ~Forking(t)'
    BY <1>0, <1>9 DEF EndFree, NothingLeft, Forking
  <2>2. IsInjective(<<>>) /\ Range(<<>>) = {}
    BY DEF IsInjective, Range
  <2>3. QED
    BY <2>1, <2>2 DEF Located, ReadyPlaces, WaitPlaces, Newborn, Chosen
<1>10. QED
  BY <1>n, <1>1, <1>2, <1>3, <1>4, <1>5, <1>6, <1>7, <1>8, <1>9
     DEF DefinedStep, LibraryStep, ClientStep, EndStep, QuietStep

\* A thread that so_wait has queued hands over at its next decision.
LEMMA StepWaiterYields ==
  ASSUME ~SoloWait, MainForks <= 1, TypeOK, OneDrainer, Accounting, Exclusion, Places,
         [Next]_vars, ~Dead'
  PROVE  WaiterYields'
<1> Facts
  BY FactsHold
<1>n. [DefinedStep]_vars
  BY DefinedUnlessDead
<1>0. EndFree => NothingLeft
  BY NoneRemain
<1>b. on_wait \in [Actor -> BOOLEAN]
  BY DEF TypeOK
<1>c. \A t \in Actor : Acting(t) => running = t
  BY DEF Exclusion, Token
<1> USE DEF sched_vars, queue_vars, thread_vars, sem_vars, local_vars, Goto, Enter, Facts
<1>d. ASSUME UNCHANGED <<running, ready>>,
             \A v \in Thread : on_wait'[v] /\ v = running =>
               on_wait[v] /\ pc'[v] \in {pc[v], "check"} /\ op'[v] = op[v]
      PROVE  WaiterYields'
  BY <1>d DEF Places, WaiterYields
<1>1. CASE QuietStep
  <2>1. UNCHANGED <<ready, on_wait, running>>
    BY <1>1, QuietStepMovesNone
  <2>2. ASSUME NEW v \in Thread, on_wait[v], v = running
        PROVE  pc'[v] \in {pc[v], "check"} /\ op'[v] = op[v]
    <3>1. pc[v] \in {"decrease", "check"}
      BY <2>2 DEF Places, WaiterYields
    <3>2. ASSUME NEW t \in Actor,
                 ForkPost(t) \/ ForkCreate(t) \/ SoExec(t) \/ (\E d \in Dev : SoSignal(t, d))
          PROVE  pc'[v] = pc[v] /\ op'[v] = op[v]
      <4>1. t # v
        BY <1>c, <3>1, <3>2 DEF ForkPost, ForkCreate, SoExec, SoSignal, MayCall
      <4>2. ForkCreate(t) => child[t] # v
        BY <3>1 DEF ForkCreate, Accounting, Children, Creating
      <4>3. QED
        BY <3>2, <4>1, <4>2 DEF ForkPost, ForkCreate, SoExec, SoSignal
    <3>3. ASSUME NEW t \in Actor,
                 DecreaseQuantum(t) \/ Preempted(t) \/ Broadcast(t) \/ WaitToRun(t)
                 \/ SpuriousWakeup(t) \/ ThreadStart(t) \/ RecordTerminated(t)
                 \/ SemWait(t) \/ SemGet(t) \/ SemPost(t)
          PROVE  pc'[v] \in {pc[v], "check"} /\ op'[v] = op[v]
      BY <3>1, <3>3 DEF DecreaseQuantum, Preempted, Broadcast, WaitToRun, SpuriousWakeup,
         ThreadStart, RecordTerminated, SemWait, SemGet, SemPost
    <3>4. CASE SoEnd \/ EndWait \/ EndJoin
      BY <3>4, JoinsOrDies DEF SoEnd, EndWait, EndJoin
    <3>5. CASE UNCHANGED vars
      BY <3>5 DEF vars
    <3>6. QED
      BY <1>1, <3>2, <3>3, <3>4, <3>5 DEF QuietStep
  <2>3. QED
    BY <1>d, <2>1, <2>2
<1>2. ASSUME NEW q \in Quanta, NEW n \in Ios, SoInit(q, n) PROVE WaiterYields'
  BY <1>2 DEF SoInit, WaiterYields
<1>3. ASSUME NEW t \in Actor, NEW u \in Thread, NEW p \in Prio, SoFork(t, u, p)
      PROVE  WaiterYields'
  <2>1. /\ pc[t] = "user" /\ pc[u] = "none"
        /\ pc' = [pc EXCEPT ![t] = "fork_post", ![u] = "unborn"]
        /\ op' = [op EXCEPT ![t] = "fork", ![u] = "begin"]
        /\ on_wait' = [on_wait EXCEPT ![u] = FALSE]
        /\ UNCHANGED <<running, ready>>
    BY <1>3 DEF SoFork, MayCall, Accounting, Created, Thread
  <2>2. \A v \in Thread : on_wait'[v] /\ v = running => on_wait[v] /\ v # u /\ v # t
    BY <1>b, <2>1 DEF Places, WaiterYields
  <2>3. QED
    BY <1>d, <2>1, <2>2
<1>4. ASSUME NEW t \in Actor, ForkEnqueue(t) PROVE WaiterYields'
  <2>1. /\ running = t /\ running' = t /\ on_wait' = on_wait /\ pc[t] = "fork_enqueue"
    BY <1>4, <1>c DEF ForkEnqueue, Acting
  <2>2. QED
    BY <2>1 DEF Places, WaiterYields
<1>5. ASSUME NEW t \in Actor, NEW d \in Dev, SoWait(t, d) PROVE WaiterYields'
  <2>1. /\ running = t /\ running' = t /\ pc'[t] = "decrease" /\ op'[t] = "wait"
        /\ ready' = ready
    BY <1>5, <1>c DEF SoWait, MayCall, Acting
  <2>2. \E i \in Prio : ready[i] # <<>>
    BY <1>5 DEF SoWait, ClientWaits
  <2>3. QED
    BY <2>1, <2>2 DEF WaiterYields
<1>6. ASSUME NEW t \in Actor, SignalLoop(t) PROVE WaiterYields'
  <2>1. running = t /\ running' = t /\ pc[t] = "signal_loop"
    BY <1>6, <1>c DEF SignalLoop, Acting
  <2>2. \A v \in Actor : on_wait'[v] => on_wait[v]
    BY <1>6, <1>b DEF SignalLoop
  <2>3. QED
    BY <2>1, <2>2 DEF Places, WaiterYields
<1>7. ASSUME NEW t \in Actor, CheckScheduler(t) PROVE WaiterYields'
  <2>1. /\ running = t /\ on_wait' = on_wait
        /\ \/ /\ running' = t
              /\ Yields => \A i \in Prio : ready'[i] = <<>> /\ ready[i] = <<>>
           \/ ~on_wait[running']
    BY <1>7, Decision DEF Places, CheckScheduler, thread_vars
  <2>2. on_wait[t] => Yields
    BY <2>1 DEF Yields
  <2>3. ASSUME t \in Thread, on_wait[t] PROVE \E i \in Prio : ready[i] # <<>>
    BY <2>1, <2>3 DEF Places, WaiterYields
  <2>4. QED
    BY <2>1, <2>2, <2>3 DEF WaiterYields
<1>8. ASSUME NEW t \in Actor, HandlerReturns(t) PROVE WaiterYields'
  <2>1. running = t /\ running' = t /\ pc[t] = "user" /\ on_wait' = on_wait
    BY <1>8, <1>c DEF HandlerReturns, Acting
  <2>2. QED
    BY <2>1 DEF Places, WaiterYields
<1>9. ASSUME EndFree PROVE WaiterYields'
  BY <1>9 DEF EndFree, WaiterYields
<1>10. QED
  BY <1>n, <1>1, <1>2, <1>3, <1>4, <1>5, <1>6, <1>7, <1>8, <1>9
     DEF DefinedStep, LibraryStep, ClientStep, EndStep, QuietStep

\* Before the first so_init no thread has a place.
LEMMA InitPlaces == Init => Places
<1> SUFFICES ASSUME Init PROVE Places
  OBVIOUS
<1>1. IsInjective(<<>>) /\ Range(<<>>) = {}
  BY DEF IsInjective, Range
<1>2. ReadyPlaces /\ WaitPlaces /\ Newborn /\ Chosen
  BY <1>1 DEF Init, ReadyPlaces, WaitPlaces, Newborn, Chosen, Forking
<1>3. Returned /\ WaiterYields
  BY ConstantsAssumption DEF Init, Returned, WaiterYields, Ending, Actor, Thread
<1>4. QED
  BY <1>2, <1>3 DEF Places

\* Every thread keeps its one place.
LEMMA Placed ==
  ASSUME MainForks <= 1, ~SoloWait
  PROVE  Spec => []((Books /\ Places) \/ Overflown)
<1>1. Books /\ Places /\ [Next]_vars => (Books /\ Places)' \/ Overflown'
  <2> SUFFICES ASSUME Books, Places, [Next]_vars, ~Overflown'
               PROVE  (Books /\ Places)'
    OBVIOUS
  <2>1. Books' /\ ~Dead'
    BY StepBooks
  <2> USE DEF Books
  <2>2. Located'
    BY <2>1, StepLocated
  <2>3. Returned' /\ WaiterYields'
    BY <2>1, StepReturned, StepWaiterYields DEF Places
  <2>4. QED
    BY <2>1, <2>2, <2>3 DEF Places, Located
<1>2. QED
  BY InitBooks, InitPlaces, OverflownStays, <1>1, PTL DEF Spec

\* so_end frees every thread struct: whatever was forked, signalled or
\* requeued, a thread that has returned is in no queue, ready or waiting, and the
\* running thread is not also ready.
THEOREM ReturnedAreGone ==
  ASSUME MainForks <= 1, ~SoloWait
  PROVE  Spec => [](StaysDefined => NoStalePlace)
<1>1. Exclusion /\ Places => NoStalePlace
  <2> SUFFICES ASSUME Exclusion, Places, NEW t \in Thread
               PROVE  /\ work_done[t] \/ running = t => Slots(ready, t) = {}
                      /\ work_done[t] => Slots(waiting, t) = {}
    BY DEF NoStalePlace
  <2>1. ASSUME work_done[t] \/ running = t, NEW s \in Slots(ready, t) PROVE FALSE
    <3>1. s[1] \in Prio /\ t \in Range(ready[s[1]])
      BY SlotIsPlace DEF Exclusion, Pointers
    <3>2. QED
      BY <2>1, <3>1 DEF Places, ReadyPlaces
  <2>2. ASSUME work_done[t], NEW s \in Slots(waiting, t) PROVE FALSE
    <3>1. s[1] \in Dev /\ t \in Range(waiting[s[1]])
      BY SlotIsPlace DEF Exclusion, Pointers
    <3>2. QED
      BY <2>2, <3>1 DEF Places, WaitPlaces
  <2>3. QED
    BY <2>1, <2>2
<1>2. Overflown => ~StaysDefined
  BY DEF Overflown, Dead, StaysDefined, Actor
<1>3. QED
  BY Placed, <1>1, <1>2, PTL DEF Books

\* so_wait only returns once the device was signalled (test_io.c): no handler
\* executes while its thread still waits on a device.
THEOREM WaitsForSignal ==
  ASSUME MainForks <= 1, ~SoloWait
  PROVE  Spec => []WaitUntilSignalled
<1>1. Exclusion /\ WaiterYields => WaitUntilSignalled
  BY DEF WaitUntilSignalled, WaiterYields, Exclusion, Token, Acting, AtUser, Actor
<1>2. Overflown => WaitUntilSignalled
  BY DEF Overflown, Dead, WaitUntilSignalled, AtUser, Actor
<1>3. QED
  BY Placed, <1>1, <1>2, PTL DEF Books, Places

-----------------------------------------------------------------------------
\* The processor is never idle.

\* Nobody is ready when the running thread has returned and has decided.
Idle ==
  \A t \in Thread : running = t /\ work_done[t] /\ pc[t] # "check" =>
    \A i \in Prio : ready[i] = <<>>

\* The last decision of a thread that returns takes account of every ready thread.
LEMMA StepIdle ==
  ASSUME MainForks <= 1, TypeOK, OneDrainer, Accounting, Exclusion, Places, Idle,
         [Next]_vars, ~Dead'
  PROVE  Idle'
<1> Facts
  BY FactsHold
<1>n. [DefinedStep]_vars
  BY DefinedUnlessDead
<1>b. work_done \in [Actor -> BOOLEAN]
  BY DEF TypeOK
<1>c. \A t \in Actor : Acting(t) => running = t
  BY DEF Exclusion, Token
<1> USE DEF sched_vars, queue_vars, thread_vars, sem_vars, local_vars, Goto, Enter, Facts
<1>1. CASE QuietStep
  BY <1>1, QuietStepMovesNone DEF StillDeciding, Idle
<1>2. ASSUME NEW t \in Actor, NEW u \in Thread, NEW p \in Prio, SoFork(t, u, p) PROVE Idle'
  <2>1. /\ pc[t] = "user" /\ pc[u] = "none"
        /\ pc' = [pc EXCEPT ![t] = "fork_post", ![u] = "unborn"]
        /\ work_done' = [work_done EXCEPT ![u] = FALSE]
        /\ UNCHANGED <<running, ready>>
    BY <1>2 DEF SoFork, MayCall, Accounting, Created, Thread
  <2>2. ASSUME NEW v \in Thread, work_done'[v], pc'[v] # "check"
        PROVE  work_done[v] /\ pc[v] # "check"
    <3>1. v # u
      BY <1>b, <2>1, <2>2
    <3>2. QED
      BY <2>1, <2>2, <3>1
  <2>3. QED
    BY <2>1, <2>2 DEF Idle
<1>3. ASSUME NEW t \in Actor, ForkEnqueue(t) \/ SignalLoop(t) PROVE Idle'
  <2>1. /\ running = t /\ UNCHANGED <<running, work_done>>
        /\ pc[t] \in {"fork_enqueue", "signal_loop"}
    BY <1>3, <1>c DEF ForkEnqueue, SignalLoop, Acting
  <2>2. t \in Thread => ~work_done[t]
    BY <2>1 DEF Places, Returned, Ending
  <2>3. QED
    BY <2>1, <2>2 DEF Idle
<1>4. ASSUME NEW t \in Actor, NEW d \in Dev, SoWait(t, d) PROVE Idle'
  BY <1>4 DEF SoWait, MayCall, Idle
<1>5. ASSUME NEW t \in Actor, CheckScheduler(t) PROVE Idle'
  <2>1. /\ running = t
        /\ \/ running' = t /\ (Yields => \A i \in Prio : ready'[i] = <<>>)
           \/ running' \in Thread /\ ~work_done[running']
    BY <1>5, Decision DEF Places
  <2>2. work_done[t] => Yields
    BY <2>1 DEF Yields, Expired
  <2>3. work_done' = work_done
    BY <1>5 DEF CheckScheduler
  <2>4. QED
    BY <2>1, <2>2, <2>3 DEF Idle
<1>6. ASSUME NEW t \in Actor, HandlerReturns(t) PROVE Idle'
  <2>1. /\ running = t /\ UNCHANGED <<running, ready>> /\ pc'[t] = "check"
    BY <1>6, <1>c DEF HandlerReturns, Acting
  <2>2. QED
    BY <2>1 DEF Idle
<1>7. ASSUME NEW q \in Quanta, NEW n \in Ios, SoInit(q, n) PROVE Idle'
  BY <1>7, ConstantsAssumption DEF SoInit, Idle
<1>8. ASSUME EndFree PROVE Idle'
  BY <1>8 DEF EndFree, Idle
<1>9. QED
  BY <1>n, <1>1, <1>2, <1>3, <1>4, <1>5, <1>6, <1>7, <1>8
     DEF DefinedStep, LibraryStep, ClientStep, EndStep, QuietStep

\* Every decision leaves the processor to a ready thread, if there is one.
LEMMA Decided ==
  ASSUME MainForks <= 1, ~SoloWait
  PROVE  Spec => []((Books /\ Places /\ Idle) \/ Overflown)
<1>1. Init => Idle
  BY ConstantsAssumption DEF Init, Idle, Actor, Thread
<1>2. Books /\ Places /\ Idle /\ [Next]_vars => Idle' \/ Overflown'
  BY StepBooks, StepIdle DEF Books
<1>3. Books => ~Overflown
  BY DEF Books, Accounting, MainLocal, Overflown, Dead, Actor
<1>4. QED
  BY Placed, OverflownStays, <1>1, <1>2, <1>3, PTL DEF Spec

\* The processor does not idle: once the running thread has returned and its last
\* check_scheduler has decided, nobody was ready, and nobody becomes ready.
THEOREM NeverIdle ==
  ASSUME MainForks <= 1, ~SoloWait
  PROVE  Spec => []WorkConserving
<1>1. Places /\ Idle => WorkConserving
  BY DEF WorkConserving, Idle, Places, Returned, Ending
<1>2. Overflown => WorkConserving
  BY DEF Overflown, Dead, WorkConserving, Actor
<1>3. QED
  BY Decided, <1>1, <1>2, PTL DEF Books

-----------------------------------------------------------------------------
\* No thread is lost.

\* Every thread that waits is on a device's queue, and every other thread that
\* has been queued once, and neither runs nor has returned, is ready.
Kept ==
  \A t \in Thread :
    /\ on_wait[t] => \E d \in Dev : t \in Range(waiting[d])
    /\ Admitted(t) /\ ~on_wait[t] /\ running # t => t \in Range(ready[prio[t]])

\* No step drops a thread: a queue that lacks a thread has room for it.
LEMMA StepKept ==
  ASSUME MaxThreads <= MaxSize, MainForks <= 1, TypeOK, OneDrainer, Accounting, Exclusion,
         Places, Kept, [Next]_vars, ~Dead'
  PROVE  Kept'
<1> Facts
  BY FactsHold
<1>n. [DefinedStep]_vars
  BY DefinedUnlessDead
<1>0. EndFree => NothingLeft
  BY NoneRemain
<1>b. /\ on_wait \in [Actor -> BOOLEAN] /\ work_done \in [Actor -> BOOLEAN]
      /\ prio \in [Actor -> Prio] /\ ready \in [Prio -> Seq(Actor)]
      /\ waiting \in [Dev -> Seq(Actor)]
  BY DEF TypeOK, Exclusion, Pointers
<1>c. \A t \in Actor : Acting(t) => running = t
  BY DEF Exclusion, Token
<1>d. \A t \in Actor : Admitted(t) <=> /\ pc[t] # "none" /\ ~work_done[t]
                                       /\ \A f \in Actor : Forking(f) => child[f] # t
  BY DEF Admitted, Forking
<1>e. \A t \in Actor : Admitted(t)' <=> /\ pc'[t] # "none" /\ ~work_done'[t]
                                        /\ \A f \in Actor : Forking(f)' => child'[f] # t
  BY DEF Admitted, Forking
<1> USE DEF sched_vars, queue_vars, thread_vars, sem_vars, local_vars, Goto, Enter, Facts
<1>1. CASE QuietStep
  <2>1. /\ UNCHANGED <<ready, waiting, prio, work_done, on_wait, running, child>>
        /\ \A t \in Actor : pc'[t] = "none" <=> pc[t] = "none"
        /\ \A t \in Actor : Forking(t)' <=> Forking(t)
    BY <1>1, QuietStepMovesNone
  <2>2. \A t \in Actor : Admitted(t)' <=> Admitted(t)
    BY <1>d, <1>e, <2>1
  <2>3. QED
    BY <2>1, <2>2 DEF Kept
<1>2. ASSUME NEW q \in Quanta, NEW n \in Ios, SoInit(q, n) PROVE Kept'
  <2>1. /\ \A t \in Thread : pc'[t] = "none"
        /\ UNCHANGED <<waiting, on_wait>>
    BY <1>2 DEF SoInit, Accounting, Created, Thread
  <2>2. \A t \in Thread : ~Admitted(t)'
    BY <1>e, <2>1
  <2>3. QED
    BY <2>1, <2>2 DEF Kept
<1>3. ASSUME NEW t \in Actor, NEW u \in Thread, NEW p \in Prio, SoFork(t, u, p) PROVE Kept'
  <2>1. /\ pc[t] = "user" /\ pc[u] = "none" /\ t # u /\ u \in Actor
        /\ pc' = [pc EXCEPT ![t] = "fork_post", ![u] = "unborn"]
        /\ prio' = [prio EXCEPT ![u] = p] /\ work_done' = [work_done EXCEPT ![u] = FALSE]
        /\ on_wait' = [on_wait EXCEPT ![u] = FALSE] /\ child' = [child EXCEPT ![t] = u]
        /\ UNCHANGED <<ready, waiting, running>>
    BY <1>3 DEF SoFork, MayCall, Accounting, Created, Thread
  <2>2. ~Admitted(u)' /\ ~on_wait'[u]
    BY <1>b, <1>e, <2>1 DEF Forking
  <2>3. ASSUME NEW v \in Thread, v # u
        PROVE  /\ on_wait'[v] = on_wait[v] /\ prio'[v] = prio[v]
               /\ Admitted(v)' => Admitted(v)
    <3>1. /\ on_wait'[v] = on_wait[v] /\ prio'[v] = prio[v] /\ work_done'[v] = work_done[v]
          /\ pc'[v] # "none" => pc[v] # "none"
      BY <1>b, <2>1, <2>3
    <3>2. \A f \in Actor : Forking(f) => Forking(f)' /\ child'[f] = child[f]
      BY <2>1 DEF Forking
    <3>3. QED
      BY <1>d, <1>e, <3>1, <3>2
  <2>4. QED
    BY <2>1, <2>2, <2>3 DEF Kept
<1>4. ASSUME NEW t \in Actor, ForkEnqueue(t) PROVE Kept'
  <2> DEFINE u == child[t]
             r == ready[prio[u]]
  <2>1. /\ u \in Thread /\ \A i \in Prio : u \notin Range(ready[i])
        /\ prio[u] \in Prio /\ r \in Seq(Actor) /\ ~on_wait[u]
    BY <1>4, <1>b DEF ForkEnqueue, Places, Newborn, Forking
  <2>2. /\ ready' = [ready EXCEPT ![prio[u]] = Enqueue(r, u)] /\ pc' = [pc EXCEPT ![t] = "decrease"]
        /\ UNCHANGED <<waiting, prio, work_done, on_wait, running, child>>
    BY <1>4 DEF ForkEnqueue
  <2>3. IsInjective(r) /\ u \notin Range(r) /\ Range(r) \subseteq Thread
    BY <2>1 DEF Places, ReadyPlaces
  <2>4. /\ ready'[prio[u]] = Enqueue(r, u)
        /\ \A i \in Prio : i # prio[u] => ready'[i] = ready[i]
    BY <1>b, <2>1, <2>2
  <2> HIDE DEF r
  <2>5. Len(r) # MaxSize
    BY <2>1, <2>3, QueueHasRoom
  <2>6. Range(r) \subseteq Range(Enqueue(r, u)) /\ u \in Range(Enqueue(r, u))
    BY <2>1, <2>5, EnqueueRange
  <2>7. ASSUME NEW v \in Thread, v # u, Admitted(v)' PROVE Admitted(v)
    <3>1. /\ pc'[v] # "none" /\ ~work_done'[v]
          /\ \A f \in Actor : Forking(f)' => child'[f] # v
      BY <1>e, <2>7
    <3>2. pc[v] # "none" /\ ~work_done[v]
      BY <1>4, <2>2, <3>1 DEF ForkEnqueue
    <3>3. \A f \in Actor : f # t /\ Forking(f) => Forking(f)' /\ child'[f] = child[f]
      BY <2>2 DEF Forking
    <3>4. QED
      BY <1>d, <2>7, <3>1, <3>2, <3>3
  <2>8. ASSUME NEW v \in Thread
        PROVE  v = u \/ v \in Range(ready[prio[v]]) => v \in Range(ready'[prio[v]])
    BY <1>b, <2>4, <2>6 DEF r
  <2>9. QED
    BY <2>1, <2>2, <2>7, <2>8 DEF Kept
<1>5. ASSUME NEW t \in Actor, NEW d \in Dev, SoWait(t, d) PROVE Kept'
  <2> DEFINE r == waiting[d]
  <2>1. /\ pc[t] = "user" /\ t \in Thread /\ running = t /\ r \in Seq(Actor)
        /\ pc' = [pc EXCEPT ![t] = "decrease"]
        /\ on_wait' = [on_wait EXCEPT ![t] = TRUE]
        /\ waiting' = [waiting EXCEPT ![d] = Enqueue(r, t)]
        /\ UNCHANGED <<ready, prio, work_done, running, child>>
    BY <1>5, <1>b, <1>c DEF SoWait, MayCall, Acting
  <2>2. ~on_wait[t]
    BY <2>1 DEF Places, WaiterYields
  <2>3. IsInjective(r) /\ t \notin Range(r) /\ Range(r) \subseteq Thread
    BY <2>2 DEF Places, WaitPlaces
  <2>4. waiting'[d] = Enqueue(r, t) /\ \A e \in Dev : e # d => waiting'[e] = waiting[e]
    BY <1>b, <2>1
  <2> HIDE DEF r
  <2>5. Len(r) # MaxSize
    BY <2>1, <2>3, QueueHasRoom
  <2>6. Range(r) \subseteq Range(Enqueue(r, t)) /\ t \in Range(Enqueue(r, t))
    BY <2>1, <2>5, EnqueueRange
  <2>7. ASSUME NEW v \in Thread, v # t
        PROVE  on_wait'[v] = on_wait[v] /\ (Admitted(v)' => Admitted(v))
    <3>1. \A f \in Actor : Forking(f)' <=> Forking(f)
      BY <2>1 DEF Forking
    <3>2. QED
      BY <1>b, <1>d, <1>e, <2>1, <2>7, <3>1
  <2>8. \A e \in Dev : Range(waiting[e]) \subseteq Range(waiting'[e])
    BY <2>4, <2>6 DEF r
  <2>9. t \in Range(waiting'[d]) /\ running' = t
    BY <2>1, <2>4, <2>6
  <2>10. QED
    BY <2>1, <2>7, <2>8, <2>9 DEF Kept
<1>6. ASSUME NEW t \in Actor, SignalLoop(t) PROVE Kept'
  <2>1. /\ draining \in Dev /\ running = t /\ pc[t] = "signal_loop"
    BY <1>6, <1>c DEF SignalLoop, OneDrainer, Acting
  <2>2. /\ UNCHANGED <<prio, work_done, running, child>>
        /\ \A v \in Actor : pc'[v] = "none" <=> pc[v] = "none"
        /\ \A f \in Actor : Forking(f)' <=> Forking(f)
    BY <1>6 DEF SignalLoop, Forking
  <2>3. \A v \in Actor : Admitted(v)' <=> Admitted(v)
    BY <1>d, <1>e, <2>2
  <2> DEFINE w == waiting[draining]
             u == Head(w)
             r == ready[prio[u]]
  <2>4. CASE /\ w # <<>>
             /\ waiting' = [waiting EXCEPT ![draining] = Tail(@)]
             /\ on_wait' = [on_wait EXCEPT ![u] = FALSE]
             /\ ready' = [ready EXCEPT ![prio[u]] = Enqueue(@, u)]
    <3>1. u \in Range(w) /\ Range(Tail(w)) = Range(w) \ {u}
      BY <1>b, <2>1, <2>4, DequeueRange DEF Places, WaitPlaces
    <3>2. u \in Thread /\ on_wait[u]
      BY <2>1, <3>1 DEF Places, WaitPlaces
    <3>3. \A i \in Prio : u \notin Range(ready[i])
      BY <3>2 DEF Places, ReadyPlaces
    <3>4. /\ prio[u] \in Prio /\ r \in Seq(Actor) /\ IsInjective(r) /\ u \notin Range(r)
          /\ Range(r) \subseteq Thread
      BY <1>b, <3>2, <3>3 DEF Places, ReadyPlaces
    <3>5. /\ ready'[prio[u]] = Enqueue(r, u)
          /\ \A i \in Prio : i # prio[u] => ready'[i] = ready[i]
          /\ waiting'[draining] = Tail(w)
          /\ \A e \in Dev : e # draining => waiting'[e] = waiting[e]
          /\ ~on_wait'[u] /\ \A v \in Actor : v # u => on_wait'[v] = on_wait[v]
      BY <1>b, <2>1, <2>4, <3>2, <3>4
    <3> HIDE DEF r, u, w
    <3>6. Len(r) # MaxSize
      BY <3>2, <3>4, QueueHasRoom
    <3>7. Range(r) \subseteq Range(Enqueue(r, u)) /\ u \in Range(Enqueue(r, u))
      BY <3>2, <3>4, <3>6, EnqueueRange
    <3>8. \A v \in Thread : v = u \/ v \in Range(ready[prio[v]]) => v \in Range(ready'[prio[v]])
      BY <1>b, <3>5, <3>7 DEF r
    <3>9. \A v \in Thread, e \in Dev : v # u /\ v \in Range(waiting[e]) => v \in Range(waiting'[e])
      BY <3>1, <3>5 DEF w
    <3>10. QED
      BY <2>2, <2>3, <3>5, <3>8, <3>9 DEF Kept
  <2>5. CASE UNCHANGED <<ready, waiting, on_wait>>
    BY <2>2, <2>3, <2>5 DEF Kept
  <2>6. QED
    BY <1>6, <2>4, <2>5 DEF SignalLoop
<1>7. ASSUME NEW t \in Actor, CheckScheduler(t) PROVE Kept'
  <2>1. /\ running = t
        /\ \A v \in Thread, i \in Prio :
              /\ v # running'
              /\ v \in Range(ready[i]) \/ (v = t /\ i = prio[t] /\ ~work_done[t] /\ ~on_wait[t])
              => v \in Range(ready'[i])
    BY <1>7, Decision DEF Places
  <2>2. /\ UNCHANGED <<waiting, prio, work_done, on_wait, child>>
        /\ \A v \in Actor : pc'[v] = "none" <=> pc[v] = "none"
        /\ \A f \in Actor : Forking(f)' <=> Forking(f)
    BY <1>7 DEF CheckScheduler, Forking
  <2>3. \A v \in Actor : Admitted(v)' <=> Admitted(v)
    BY <1>d, <1>e, <2>2
  <2>4. ASSUME NEW v \in Thread, Admitted(v), ~on_wait[v], v # running'
        PROVE  v \in Range(ready'[prio[v]])
    <3>1. prio[v] \in Prio /\ ~work_done[v]
      BY <1>b, <1>d, <2>4
    <3>2. v = t \/ v \in Range(ready[prio[v]])
      BY <2>1, <2>4 DEF Kept
    <3>3. QED
      BY <2>1, <2>4, <3>1, <3>2
  <2>5. QED
    BY <2>2, <2>3, <2>4 DEF Kept
<1>8. ASSUME NEW t \in Actor, HandlerReturns(t) PROVE Kept'
  <2>1. /\ t \in Thread /\ pc[t] = "user"
        /\ pc' = [pc EXCEPT ![t] = "check"] /\ work_done' = [work_done EXCEPT ![t] = TRUE]
        /\ UNCHANGED <<ready, waiting, prio, on_wait, running, child>>
    BY <1>8 DEF HandlerReturns
  <2>2. \A v \in Thread : Admitted(v)' => Admitted(v)
    <3>1. \A f \in Actor : Forking(f)' <=> Forking(f)
      BY <2>1 DEF Forking
    <3>2. \A v \in Actor : ~work_done'[v] => ~work_done[v]
      BY <1>b, <2>1
    <3>3. \A v \in Actor : pc'[v] # "none" => pc[v] # "none"
      BY <2>1
    <3>4. QED
      BY <1>d, <1>e, <2>1, <3>1, <3>2, <3>3
  <2>3. QED
    BY <2>1, <2>2 DEF Kept
<1>9. ASSUME EndFree PROVE Kept'
  <2>1. \A t \in Thread : pc'[t] = "none" /\ ~on_wait'[t]
    BY <1>0, <1>9 DEF EndFree, NothingLeft
  <2>2. \A t \in Thread : ~Admitted(t)'
    BY <1>e, <2>1
  <2>3. QED
    BY <2>1, <2>2 DEF Kept
<1>10. QED
  BY <1>n, <1>1, <1>2, <1>3, <1>4, <1>5, <1>6, <1>7, <1>8, <1>9
     DEF DefinedStep, LibraryStep, ClientStep, EndStep, QuietStep

\* A thread in a queue of at most MAX_SIZE threads that are all different has
\* one slot there.
LEMMA OneSlot ==
  ASSUME MaxThreads <= MaxSize, NEW D, NEW S, NEW queues \in [D -> Seq(S)], NEW t, NEW d \in D,
         t \in Range(queues[d]), \A e \in D : t \in Range(queues[e]) => e = d,
         IsInjective(queues[d]), Range(queues[d]) \subseteq Thread
  PROVE  Cardinality(Slots(queues, t)) = 1
<1> DEFINE q == queues[d]
<1>1. q \in Seq(S) /\ DOMAIN q = 1..Len(q) /\ Len(q) \in Nat
  OBVIOUS
<1>2. PICK k \in DOMAIN q : q[k] = t
  BY DEF Range
<1>3. Len(q) <= MaxSize
  <2>1. q \in [1..Len(q) -> Thread]
    BY <1>1 DEF Range
  <2>2. IsFiniteSet(Thread) /\ Cardinality(Thread) = MaxThreads
    BY FS_Interval, ConstantsAssumption DEF Thread
  <2> DEFINE n == Len(q)
  <2>3. n \in Nat
    BY <1>1
  <2> HIDE DEF n
  <2>4. IsFiniteSet(1..n) /\ Cardinality(1..n) = n
    BY <2>3, FS_Interval
  <2> HIDE DEF q
  <2>5. IsFiniteSet(1..Len(q)) /\ Cardinality(1..Len(q)) = Len(q)
    BY <2>4 DEF n
  <2>6. ~(MaxThreads < Len(q))
    BY <2>1, <2>2, <2>5, FS_PigeonHole DEF IsInjective, q
  <2>7. QED
    BY <1>1, <2>6, ConstantsAssumption
<1>4. k \in 1..MaxSize /\ k <= Len(q)
  BY <1>1, <1>3, ConstantsAssumption
<1>5. <<d, k>> \in Slots(queues, t)
  BY <1>2, <1>4 DEF Slots
<1>6. ASSUME NEW s \in Slots(queues, t) PROVE s = <<d, k>>
  <2>1. /\ s = <<s[1], s[2]>> /\ s[1] \in D /\ s[2] \in DOMAIN queues[s[1]]
        /\ queues[s[1]][s[2]] = t /\ t \in Range(queues[s[1]])
    BY SlotIsPlace
  <2>2. s[1] = d
    BY <2>1
  <2>3. s[2] = k
    BY <1>2, <2>1, <2>2 DEF IsInjective
  <2>4. QED
    BY <2>1, <2>2, <2>3
<1>7. Slots(queues, t) = {<<d, k>>}
  BY <1>5, <1>6
<1>8. QED
  BY <1>7, FS_Singleton

\* A thread that has not returned is never lost or duplicated, whatever so_fork,
\* so_wait, so_signal, spent time slices and preemptions do with it: when
\* MAX_SIZE is at least the number of threads no queue drops one.
THEOREM NothingIsLost ==
  ASSUME MainForks <= 1, ~SoloWait, MaxThreads <= MaxSize
  PROVE  Spec => []OnePlaceEach
<1>1. Init => Kept
  BY ConstantsAssumption DEF Init, Kept, Admitted, Actor, Thread
<1>2. Books /\ Places /\ Kept /\ [Next]_vars => Kept' \/ Overflown'
  BY StepBooks, StepKept DEF Books
<1>3. TypeOK /\ Exclusion /\ Places /\ Kept => OnePlaceEach
  <2> SUFFICES ASSUME TypeOK, Exclusion, Places, Kept, NEW t \in Thread, Admitted(t), running # t
               PROVE  IF on_wait[t]
                      THEN Cardinality(Slots(waiting, t)) = 1 /\ Slots(ready, t) = {}
                      ELSE /\ Cardinality(Slots(ready, t)) = 1 /\ Slots(waiting, t) = {}
                           /\ \A s \in Slots(ready, t) : s[1] = prio[t]
    BY DEF OnePlaceEach
  <2>1. ready \in [Prio -> Seq(Actor)] /\ waiting \in [Dev -> Seq(Actor)]
    BY DEF Exclusion, Pointers
  <2>2. \A s \in Slots(ready, t) : s[1] \in Prio /\ t \in Range(ready[s[1]])
    BY <2>1, SlotIsPlace
  <2>3. \A s \in Slots(waiting, t) : s[1] \in Dev /\ t \in Range(waiting[s[1]])
    BY <2>1, SlotIsPlace
  <2>4. CASE on_wait[t]
    <3>1. PICK d \in Dev : t \in Range(waiting[d])
      BY <2>4 DEF Kept
    <3>2. /\ \A e \in Dev : t \in Range(waiting[e]) => e = d
          /\ IsInjective(waiting[d]) /\ Range(waiting[d]) \subseteq Thread
      BY <3>1 DEF Places, WaitPlaces
    <3>3. Cardinality(Slots(waiting, t)) = 1
      BY <2>1, <3>1, <3>2, OneSlot
    <3>4. Slots(ready, t) = {}
      BY <2>2, <2>4 DEF Places, ReadyPlaces
    <3>5. QED
      BY <2>4, <3>3, <3>4
  <2>5. CASE ~on_wait[t]
    <3>1. t \in Range(ready[prio[t]])
      BY <2>5 DEF Kept
    <3>2. prio[t] \in Prio
      BY DEF TypeOK, Actor
    <3>3. /\ \A i \in Prio : t \in Range(ready[i]) => i = prio[t]
          /\ IsInjective(ready[prio[t]]) /\ Range(ready[prio[t]]) \subseteq Thread
      BY <3>2 DEF Places, ReadyPlaces
    <3>4. Cardinality(Slots(ready, t)) = 1
      BY <2>1, <3>1, <3>2, <3>3, OneSlot
    <3>5. Slots(waiting, t) = {}
      BY <2>3, <2>5 DEF Places, WaitPlaces
    <3>6. \A s \in Slots(ready, t) : s[1] = prio[t]
      BY <2>2, <3>3
    <3>7. QED
      BY <2>5, <3>4, <3>5, <3>6
  <2>6. QED
    BY <2>4, <2>5
<1>4. QED
  BY Placed, RoomForAll, <1>1, <1>2, <1>3, PTL DEF Spec, Books

\* A thread that neither has returned nor waits only loses the processor when
\* its quantum is spent or to a thread of higher priority, whichever thread's
\* call makes the decision.
THEOREM ProcessorIsKept ==
  ASSUME MainForks <= 1, ~SoloWait
  PROVE  Spec => PreemptionIsEarned
<1> DEFINE Earned == \A t, u \in Thread : running = t /\ running' = u /\ t # u =>
                       work_done[t] \/ on_wait[t] \/ quantum[t] = 0 \/ prio[u] > prio[t]
<1>1. TypeOK /\ Accounting /\ Places /\ [Next]_vars => [Earned]_vars
  <2> SUFFICES ASSUME TypeOK, Accounting, Places, Next,
                      NEW t \in Thread, NEW u \in Thread, running = t, running' = u, t # u
               PROVE  work_done[t] \/ on_wait[t] \/ quantum[t] = 0 \/ prio[u] > prio[t]
    OBVIOUS
  <2> USE DEF sched_vars
  <2>1. PICK a \in Actor : CheckScheduler(a)
    <3>1. ASSUME NEW a \in Actor, LibraryStep(a), ~CheckScheduler(a) PROVE running' = running
      BY <3>1 DEF LibraryStep, ForkPost, ForkCreate, ForkEnqueue, SignalLoop, DecreaseQuantum,
         Preempted, Broadcast, WaitToRun, ThreadStart, RecordTerminated, SemWait, SemGet, SemPost
    <3>2. ASSUME NEW a \in Actor, ClientStep(a) \/ SpuriousWakeup(a) PROVE running' = running
      BY <3>2 DEF ClientStep, SpuriousWakeup, SoFork, SoExec, SoWait, SoSignal, HandlerReturns
    <3>3. None \notin Thread /\ Main \notin Thread
      BY ConstantsAssumption DEF Actor
    <3>4. EndStep => running' = running \/ running' = None
      BY DEF EndStep, SoEnd, EndWait, EndJoin, EndFree
    <3>5. (\E q \in Quanta, n \in Ios : SoInit(q, n)) => running' = Main
      BY DEF SoInit
    <3>6. ASSUME NEW a \in Actor, Overflow(a) \/ UseFreed(a) PROVE running' = running
      BY <3>6 DEF Overflow, UseFreed
    <3>7. QED
      BY <3>1, <3>2, <3>3, <3>4, <3>5, <3>6 DEF Next, DefinedStep
  <2>2. ~main_running
    BY <2>1, AliveWhileActive, ConstantsAssumption DEF CheckScheduler, Places, Chosen
  <2>3. PICK i \in Prio : Eligible(Requeued, i) /\ Dispatch(Requeued, i)
    BY <2>1 DEF CheckScheduler
  <2>4. u = Head(Requeued[i])
    BY <2>3 DEF Dispatch
  <2>5. QED
    BY <2>2, <2>3, <2>4 DEF Eligible, Yields, Expired
<1>2. Overflown /\ [Next]_vars => [Earned]_vars
  BY DeadStays DEF Overflown
<1>3. QED
  BY Placed, <1>1, <1>2, PTL DEF Spec, PreemptionIsEarned, Books
================================================================================
