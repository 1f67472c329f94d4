--------------------------- MODULE ProcessorProofs ---------------------------
(***************************************************************************)
(* What the scheduler promises of its threads together, for every number of*)
(* threads, priorities and devices, every time quantum and every client that*)
(* forks at most once from Main and never makes the only runnable thread wait:*)
(* it implements one processor that is handed over by priority (Processor),*)
(* and so_end waits for ever only on threads that wait for a device.       *)
(***************************************************************************)
EXTENDS PlacesProofs

-----------------------------------------------------------------------------
\* One processor.

\* A call between its first critical section and its decision.
Busy(t) == Forking(t) \/ pc[t] \in {"signal_loop", "decrease", "check"}

\* What a client can see of a call or of a handler: it is the running thread's;
\* on_wait marks the threads that are asleep; and without a scheduler nobody runs.
Seen ==
  /\ \A t \in Actor : Busy(t) => running = t /\ Deciding /\ Executing = {}
  /\ \A t \in Thread : AtUser(t) => running = t /\ Executing = {t}
  /\ \A t \in Actor : ~Busy(t) /\ running = t => ~Deciding
  /\ \A t \in Actor : ~AtUser(t) /\ running = t => Executing = {}
  /\ \A t \in Actor : Forking(t) => Unqueued = {child[t]}
  /\ \A t \in Actor : ~Forking(t) /\ running = t => Unqueued = {}
  /\ \A t \in Actor : Promise!Sleeps(t) <=> t \in Thread /\ on_wait[t]

\* The token of Exclusion and the places of Kept make it so.
LEMMA SeenHolds ==
  ASSUME TypeOK, Exclusion, Places, Kept
  PROVE  Seen
<1> Facts
  BY FactsHold
<1>1. \A t \in Actor : Busy(t) => running = t
  BY DEF Exclusion, Token, Acting, Busy, Forking
<1>2. \A t \in Thread : AtUser(t) => running = t
  BY DEF Exclusion, Token, Acting, AtUser, Facts
<1>3. \A t \in Actor : Busy(t) => ~AtUser(t) /\ Deciding
  BY DEF Busy, AtUser, Forking, Deciding
<1>4. \A t \in Actor : Busy(t) => Executing = {}
  BY <1>1, <1>2, <1>3 DEF Executing, Facts
<1>5. \A t \in Thread : AtUser(t) => Executing = {t}
  BY <1>2 DEF Executing
<1>6. \A t \in Actor : ~Busy(t) /\ running = t => ~Deciding
  BY <1>1 DEF Deciding, Busy
<1>7. \A t \in Actor : ~AtUser(t) /\ running = t => Executing = {}
  BY <1>2 DEF Executing
<1>8. \A t \in Actor : Forking(t) => Busy(t)
  BY DEF Busy
<1>9. \A t \in Actor : Forking(t) => Unqueued = {child[t]}
  BY <1>1, <1>8 DEF Unqueued
<1>10. \A t \in Actor : ~Forking(t) /\ running = t => Unqueued = {}
  BY <1>1, <1>8 DEF Unqueued
<1>11. \A t \in Actor : Promise!Sleeps(t) <=> t \in Thread /\ on_wait[t]
  <2>1. ASSUME NEW t \in Actor, Promise!Sleeps(t) PROVE t \in Thread /\ on_wait[t]
    BY <2>1 DEF Promise!Sleeps, Promise!Range, Range, Places, WaitPlaces
  <2>2. ASSUME NEW t \in Thread, on_wait[t] PROVE Promise!Sleeps(t)
    BY <2>2 DEF Promise!Sleeps, Promise!Range, Range, Kept
  <2>3. QED
    BY <2>1, <2>2
<1>12. QED
  BY <1>1, <1>2, <1>3, <1>4, <1>5, <1>6, <1>7, <1>9, <1>10, <1>11 DEF Seen

\* The steps that are not the processor's.
LEMMA HiddenStep ==
  ASSUME UNCHANGED <<running, ready, waiting, prio, work_done, child, draining>>,
         \A t \in Actor : /\ Busy(t)' <=> Busy(t)
                          /\ Forking(t)' <=> Forking(t)
                          /\ pc'[t] = "none" <=> pc[t] = "none",
         \A t \in Thread : AtUser(t)' <=> AtUser(t)
  PROVE  UNCHANGED Promise!vars
<1>1. Executing' = Executing
  BY DEF Executing
<1>2. Deciding' = Deciding
  BY DEF Deciding, Busy
<1>3. Forked' = Forked /\ Gone' = Gone
  BY DEF Forked, Gone, Actor
<1>4. Unqueued' = Unqueued
  BY DEF Unqueued
<1>5. QED
  BY <1>1, <1>2, <1>3, <1>4 DEF Promise!vars

\* Queues of threads that lack one of them have room for it.
LEMMA EnqueueAppends ==
  ASSUME MaxThreads <= MaxSize, NEW q \in Seq(Actor), Range(q) \subseteq Thread,
         IsInjective(q), NEW x \in Thread, x \notin Range(q)
  PROVE  Enqueue(q, x) = Append(q, x)
BY QueueHasRoom, ConstantsAssumption DEF Enqueue

\* check_scheduler makes the decision.
LEMMA DecisionIsOne ==
  ASSUME MaxThreads <= MaxSize, TypeOK, OneDrainer, Accounting, Exclusion, Places, Seen,
         NEW t \in Actor, CheckScheduler(t)
  PROVE  Promise!Decide
<1> Facts
  BY FactsHold
<1>1. pc[t] = "check" /\ draining = None /\ Busy(t) /\ ~Forking(t) /\ alive
  BY AliveWhileActive DEF CheckScheduler, MutexFree, Busy, Forking
<1>2. running = t /\ Deciding /\ Executing = {} /\ Unqueued = {}
  BY <1>1 DEF Seen
<1>3. /\ UNCHANGED <<waiting, work_done, prio, child, draining>>
      /\ pc' = [pc EXCEPT ![t] = IF op[t] = "wait" THEN "broadcast" ELSE "preempted"]
  BY DEF CheckScheduler, thread_vars, local_vars, Goto
<1>4. /\ Forked' = Forked /\ Gone' = Gone /\ Executing' = Executing
  BY <1>1, <1>3 DEF Forked, Gone, Executing, AtUser, Facts
<1>5. \A u \in Actor : ~Forking(u) /\ ~Forking(u)' /\ ~Busy(u)'
  <2>1. \A u \in Actor : u # t => ~Busy(u) /\ pc'[u] = pc[u]
    BY <1>2, <1>3 DEF Seen
  <2>2. ~Forking(t) /\ ~Forking(t)' /\ ~Busy(t)'
    BY <1>1, <1>3 DEF Forking, Busy, Facts
  <2>3. QED
    BY <2>1, <2>2 DEF Busy, Forking
<1>6. Unqueued' = {} /\ Deciding' = FALSE
  BY <1>5 DEF Unqueued, Deciding, Busy
<1>7. /\ ready \in [Prio -> Seq(Actor)] /\ prio \in [Actor -> Prio] /\ prio[t] \in Prio
      /\ on_wait \in [Actor -> BOOLEAN] /\ work_done \in [Actor -> BOOLEAN]
  BY DEF TypeOK, Exclusion, Pointers
<1>8. Promise!Runnable(t) <=> t \in Thread /\ ~work_done[t] /\ ~on_wait[t]
  BY DEF Promise!Runnable, Gone, Seen
<1> DEFINE able == t \in Thread /\ ~work_done[t] /\ ~on_wait[t]
           q == IF able THEN [ready EXCEPT ![prio[t]] = Append(@, t)] ELSE ready
<1>9. ASSUME NEW i \in Prio, q[i] # <<>>, \A j \in Prio : j > i => q[j] = <<>>,
             running' = Head(q[i]), ready' = [q EXCEPT ![i] = Tail(@)]
      PROVE  Promise!Switch
  BY <1>2, <1>8, <1>9 DEF Promise!Switch, Promise!Queued
<1>10. ASSUME running' = t, ready' = ready, ~(t \in Thread /\ on_wait[t]),
              \A i \in Prio : ready[i] = <<>> \/ (able /\ i <= prio[t])
       PROVE  Promise!Stay
  <2>1. \A i \in Prio : ready[i] = <<>>
                        \/ (Promise!Runnable(running) /\ i <= [u \in Thread |-> prio[u]][running])
    BY <1>2, <1>8, <1>10
  <2>2. ~Promise!Sleeps(running)
    BY <1>2, <1>10 DEF Seen
  <2>3. QED
    BY <1>2, <1>10, <2>1, <2>2 DEF Promise!Stay
<1>11. able => /\ \A i \in Prio : t \notin Range(ready[i])
               /\ Enqueue(ready[prio[t]], t) = Append(ready[prio[t]], t)
  <2> SUFFICES ASSUME able
               PROVE  /\ \A i \in Prio : t \notin Range(ready[i])
                      /\ Enqueue(ready[prio[t]], t) = Append(ready[prio[t]], t)
    OBVIOUS
  <2>1. \A i \in Prio : /\ t \notin Range(ready[i])
                        /\ IsInjective(ready[i]) /\ Range(ready[i]) \subseteq Thread
    BY <1>2 DEF Places, ReadyPlaces
  <2>2. QED
    BY <1>7, <2>1, EnqueueAppends
<1>12. tid[running] # tid[Main] <=> t # Main
  BY <1>1, <1>2, ConstantsAssumption
     DEF Exclusion, Tids, Places, Chosen, Facts
<1> DEFINE R == Requeued
<1>13. \/ (\A i \in Prio : ~Eligible(R, i)) /\ ready' = R /\ running' = t
       \/ \E i \in Prio : /\ Eligible(R, i) /\ \A j \in ScannedBefore(i) : ~Eligible(R, j)
                          /\ Dispatch(R, i)
  BY <1>2 DEF CheckScheduler
<1>14. Yields <=> Expired \/ t = Main \/ on_wait[t]
  BY <1>1, <1>2 DEF Yields, Places, Chosen
<1>15. work_done[t] => Expired
  BY <1>2 DEF Expired
<1> HIDE DEF q
<1>16. ASSUME Yields, R = q PROVE Promise!Switch \/ Promise!Stay
  <2>1. \A i \in Prio : Eligible(R, i) <=> q[i] # <<>>
    BY <1>16 DEF Eligible
  <2>2. CASE (\A i \in Prio : ~Eligible(R, i)) /\ ready' = R /\ running' = t
    <3>1. \A i \in Prio : q[i] = <<>>
      BY <2>1, <2>2
    <3>2. ~able
      <4>1. able => Append(ready[prio[t]], t) # <<>>
        <5>1. ready[prio[t]] \in Seq(Actor)
          BY <1>7
        <5>2. Enqueue(ready[prio[t]], t) # <<>>
          BY <5>1, EnqueueRange
        <5>3. QED
          BY <1>11, <5>2
      <4>2. able => q[prio[t]] = Append(ready[prio[t]], t)
        BY <1>7 DEF q
      <4>3. QED
        BY <1>7, <3>1, <4>1, <4>2
    <3>3. q = ready
      BY <3>2 DEF q
    <3>4. ~(t \in Thread /\ on_wait[t])
      BY <1>2, <3>1, <3>3 DEF Places, WaiterYields
    <3>5. QED
      BY <1>10, <1>16, <2>2, <3>1, <3>3, <3>4
  <2>3. ASSUME NEW i \in Prio, Eligible(R, i), \A j \in ScannedBefore(i) : ~Eligible(R, j),
               Dispatch(R, i)
        PROVE  Promise!Switch
    <3>1. q[i] # <<>> /\ \A j \in Prio : j > i => q[j] = <<>>
      BY <2>1, <2>3 DEF ScannedBefore
    <3>2. running' = Head(q[i]) /\ ready' = [q EXCEPT ![i] = Tail(@)]
      BY <1>16, <2>3 DEF Dispatch
    <3>3. QED
      BY <1>9, <3>1, <3>2
  <2>4. QED
    BY <1>13, <2>2, <2>3
<1>17. ASSUME ~able PROVE Promise!Switch \/ Promise!Stay
  <2>1. Yields
    BY <1>14, <1>15, <1>17 DEF Facts
  <2>2. R = q
    BY <1>2, <1>12, <1>17 DEF Requeued, q, Facts
  <2>3. QED
    BY <1>16, <2>1, <2>2
<1>18. ASSUME able, Expired PROVE Promise!Switch \/ Promise!Stay
  <2>1. R = q
    BY <1>2, <1>11, <1>12, <1>18 DEF Requeued, q, Facts
  <2>2. QED
    BY <1>14, <1>16, <1>18, <2>1
<1>19. ASSUME able, ~Expired PROVE Promise!Switch \/ Promise!Stay
  <2>1. R = ready /\ ~Yields
    BY <1>14, <1>19 DEF Requeued, Facts
  <2>2. ASSUME NEW i \in Prio, ready[i] # <<>>
        PROVE  prio[Head(ready[i])] = i /\ (Eligible(R, i) <=> i > prio[t])
    <3>1. Head(ready[i]) \in Range(ready[i])
      BY <1>7, <2>2, DequeueRange
    <3>2. prio[Head(ready[i])] = i
      BY <3>1 DEF Places, ReadyPlaces
    <3>3. QED
      BY <1>2, <2>1, <2>2, <3>2 DEF Eligible
  <2>3. CASE (\A i \in Prio : ~Eligible(R, i)) /\ ready' = R /\ running' = t
    <3>1. \A i \in Prio : ready[i] = <<>> \/ i <= prio[t]
      BY <1>7, <2>2, <2>3 DEF Prio
    <3>2. QED
      BY <1>10, <1>19, <2>1, <2>3, <3>1
  <2>4. ASSUME NEW i \in Prio, Eligible(R, i), \A j \in ScannedBefore(i) : ~Eligible(R, j),
               Dispatch(R, i)
        PROVE  Promise!Switch
    <3>1. ready[i] # <<>> /\ i > prio[t] /\ i # prio[t]
      <4>1. ready[i] # <<>>
        BY <2>1, <2>4 DEF Eligible
      <4>2. i > prio[t]
        BY <2>2, <2>4, <4>1
      <4>3. QED
        BY <1>7, <4>1, <4>2 DEF Prio
    <3>2. /\ q = [ready EXCEPT ![prio[t]] = Append(@, t)]
          /\ \A j \in Prio : j # prio[t] => q[j] = ready[j]
      BY <1>7, <1>19 DEF q
    <3>3. ASSUME NEW j \in Prio, j > i PROVE q[j] = <<>>
      <4>1. j > prio[t] /\ j # prio[t]
        BY <1>7, <3>1, <3>3 DEF Prio
      <4>2. ready[j] = <<>>
        BY <2>2, <2>4, <3>3, <4>1 DEF ScannedBefore
      <4>3. QED
        BY <3>2, <4>1, <4>2
    <3> DEFINE rest == [ready EXCEPT ![i] = Tail(@)]
    <3>4. /\ running' = Head(ready[i])
          /\ ready' = [rest EXCEPT ![prio[t]] = Enqueue(@, t)]
      BY <1>2, <2>1, <2>4 DEF Dispatch
    <3>5. rest[prio[t]] = ready[prio[t]]
      BY <1>7, <3>1
    <3>6. ready' = [rest EXCEPT ![prio[t]] = Append(ready[prio[t]], t)]
      BY <1>11, <1>19, <3>4, <3>5
    <3>7. q = [ready EXCEPT ![prio[t]] = Append(ready[prio[t]], t)]
      BY <3>2
    <3>8. ready' = [q EXCEPT ![i] = Tail(ready[i])]
      BY <1>7, <3>1, <3>6, <3>7
    <3>9. ready' = [q EXCEPT ![i] = Tail(@)] /\ running' = Head(q[i]) /\ q[i] # <<>>
      BY <3>1, <3>2, <3>4, <3>8
    <3>10. QED
      BY <1>9, <3>3, <3>9
  <2>5. QED
    BY <1>13, <2>3, <2>4
<1>20. Promise!Switch \/ Promise!Stay
  BY <1>17, <1>18, <1>19
<1>21. QED
  BY <1>1, <1>2, <1>3, <1>4, <1>6, <1>20 DEF Promise!Decide

\* What so_fork, so_exec, so_wait, so_signal and a return have in common: the call of
\* the running thread t begins.
LEMMA CallBegins ==
  ASSUME TypeOK, Seen, Seen', NEW t \in Thread, AtUser(t), Busy(t)',
         UNCHANGED <<running, prio>>
  PROVE  Promise!Called(t)
BY FactsHold DEF Promise!Called, Seen, Busy, AtUser, Forking, Facts

\* so_fork's first critical section.
LEMMA ForkIsOne ==
  ASSUME MainForks <= 1, TypeOK, Accounting, Exclusion, Places, Seen, Seen',
         NEW t \in Actor, NEW u \in Thread, NEW p \in Prio, SoFork(t, u, p)
  PROVE  Promise!Fork(u, p)
<1> Facts
  BY FactsHold
<1>1. /\ pc[t] = "user" /\ pc[u] = "none" /\ t # u /\ u \in Actor /\ u # Main
      /\ pc' = [pc EXCEPT ![t] = "fork_post", ![u] = "unborn"]
      /\ prio' = [prio EXCEPT ![u] = p] /\ work_done' = [work_done EXCEPT ![u] = FALSE]
      /\ child' = [child EXCEPT ![t] = u]
      /\ t = Main => calls[Main] < MainForks
      /\ UNCHANGED <<ready, waiting, running, draining>>
  BY DEF SoFork, MayCall, Accounting, Created, Facts, Thread, queue_vars, sched_vars
<1>2. Acting(t)
  BY <1>1, ConstantsAssumption DEF Acting, Facts, TypeOK
<1>3. running = t
  BY <1>2 DEF Exclusion, Token
<1>4. Forking(t)' /\ Busy(t)' /\ child'[t] = u
  BY <1>1 DEF Forking, Busy, Facts
<1>5. Unqueued' = {u} /\ Deciding' = TRUE /\ Executing' = {}
  BY <1>4 DEF Seen, Deciding, Busy
<1>6. Forked' = Forked \cup {u} /\ u \notin Forked
  BY <1>1 DEF Forked, Facts
<1>7. Gone' = Gone
  <2>1. ~work_done[u]
    BY <1>1 DEF Places, Returned, Ending
  <2>2. QED
    BY <1>1, <2>1 DEF Gone, TypeOK
<1>8. [v \in Thread |-> prio[v]]' = [[v \in Thread |-> prio[v]] EXCEPT ![u] = p]
  BY <1>1 DEF TypeOK, Facts
<1>9. ~Deciding /\ (t = Main => Executing = {}) /\ (t # Main => Executing = {t})
  <2>1. ~Busy(t) /\ AtUser(t)
    BY <1>1 DEF Busy, Forking, AtUser
  <2>2. t = Main => Executing = {}
    BY <1>3 DEF Seen, Executing, Facts
  <2>3. QED
    BY <1>3, <2>1, <2>2 DEF Seen, Facts
<1>10. \/ running = Main /\ ~Deciding /\ Executing = {} /\ UNCHANGED Executing /\ Deciding' = TRUE
       \/ Promise!Called(running)
  BY <1>3, <1>5, <1>9 DEF Promise!Called
<1>11. QED
  BY <1>1, <1>5, <1>6, <1>7, <1>8, <1>10 DEF Promise!Fork

\* so_fork's second critical section.
LEMMA AdmissionIsOne ==
  ASSUME MaxThreads <= MaxSize, TypeOK, Exclusion, Places, Seen, Seen',
         NEW t \in Actor, ForkEnqueue(t)
  PROVE  Promise!Admit(child[t])
<1> Facts
  BY FactsHold
<1> DEFINE u == child[t]
           r == ready[prio[u]]
<1>1. /\ pc[t] = "fork_enqueue" /\ pc' = [pc EXCEPT ![t] = "decrease"]
      /\ ready' = [ready EXCEPT ![prio[u]] = Enqueue(@, u)]
      /\ UNCHANGED <<waiting, running, draining, prio, work_done, child>>
  BY DEF ForkEnqueue, Goto, sched_vars, thread_vars, local_vars
<1>2. Forking(t) /\ Busy(t) /\ ~Forking(t)' /\ Busy(t)'
  BY <1>1 DEF Forking, Busy, Facts
<1>3. running = t /\ Deciding = TRUE /\ Deciding' = TRUE /\ Executing = {} /\ Executing' = {}
  BY <1>1, <1>2 DEF Seen, Deciding, Busy
<1>4. Unqueued = {u} /\ Unqueued' = {}
  BY <1>1, <1>2, <1>3 DEF Seen
<1>5. Forked' = Forked /\ Gone' = Gone
  BY <1>1 DEF Forked, Gone, Facts
<1>6. u \in Thread /\ \A i \in Prio : u \notin Range(ready[i])
  BY <1>2 DEF Places, Newborn
<1>7. /\ ready \in [Prio -> Seq(Actor)] /\ prio[u] \in Prio
      /\ IsInjective(r) /\ Range(r) \subseteq Thread
  BY <1>6 DEF TypeOK, Exclusion, Pointers, Facts, Places, ReadyPlaces
<1>8. Enqueue(r, u) = Append(r, u)
  BY <1>6, <1>7, EnqueueAppends
<1>9. ready' = [ready EXCEPT ![prio[u]] = Append(@, u)]
  BY <1>1, <1>8
<1>10. ready' = Promise!Queued(u)
  BY <1>6, <1>9 DEF Promise!Queued
<1>11. QED
  BY <1>1, <1>3, <1>4, <1>5, <1>10 DEF Promise!Admit

\* so_exec, so_wait and so_signal, and the handler's return.
LEMMA CallIsOne ==
  ASSUME MaxThreads <= MaxSize, TypeOK, Exclusion, Places, Seen, Seen', NEW t \in Actor
  PROVE  /\ SoExec(t) => t \in Thread /\ Promise!Exec(t)
         /\ \A d \in Dev : SoWait(t, d) => t \in Thread /\ Promise!Sleep(t, d)
         /\ \A d \in Dev : SoSignal(t, d) => t \in Thread /\ Promise!Signal(t, d)
         /\ HandlerReturns(t) => t \in Thread /\ Promise!Return(t)
<1> Facts
  BY FactsHold
<1> USE DEF Facts
<1> DEFINE Begun(c) == /\ t \in Thread /\ pc[t] = "user" /\ pc' = [pc EXCEPT ![t] = c]
                       /\ UNCHANGED <<running, ready, prio, child>>
<1>1. ASSUME NEW c \in {"decrease", "check", "signal_loop"}, Begun(c)
      PROVE  /\ Promise!Called(t) /\ running = t
             /\ Forked' = Forked /\ Unqueued' = Unqueued
  <2>1. /\ AtUser(t) /\ Busy(t)'
        /\ \A u \in Actor : /\ pc'[u] = "none" <=> pc[u] = "none"
                            /\ Forking(u)' <=> Forking(u)
    BY <1>1 DEF AtUser, Busy, Forking
  <2>2. Promise!Called(t)
    BY <1>1, <2>1, CallBegins
  <2>3. running = t
    BY <1>1, <2>1 DEF Seen
  <2>4. QED
    BY <1>1, <2>1, <2>2, <2>3 DEF Forked, Unqueued
<1>2. UNCHANGED work_done => Gone' = Gone
  BY DEF Gone
<1> HIDE DEF Facts
<1>3. ASSUME SoExec(t) PROVE t \in Thread /\ Promise!Exec(t)
  <2>1. Begun("decrease") /\ UNCHANGED <<waiting, work_done, draining>>
    BY <1>3 DEF SoExec, MayCall, Enter, Goto, sched_vars, queue_vars, thread_vars, Facts
  <2>2. QED
    BY <1>1, <1>2, <2>1 DEF Promise!Exec
<1>4. ASSUME NEW d \in Dev, SoWait(t, d) PROVE t \in Thread /\ Promise!Sleep(t, d)
  <2>1. /\ Begun("decrease") /\ UNCHANGED <<work_done, draining>>
        /\ waiting' = [waiting EXCEPT ![d] = Enqueue(@, running)]
    BY <1>4 DEF SoWait, MayCall, Enter, Goto, sched_vars, Facts
  <2>2. ~on_wait[t] /\ running = t
    BY <1>1, <2>1 DEF Places, WaiterYields
  <2>3. waiting \in [Dev -> Seq(Actor)] /\ waiting[d] \in Seq(Actor)
    BY DEF Exclusion, Pointers
  <2>4. IsInjective(waiting[d]) /\ t \notin Range(waiting[d]) /\ Range(waiting[d]) \subseteq Thread
    BY <2>2 DEF Places, WaitPlaces
  <2>5. Enqueue(waiting[d], t) = Append(waiting[d], t)
    BY <2>1, <2>3, <2>4, EnqueueAppends
  <2>6. waiting' = [waiting EXCEPT ![d] = Append(@, t)]
    BY <2>1, <2>2, <2>5
  <2>7. QED
    BY <1>1, <1>2, <2>1, <2>6 DEF Promise!Sleep
<1>5. ASSUME NEW d \in Dev, SoSignal(t, d) PROVE t \in Thread /\ Promise!Signal(t, d)
  <2>1. Begun("signal_loop") /\ UNCHANGED <<waiting, work_done>> /\ draining' = d
    BY <1>5 DEF SoSignal, MayCall, Enter, Goto, sched_vars, queue_vars, thread_vars, Facts
  <2>2. QED
    BY <1>1, <1>2, <2>1 DEF Promise!Signal
<1>6. ASSUME HandlerReturns(t) PROVE t \in Thread /\ Promise!Return(t)
  <2>1. /\ Begun("check") /\ UNCHANGED <<waiting, draining>>
        /\ work_done' = [work_done EXCEPT ![t] = TRUE]
    BY <1>6 DEF HandlerReturns, Enter, Goto, sched_vars, queue_vars, local_vars, Facts
  <2>2. Gone' = Gone \cup {t}
    BY <2>1 DEF Gone, TypeOK, Actor
  <2>3. QED
    BY <1>1, <2>1, <2>2 DEF Promise!Return
<1>7. QED
  BY <1>3, <1>4, <1>5, <1>6

\* A pass of so_signal's loop.
LEMMA SignalIsOne ==
  ASSUME MaxThreads <= MaxSize, TypeOK, OneDrainer, Exclusion, Places, Seen, Seen',
         NEW t \in Actor, SignalLoop(t)
  PROVE  \E d \in Dev : Promise!Wake(d) \/ Promise!AllAwake(d)
<1> Facts
  BY FactsHold
<1> DEFINE w == waiting[draining]
           u == Head(w)
           r == ready[prio[u]]
<1>1. /\ pc[t] = "signal_loop" /\ pc' \in {pc, [pc EXCEPT ![t] = "decrease"]}
      /\ UNCHANGED <<running, prio, work_done, child>> /\ draining \in Dev
      /\ Busy(t) /\ ~Forking(t)
  BY DEF SignalLoop, Goto, sched_vars, OneDrainer, Busy, Forking
<1>2. Busy(t)' /\ ~Forking(t)' /\ \A v \in Actor : pc'[v] = "none" <=> pc[v] = "none"
  BY <1>1 DEF Busy, Forking, Facts
<1>3. running = t /\ Deciding = TRUE /\ Deciding' = TRUE /\ Executing' = Executing
  BY <1>1, <1>2 DEF Seen, Deciding, Busy
<1>4. Unqueued' = Unqueued /\ Forked' = Forked /\ Gone' = Gone
  BY <1>1, <1>2, <1>3 DEF Seen, Forked, Gone, Facts
<1>5. CASE w # <<>> /\ pc' = pc
  <2>1. /\ waiting' = [waiting EXCEPT ![draining] = Tail(@)] /\ UNCHANGED draining
        /\ ready' = [ready EXCEPT ![prio[u]] = Enqueue(@, u)]
    BY <1>5 DEF SignalLoop
  <2>2. waiting[draining] \in Seq(Actor)
    BY <1>1 DEF Exclusion, Pointers
  <2>3. u \in Range(w)
    BY <1>5, <2>2, DequeueRange
  <2>4. u \in Thread /\ on_wait[u]
    BY <1>1, <2>3 DEF Places, WaitPlaces
  <2>5. \A i \in Prio : u \notin Range(ready[i])
    BY <2>4 DEF Places, ReadyPlaces
  <2>6. /\ ready \in [Prio -> Seq(Actor)] /\ prio[u] \in Prio
        /\ IsInjective(r) /\ Range(r) \subseteq Thread
    BY <2>4 DEF TypeOK, Exclusion, Pointers, Facts, Places, ReadyPlaces
  <2>7. Enqueue(r, u) = Append(r, u)
    BY <2>4, <2>5, <2>6, EnqueueAppends
  <2>8. ready' = [ready EXCEPT ![prio[u]] = Append(@, u)]
    BY <2>1, <2>7
  <2>9. ready' = Promise!Queued(u)
    BY <2>4, <2>8 DEF Promise!Queued
  <2>10. Promise!Wake(draining)
    BY <1>1, <1>3, <1>4, <1>5, <2>1, <2>9 DEF Promise!Wake
  <2>11. QED
    BY <1>1, <2>10
<1>6. CASE w = <<>>
  <2>1. draining' = None /\ UNCHANGED <<ready, waiting>>
    BY <1>6 DEF SignalLoop, queue_vars
  <2>2. Promise!AllAwake(draining)
    BY <1>1, <1>3, <1>4, <1>6, <2>1 DEF Promise!AllAwake
  <2>3. QED
    BY <1>1, <2>2
<1>7. QED
  BY <1>5, <1>6 DEF SignalLoop

\* so_init and so_end.
LEMMA OpenAndClose ==
  ASSUME TypeOK, Accounting, Exclusion, Places, Seen, Seen', ~alive => running = None
  PROVE  /\ \A q \in Quanta, n \in Ios : SoInit(q, n) => Promise!Open
         /\ EndFree => Promise!Close
<1> Facts
  BY FactsHold
<1>1. ASSUME NEW q \in Quanta, NEW n \in Ios, SoInit(q, n) PROVE Promise!Open
  <2>1. /\ running = None /\ running' = Main /\ pc[Main] = "off"
        /\ pc' = [pc EXCEPT ![Main] = "user"]
        /\ UNCHANGED <<ready, waiting, prio, work_done, child, draining>>
    BY <1>1 DEF SoInit, Goto, queue_vars, local_vars
  <2>2. /\ \A t \in Actor : Forking(t)' <=> Forking(t)
        /\ \A t \in Actor : Busy(t)' <=> Busy(t)
        /\ \A t \in Thread : pc'[t] = pc[t]
    BY <2>1 DEF Forking, Busy, Facts
  <2>3. UNCHANGED <<Executing, Deciding, Forked, Gone, Unqueued>>
    BY <2>1, <2>2 DEF Executing, AtUser, Deciding, Busy, Forked, Gone, Unqueued
  <2>4. QED
    BY <2>1, <2>3 DEF Promise!Open
<1>2. ASSUME EndFree PROVE Promise!Close
  <2>1. /\ \A t \in Thread : pc'[t] = "none" /\ pc[t] \in {"none", "done"}
        /\ pc[Main] = "end_join" /\ pc'[Main] = "off"
    BY <1>2, NoneRemain, AllJoinedMeansAllDone DEF NothingLeft, EndFree
  <2>2. /\ running' = None /\ \A t \in Actor : ~work_done'[t] /\ prio'[t] = 0
        /\ ready' = [i \in Prio |-> <<>>] /\ waiting' = [d \in Dev |-> <<>>]
        /\ UNCHANGED draining
    BY <1>2 DEF EndFree
  <2>3. running # None
    BY <2>1, ConstantsAssumption DEF Accounting, MainLocal, Exclusion, Pointers
  <2>4. \A t \in Actor : ~Forking(t) /\ ~Forking(t)' /\ ~Busy(t) /\ ~Busy(t)'
    BY <2>1 DEF Forking, Busy, Facts
  <2>5. \A t \in Thread : ~AtUser(t) /\ ~AtUser(t)'
    BY <2>1 DEF AtUser
  <2>6. /\ Executing = {} /\ Executing' = {} /\ Deciding = FALSE /\ Deciding' = FALSE
        /\ Unqueued = {} /\ Unqueued' = {}
    BY <2>4, <2>5 DEF Executing, Deciding, Busy, Unqueued
  <2>7. Forked = Gone /\ Forked' = {} /\ Gone' = {}
    BY <2>1, <2>2 DEF Forked, Gone, Facts, Places, Returned, Ending
  <2>8. [t \in Thread |-> prio[t]]' = [t \in Thread |-> 0]
    BY <2>2 DEF Facts
  <2>9. QED
    BY <2>2, <2>3, <2>6, <2>7, <2>8 DEF Promise!Close
<1>3. QED
  BY <1>1, <1>2

\* A handler that goes on in the thread that has been chosen.
LEMMA ResumptionIsOne ==
  ASSUME TypeOK, Seen, Seen', NEW t \in Thread, ~AtUser(t), ~Busy(t), pc[t] # "none",
         running = t, ~on_wait[t], ~work_done[t], pc' = [pc EXCEPT ![t] = "user"],
         UNCHANGED <<running, ready, waiting, prio, work_done, child, draining>>
  PROVE  Promise!Resume
<1> Facts
  BY FactsHold
<1>1. AtUser(t)' /\ ~Busy(t)'
  BY DEF AtUser, Busy, Forking, Facts
<1>2. /\ Deciding = FALSE /\ Deciding' = FALSE
      /\ Executing = {} /\ Executing' = {t}
  BY <1>1 DEF Seen, Deciding, Facts
<1>3. Promise!Runnable(t)
  BY DEF Promise!Runnable, Seen, Gone, Facts
<1>4. \A u \in Actor : (pc'[u] = "none" <=> pc[u] = "none") /\ (Forking(u)' <=> Forking(u))
  BY DEF Forking, Busy, Facts
<1>5. Forked' = Forked /\ Gone' = Gone /\ Unqueued' = Unqueued
  BY <1>4 DEF Forked, Gone, Unqueued, Facts
<1>6. QED
  BY <1>2, <1>3, <1>5 DEF Promise!Resume

\* The other steps of an actor.
LEMMA InnerStep ==
  ASSUME TypeOK, Accounting, Exclusion, Places, Seen, Seen', NEW t \in Actor,
         \/ ForkPost(t) \/ ForkCreate(t) \/ DecreaseQuantum(t) \/ Preempted(t) \/ Broadcast(t)
         \/ WaitToRun(t) \/ SpuriousWakeup(t) \/ ThreadStart(t) \/ RecordTerminated(t)
         \/ SemWait(t) \/ SemGet(t) \/ SemPost(t)
  PROVE  Promise!Resume \/ UNCHANGED Promise!vars
<1> Facts
  BY FactsHold
<1> USE DEF sched_vars, queue_vars, thread_vars, sem_vars, local_vars, Goto, Facts
<1> DEFINE Hidden == UNCHANGED <<running, ready, waiting, prio, work_done, child, draining>>
           Same == /\ \A u \in Actor : /\ Busy(u)' <=> Busy(u)
                                       /\ Forking(u)' <=> Forking(u)
                                       /\ pc'[u] = "none" <=> pc[u] = "none"
                   /\ \A u \in Thread : AtUser(u)' <=> AtUser(u)
<1>1. Hidden
  BY DEF ForkPost, ForkCreate, DecreaseQuantum, Preempted, Broadcast, WaitToRun, SpuriousWakeup,
     ThreadStart, RecordTerminated, SemWait, SemGet, SemPost
<1>2. CASE ForkPost(t) \/ DecreaseQuantum(t) \/ SpuriousWakeup(t) \/ ThreadStart(t)
           \/ RecordTerminated(t) \/ SemWait(t) \/ SemGet(t) \/ SemPost(t)
  <2>1. Same
    BY <1>2 DEF ForkPost, DecreaseQuantum, SpuriousWakeup, ThreadStart, RecordTerminated, SemWait,
       SemGet, SemPost, Busy, Forking, AtUser
  <2>2. QED
    BY <1>1, <2>1, HiddenStep
<1>3. CASE ForkCreate(t)
  <2>1. /\ pc[t] = "fork_create" /\ child[t] \in Thread /\ pc[child[t]] = "unborn"
        /\ \/ pc' = [pc EXCEPT ![t] = "fork_enqueue", ![child[t]] = "start"]
           \/ pc' = [pc EXCEPT ![t] = "fork_enqueue"]
    BY <1>3 DEF ForkCreate, Accounting, Children, Creating
  <2>2. Same
    BY <2>1 DEF Busy, Forking, AtUser
  <2>3. QED
    BY <1>1, <2>2, HiddenStep
<1>4. CASE Broadcast(t)
  <2>1. t \in Thread => AfterBroadcast(t) # "user"
    BY DEF AfterBroadcast
  <2>2. Same
    BY <1>4, <2>1 DEF Broadcast, AfterBroadcast, Busy, Forking, AtUser
  <2>3. QED
    BY <1>1, <2>2, HiddenStep
<1>5. CASE Preempted(t) \/ WaitToRun(t)
  <2>1. /\ pc[t] \in {"preempted", "wait_to_run"}
        /\ \E l \in {"broadcast", "record", "user", "blocked"} : pc' = [pc EXCEPT ![t] = l]
        /\ pc'[t] = "user" => tid[running] = t /\ (pc[t] = "preempted" => op[t] # "exit")
    BY <1>5 DEF Preempted, AfterPreempted, WaitToRun
  <2>2. CASE t = Main \/ pc'[t] # "user"
    <3>1. Same
      BY <2>1, <2>2 DEF Busy, Forking, AtUser
    <3>2. QED
      BY <1>1, <3>1, HiddenStep
  <2>3. CASE t \in Thread /\ pc'[t] = "user"
    <3>1. alive /\ running \in Actor
      BY <2>1, AliveWhileActive DEF Exclusion, Pointers
    <3>2. running = t
      BY <2>1, <2>3, <3>1, ConstantsAssumption DEF Exclusion, Tids
    <3>3. ~on_wait[t]
      BY <2>1, <2>3, <3>2 DEF Places, WaiterYields
    <3>4. ~work_done[t]
      BY <2>1, <2>3 DEF Places, Returned, Ending
    <3>5. pc' = [pc EXCEPT ![t] = "user"] /\ ~AtUser(t) /\ ~Busy(t) /\ pc[t] # "none"
      BY <2>1, <2>3 DEF AtUser, Busy, Forking
    <3>6. QED
      BY <1>1, <2>3, <3>2, <3>3, <3>4, <3>5, ResumptionIsOne
  <2>4. QED
    BY <2>2, <2>3
<1>6. QED
  BY <1>2, <1>3, <1>4, <1>5

\* Every step is the processor's, or one it does not see.
LEMMA StepIsOne ==
  ASSUME MaxThreads <= MaxSize, MainForks <= 1, TypeOK, OneDrainer, Accounting, Exclusion,
         Places, Seen, Seen', ~alive => running = None, ~Dead', [Next]_vars
  PROVE  [Promise!Next]_(Promise!vars)
<1> Facts
  BY FactsHold
<1>d. [DefinedStep]_vars
  BY DefinedUnlessDead
<1>1. ASSUME NEW t \in Actor, LibraryStep(t) \/ SpuriousWakeup(t)
      PROVE  Promise!Next \/ UNCHANGED Promise!vars
  <2>1. CASE ForkEnqueue(t)
    <3>1. child[t] \in Thread
      BY <2>1 DEF ForkEnqueue, Exclusion, Pointers
    <3>2. QED
      BY <2>1, <3>1, AdmissionIsOne DEF Promise!Next
  <2>2. CASE SignalLoop(t)
    BY <2>2, SignalIsOne DEF Promise!Next
  <2>3. CASE CheckScheduler(t)
    BY <2>3, DecisionIsOne DEF Promise!Next
  <2>4. QED
    BY <1>1, <2>1, <2>2, <2>3, InnerStep DEF LibraryStep, Promise!Next
<1>2. ASSUME NEW t \in Actor, ClientStep(t) PROVE Promise!Next
  <2>1. ASSUME NEW u \in Thread, NEW p \in Prio, SoFork(t, u, p) PROVE Promise!Next
    BY <2>1, ForkIsOne DEF Promise!Next
  <2>2. CASE SoExec(t) \/ (\E d \in Dev : SoWait(t, d) \/ SoSignal(t, d)) \/ HandlerReturns(t)
    BY <2>2, CallIsOne DEF Promise!Next
  <2>3. QED
    BY <1>2, <2>1, <2>2 DEF ClientStep
<1>3. ASSUME SoEnd \/ EndWait \/ EndJoin PROVE UNCHANGED Promise!vars
  <2>1. UNCHANGED <<running, ready, waiting, prio, work_done, child, draining>>
    BY <1>3 DEF SoEnd, EndWait, EndJoin, sched_vars, queue_vars, thread_vars, local_vars
  <2>2. \A u \in Actor : u # Main => pc'[u] = pc[u]
    BY <1>3, JoinsOrDies DEF SoEnd, EndWait, Goto, Facts
  <2>3. /\ pc[Main] \in {"user", "end_wait", "end_join"}
        /\ pc'[Main] \in {"end_wait", "end_join"}
    BY <1>3, JoinsOrDies DEF SoEnd, EndWait, EndJoin, Goto, Facts
  <2>4. \A u \in Actor : /\ Busy(u)' <=> Busy(u)
                         /\ Forking(u)' <=> Forking(u)
                         /\ pc'[u] = "none" <=> pc[u] = "none"
    BY <2>2, <2>3 DEF Busy, Forking
  <2>5. \A u \in Thread : AtUser(u)' <=> AtUser(u)
    BY <2>2 DEF AtUser, Facts
  <2>6. QED
    BY <2>1, <2>4, <2>5, HiddenStep
<1>4. (\E q \in Quanta, n \in Ios : SoInit(q, n)) \/ EndFree => Promise!Next
  BY OpenAndClose DEF Promise!Next
<1>5. UNCHANGED vars => UNCHANGED Promise!vars
  <2>1. UNCHANGED vars => UNCHANGED <<Executing, Deciding, Forked, Gone, Unqueued>>
    BY DEF vars, thread_vars, local_vars, Executing, AtUser, Deciding, Forking, Forked, Gone,
       Unqueued
  <2>2. QED
    BY <2>1 DEF vars, sched_vars, queue_vars, thread_vars, local_vars, Promise!vars
<1>6. QED
  BY <1>1, <1>2, <1>3, <1>4, <1>5, <1>d DEF DefinedStep, EndStep

\* Without a scheduler there is no running thread, and Main has not forked.
Vacant == ~alive => running = None /\ calls[Main] = 0

\* A call needs a scheduler.
LEMMA StepVacant ==
  ASSUME TypeOK, Accounting, Vacant, [Next]_vars
  PROVE  Vacant'
<1> USE DEF sched_vars, local_vars, Vacant
<1>1. ASSUME NEW t \in Actor, LibraryStep(t), ~CheckScheduler(t) PROVE Vacant'
  BY <1>1 DEF LibraryStep, ForkPost, ForkCreate, ForkEnqueue, SignalLoop, DecreaseQuantum,
     Preempted, Broadcast, WaitToRun, ThreadStart, RecordTerminated, SemWait, SemGet, SemPost
<1>2. ASSUME NEW t \in Actor, CheckScheduler(t) PROVE Vacant'
  BY <1>2, AliveWhileActive DEF CheckScheduler
<1>3. ASSUME NEW t \in Actor, ClientStep(t) \/ SpuriousWakeup(t) PROVE Vacant'
  <2>1. alive /\ UNCHANGED alive
    BY <1>3, AliveWhileActive DEF ClientStep, SpuriousWakeup, SoFork, SoExec, SoWait, SoSignal,
       HandlerReturns, MayCall
  <2>2. QED
    BY <2>1
<1>4. ASSUME NEW q \in Quanta, NEW n \in Ios, SoInit(q, n) PROVE Vacant'
  BY <1>4 DEF SoInit
<1>5. CASE EndStep
  BY <1>5, ConstantsAssumption DEF EndStep, SoEnd, EndWait, EndJoin, EndFree, Actor
<1>6. ASSUME NEW t \in Actor, Overflow(t) \/ UseFreed(t) PROVE Vacant'
  BY <1>6 DEF Overflow, UseFreed
<1>7. CASE UNCHANGED vars
  BY <1>7 DEF vars
<1>8. QED
  BY <1>1, <1>2, <1>3, <1>4, <1>5, <1>6, <1>7 DEF Next, DefinedStep

\* The library implements the processor: for every number of threads, priorities and
\* devices, every client that waits only when another thread is ready, every time
\* quantum and every schedule of the pthreads, what the handlers see is one processor
\* that is handed over by priority.
THEOREM OneProcessor ==
  ASSUME MainForks <= 1, ~SoloWait, MaxThreads <= MaxSize
  PROVE  Spec => ImplementsProcessor
<1>1. Init => Promise!Init
  <2> SUFFICES ASSUME Init PROVE Promise!Init
    OBVIOUS
  <2>1. \A t \in Actor : ~Busy(t) /\ ~Forking(t) /\ ~work_done[t] /\ prio[t] = 0
    BY DEF Init, Busy, Forking
  <2>2. \A t \in Thread : pc[t] = "none"
    BY ConstantsAssumption DEF Init, Actor
  <2>3. Executing = {} /\ Deciding = FALSE /\ Forked = {} /\ Gone = {} /\ Unqueued = {}
    BY <2>1, <2>2 DEF Executing, AtUser, Deciding, Busy, Forked, Gone, Unqueued, Actor
  <2>4. [t \in Thread |-> prio[t]] = [t \in Thread |-> 0]
    BY <2>1 DEF Actor
  <2>5. QED
    BY <2>3, <2>4 DEF Init, Promise!Init
<1>2. Init => Kept /\ Vacant
  BY ConstantsAssumption DEF Init, Kept, Admitted, Vacant, Actor, Thread
<1>3. Books /\ Places /\ Kept /\ Vacant /\ [Next]_vars /\ ~Overflown'
        => (Kept /\ Vacant)' /\ ~Dead'
  BY StepBooks, StepKept, StepVacant DEF Books
<1>4. TypeOK /\ Exclusion /\ Places /\ Kept => Seen
  BY SeenHolds
<1>5. TypeOK /\ OneDrainer /\ Accounting /\ Exclusion /\ Places /\ Vacant /\ Seen /\ Seen'
        /\ ~Dead' /\ [Next]_vars => [Promise!Next]_(Promise!vars)
  BY StepIsOne DEF Vacant
<1>6. QED
  BY Placed, RoomForAll, <1>1, <1>2, <1>3, <1>4, <1>5, PTL
     DEF Books, Spec, ImplementsProcessor, Promise!Spec

-----------------------------------------------------------------------------
\* so_end's wait.

\* While so_end waits and no live thread is counted, all_threads_terminated is
\* posted, or its post is on its way.
Posted ==
  pc[Main] = "end_wait" /\ not_term = 0 =>
    all_term > 0 \/ \E t \in Actor : pc[t] \in {"sem_get", "sem_post"}

\* The thread that takes the count to zero, or one that comes after it, posts.
LEMMA StepPosted == TypeOK /\ Accounting /\ Posted /\ [Next]_vars => Dead' \/ Posted'
<1> SUFFICES ASSUME TypeOK, Accounting, Posted, [Next]_vars, ~Dead',
                    pc'[Main] = "end_wait", not_term' = 0, ~(all_term' > 0)
             PROVE  \E t \in Actor : pc'[t] \in {"sem_get", "sem_post"}
  BY DEF Posted
<1> Facts
  BY FactsHold
<1>d. [DefinedStep]_vars
  BY DefinedUnlessDead
<1> not_term \in Nat /\ all_term \in Nat
  BY DEF TypeOK
<1> USE DEF sched_vars, queue_vars, thread_vars, sem_vars, local_vars, Goto, Enter, Facts
<1>1. CASE SoEnd
  BY <1>1 DEF SoEnd
<1>2. CASE EndWait \/ EndFree
  BY <1>2 DEF EndWait, EndFree
<1>3. CASE EndJoin
  BY <1>3, JoinsOrDies DEF EndJoin
<1>4. ASSUME NEW q \in Quanta, NEW n \in Ios, SoInit(q, n) PROVE FALSE
  BY <1>4 DEF SoInit
<1>5. ASSUME NEW t \in Actor, SemWait(t) PROVE pc'[t] = "sem_get"
  BY <1>5 DEF SemWait
<1>6. ASSUME NEW t \in Actor, SemGet(t) PROVE pc'[t] = "sem_post"
  BY <1>6 DEF SemGet, IsLast
<1>7. ASSUME NEW t \in Actor, SemPost(t) \/ ForkPost(t) PROVE FALSE
  BY <1>7 DEF SemPost, ForkPost
<1>8. ASSUME UNCHANGED <<not_term, all_term>>, pc[Main] = "end_wait",
             \A u \in Actor : pc[u] \in {"sem_get", "sem_post"} => pc'[u] = pc[u]
      PROVE  \E t \in Actor : pc'[t] \in {"sem_get", "sem_post"}
  BY <1>8 DEF Posted
<1>9. ASSUME NEW t \in Actor, NEW u \in Thread, NEW p \in Prio, SoFork(t, u, p)
      PROVE  \E v \in Actor : pc'[v] \in {"sem_get", "sem_post"}
  BY <1>8, <1>9 DEF SoFork, MayCall, Accounting, Created, Thread
<1>10. ASSUME NEW t \in Actor, ForkCreate(t)
       PROVE  \E v \in Actor : pc'[v] \in {"sem_get", "sem_post"}
  <2>1. /\ pc[t] = "fork_create" /\ child[t] \in Thread /\ pc[child[t]] = "unborn"
        /\ \/ pc' = [pc EXCEPT ![t] = "fork_enqueue", ![child[t]] = "start"]
           \/ pc' = [pc EXCEPT ![t] = "fork_enqueue"]
        /\ UNCHANGED <<not_term, all_term>>
    BY <1>10 DEF ForkCreate, Accounting, Children, Creating
  <2>2. QED
    BY <1>8, <2>1
<1>11. ASSUME NEW t \in Actor,
              \/ ForkEnqueue(t) \/ SignalLoop(t) \/ DecreaseQuantum(t) \/ CheckScheduler(t)
              \/ Preempted(t) \/ Broadcast(t) \/ WaitToRun(t) \/ ThreadStart(t)
              \/ RecordTerminated(t) \/ SpuriousWakeup(t)
       PROVE  \E v \in Actor : pc'[v] \in {"sem_get", "sem_post"}
  BY <1>8, <1>11 DEF ForkEnqueue, SignalLoop, DecreaseQuantum, CheckScheduler, Preempted,
     AfterPreempted, Broadcast, AfterBroadcast, WaitToRun, ThreadStart, RecordTerminated,
     SpuriousWakeup
<1>12. ASSUME NEW t \in Actor,
              \/ SoExec(t) \/ (\E d \in Dev : SoWait(t, d) \/ SoSignal(t, d))
              \/ HandlerReturns(t)
       PROVE  \E v \in Actor : pc'[v] \in {"sem_get", "sem_post"}
  BY <1>8, <1>12 DEF SoExec, SoWait, SoSignal, HandlerReturns, MayCall
<1>13. CASE UNCHANGED vars
  BY <1>8, <1>13 DEF vars
<1>14. QED
  BY <1>1, <1>2, <1>3, <1>4, <1>5, <1>6, <1>7, <1>9, <1>10, <1>11, <1>12, <1>13,
     <1>d DEF DefinedStep, LibraryStep, ClientStep, EndStep

\* Main hands over at the decision of its so_fork: its thread is ready.
MainYields ==
  running = Main /\ calls[Main] # 0 =>
    \/ Forking(Main)
    \/ pc[Main] \in {"decrease", "check"} /\ \E i \in Prio : ready[i] # <<>>

\* Main's thread stays ready until the decision, which then cannot be for Main.
LEMMA StepMainYields ==
  ASSUME MainForks <= 1, TypeOK, OneDrainer, Accounting, Exclusion, Places, Vacant, MainYields,
         [Next]_vars, ~Dead'
  PROVE  MainYields'
<1> Facts
  BY FactsHold
<1>d. [DefinedStep]_vars
  BY DefinedUnlessDead
<1> USE DEF sched_vars, queue_vars, thread_vars, sem_vars, local_vars, Goto, Enter, Facts
<1>a. calls \in [Actor -> Nat] /\ ready \in [Prio -> Seq(Actor)]
  BY DEF TypeOK, Exclusion, Pointers
<1>b. \A t \in Actor : Acting(t) => running = t
  BY DEF Exclusion, Token
<1>1. ASSUME NEW t \in Actor, NEW u \in Thread, NEW p \in Prio, SoFork(t, u, p)
      PROVE  MainYields'
  <2>1. /\ pc[t] = "user" /\ t # u /\ u # Main /\ u \in Actor
        /\ pc' = [pc EXCEPT ![t] = "fork_post", ![u] = "unborn"]
        /\ UNCHANGED running /\ (t = Main => calls[Main] < MainForks)
    BY <1>1 DEF SoFork, MayCall, Accounting, Created, Thread
  <2>2. Acting(t)
    BY <1>a, <2>1, ConstantsAssumption DEF Acting
  <2>3. CASE t = Main
    BY <2>1, <2>3 DEF MainYields, Forking
  <2>4. CASE t # Main
    BY <1>b, <2>1, <2>2, <2>4 DEF MainYields
  <2>5. QED
    BY <2>3, <2>4
<1>2. ASSUME NEW t \in Actor, ForkEnqueue(t) PROVE MainYields'
  <2> DEFINE u == child[t]
             r == ready[prio[u]]
  <2>1. /\ ready' = [ready EXCEPT ![prio[u]] = Enqueue(@, u)] /\ UNCHANGED running
        /\ pc'[t] = "decrease" /\ running = t
    BY <1>2, <1>b DEF ForkEnqueue, Acting
  <2>2. u \in Thread /\ prio[u] \in Prio
    BY <1>2 DEF ForkEnqueue, Exclusion, Pointers, TypeOK
  <2>3. r \in Seq(Actor) /\ u \in Actor
    BY <1>a, <2>2
  <2>4. Enqueue(r, u) # <<>>
    BY <2>3, EnqueueRange
  <2>5. ready'[prio[u]] # <<>>
    BY <1>a, <2>1, <2>2, <2>4
  <2>6. QED
    BY <2>1, <2>2, <2>5 DEF MainYields
<1>3. ASSUME NEW t \in Actor, SignalLoop(t) PROVE MainYields'
  <2>1. UNCHANGED running /\ running = t /\ pc[t] = "signal_loop"
    BY <1>3, <1>b DEF SignalLoop, Acting
  <2>2. t # Main
    BY <2>1 DEF Accounting, MainLocal
  <2>3. QED
    BY <2>1, <2>2 DEF MainYields
<1>4. ASSUME NEW t \in Actor, CheckScheduler(t) PROVE MainYields'
  <2>1. /\ running = t /\ alive /\ UNCHANGED calls /\ pc[t] = "check"
        /\ \/ running' = t /\ (Yields => \A i \in Prio : ready[i] = <<>>)
           \/ running' \in Thread
    BY <1>4, Decision DEF Places, CheckScheduler
  <2>2. CASE running' = Main /\ calls[Main] # 0
    <3>1. t = Main /\ Yields
      BY <2>1, <2>2 DEF Yields, Places, Chosen
    <3>2. QED
      BY <2>1, <2>2, <3>1 DEF MainYields, Forking
  <2>3. QED
    BY <2>1, <2>2 DEF MainYields
<1>5. ASSUME NEW t \in Actor, DecreaseQuantum(t) PROVE MainYields'
  <2>1. /\ UNCHANGED <<running, calls, ready>> /\ running = t /\ pc[t] = "decrease"
        /\ pc'[t] = "check"
    BY <1>5, <1>b DEF DecreaseQuantum, Acting
  <2>2. QED
    BY <2>1 DEF MainYields, Forking
<1>6. ASSUME UNCHANGED <<running, ready>>, calls'[Main] = calls[Main],
             Forking(Main) => Forking(Main)',
             pc[Main] \in {"decrease", "check"} => pc'[Main] = pc[Main]
      PROVE  MainYields'
  BY <1>6 DEF MainYields
<1>7. ASSUME NEW t \in Actor, ForkCreate(t) PROVE MainYields'
  <2>1. /\ pc[t] = "fork_create" /\ child[t] \in Thread
        /\ \/ pc' = [pc EXCEPT ![t] = "fork_enqueue", ![child[t]] = "start"]
           \/ pc' = [pc EXCEPT ![t] = "fork_enqueue"]
        /\ UNCHANGED <<running, ready, calls>>
    BY <1>7 DEF ForkCreate, Accounting, Children, Creating
  <2>2. QED
    BY <1>6, <2>1 DEF Forking
<1>8. ASSUME NEW t \in Actor,
             \/ ForkPost(t) \/ Preempted(t) \/ Broadcast(t) \/ WaitToRun(t) \/ ThreadStart(t)
             \/ RecordTerminated(t) \/ SemWait(t) \/ SemGet(t) \/ SemPost(t) \/ SpuriousWakeup(t)
      PROVE  MainYields'
  BY <1>6, <1>8 DEF ForkPost, Preempted, Broadcast, WaitToRun, ThreadStart, RecordTerminated,
     SemWait, SemGet, SemPost, SpuriousWakeup, Forking
<1>9. ASSUME NEW t \in Actor,
             \/ SoExec(t) \/ (\E d \in Dev : SoWait(t, d) \/ SoSignal(t, d)) \/ HandlerReturns(t)
      PROVE  MainYields'
  <2>1. t # Main /\ calls'[Main] = calls[Main]
    BY <1>a, <1>9 DEF SoExec, SoWait, SoSignal, HandlerReturns, MayCall
  <2>2. QED
    BY <1>6, <1>9, <2>1 DEF SoExec, SoWait, SoSignal, HandlerReturns, Forking
<1>10. CASE SoEnd \/ EndWait \/ EndJoin
  BY <1>6, <1>10, JoinsOrDies DEF SoEnd, EndWait, EndJoin, Forking
<1>11. CASE EndFree
  BY <1>11, ConstantsAssumption DEF EndFree, MainYields
<1>12. ASSUME NEW q \in Quanta, NEW n \in Ios, SoInit(q, n) PROVE MainYields'
  BY <1>12 DEF SoInit, Vacant, MainYields
<1>13. CASE UNCHANGED vars
  BY <1>6, <1>13 DEF vars, Forking
<1>14. QED
  BY <1>1, <1>2, <1>3, <1>4, <1>5, <1>7, <1>8, <1>9, <1>10, <1>11, <1>12, <1>13,
     <1>d DEF DefinedStep, LibraryStep, ClientStep, EndStep

\* so_end never waits for ever on threads that wait for one another: when Main is in
\* so_end, its semaphore is not posted and no thread can move, then some thread is
\* left and all that are left wait on devices, for every number of threads up to the
\* slots of a queue and every client that waits only when another thread is ready.
THEOREM OnlyDevicesHang ==
  ASSUME MainForks <= 1, ~SoloWait, ~CreateMayFail, MaxThreads <= MaxSize
  PROVE  Spec => []HangsOnlyOnDevice
<1> DEFINE Awake == Born /\ Started /\ NoLostWakeup
           Yielding == Kept /\ Vacant /\ Posted /\ MainYields
<1>1. Init => Awake /\ Yielding
  BY ConstantsAssumption
     DEF Init, Born, Started, NoLostWakeup, Kept, Admitted, Vacant, Posted, MainYields, Actor,
         Thread
<1>2. Books /\ Places /\ Awake /\ Yielding /\ [Next]_vars /\ ~Overflown' => (Awake /\ Yielding)'
  <2> SUFFICES ASSUME Books, Places, Awake, Yielding, [Next]_vars, ~Overflown'
               PROVE  (Awake /\ Yielding)'
    OBVIOUS
  <2> USE DEF Books
  <2>1. ~Dead'
    BY StepBooks
  <2>2. Born' /\ Started' /\ NoLostWakeup'
    BY <2>1, StepBorn, StepStarted, StepAwake
  <2>3. Kept'
    BY <2>1, StepKept
  <2>4. Vacant' /\ Posted' /\ MainYields'
    BY <2>1, StepVacant, StepPosted, StepMainYields
  <2>5. QED
    BY <2>2, <2>3, <2>4
<1>3. Books /\ Places /\ Idle /\ Awake /\ Yielding => HangsOnlyOnDevice
  <2> SUFFICES ASSUME Books, Places, Idle, Awake, Yielding,
                      pc[Main] = "end_wait", all_term = 0, \A t \in Thread : Stuck(t)
               PROVE  /\ \E t \in Thread : on_wait[t]
                      /\ \A t \in Thread : pc[t] \notin {"none", "done"} => on_wait[t]
    BY DEF HangsOnlyOnDevice
  <2> USE DEF Books
  <2> Facts
    BY FactsHold
  <2>1. ASSUME NEW t \in Thread, Counts(t) PROVE not_term # 0
    <3>1. Counted # {}
      BY <2>1 DEF Counted
    <3>2. QED
      BY <3>1, CountedFinite, FS_EmptySet DEF Finishing
  <2>2. \A f \in Actor : ~Forking(f)
    BY DEF Stuck, Forking, Facts
  <2>3. ASSUME NEW t \in Thread PROVE pc[t] \in {"none", "blocked", "done"}
    <3>1. pc[t] # "unborn"
      BY <2>2 DEF Born, Creating, Forking
    <3>2. CASE pc[t] = "sem_wait"
      BY <2>1, <2>2, <3>2 DEF Counts, Forking, Stuck
    <3>3. QED
      BY <3>1, <3>2 DEF Stuck
  <2>4. PICK b \in Thread : pc[b] = "blocked"
    <3>1. not_term # 0
      BY <2>3 DEF Posted, Facts
    <3>2. Counted # {}
      BY <3>1, CountedFinite, FS_EmptySet DEF Finishing
    <3>3. PICK t \in Thread : Counts(t)
      BY <3>2 DEF Counted
    <3>4. QED
      BY <2>3, <3>3 DEF Counts
  <2>5. running \in Actor /\ alive
    BY DEF Accounting, MainLocal, Exclusion, Pointers
  <2>6. running # Main
    <3>1. calls[Main] # 0
      BY <2>4 DEF Finishing, OneRoot
    <3>2. QED
      BY <2>2, <3>1 DEF MainYields, Facts
  <2>7. running \in Thread /\ pc[running] = "done"
    BY <2>3, <2>5, <2>6 DEF NoLostWakeup, Places, Chosen, Facts
  <2>8. \A i \in Prio : ready[i] = <<>>
    BY <2>7 DEF Idle, Places, Returned, Ending
  <2>9. ASSUME NEW t \in Thread, pc[t] = "blocked" PROVE on_wait[t]
    <3>1. Admitted(t) /\ running # t
      BY <2>2, <2>7, <2>9 DEF Admitted, Places, Returned, Ending
    <3>2. prio[t] \in Prio
      BY DEF TypeOK, Actor
    <3>3. t \notin Range(ready[prio[t]])
      BY <2>8, <3>2 DEF Range
    <3>4. QED
      BY <3>1, <3>3 DEF Kept
  <2>10. QED
    BY <2>3, <2>4, <2>9
<1>4. QED
  BY Decided, RoomForAll, <1>1, <1>2, <1>3, PTL DEF Spec
===============================================================================
