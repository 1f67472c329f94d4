------------------------------- MODULE Processor -------------------------------
(***************************************************************************)
(* One processor that threads share by priority: what so_scheduler.h       *)
(* promises, without the pthreads, mutex, condition variable and semaphores*)
(* that bring it about.  A thread keeps the processor until it makes a call*)
(* or returns; the call does its work, and a decision ends it.  When a time*)
(* slice is over is left open.                                             *)
(***************************************************************************)
EXTENDS Integers, Sequences, Functions

CONSTANTS Thread, Main, None, Prio, Dev

VARIABLES
  holder,     \* who has the processor: a thread, Main before the first decision, or None
  executing,  \* {holder} while its handler executes
  deciding,   \* a call is under way
  born, gone, \* the threads that were forked, and those that have returned
  newborn,    \* the forked thread that is not queued yet, if there is one
  signalled,  \* the device whose threads are being woken
  prio, ready, asleep

vars == <<holder, executing, deciding, born, gone, newborn, signalled, prio, ready, asleep>>

Init ==
  /\ holder = None /\ executing = {} /\ deciding = FALSE
  /\ born = {} /\ gone = {} /\ newborn = {} /\ signalled = None
  /\ prio = [t \in Thread |-> 0]
  /\ ready = [i \in Prio |-> <<>>] /\ asleep = [d \in Dev |-> <<>>]

Sleeps(t) == \E d \in Dev : t \in Range(asleep[d])
Runnable(t) == t \in Thread \ gone /\ ~Sleeps(t)

Open == /\ holder = None /\ holder' = Main
        /\ UNCHANGED <<executing, deciding, born, gone, newborn, signalled, prio, ready, asleep>>

\* The holder's handler goes on.
Resume ==
  /\ ~deciding /\ executing = {} /\ Runnable(holder)
  /\ executing' = {holder}
  /\ UNCHANGED <<holder, deciding, born, gone, newborn, signalled, prio, ready, asleep>>

-----------------------------------------------------------------------------
\* The calls of the handler that executes.  Main only forks.
Called(t) == /\ holder = t /\ executing = {t} /\ executing' = {}
             /\ ~deciding /\ deciding' = TRUE

Fork(t, p) ==
  /\ \/ holder = Main /\ ~deciding /\ executing = {} /\ UNCHANGED executing /\ deciding' = TRUE
     \/ Called(holder)
  /\ t \notin born /\ born' = born \cup {t}
  /\ newborn' = {t} /\ prio' = [prio EXCEPT ![t] = p]
  /\ UNCHANGED <<holder, gone, signalled, ready, asleep>>

Exec(t) == /\ Called(t)
           /\ UNCHANGED <<holder, born, gone, newborn, signalled, prio, ready, asleep>>

Sleep(t, d) == /\ Called(t) /\ asleep' = [asleep EXCEPT ![d] = Append(@, t)]
               /\ UNCHANGED <<holder, born, gone, newborn, signalled, prio, ready>>

Signal(t, d) == /\ Called(t) /\ signalled' = d
                /\ UNCHANGED <<holder, born, gone, newborn, prio, ready, asleep>>

Return(t) == /\ Called(t) /\ gone' = gone \cup {t}
             /\ UNCHANGED <<holder, born, newborn, signalled, prio, ready, asleep>>

-----------------------------------------------------------------------------
\* What the calls do.
Queued(t) == [ready EXCEPT ![prio[t]] = Append(@, t)]

Admit(t) == /\ deciding /\ newborn = {t} /\ newborn' = {}
            /\ ready' = Queued(t)
            /\ UNCHANGED <<holder, executing, deciding, born, gone, signalled, prio, asleep>>

Wake(d) == /\ deciding /\ signalled = d /\ asleep[d] # <<>>
           /\ ready' = Queued(Head(asleep[d]))
           /\ asleep' = [asleep EXCEPT ![d] = Tail(@)]
           /\ UNCHANGED <<holder, executing, deciding, born, gone, newborn, signalled, prio>>

AllAwake(d) == /\ deciding /\ signalled = d /\ asleep[d] = <<>> /\ signalled' = None
               /\ UNCHANGED <<holder, executing, deciding, born, gone, newborn, prio, ready,
                              asleep>>

\* The holder, if it can run, goes to the end of its queue, and the first
\* thread of the highest queue takes over.
Switch ==
  LET q == IF Runnable(holder) THEN Queued(holder) ELSE ready
  IN  \E i \in Prio :
        /\ q[i] # <<>> /\ \A j \in Prio : j > i => q[j] = <<>>
        /\ holder' = Head(q[i]) /\ ready' = [q EXCEPT ![i] = Tail(@)]

\* It may stay as long as nobody ready has a higher priority; one that has
\* returned stays only when nobody is ready, one that sleeps never.
Stay ==
  /\ UNCHANGED <<holder, ready>>
  /\ \A i \in Prio : ready[i] = <<>> \/ (Runnable(holder) /\ i <= prio[holder])
  /\ ~Sleeps(holder)

Decide == /\ deciding /\ newborn = {} /\ signalled = None /\ deciding' = FALSE
          /\ Switch \/ Stay
          /\ UNCHANGED <<executing, born, gone, newborn, signalled, prio, asleep>>

\* so_end: every thread has returned.
Close ==
  /\ holder # None /\ ~deciding /\ executing = {} /\ born = gone
  /\ holder' = None /\ born' = {} /\ gone' = {} /\ prio' = [t \in Thread |-> 0]
  /\ ready' = [i \in Prio |-> <<>>] /\ asleep' = [d \in Dev |-> <<>>]
  /\ UNCHANGED <<executing, deciding, newborn, signalled>>

Next ==
  \/ Open \/ Resume \/ Decide \/ Close
  \/ \E t \in Thread :
       \/ Exec(t) \/ Return(t) \/ Admit(t)
       \/ \E p \in Prio : Fork(t, p)
       \/ \E d \in Dev : Sleep(t, d) \/ Signal(t, d)
  \/ \E d \in Dev : Wake(d) \/ AllAwake(d)

Spec == Init /\ [][Next]_vars
================================================================================
