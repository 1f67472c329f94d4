# TLA+ models of the OS assignments

The repository holds five operating-systems assignments (`src/assignments/1-multi` … `5-aws`).
Three of them contain program logic of their own: the thread scheduler of `4-scheduler`, the
on-demand ELF loader of `3-loader` and the event-driven servers of `5-aws`. This directory models
all three.

Contents: [Inventory](#inventory) · [Modules](#modules) · [Scheduler](#the-scheduler-model) ·
[Loader](#the-loader-model) · [epoll server](#the-epoll-server) · [IOCP server](#the-iocp-server) ·
[Properties](#properties) · [Runs](#runs) · [Divergences](#where-the-code-and-its-documents-disagree) ·
[Proofs](#proofs) · [Not modelled](#what-is-not-modelled)

## Inventory

| component | files | state | operations | interacts by | hard behaviour |
|---|---|---|---|---|---|
| **thread scheduler** | `4-scheduler/util/so_scheduler.c`, `types.h`, `so_scheduler.h` | `sch` (running thread, quantum, 6 priority queues, 256 device queues, terminated threads), `main_thread_running`, one mutex, one condition variable, two semaphores | `so_init`, `so_fork`, `so_wait`, `so_signal`, `so_exec`, `so_end`, `thread_function` | every so_fork creates a pthread; threads meet in the mutex, the condition variable and the semaphores | interleavings of critical sections, lost and spurious wakeups, termination counting, freed threads, lonely waits, failing `pthread_create`, full queues and arrays |
| **circular queue** | `circular_queue.c`, `types.h` | `elem[MAX_SIZE]`, `front`, `rear`, `no_elem` | `init_queue`, `enqueue`, `dequeue`, `front`, `rear` | called under the scheduler's mutex | wrap-around, full, empty ↔ one element |
| **scheduler tests** | `4-scheduler/checker-*/_test` | — | 22 client programs | call the API | what the client may do (below) |
| **ELF loader** | `3-loader/skel-lin/loader/loader.c`, with the ELF half of `exec_parser.c` and the checker's `run_test.c` | `exec`, `mapped_pages`, SIGSEGV disposition; the process' mappings | `so_init_loader`, `so_execute` (parse, `fix_auxv`, jump), `handler` | the kernel delivers page faults of the loaded program | partial pages, `.bss`, permissions, second fault on a mapped page, failing `open` and `mmap` |
| PE parser, Windows loader | `skel-win` | — | every function is a TODO | | |
| **epoll echo server** | `5-aws/util/lin/samples/epoll_echo_server.c`, `w_epoll.h` | connections, epoll interest set | accept, receive, send handlers | kernel events | events for freed connections, partial send, overwritten buffer, SIGPIPE |
| **IOCP echo server** | `5-aws/util/win/samples/iocp_echo_server.c` | pending accept, connections, overlapped operations | completion handlers | kernel completions in any order | lost accept, completion of a removed connection |
| http_reply_once, http-parser, so_stdio.h, hooks, 1-multi, scripts | | | | | samples without state, vendored code, an API without implementation, test inputs |

What makes each correct: *scheduler* — one handler at a time, the highest ready priority, round
robin by quantum, no thread lost or duplicated, waits end by signals only, every ready thread runs,
`so_end` returns when and only when all threads are over. *Queue* — a bounded FIFO. *Loader* — a
page reads as the file's bytes up to `file_size` and zero up to `mem_size`, has its segment's
permissions, and is mapped once; any other fault kills the program. *Servers* — what is echoed is
what was received, once and in order; no handler uses a connection after its removal; a server that
is up keeps accepting; no client takes the service from the others.

The hazards, each with its line and the properties aimed at it, are listed in `PROJECT.json`.

## Modules

| modules | content |
|---|---|
| `BoundedFifo`, `CircularQueue`, `MCCircularQueue`, `CircularQueueProofs` | ring buffer ⇒ bounded FIFO, run and proof |
| `Processor`, `Scheduler`, `SchedulerProps`, `MCScheduler` | the scheduler, all calls, all threads ⇒ one processor shared by priority |
| `SchedulerProofs`, `PlacesProofs`, `ProcessorProofs` | types, accounting, wakeups, mutual exclusion, `so_end`; queues, decisions, quanta; the refinement, nobody hangs on another thread |
| `Elf`, `ElfImage`, `Loader`, `MCLoader`, `LoaderProofs` | demand paging ⇒ the image of the file, run and proof |
| `EchoService`, `EchoQueues` | what both servers promise; lemmas about queues joined to a line |
| `EpollEcho`, `EpollProofs` | event loop, kernel queues, clients ⇒ the echo service |
| `IocpEcho`, `IocpProofs` | completion port, operations that complete in any order, clients ⇒ the echo service |

`Scheduler` uses the queue as `BoundedFifo` does, which `CircularQueue` implements. `ElfImage` says
what executing a file promises, `Loader` is shown to implement it; both speak about the program
headers of `Elf`. The two servers share no code, but both are shown to implement `EchoService`.

Each component thus has an abstract specification of what it promises, and its model is checked
and proved to implement it: `BoundedFifo`, `Processor`, `ElfImage`, `EchoService`.

## The scheduler model

`Scheduler.tla` models `so_scheduler.c` thread by thread. Its grain is the code's: a critical
section of `sch_mutex` is one action; so is each semaphore operation, `pthread_create`,
`pthread_join`, and each unprotected access to shared memory (`tid`, `work_done`). `so_signal` holds
the mutex for a whole loop and its iterations are steps of their own, so `draining` says that the
mutex is taken and every other critical section waits for it.

| variable | code |
|---|---|
| `alive`, `time_quantum`, `io`, `no_threads`, `running`, `terminated` | `sch != NULL` and the fields of `struct scheduler` (`terminated_threads` up to `no_terminated_threads`) |
| `main_running` | `main_thread_running` |
| `ready`, `waiting` | the queues, as sequences, front first (justified by `ImplementsFifo`) |
| `quantum`, `prio`, `tid`, `work_done`, `on_wait` | the fields of `struct thread` (`waiting` is `on_wait`) |
| `not_term`, `all_term` | the values of the two semaphores |
| `pc`, `op`, `child`, `joined` | the point an actor has reached, the call it is in, `tr` of `so_fork`, `i` of `so_end` |
| `calls` | bounds the client |

Path of a call: `SoFork → ForkPost → ForkCreate → ForkEnqueue → DecreaseQuantum → CheckScheduler →
Preempted → Broadcast → WaitToRun`; `SoExec` and `SoSignal` join it at `DecreaseQuantum` (the latter
after `SignalLoop`), `SoWait` too, but it broadcasts without asking `Preempted`. A returning
handler: `HandlerReturns → CheckScheduler → Preempted (→ Broadcast) → RecordTerminated → SemWait →
SemGet → SemPost`. `so_end`: `SoEnd → EndWait → EndJoin* → EndFree`. `CheckScheduler` is built from
the conditions of the C function: `Expired` (`curr = NULL`), `Yields`, `Eligible`, `Requeued`,
`Refill`.

Thread identities are numbered in the order `so_fork` counts them (`u = no_threads + 1`), which
only names the `malloc`ed structures. `pthread_self()` is the thread's own number; `tid` is `None`
(0) until the thread has stored it. `Decrement` is the unsigned decrement modulo `WordSize`.

The client is every program: each handler makes any sequence of the calls in `Calls`, at most
`MaxCalls`, and returns at any point. Calls the library rejects without a change of state (bad
priority, no handler, bad device, a second `so_init`) are stutters and left out. Three constants
say what the client and the kernel are allowed:

- `MainForks`: how often Main calls `so_fork` between `so_init` and `so_end`. Every test of the
  suite forks once from Main.
- `SoloWait`: whether a handler may call `so_wait` when no other thread is ready. The tests never do.
- `CreateMayFail`: whether `pthread_create` may fail.

With `MainForks = 1`, `SoloWait = FALSE`, `CreateMayFail = FALSE` the model is the discipline the
test suite keeps; the other values show what the library does without it. Main makes no other call
before `so_end`: it would wait for ever to be chosen, since no queue ever holds `main_thread`.

Three things that C leaves undefined can happen to the process. Where one does, every actor is at the
label `"undefined"` and the model says no more (`NothingDefined`):

- `EndJoin`: `so_end` reads a slot of `terminated_threads` that no thread has filled, a NULL pointer.
- `UseFreed`: `so_end` frees each structure as it joins the thread (`Freed`), and another actor still
  follows a pointer to it: `sch->running_thread`, the head of a ready queue that `check_scheduler`
  looks at, or the head of a device's queue that `so_signal` dequeues (`Follows`, `Scanned`). A use of
  freed memory may also find it as it was, so the ordinary action stays possible beside `UseFreed`.
- `Overflow`: a thread takes a slot past the `MAX_SIZE` of `terminated_threads`, which is memory of the
  ready queue of priority 0. The write may also hit a part of the queue that is not in use, so
  `RecordTerminated` stays possible beside `Overflow`.

`StaysDefined` says that none of them happens. `DefinedStep` is the steps without the last two.

Abstractions: `MaxThreads` bounds the threads of one scheduler (the program may create and end any
number of schedulers); memory never runs out.

`Processor.tla` is the scheduler a client may think of: one processor with a holder, whose handler
executes until it makes a call; the call does its work (a fork admits a thread, a signal wakes the
threads of a device one by one) and a decision ends it, where the holder stays or the first thread of
the highest queue takes over. There is no pthread, mutex, condition variable or semaphore in it, a
decision may not pass over a ready thread of higher priority, and the processor closes when everybody
has returned. When a time slice ends is left open; the quantum is the subject of `QuantumInBounds`
and `PreemptionIsEarned`. `Scheduler` implements it with

| `Processor` | `Scheduler` |
|---|---|
| `holder` | `running` |
| `executing` | the threads at `"user"`, inside their handlers |
| `deciding` | an actor is between a call's first critical section and `CheckScheduler` |
| `born`, `newborn`, `gone` | threads created; the child `so_fork` has not queued; threads with `work_done` |
| `signalled` | `draining` |
| `asleep` | `waiting` |

The broadcast, the wait for the condition and the whole of termination after the decision are
stutters.

`CircularQueue.tla` has the C struct's fields as variables and one action per function;
`BoundedFifo.tla` is the abstract queue. The scheduler's `Enqueue` is the FIFO's, dropping when full.

## The loader model

`Elf.tla` is the executable: program headers, file length, whether the ELF header is well formed
and whether the file may be opened for writing. `Linked` is what a linker guarantees; the code
relies on it (`exec_parser.c` subtracts the same offset from address and file offset). `Loader.tla`
is the process, one thread. `so_init_loader`, `so_execute` and the accesses of `fix_auxv`, of the
jump to the entry point and of the program are actions; so are the two answers of the processor to
an access (`Execute`, `PageFault`) and the two paths of the fault handler (`Load`, `GiveUp`). The
handler runs to its end in one step: the only thread is in it, and a fault inside it is fatal
(`MemsetFaults`).

| variable | code |
|---|---|
| `exec`, `mapped_pages` | the globals of `loader.c`; `<<i, n>>` is the entry of page n of segment i |
| `sigsegv`, `handling` | the action installed by `sigaction`; the handler has been entered |
| `present`, `prot`, `mem` | the address space, per page and per byte |
| `access`, `got` | the instruction that is executed, what the last one read |
| `no_page_faults` | the counter of `run_test.c`, whose SIGSEGV handler calls the loader's |

A byte of the file is its offset plus 1, so a wrong page, a wrong offset and a missing zero all
differ. `SystemCall` reads memory on the kernel's behalf: it gets `EFAULT` for a page that is not
there, as `write(2)` does for the first use of a buffer. `mmap` past the end of the file is allowed
and the access to such a page a SIGBUS, which ends the process.

`ElfImage.tla` is the promise without pages: an image, read and written; legal accesses succeed,
others kill or read something undefined beside a segment. `Loader` implements it with
`image <- View`, where a page that is not there counts as what the file says it holds. Two
preconditions of the code are stated where the promise is made, in `Loadable`.

## The epoll server

`EpollEcho.tla` has one action for each step of the only thread between two system calls that
another actor's step may separate: `epoll_wait`, the accept, the receive half and the send half of
an event. The clients and the network go on between them. An event names a connection and the
conditions found when `epoll_wait` returned; they may no longer hold when the handler runs, and the
connection may be gone. A client has one connection, its data are units that arrive whole; a `recv`
returns any number of them up to `BufSize`, a `send` any number when `ShortSends` (the checker's
preload) says so, and blocks when the kernel's `Room` is used up (`Blocked`). `connection_copy_buffers` and the
receive write the same buffer contents, so one `buffer` stands for both.

A client may send ahead, shut its writing half, leave, and then be reset by data that arrive for it.
`Polite` clients are the readers of the sample's README: one message, its reply, the next message.

## The IOCP server

`IocpEcho.tla` has one action per packet the loop takes off the port (`NewConnection`, `Received`,
`SendDone`, `Failed`), and one per completion (`AcceptCompletes`, `RecvCompletes`, `SendCompletes`),
which append packets to `port` in any order. `op` says which operation Windows holds for a
connection. Errors come from resets only, with either error code of the code's two branches; the
calls a handler makes may fail once the client has reset the connection. `CloseResets` is what
closing a socket with unread data does to the reply on its way.

## The echo service

`EchoService.tla` is what the README of the samples promises ("The server will reply with the same
message"), without buffers, events or completions, as far as the code keeps it. A connection is a
line of units: the client adds at one end and gets them back at the other. Nothing is reordered,
doubled or made up. At one point of the line up to `BufSize` units may be lost at once: a receive
that overwrites what was not sent, a connection that is removed, a reset. But a loss never empties
the line of a client that has not closed its end: who waits for a single unit gets it, or the server
is down and nothing moves. Both servers implement it; the line of
a client is `toClient`, what its connection holds (`Unsent`), and `toServer`, joined. `left` is the
clients that have closed or reset their end, for epoll also half of it.

## Slips

Definitions whose names end in `Bug` are plausible slips in the definition after them. Nothing uses
them; they record, in `PROJECT.json`, which mistake each property would notice.

## Properties

Each has a comment that says what it is about. `SchedulerProps.tla`:

- one at a time: `MutualExclusion`, `WaitUntilSignalled`, `ChosenThreadsExist` (no decision runs ahead
  of a `so_fork`: the chosen thread has a pthread, unless `pthread_create` failed);
- the policy: `HighestPriorityRuns`, `PreemptionIsEarned` (an action property), `QuantumInBounds`
  (until Main forks a second time; also of threads that wait alone, except while such a thread is
  marked as waiting or queued),
  `WorkConserving`;
- nothing lost: `OnePlaceEach`, `NoLostWakeup`, `NoStalePlace` (a thread that has returned is in no
  ready queue and in no device's);
- the end: `SemCountsLive`, `EndJoinsFinished`, `NoThreadOutlivesScheduler` (the scheduler, its mutex
  and its semaphores are freed when no thread is left), `StaysDefined` (no pointer to a freed thread
  is followed), `RecordFits` (what `Sched_overflow` violates), `HangsOnlyOnDevice` (when `so_end` waits
  and nobody can move, a thread is left, and every one that is left waits on a device; threads never
  hang on one another);
- all of it as one promise: `ImplementsProcessor` (refinement);
- progress: `ReadyRuns` (a ready thread gets to execute), `EndReturns` (`so_end` returns).

`CircularQueue.tla`: `RingInv` (ends, count and elements agree), `ImplementsFifo` (refinement).

`Loader.tla`: `ImplementsImage` (refinement: demand paging is invisible), `StoresSurvive` (the
handler never touches a page that is there), `TableAgrees` (the table and the kernel),
`OneFaultPerPage`, `AccessEnds` (no access faults for ever).

`EpollEcho.tla`: `EchoInOrder`, `PoliteLoseNothing`, `DownOnlyByUnsentReply` (a server that is down met
a client that had ended its data while no unit of the buffer held for it had been sent),
`PoliteAreServed` (a polite client gets its reply, unless another client brings the server down or
keeps it in `send` for ever), `ImplementsEcho` (refinement).

`IocpEcho.tla`: `OneOperation` (no completion for freed memory), `OneAccept`, `EchoIsPrefix`,
`DownOnlyByReset`, `FirstUnitEchoed`, `ImplementsEcho` (refinement).

## Runs

| run | instance | shows |
|---|---|---|
| `Sched_calls` | 3 threads, 2 calls each of fork, wait and signal, 2 priorities, 1 device, quantum 2; 1.6 million states | the safety properties under the discipline; nothing undefined happens; the library is one processor |
| `Sched_live` | 2 threads, 3 calls each of fork, wait, signal and exec, quanta 1 and 2, fair | nobody who is ready starves; `so_end` returns unless a thread waits for ever |
| `Sched_abuse` | 2 threads, 2 calls each, quanta 1 and 2, queues and `terminated_threads` of 1, Main forks twice, lonely waits, failing `pthread_create` | what holds without any discipline: counting, wakeups, quanta, the scheduler outlives its threads. `EndJoin`'s NULL, `UseFreed` and `Overflow` all happen |
| `Queue` | capacity 4, two elements | the ring implements the FIFO |
| `Loader` | 7 executables with pages of 4 bytes, 10 addresses, any program; 105 thousand states | demand paging is invisible |
| `Epoll` | a polite client and one that pipelines, leaves and is sent short; 3 units each, buffer and room of 2; 42 thousand states | what the server promises in spite of its losses; it is an echo service |
| `Iocp` | 2 clients, 3 units each, buffer of 2; 48 thousand states | one operation and one accept at a time, the reply; it is an echo service |
| `Sched_lonely_wait`, `Sched_overflow`, `Loader_bss`, `Epoll_quit`, `Iocp_accept` | the smallest instance of each divergence | see below |

Why the bounds suffice: three threads are the smallest number with a running thread, a thread that
takes over and one they both have to respect, and with two threads that end concurrently while a
third is created. Two priorities give every outcome of the comparison in `check_scheduler`; a
quantum of 1 expires in the first call and one of 2 in the second. `so_exec` is in `Sched_live`
only: elsewhere `so_signal` on a device nobody waits for takes the same steps. In `Sched_abuse` a
capacity of 1 for two threads fills every queue and `terminated_threads`. A handler that forks, waits or
signals and then returns exercises each call before and after a preemption. Capacity 4 lets the ring
wrap with more than one element on either side. `Sched_calls`, `Sched_live` and `Sched_abuse` do not
check for deadlock because a client may wait for a device that is never signalled.

The executables of `Loader` are the checker's kinds: text and data, data that begin and end inside a
page followed by `.bss`, `.bss` alone, a read-only `.bss`, nothing behind `.data` in the file, a
file that may not be written, no segment, a broken header. The addresses hit the first and the last
byte of each part, the bytes just outside, and two bytes of one page. With two clients one is served
while the other interferes; three units are one more than a buffer holds, so that a message is split,
and one more than the room, so that a send blocks. The servers' runs do not check for deadlock:
clients may stop, and a server may go down.

Fairness of the scheduler (`FairSpec`): weak fairness of each actor's library steps and of its client steps. The
kernel runs every runnable pthread. The critical sections are short and a thread asks for the mutex
for as long as it needs it; a wait for the mutex is only disabled while another thread is in
`SignalLoop`, whose queue is finite. Handlers are assumed to return, which their bounded calls stand
for, and Main to call `so_end`. No spurious wakeup is promised, none is excluded, and nobody has to
call `so_init`.

Two calls and the return of each of three threads are enough for a thread to fork, to wait, to be
signalled and to be preempted while another ends; `ReadyRuns` and `EndReturns` have three calls of
each of two threads for it.

Fairness of the others: the loader's processor repeats a faulting instruction and finishes a handler
it has entered (`WF(Machine)`); the program owes nothing. The epoll server's thread runs, and epoll
reports every ready socket in the end, because it moves a reported one to the end of its list
(`SF(epoll_wait(c))`); its thread is not obliged to move while `send` holds it (`Blocked`). Only the
clients in `Polite` have to read what arrives. The sockets are blocking, so any other client can stall
the service of everybody by not reading; `PoliteAreServed` names that outcome beside the server's end.
Windows completes what can be completed and the IOCP thread runs. No client has to send,
connect or leave.

## Where the code and its documents disagree

1. `Sched_lonely_wait`: `so_wait` returns without a signal when no other thread is ready.
2. `Sched_overflow`: a thread that ends takes the next slot of `terminated_threads` without a test.
   The array has 1000 slots, test 18 may create 1024 threads; the run has 1 and 2.
3. `Loader_bss`: a page that is `.bss` alone is mapped from the file like any other. When the file
   ends before it, the handler's `memset` meets a page without backing and SIGBUS ends the program.
4. `Epoll_quit`: an event with both conditions, whose receive half removes the connection, goes on
   to `send_message` with the freed pointer; `DIE` ends the server, and all its clients' service.
5. `Iocp_accept`: `handle_new_connection` returns without a new accept when `getpeername` fails, and
   the server never accepts again.

Quotations and lines are in `PROJECT.json`. Further disagreements have no run of their own:

- A second `so_fork` from Main may start a second handler next to the first (set `MainForks = 2` and
  check `MutualExclusion`).
- A second `so_fork` from Main, after the first thread has ended, finds a stale post on
  `all_threads_terminated`. `so_end` consumes it, joins and frees the first thread, and goes on to a slot
  that is `NULL` while the second thread lives. If the first thread has waited alone, gone on and
  returned, it is still on the device's queue, and the second thread's `so_signal` dequeues the freed
  structure. `Sched_abuse` includes these behaviours (`EndJoin`, `UseFreed`).
- `so_fork` ignores the result of `pthread_create` and queues a thread that does not exist
  (`CreateMayFail = TRUE`; the last conjunct of `ChosenThreadsExist` makes this exception).
- `enqueue` drops a thread when 1000 of one priority are ready, and `so_fork` reports success.
- `send` may be short, and the next receive overwrites what was not sent: the epoll server echoes
  all of a client's data only if the client waits for each reply (`PoliteLoseNothing`).
- The IOCP server closes a connection after one reply, where the Linux one goes on, and its README
  names another port than the code.

## Proofs

All proofs are checked by TLAPS for every value of the constants that satisfies the modules'
assumptions (`ConstantsAssumption`, `RingAssumption`, `ElfAssumption`, `EpollAssumption`, `IocpAssumption`),
without a bound on threads, priorities, devices, calls, capacity, executables, page size, clients,
data or buffers.

- `TypeCorrect` (`SchedulerProofs`): `Spec => []TypeOK`. `TypeOK` alone is not inductive: in
  `SignalLoop` the index `draining` is a device only because the thread in the loop is the one that
  holds the mutex. `OneDrainer` adds that, and the two together are.
- `NothingOutlivesScheduler` (`SchedulerProofs`): when `so_end` frees the scheduler, its mutex and its
  semaphores, every thread has ended and been joined, for any client and even if `pthread_create`
  fails. The inductive invariant is `Accounting`: Main's control points (`MainLocal`), the threads
  created are those numbered up to `no_threads` (`Created`), each `so_fork` has a child of its own
  (`Children`), `terminated` holds ended threads and each once (`Recorded`), joined threads are over
  (`Joined`). When the loop of `so_end` is through, the joined threads are `no_threads` different
  members of `1..no_threads`, hence all of them (`AllJoinedMeansAllDone`, a cardinality argument).
  After an undefined step nothing is claimed and nothing moves (`Dead`, `StepDead`). The theorem is
  not about the structures of single threads, which `so_end` frees earlier and, for a client without
  discipline, too early; `UndefinedOnlyByOverflow` is.
- `HandlersExclude` (`SchedulerProofs`): `MainForks <= 1 => (Spec => []MutualExclusion)`. The
  inductive invariant `Exclusion` says that queues hold threads (`Pointers`), a `tid` is a thread's
  own or 0 (`Tids`), and that the right to act for the scheduler — to execute a handler, or to be in
  a call before its scheduling decision — is held by `running` alone (`Token`). Only the scheduling
  decision changes `running`, and its maker then loses that right. The hypothesis is needed:
  with two forks from Main TLC finds two handlers side by side.
- `WakeupsReach` (`SchedulerProofs`), for any client: beside `NoLostWakeup` itself the invariant
  says that a thread that has started has stored its `tid` (`Started`), so that the thread that made
  a decision does not take the chosen thread for itself and skip the broadcast.
- `LiveThreadsCounted` (`SchedulerProofs`), for any client: a step counts one thread, takes one off the
  count or neither (`StepCounts`), whatever lies between `so_fork`'s critical section and its
  `sem_post`.
- `EndFindsAllFinished` (`SchedulerProofs`), if `MainForks <= 1`. The invariant `Finishing`: a thread past
  its last critical section has its slot (`Slotted`); before Main's fork there is no thread and no
  post (`OneRoot`); a post, the thread about to post and `so_end`'s joins mean that every thread is
  past its `sem_wait` (`LastOnly`). A forking thread is itself alive and counted, so the count
  cannot reach 0 while somebody may still fork.
- `UndefinedOnlyByOverflow` (`SchedulerProofs`), if `MainForks <= 1`, for any threads: the process does
  what C defines as long as no more threads are created than `terminated_threads` has slots. The
  invariant is `Books`: the types, `Accounting`, `Exclusion` and `Finishing` together. `so_end` joins
  only when every slot is filled, so it follows no NULL; every other thread is then past its last
  critical section, so nobody follows a pointer to what it frees; and a thread that finds no slot is
  one of more than `MaxSize` (`Overflown`). Without the hypothesis on Main `Sched_abuse` shows the rest.
- `ChosenAreThere` (`PlacesProofs`), for any client and without a hypothesis. The invariant `Members`:
  the queues, the calls that add to them and `running_thread` only know threads whose `so_fork` is past
  `pthread_create` (`Known`), a ready thread is in the queue of its priority, and no handler executes
  before Main has handed over. The lemma `Election` says whom a decision can choose. That a thread
  has no pthread only when `pthread_create` failed is `Born`.
- `HighestRuns`, `QuantumBounded` (`PlacesProofs`), if `MainForks <= 1`, also for clients that wait alone,
  full queues and failing `pthread_create`. The invariant `Decisions` adds to `Members` what a
  decision guarantees until the next one: nobody ready has a higher priority (`Prioritized`), and
  something is left of the time slice (`Slice`), so that the unsigned decrement does not wrap. A thread
  that has waited alone and goes on is the exception `Slice` describes: it still waits and nobody else
  is ready, or a signal has made it ready although it runs. It may really run at a quantum of 0 and
  wrap, and `QuantumInBounds` exempts it and nobody else. The hypothesis is needed: a second fork by
  Main decides in place of a running thread.
- `ReturnedAreGone`, `WaitsForSignal` and those below (`PlacesProofs`), if `MainForks <= 1` and no
  thread waits when nobody else is ready (`~SoloWait`; `Sched_lonely_wait` shows what happens
  otherwise). The invariant `Places`: a ready thread is queued once and under its priority, a
  waiting one once on one device, a thread that `so_fork` has not queued nowhere, a thread that has
  returned stays so, and a thread that waits yields at its decision; hence a returned thread is in
  no queue, ready or waiting. The lemma `Decision` is the heart of it: what `check_scheduler` leaves
  behind in the queues, by cases on whether the running thread is queued again and whether it gives
  way.
- `NeverIdle`: `Idle`, nobody is ready when the running thread has returned and has decided.
- `NothingIsLost`, if moreover `MaxThreads <= MaxSize`: a queue that lacks a thread has room for it
  (`QueueHasRoom`, by the pigeonhole principle), so no `enqueue` drops one (`Kept`).
- `ProcessorIsKept`: the action property, from the invariant `Places`.
- `OneProcessor` (`ProcessorProofs`), if `MainForks <= 1`, `~SoloWait` and `MaxThreads <= MaxSize`:
  the library implements `Processor`, step by step. `Seen`, which follows from `Exclusion`, `Places`
  and `Kept`, says what the mapping needs: only `running` is in a call that has not decided or in
  its handler, and the threads asleep are those with `on_wait`. `Vacant` adds that without a
  scheduler nobody runs and Main has not forked, and `Kept` that no `enqueue` drops a thread. The
  lemma for each action says whether it is a step of the processor or a stutter. The longest is the
  decision's, which `Decision` (above) turns into `Switch` or `Stay`. The hypotheses are needed: with two forks from Main there are two holders,
  with a lonely wait the holder sleeps and goes on.
- `OnlyDevicesHang` (`ProcessorProofs`), if moreover `pthread_create` does not fail: if `so_end` waits and
  nobody can move, there is a thread left, and every thread that is left waits on a device.
  `Posted` says that the last thread off the count posts, so somebody is at the condition wait or
  the semaphore; `MainYields` that Main has handed over at the decision of its fork; `Idle`, `Kept` and
  `NoLostWakeup` that the chosen thread is not asleep unless it has ended with nobody ready. What
  neither runs nor is ready waits on a device.
- `RingShape` and `RingImplementsFifo` (`CircularQueueProofs`): the ring's invariant, and the
  refinement of `BoundedFifo` under `items <- Contents`. The lemmas `Slot`, `SlotsDiffer`, `RearStep`
  and `FrontStep` carry the modular arithmetic.

- `PagingIsInvisible`, `TableIsTrue`, `StoresAreKept`, `OneFaultEach`, `LoaderTyped`
  (`LoaderProofs`). The invariant `Sound` has, beside the types, the stage of the process (`Stage`:
  `exec` is the parser's result once it has run), the agreement of table and kernel
  (`TableAgrees`) and `Doomed` (after the default action is restored only a fatal access is left).
  The lemmas about `Segment`, `PageNo` and `Zeroed` carry the page arithmetic; that no two segments
  share a page makes the first segment with the address the right one. The refinement then follows
  action by action, with stutters for `so_init_loader` and `PageFault`.
- `EchoedInOrder`, `PoliteKeepAll`, `UnsentRepliesEndIt`, `EpollTyped` (`EpollProofs`). Every step
  treats the data of a client in one of six ways (`Flow`, lemma `Flows`), and the promises about
  data follow from these alone: `Order` for the order of what is read, in flight, held and
  unread, `Counts` and `Polites` for their number. A polite client has at most one unit under way,
  so the overwrite of a buffer and a short send cannot hit it. `Downs` says why the server is down,
  or about to go down: the client of the event has ended its data, it is not a polite one, and what
  is held for it has not begun to be sent (`Lost`, which no client can undo: `LostStays`).
- `EpollServes` and `IocpServes`: both servers implement `EchoService`. `EchoQueues` has the algebra
  of `Then(p, q) == p \o q`: the head of the first queue is the line's head (`ThenHead`), what joins
  the last joins the line (`ThenAppend`), taking a piece out of the middle is the service's `Without`
  (`LineLoses`), moving units from one queue to the next leaves the line alone (`LineSplits`). In each
  server `LineMoves` says, for each way in which a step can treat a client's queues (`Flow`: six for
  epoll, seven for IOCP), what happens to the line; every step moves at most one line (`OneMoves`) and
  is the service's `Send`, `Return`, `Lose`, `Leave` or a stutter (`StepServes`). For IOCP the
  data held follow from the packet that waits (`Held`), and no more wait for a client than a
  buffer holds (`Brief`).
- `NoDanglingKey`, `AcceptsOne`, `RepliesInOrder`, `OnlyResetsEndIt`, `IocpTyped` (`IocpProofs`).
  The argument is about packets: `Operations` and `Accepts` count those of a connection and of the
  listener, `PortHonest` says what is true while one waits (the client of an accept has no
  connection yet, an error stands for a reset), `Reply` that data wait in order until the one
  receive and that there is no reply before the one send.

Only model-checked: all liveness (`ReadyRuns`, `EndReturns`, `AccessEnds`, `PoliteAreServed`,
`FirstUnitEchoed`), which is beyond the prover. Every safety property of a passing run is a
theorem; the hypotheses of those about the scheduler are the ones named above.

## What is not modelled

Nine tenths of the repository's lines are not programs that keep state: two copies each of
`huge_file.h` and `large_file.h` are test data (36 thousand lines), `http-parser` is third-party,
and the rest is headers, test inputs, checkers and scripts. The three parts modelled are what is
left of program logic, so the share of lines the models stand for is small by the nature of the
repository.

- `http_reply_once` (both systems) is one request and one response in a straight line; the Windows
  loader and the PE parser are skeletons without code or with nobody who uses their result;
  `so_stdio` and `multi` have no implementation in the repository.
- Of the scheduler: failing `calloc`/`malloc`, what memory holds after a use of a freed structure or a
  write past `terminated_threads[999]` (the model ends there, or goes on if it did no harm), `so_wait`,
  `so_signal` and `so_exec` called by Main, the return values of the calls.
- Of the loader: the contents of the auxiliary vector `fix_auxv` writes, programs that map memory or
  handle signals themselves, a failing `sigaction`. A failing `open` in `so_parse_exec` is like a header
  that is not well formed: nothing is executed.
- Of the servers: names and log messages, a failing `malloc`, a failing `accept` or `epoll_wait`
  (the process ends), the reuse of a freed structure by a later connection, the split of a unit.
